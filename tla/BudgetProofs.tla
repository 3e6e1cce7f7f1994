---------------------------- MODULE BudgetProofs ----------------------------
(***************************************************************************)
(* Where the budget of a session comes from and where it goes, proved for  *)
(* every set of workers, sessions, keys, calls, adapters and delegation    *)
(* tokens: each generation rests on a token of its own, nothing is spent   *)
(* that was not granted, and with charges that are covered nothing is lost.*)
(*                                                                         *)
(* Delegations are tokens as they are presented, which is what the code    *)
(* compares.  Nothing here says that two of them carry different proofs.   *)
(***************************************************************************)
EXTENDS SessionWorkProofs

(* A proposal in service has a delegation of its own identity.             *)
OwnDelegation ==
  \A w \in Workers : pending[w] # Idle /\ pending[w].request.method = "intent/propose" =>
    pending[w].request.delegation.identity = pending[w].request.proposal.identity

(* A token is unused, in the hands of one worker, or backs a session.      *)
Unused(d)   == d \notin used_delegations /\ backing[d] = None /\ InFlight(d) = {}
InHand(d)   == /\ d \in used_delegations /\ backing[d] = None
               /\ \E w \in Workers : InFlight(d) = {w}
Invested(d) == d \in used_delegations /\ backing[d] # None /\ InFlight(d) = {}

UsedOnce == \A d \in Delegations : Unused(d) \/ InHand(d) \/ Invested(d)

(* The first three clauses of DelegationAccounting.                        *)
EachGenerationBacked ==
  \A sid \in Live : \A g \in 1..sessions[sid].generation : \E d \in Delegations :
    /\ backing[d] # None
    /\ backing[d].session_id = sid
    /\ backing[d].generation = g
    /\ d.identity = sessions[sid].identity

BacksSomething ==
  \A d \in Delegations : backing[d] # None =>
    /\ sessions[backing[d].session_id] # None
    /\ backing[d].generation \in 1..sessions[backing[d].session_id].generation

BacksAlone ==
  \A d1, d2 \in Delegations : d1 # d2 /\ backing[d1] # None /\ backing[d2] # None =>
    \/ backing[d1].session_id # backing[d2].session_id
    \/ backing[d1].generation # backing[d2].generation

DelegationInv ==
  /\ TypeOK
  /\ OwnDelegation
  /\ UsedOnce
  /\ EachGenerationBacked
  /\ BacksSomething
  /\ BacksAlone
-----------------------------------------------------------------------------
LEMMA ProposalsOwnTheirDelegation ==
  ASSUME NEW r \in ProposeRequests, NEW now_ms, ProposePrecheck(r, now_ms) = "OK"
  PROVE  r.delegation.identity = r.proposal.identity
<1> DEFINE tools  == r.proposal.allowed_tools
           scopes == r.proposal.target_resources
           faulty == {i \in DOMAIN tools : ToolFault(tools[i], scopes) # "OK"}
           fault  == ToolFault(tools[Min(faulty)], scopes)
           bad    == r.proposal.ttl_ms \notin TtlRange \/ tools = << >>
           valid  == DelegationValid(r.delegation, r.proposal.identity, now_ms)
<1>1. ProposePrecheck(r, now_ms) =
        IF bad THEN "INVALID_PARAMS"
        ELSE IF faulty # {} THEN fault
        ELSE IF ~ valid THEN "INVALID_DELEGATION" ELSE "OK"
  BY Zenon DEF ProposePrecheck
<1>2. ASSUME faulty # {}
      PROVE  fault # "OK"
  <2>1. faulty \in SUBSET Nat
    BY InputAssumption DEF ProposeRequests
  <2>2. \E n \in faulty : \A m \in faulty : n <= m
    <3> HIDE DEF faulty
    <3> QED BY <1>2, <2>1, LeastExists
  <2>3. Min(faulty) \in faulty
    <3> HIDE DEF faulty
    <3> QED BY <2>2, Zenon DEF Min
  <2> QED BY <2>3
<1> HIDE DEF faulty, fault, bad, valid
<1>3. valid
  BY <1>1, <1>2
<1> QED BY <1>3 DEF valid, DelegationValid, DelegationProof

(* Requests in service are as they were received.                          *)
LEMMA OwnStep ==
  ASSUME TypeOK, OwnDelegation, [Next]_vars
  PROVE  OwnDelegation'
<1> SUFFICES ASSUME NEW w \in Workers, pending'[w] # Idle,
                    pending'[w].request.method = "intent/propose"
             PROVE  pending'[w].request.delegation.identity =
                      pending'[w].request.proposal.identity
  BY DEF OwnDelegation
<1>1. CASE pending[w] # Idle /\ pending'[w].request = pending[w].request
  BY <1>1 DEF OwnDelegation
<1>2. ASSUME NEW v \in Workers, Receive(v), pending'[w] # pending[w]
      PROVE  pending'[w].request.delegation.identity = pending'[w].request.proposal.identity
  <2>1. PICK r \in Requests :
          /\ Precheck(r, now) = "OK"
          /\ pending' = [pending EXCEPT ![v] =
               [status |-> "checked", request |-> r, now_ms |-> now]]
    BY <1>2 DEF Receive, Accept
  <2>2. pending'[w].request = r
    BY <1>2, <2>1 DEF TypeOK
  <2>3. r.method = "intent/propose"
    BY <2>2
  <2>4. r \in ProposeRequests
    BY <2>3 DEF Requests, AmendRequests, CallRequests, CloseRequests
  <2>5. ProposePrecheck(r, now) = "OK"
    BY <2>1, <2>3 DEF Precheck
  <2> QED BY <2>2, <2>4, <2>5, ProposalsOwnTheirDelegation
<1>3. ASSUME NEW v \in Workers, ConsumeDelegation(v)
      PROVE  pending[w] # Idle /\ pending'[w].request = pending[w].request
  <2>1. pending[v] \in InService
    BY <1>3 DEF ConsumeDelegation, Checked, TypeOK, Idle
  <2>2. [pending[v] EXCEPT !.status = "consumed"].request = pending[v].request
    BY <2>1 DEF InService
  <2>3. pending[v] # Idle
    BY <1>3 DEF ConsumeDelegation, Checked, Idle
  <2>4. pending' = [pending EXCEPT ![v] = [pending[v] EXCEPT !.status = "consumed"]]
    BY <1>3 DEF ConsumeDelegation
  <2> QED BY <2>2, <2>3, <2>4 DEF TypeOK
<1>4. ASSUME NEW v \in Workers, NEW code, NEW result, Answer(v, code, result)
      PROVE  pending'[w] = pending[w]
  BY <1>4 DEF Answer, TypeOK
<1>5. CASE pending'[w] = pending[w]
  BY <1>1, <1>5
<1>6. ASSUME NEW v \in Workers, Refuse(v) \/ Undispatched(v) \/ Serve(v)
      PROVE  \/ pending' = pending
             \/ ConsumeDelegation(v)
             \/ \E code, result : Answer(v, code, result)
  BY <1>6 DEF Refuse, Decline, Undispatched, Serve, DelegationConsumed, InsertSession,
     UnknownSession, AmendRejected, Amend, CallRejected, CallExpires, CallReplayed,
     CallHalfCharged, CallStaged, SealRejected, SealReplayed, Seal, AbortRejected,
     AbortReplayed, Abort, Rejects
<1>7. CASE Tick \/ UNCHANGED vars
  BY <1>5, <1>7 DEF Tick, vars
<1> QED BY <1>1, <1>2, <1>3, <1>4, <1>5, <1>6, <1>7 DEF Next

(* A worker that has no delegation in hand and gets none.                  *)
LEMMA InFlightSame ==
  ASSUME TypeOK, NEW w \in Workers, NEW request,
         pending' = [pending EXCEPT ![w] = request],
         pending[w].status # "consumed", request.status # "consumed", NEW d
  PROVE  InFlight(d)' = InFlight(d)
<1>1. \A v \in Workers : v # w => pending'[v] = pending[v]
  BY DEF TypeOK
<1>2. pending'[w] = request
  BY DEF TypeOK
<1>3. \A v \in Workers :
        (pending'[v].status = "consumed" /\ pending'[v].request.delegation = d) <=>
        (pending[v].status = "consumed" /\ pending[v].request.delegation = d)
  BY <1>1, <1>2
<1> QED BY <1>3 DEF InFlight

(* The steps that touch neither a delegation nor what one was spent on.    *)
Bookless(w) ==
  \/ Receive(w) \/ Quiet(w) \/ DelegationConsumed(w)
  \/ CallExpires(w) \/ CallHalfCharged(w) \/ CallStaged(w) \/ Seal(w) \/ Abort(w)

LEMMA EachStep ==
  ASSUME [Next]_vars
  PROVE  \/ Tick \/ UNCHANGED vars
         \/ \E w \in Workers :
              Bookless(w) \/ ConsumeDelegation(w) \/ InsertSession(w) \/ Amend(w)
  BY DEF Next, Serve, Quiet, Bookless

LEMMA AnswerInFlight ==
  ASSUME TypeOK, NEW w \in Workers, NEW code, NEW result, Answer(w, code, result),
         pending[w].status # "consumed", NEW d
  PROVE  InFlight(d)' = InFlight(d)
<1>1. Idle.status # "consumed"
  BY DEF Idle
<1> QED BY <1>1, InFlightSame DEF Answer

LEMMA BooklessInFlight ==
  ASSUME TypeOK, NEW w \in Workers, Bookless(w), NEW d
  PROVE  InFlight(d)' = InFlight(d)
<1>1. CASE Receive(w)
  <2>1. PICK r \in Requests : pending' = [pending EXCEPT ![w] =
                                [status |-> "checked", request |-> r, now_ms |-> now]]
    BY <1>1 DEF Receive, Accept
  <2> DEFINE request == [status |-> "checked", request |-> r, now_ms |-> now]
  <2>3. request.status # "consumed"
    OBVIOUS
  <2>2. pending[w].status # "consumed"
    BY <1>1 DEF Receive, Idle
  <2> QED BY <2>1, <2>2, <2>3, InFlightSame
<1>2. CASE Refuse(w) \/ Undispatched(w)
  BY <1>2 DEF Refuse, Decline, Undispatched, InFlight
<1>3. CASE \/ UnknownSession(w) \/ AmendRejected(w) \/ CallRejected(w) \/ CallReplayed(w)
           \/ SealRejected(w) \/ SealReplayed(w) \/ AbortRejected(w) \/ AbortReplayed(w)
           \/ DelegationConsumed(w) \/ CallExpires(w) \/ CallHalfCharged(w) \/ CallStaged(w)
           \/ Seal(w) \/ Abort(w)
  <2>1. pending[w].status = "checked"
    BY <1>3 DEF UnknownSession, AmendRejected, CallRejected, CallReplayed, SealRejected,
       SealReplayed, AbortRejected, AbortReplayed, DelegationConsumed, CallExpires,
       CallHalfCharged, CallStaged, FreshCall, CallAccepted, Seal, SealAccepted, Abort,
       AbortAccepted, Finds, Checked
  <2>2. \E code, result : Answer(w, code, result)
    BY <1>3 DEF UnknownSession, AmendRejected, CallRejected, CallReplayed, SealRejected,
       SealReplayed, AbortRejected, AbortReplayed, DelegationConsumed, CallExpires,
       CallHalfCharged, CallStaged, Seal, Abort, Rejects
  <2> QED BY <2>1, <2>2, AnswerInFlight
<1> QED BY <1>1, <1>2, <1>3 DEF Bookless, Quiet

(* They leave every session in the same hands and the same generation.     *)
LEMMA BooklessSessions ==
  ASSUME TypeOK, NEW w \in Workers, Bookless(w)
  PROVE  /\ UNCHANGED <<used_delegations, backing>>
         /\ \A sid \in SessionIds :
              /\ sessions'[sid] = None <=> sessions[sid] = None
              /\ sid \in Live => /\ sessions'[sid].identity = sessions[sid].identity
                                 /\ sessions'[sid].generation = sessions[sid].generation
<1>1. CASE Receive(w) \/ Quiet(w) \/ DelegationConsumed(w)
  BY <1>1, QuietType DEF Receive, Accept, DelegationConsumed
<1>2. CASE \/ CallExpires(w) \/ CallHalfCharged(w) \/ CallStaged(w) \/ Seal(w) \/ Abort(w)
  <2> DEFINE s   == pending[w].request.session_id
             new == sessions'[s]
  <2>1. /\ s \in Live
        /\ sessions' = [sessions EXCEPT ![s] = new]
        /\ new \in ActiveSessions
    BY <1>2, WorkerChanges
  <2>2. s \in SessionIds /\ sessions[s] # None /\ sessions[s] \in ActiveSessions
    BY <2>1 DEF TypeOK, Live
  <2>3. new.identity = sessions[s].identity /\ new.generation = sessions[s].generation
    <3>1. Found(w) \in ActiveSessions /\ Found(w) = sessions[s]
      BY <2>2 DEF Found
    <3>2. \A next : Store(w, next) => new = next
      BY <2>2 DEF Store, TypeOK
    <3>3. CASE CallExpires(w)
      <4>1. new = [Found(w) EXCEPT !.status = "EXPIRED"]
        BY <3>2, <3>3 DEF CallExpires
      <4> QED BY <3>1, <4>1 DEF ActiveSessions, SessionsWith
    <3>4. CASE CallHalfCharged(w)
      <4>1. \E budget : new = [Found(w) EXCEPT !.remaining_budgets = budget]
        BY <3>2, <3>4 DEF CallHalfCharged
      <4> QED BY <3>1, <4>1 DEF ActiveSessions, SessionsWith
    <3>5. CASE CallStaged(w)
      <4>1. \E key, call, id : new = Staged(Found(w), key, call, id)
        BY <3>2, <3>5 DEF CallStaged
      <4> QED BY <3>1, <4>1 DEF Staged, ActiveSessions, SessionsWith
    <3>6. CASE Seal(w)
      <4>1. \E key : new = Sealed(s, Found(w), key)
        BY <3>2, <3>6 DEF Seal
      <4> QED BY <3>1, <4>1 DEF Sealed, ActiveSessions, SessionsWith
    <3>7. CASE Abort(w)
      <4>1. \E key : new = AbortedBy(s, Found(w), key)
        BY <3>2, <3>7 DEF Abort
      <4> QED BY <3>1, <4>1 DEF AbortedBy, ActiveSessions, SessionsWith
    <3> QED BY <1>2, <3>3, <3>4, <3>5, <3>6, <3>7
  <2>4. \A sid \in SessionIds : sid # s => sessions'[sid] = sessions[sid]
    BY <2>1 DEF TypeOK
  <2>5. new # None
    BY <2>1, NoneIsNoValue
  <2>6. UNCHANGED <<used_delegations, backing>>
    BY <1>2 DEF CallExpires, CallHalfCharged, CallStaged, Seal, Abort
  <2> QED BY <2>2, <2>3, <2>4, <2>5, <2>6
<1> QED BY <1>1, <1>2 DEF Bookless

LEMMA BooklessDelegations ==
  ASSUME TypeOK, UsedOnce, EachGenerationBacked, BacksSomething, BacksAlone,
         UNCHANGED <<used_delegations, backing>>,
         \A d \in Delegations : InFlight(d)' = InFlight(d),
         \A sid \in SessionIds :
           /\ sessions'[sid] = None <=> sessions[sid] = None
           /\ sid \in Live => /\ sessions'[sid].identity = sessions[sid].identity
                              /\ sessions'[sid].generation = sessions[sid].generation
  PROVE  UsedOnce' /\ EachGenerationBacked' /\ BacksSomething' /\ BacksAlone'
<1>1. UsedOnce'
  BY DEF UsedOnce, Unused, InHand, Invested
<1>2. EachGenerationBacked'
  BY DEF EachGenerationBacked, Live
<1>3. BacksSomething'
  <2> SUFFICES ASSUME NEW d \in Delegations, backing[d] # None
               PROVE  /\ sessions'[backing[d].session_id] # None
                      /\ backing[d].generation \in 1..sessions'[backing[d].session_id].generation
    BY DEF BacksSomething
  <2>1. backing[d].session_id \in SessionIds
    BY DEF TypeOK, Spendings
  <2>2. /\ sessions[backing[d].session_id] # None
        /\ backing[d].generation \in 1..sessions[backing[d].session_id].generation
    BY DEF BacksSomething
  <2> QED BY <2>1, <2>2 DEF Live
<1>4. BacksAlone'
  BY DEF BacksAlone
<1> QED BY <1>1, <1>2, <1>3, <1>4

(* A delegation is spent on the next generation of a session, or on the    *)
(* first one of a new session.                                             *)
LEMMA SpendingBacks ==
  ASSUME TypeOK, EachGenerationBacked, BacksSomething, BacksAlone,
         NEW d0 \in Delegations, backing[d0] = None, NEW sid \in SessionIds,
         NEW new \in ActiveSessions, NEW spending \in Spendings,
         spending.session_id = sid, spending.generation = new.generation,
         d0.identity = new.identity,
         backing' = [backing EXCEPT ![d0] = spending],
         sessions' = [sessions EXCEPT ![sid] = new],
         \/ sessions[sid] = None /\ new.generation = 1
         \/ /\ sessions[sid] # None
            /\ new.generation = sessions[sid].generation + 1
            /\ new.identity = sessions[sid].identity
  PROVE  EachGenerationBacked' /\ BacksSomething' /\ BacksAlone'
<1>1. /\ backing'[d0] = spending
      /\ \A d \in Delegations : d # d0 => backing'[d] = backing[d]
      /\ sessions'[sid] = new
      /\ \A s \in SessionIds : s # sid => sessions'[s] = sessions[s]
  BY DEF TypeOK
<1>2. /\ new # None /\ new.generation \in Nat \ {0}
      /\ spending # None
  BY NoneIsNoValue, NoSpendingIsNone DEF ActiveSessions, SessionsWith
<1>3. sessions[sid] # None => sessions[sid].generation \in Nat \ {0}
  BY DEF TypeOK, ActiveSessions, SessionsWith
<1>4. EachGenerationBacked'
  <2> SUFFICES ASSUME NEW s \in SessionIds, sessions'[s] # None,
                      NEW g \in 1..sessions'[s].generation
               PROVE  \E d \in Delegations :
                        /\ backing'[d] # None
                        /\ backing'[d].session_id = s
                        /\ backing'[d].generation = g
                        /\ d.identity = sessions'[s].identity
    BY DEF EachGenerationBacked, Live
  <2>1. CASE s = sid /\ g = new.generation
    BY <1>1, <1>2, <2>1
  <2>2. CASE ~ (s = sid /\ g = new.generation)
    <3>1. /\ sessions[s] # None
          /\ g \in 1..sessions[s].generation
          /\ sessions'[s].identity = sessions[s].identity
      BY <1>1, <1>2, <1>3, <2>2
    <3>2. PICK d \in Delegations :
            /\ backing[d] # None
            /\ backing[d].session_id = s
            /\ backing[d].generation = g
            /\ d.identity = sessions[s].identity
      BY <3>1 DEF EachGenerationBacked, Live
    <3>3. backing'[d] = backing[d]
      BY <1>1, <3>2
    <3> QED BY <3>1, <3>2, <3>3
  <2> QED BY <2>1, <2>2
<1>5. BacksSomething'
  <2> SUFFICES ASSUME NEW d \in Delegations, backing'[d] # None
               PROVE  /\ sessions'[backing'[d].session_id] # None
                      /\ backing'[d].generation \in
                           1..sessions'[backing'[d].session_id].generation
    BY DEF BacksSomething
  <2>1. CASE d = d0
    BY <1>1, <1>2, <2>1
  <2>2. CASE d # d0
    <3>1. /\ backing'[d] = backing[d]
          /\ backing[d].session_id \in SessionIds
          /\ sessions[backing[d].session_id] # None
          /\ backing[d].generation \in 1..sessions[backing[d].session_id].generation
      BY <1>1, <2>2 DEF BacksSomething, TypeOK, Spendings
    <3>2. CASE backing[d].session_id = sid
      BY <1>1, <1>2, <1>3, <3>1, <3>2
    <3>3. CASE backing[d].session_id # sid
      BY <1>1, <3>1, <3>3
    <3> QED BY <3>2, <3>3
  <2> QED BY <2>1, <2>2
<1>6. BacksAlone'
  <2>1. ASSUME NEW d \in Delegations, d # d0, backing[d] # None
        PROVE  backing[d].session_id # sid \/ backing[d].generation # new.generation
    <3>1. /\ sessions[backing[d].session_id] # None
          /\ backing[d].generation \in 1..sessions[backing[d].session_id].generation
      BY <2>1 DEF BacksSomething
    <3> QED BY <1>3, <3>1
  <2> SUFFICES ASSUME NEW d1 \in Delegations, NEW d2 \in Delegations, d1 # d2,
                      backing'[d1] # None, backing'[d2] # None
               PROVE  \/ backing'[d1].session_id # backing'[d2].session_id
                      \/ backing'[d1].generation # backing'[d2].generation
    BY DEF BacksAlone
  <2>2. CASE d1 = d0
    <3>1. backing'[d2] = backing[d2] /\ backing[d2] # None
      BY <1>1, <2>2
    <3> QED BY <1>1, <2>1, <2>2, <3>1
  <2>3. CASE d2 = d0
    <3>1. backing'[d1] = backing[d1] /\ backing[d1] # None
      BY <1>1, <2>3
    <3> QED BY <1>1, <2>1, <2>3, <3>1
  <2>4. CASE d1 # d0 /\ d2 # d0
    BY <1>1, <2>4 DEF BacksAlone
  <2> QED BY <2>2, <2>3, <2>4
<1> QED BY <1>4, <1>5, <1>6

LEMMA ConsumeDelegations ==
  ASSUME DelegationInv, NEW w \in Workers, ConsumeDelegation(w)
  PROVE  UsedOnce' /\ EachGenerationBacked' /\ BacksSomething' /\ BacksAlone'
<1> DEFINE d0 == pending[w].request.delegation
<1>1. /\ pending[w].status = "checked"
      /\ d0 \notin used_delegations
      /\ used_delegations' = used_delegations \cup {d0}
      /\ pending' = [pending EXCEPT ![w].status = "consumed"]
      /\ UNCHANGED <<sessions, backing>>
  BY DEF ConsumeDelegation, Checked
<1>2. pending[w] \in InService
  BY <1>1 DEF DelegationInv, TypeOK, Idle
<1>3. /\ pending'[w].status = "consumed" /\ pending'[w].request = pending[w].request
      /\ \A v \in Workers : v # w => pending'[v] = pending[v]
  BY <1>1, <1>2 DEF DelegationInv, TypeOK, InService
<1>4. ASSUME NEW d \in Delegations
      PROVE  (Unused(d) \/ InHand(d) \/ Invested(d))'
  <2>1. Unused(d) \/ InHand(d) \/ Invested(d)
    BY DEF DelegationInv, UsedOnce
  <2>2. CASE d = d0
    <3>1. InFlight(d) = {}
      BY <1>1, <2>1, <2>2 DEF Unused, InHand, Invested
    <3>2. InFlight(d)' = {w}
      BY <1>3, <2>2, <3>1 DEF InFlight
    <3>3. InHand(d)'
      BY <1>1, <2>1, <2>2, <3>2 DEF Unused, InHand, Invested
    <3> QED BY <3>3
  <2>3. CASE d # d0
    <3>1. InFlight(d)' = InFlight(d)
      BY <1>1, <1>3, <2>3 DEF InFlight
    <3> QED BY <1>1, <2>1, <2>3, <3>1 DEF Unused, InHand, Invested
  <2> QED BY <2>2, <2>3
<1>5. UsedOnce'
  BY <1>4 DEF UsedOnce
<1> QED BY <1>1, <1>5 DEF DelegationInv, EachGenerationBacked, BacksSomething, BacksAlone, Live

LEMMA InsertDelegations ==
  ASSUME DelegationInv, NEW w \in Workers, InsertSession(w)
  PROVE  UsedOnce' /\ EachGenerationBacked' /\ BacksSomething' /\ BacksAlone'
<1> DEFINE r  == pending[w].request
           d0 == r.delegation
<1>1. PICK sid \in SessionIds \ Live :
        LET session == NewSession(sid, r, pending[w].now_ms) IN
        /\ sessions' = [sessions EXCEPT ![sid] = session]
        /\ backing' = [backing EXCEPT ![d0] =
             [session_id |-> sid, generation |-> 1, budget |-> r.proposal.budgets]]
        /\ Answer(w, "OK", session.capability_token)
  BY DEF InsertSession
<1> DEFINE new      == NewSession(sid, r, pending[w].now_ms)
           spending == [session_id |-> sid, generation |-> 1, budget |-> r.proposal.budgets]
<1>2. /\ pending[w] \in InService /\ pending[w].status = "consumed"
      /\ used_delegations' = used_delegations
      /\ pending[w] # Idle
  BY DEF InsertSession, DelegationInv, TypeOK, Idle
<1>3. r \in ProposeRequests /\ r.method = "intent/propose" /\ pending[w].now_ms \in Nat
  BY <1>2, InputAssumption DEF InService, ProposeRequests
<1>4. d0 \in Delegations /\ new \in ActiveSessions /\ spending \in Spendings
  BY <1>3, NewSessionType, InputAssumption DEF ProposeRequests, Spendings
<1>5. new.generation = 1 /\ new.identity = r.proposal.identity
  BY DEF NewSession
<1>6. d0.identity = r.proposal.identity
  BY <1>2, <1>3 DEF DelegationInv, OwnDelegation
<1>7. w \in InFlight(d0)
  BY <1>2 DEF InFlight
<1>8. InHand(d0) /\ InFlight(d0) = {w} /\ backing[d0] = None /\ d0 \in used_delegations
  <2>1. Unused(d0) \/ InHand(d0) \/ Invested(d0)
    BY <1>4 DEF DelegationInv, UsedOnce
  <2>2. InHand(d0)
    BY <1>7, <2>1 DEF Unused, Invested
  <2> QED BY <1>7, <2>2 DEF InHand
<1>9. EachGenerationBacked' /\ BacksSomething' /\ BacksAlone'
  <2>1. /\ sid \in SessionIds /\ sessions[sid] = None
        /\ sessions' = [sessions EXCEPT ![sid] = new]
        /\ backing' = [backing EXCEPT ![d0] = spending]
        /\ spending.session_id = sid /\ spending.generation = 1
    BY <1>1 DEF Live
  <2> HIDE DEF new, spending
  <2> QED BY <1>4, <1>5, <1>6, <1>8, <2>1, SpendingBacks DEF DelegationInv
<1>10. /\ pending'[w] = Idle
       /\ \A v \in Workers : v # w => pending'[v] = pending[v]
  BY <1>1 DEF Answer, DelegationInv, TypeOK
<1>11. ASSUME NEW d \in Delegations
       PROVE  (Unused(d) \/ InHand(d) \/ Invested(d))'
  <2>1. Unused(d) \/ InHand(d) \/ Invested(d)
    BY DEF DelegationInv, UsedOnce
  <2>2. CASE d = d0
    <3>1. InFlight(d)' = {}
      BY <1>8, <1>10, <2>2 DEF InFlight, Idle
    <3>2. backing'[d] # None
      BY <1>1, <1>4, <2>2, NoSpendingIsNone DEF DelegationInv, TypeOK
    <3>3. Invested(d)'
      BY <1>2, <1>8, <2>2, <3>1, <3>2 DEF Invested
    <3> QED BY <3>3
  <2>3. CASE d # d0
    <3>1. InFlight(d)' = InFlight(d)
      BY <1>2, <1>10, <2>3 DEF InFlight, Idle
    <3>2. backing'[d] = backing[d]
      BY <1>1, <2>3 DEF DelegationInv, TypeOK
    <3> QED BY <1>2, <2>1, <3>1, <3>2 DEF Unused, InHand, Invested
  <2> QED BY <2>2, <2>3
<1>12. UsedOnce'
  BY <1>11 DEF UsedOnce
<1> QED BY <1>9, <1>12

LEMMA AmendDelegations ==
  ASSUME DelegationInv, NEW w \in Workers, Amend(w)
  PROVE  UsedOnce' /\ EachGenerationBacked' /\ BacksSomething' /\ BacksAlone'
<1> DEFINE r        == pending[w].request
           d0       == r.delegation
           sid      == r.session_id
           new      == Amended(sid, Found(w), r.budget_additions)
           spending == [session_id |-> sid, generation |-> new.generation,
                        budget |-> r.budget_additions]
<1>1. /\ Finds(w, "intent/amend")
      /\ AmendOutcome(r, Found(w), pending[w].now_ms) = "OK"
      /\ used_delegations' = used_delegations \cup {d0}
      /\ sessions' = [sessions EXCEPT ![sid] = new]
      /\ backing' = [backing EXCEPT ![d0] = spending]
      /\ Answer(w, "OK", new.capability_token)
  BY DEF Amend, Store
<1>2. TypeOK
  BY DEF DelegationInv
<1>3. /\ r \in CheckedRequests /\ r.method = "intent/amend"
      /\ sid \in SessionIds /\ Found(w) \in ActiveSessions
      /\ Found(w) = sessions[sid] /\ sessions[sid] # None
      /\ pending[w].status = "checked"
  BY <1>1, <1>2, FoundType DEF Found, Finds, Checked
<1>4. d0 \in Delegations /\ r.budget_additions \in Additions
  BY <1>3 DEF CheckedRequests, ProposeRequests
<1>5. /\ ~ AddOverflows(Found(w).remaining_budgets, r.budget_additions)
      /\ d0.identity = Found(w).identity
      /\ d0 \notin used_delegations
  BY <1>1 DEF AmendOutcome, AmendFault, DelegationValid, DelegationProof
<1>6. new \in ActiveSessions
  BY <1>3, <1>4, <1>5, AmendedType
<1>7. new.generation = Found(w).generation + 1 /\ new.identity = Found(w).identity
  BY <1>3 DEF Amended, ActiveSessions, SessionsWith
<1>8. spending \in Spendings
  BY <1>3, <1>4, <1>6, InputAssumption DEF Spendings, ActiveSessions, SessionsWith
<1>9. Unused(d0) /\ backing[d0] = None
  BY <1>4, <1>5 DEF DelegationInv, UsedOnce, Unused, InHand, Invested
<1>10. spending.session_id = sid /\ spending.generation = new.generation
  OBVIOUS
<1> HIDE DEF new, spending
<1>11. EachGenerationBacked' /\ BacksSomething' /\ BacksAlone'
  BY <1>1, <1>3, <1>4, <1>5, <1>6, <1>7, <1>8, <1>9, <1>10, SpendingBacks DEF DelegationInv
<1>12. ASSUME NEW d \in Delegations
       PROVE  (Unused(d) \/ InHand(d) \/ Invested(d))'
  <2>1. Unused(d) \/ InHand(d) \/ Invested(d)
    BY DEF DelegationInv, UsedOnce
  <2>2. InFlight(d)' = InFlight(d)
    BY <1>1, <1>2, <1>3, AnswerInFlight
  <2>3. CASE d = d0
    <3>1. backing'[d] # None
      BY <1>1, <1>2, <1>4, <1>8, <2>3, NoSpendingIsNone DEF TypeOK
    <3>2. Invested(d)'
      BY <1>1, <1>9, <2>2, <2>3, <3>1 DEF Unused, Invested
    <3> QED BY <3>2
  <2>4. CASE d # d0
    <3>1. backing'[d] = backing[d]
      BY <1>1, <1>2, <2>4 DEF TypeOK
    <3> QED BY <1>1, <2>1, <2>2, <2>4, <3>1 DEF Unused, InHand, Invested
  <2> QED BY <2>3, <2>4
<1>13. UsedOnce'
  BY <1>12 DEF UsedOnce
<1> QED BY <1>11, <1>13
-----------------------------------------------------------------------------
LEMMA DelegationInit == Init => DelegationInv
<1> SUFFICES ASSUME Init PROVE DelegationInv
  OBVIOUS
<1>1. TypeOK
  BY TypeInit
<1>2. /\ Live = {}
      /\ \A w \in Workers : pending[w] = Idle
      /\ \A d \in Delegations : backing[d] = None
      /\ used_delegations = {}
  BY DEF Init, Live
<1>3. \A d : InFlight(d) = {}
  BY <1>2 DEF InFlight, Idle
<1>4. UsedOnce
  BY <1>2, <1>3 DEF UsedOnce, Unused
<1> QED BY <1>1, <1>2, <1>4 DEF DelegationInv, OwnDelegation, EachGenerationBacked,
   BacksSomething, BacksAlone

LEMMA DelegationStep == DelegationInv /\ [Next]_vars => DelegationInv'
<1> SUFFICES ASSUME DelegationInv, [Next]_vars PROVE DelegationInv'
  OBVIOUS
<1>1. TypeOK /\ TypeOK' /\ OwnDelegation'
  BY TypeStep, OwnStep DEF DelegationInv
<1>2. CASE Tick \/ UNCHANGED vars
  <2>1. UNCHANGED <<sessions, used_delegations, pending, backing>>
    BY <1>2 DEF Tick, vars
  <2> QED BY <1>1, <2>1 DEF DelegationInv, UsedOnce, Unused, InHand, Invested, InFlight,
     EachGenerationBacked, BacksSomething, BacksAlone, Live
<1>3. ASSUME NEW w \in Workers,
             Bookless(w) \/ ConsumeDelegation(w) \/ InsertSession(w) \/ Amend(w)
      PROVE  UsedOnce' /\ EachGenerationBacked' /\ BacksSomething' /\ BacksAlone'
  <2>1. CASE Bookless(w)
    BY <1>1, <2>1, BooklessInFlight, BooklessSessions, BooklessDelegations DEF DelegationInv
  <2> QED BY <1>3, <2>1, ConsumeDelegations, InsertDelegations, AmendDelegations
<1> QED BY <1>1, <1>2, <1>3, EachStep DEF DelegationInv

LEMMA DelegationHolds == Spec => []DelegationInv
  BY DelegationInit, DelegationStep, PTL DEF Spec

(* The invariant says of every token where it is.                          *)
LEMMA TokensAccounted ==
  ASSUME DelegationInv
  PROVE  DelegationAccounting
<1>1. ASSUME NEW d \in Delegations
      PROVE  IF d \in used_delegations
             THEN Cardinality(InFlight(d)) = (IF backing[d] = None THEN 1 ELSE 0)
             ELSE InFlight(d) = {} /\ backing[d] = None
  <2>1. Cardinality({}) = 0 /\ \A w : Cardinality({w}) = 1
    BY FS_EmptySet, FS_Singleton
  <2>2. Unused(d) \/ InHand(d) \/ Invested(d)
    BY DEF DelegationInv, UsedOnce
  <2> QED BY <2>1, <2>2 DEF Unused, InHand, Invested
<1> QED BY <1>1 DEF DelegationInv, DelegationAccounting, EachGenerationBacked, BacksSomething,
                    BacksAlone

(* Every generation of every session rests on a delegation token of its    *)
(* own, of the session's identity; a token, as it is presented, is used    *)
(* once, and not in vain: consume_delegation looks for that very string.   *)
THEOREM DelegationsAccounted == Spec => []DelegationAccounting
  BY TokensAccounted, DelegationHolds, PTL
-----------------------------------------------------------------------------
(* The books of a session.  The calls on record are finitely many, and the *)
(* adapters can charge each; so are the delegations behind the session.    *)
Bookable(session) ==
  /\ IsFiniteSet(UsedKeys(session))
  /\ \A k \in UsedKeys(session) :
       LET call == session.tool_results[k].request_fingerprint
       IN  call.name \in DOMAIN Adapters /\ Chargeable(Adapters[call.name], call.arguments)

BackersIn(b, sid) == {d \in Delegations : b[d] # None /\ b[d].session_id = sid}

Grants(b, sid, d) == [k \in BackersIn(b, sid) |-> Value(b[k].budget, d)]

Costs(session, d) ==
  [k \in UsedKeys(session) |-> Cost(session.tool_results[k].request_fingerprint, d)]

(* What is left or spent, and what was granted and is neither.             *)
Held(session, d) == Value(session.remaining_budgets, d) + SumFunction(Costs(session, d))

Gap(session, b, sid, d) == SumFunction(Grants(b, sid, d)) - Held(session, d)

Books(session, b, sid) == Bookable(session) /\ IsFiniteSet(BackersIn(b, sid))

LEMMA ValueType ==
  ASSUME NEW b \in Budgets, NEW d
  PROVE  Value(b, d) \in Nat
BY MaxU64Assumption DEF Value, Present, Budgets, U64

LEMMA CostType ==
  ASSUME NEW call, call.name \in DOMAIN Adapters,
         Chargeable(Adapters[call.name], call.arguments), NEW d
  PROVE  /\ Cost(call, d) = TotalOn(Adapters[call.name], call.arguments, d)
         /\ Cost(call, d) \in Nat
<1>1. Cost(call, d) = TotalOn(Adapters[call.name], call.arguments, d)
  BY DEF Cost, TotalOn, Amounts, ChargesOn
<1>2. WellDeclared(Adapters[call.name])
  BY InputAssumption
<1> QED BY <1>1, <1>2, ChargesAreSums

LEMMA SpentType ==
  ASSUME NEW session, Bookable(session), NEW d
  PROVE  /\ DOMAIN Costs(session, d) = UsedKeys(session)
         /\ \A k \in UsedKeys(session) : Costs(session, d)[k] \in Nat
         /\ SumFunction(Costs(session, d)) \in Nat
<1>1. \A k \in UsedKeys(session) : Costs(session, d)[k] \in Nat
  BY CostType DEF Bookable, Costs
<1>2. DOMAIN Costs(session, d) = UsedKeys(session)
  BY DEF Costs
<1>3. SumFunctionOnSet(Costs(session, d), UsedKeys(session)) \in Nat
  BY <1>1, SumType DEF Bookable
<1> QED BY <1>1, <1>2, <1>3 DEF SumFunction

LEMMA GrantedType ==
  ASSUME NEW b \in [Delegations -> Spendings \cup {None}], NEW sid,
         IsFiniteSet(BackersIn(b, sid)), NEW d
  PROVE  /\ DOMAIN Grants(b, sid, d) = BackersIn(b, sid)
         /\ \A k \in BackersIn(b, sid) : Grants(b, sid, d)[k] \in Nat
         /\ SumFunction(Grants(b, sid, d)) \in Nat
<1>1. \A k \in BackersIn(b, sid) : Grants(b, sid, d)[k] \in Nat
  BY ValueType DEF BackersIn, Grants, Spendings
<1>2. DOMAIN Grants(b, sid, d) = BackersIn(b, sid)
  BY DEF Grants
<1>3. SumFunctionOnSet(Grants(b, sid, d), BackersIn(b, sid)) \in Nat
  BY <1>1, SumType
<1> QED BY <1>1, <1>2, <1>3 DEF SumFunction

(* Adding one term to a sum adds its value.                                *)
LEMMA SumGrows ==
  ASSUME NEW f, NEW g, NEW x, x \notin DOMAIN f, DOMAIN g = DOMAIN f \cup {x},
         IsFiniteSet(DOMAIN f), g[x] \in Nat, \A y \in DOMAIN f : g[y] = f[y] /\ f[y] \in Nat
  PROVE  IsFiniteSet(DOMAIN g) /\ SumFunction(g) = SumFunction(f) + g[x]
<1>1. IsFiniteSet(DOMAIN g)
  BY FS_AddElement
<1>2. SumFunctionOnSet(g, DOMAIN g) = g[x] + SumFunctionOnSet(g, DOMAIN g \ {x})
  BY <1>1, SumTakes
<1>3. DOMAIN g \ {x} = DOMAIN f
  OBVIOUS
<1>4. SumFunctionOnSet(g, DOMAIN f) = SumFunctionOnSet(f, DOMAIN f)
  BY SumCongruence
<1>5. SumFunctionOnSet(f, DOMAIN f) \in Nat
  BY SumType
<1> QED BY <1>1, <1>2, <1>3, <1>4, <1>5 DEF SumFunction

(* A delegation spent on a session adds its budget to the grants.          *)
LEMMA GrantsGrow ==
  ASSUME NEW b \in [Delegations -> Spendings \cup {None}], NEW d0 \in Delegations,
         b[d0] = None, NEW spending \in Spendings, NEW sid, spending.session_id = sid,
         IsFiniteSet(BackersIn(b, sid)), NEW next, next[d0] = spending,
         \A k \in Delegations : k # d0 => next[k] = b[k]
  PROVE  /\ IsFiniteSet(BackersIn(next, sid))
         /\ \A d : SumFunction(Grants(next, sid, d)) =
                     SumFunction(Grants(b, sid, d)) + Value(spending.budget, d)
<1>2. spending # None
  BY NoSpendingIsNone
<1>3. BackersIn(next, sid) = BackersIn(b, sid) \cup {d0} /\ d0 \notin BackersIn(b, sid)
  BY <1>2 DEF BackersIn
<1>5. IsFiniteSet(BackersIn(next, sid))
  BY <1>3, FS_AddElement
<1>6. ASSUME NEW d
      PROVE  SumFunction(Grants(next, sid, d)) =
               SumFunction(Grants(b, sid, d)) + Value(spending.budget, d)
  <2>1. /\ DOMAIN Grants(b, sid, d) = BackersIn(b, sid)
        /\ DOMAIN Grants(next, sid, d) = BackersIn(next, sid)
        /\ \A k \in BackersIn(b, sid) : Grants(b, sid, d)[k] \in Nat
    BY GrantedType DEF Grants
  <2>2. Grants(next, sid, d)[d0] = Value(spending.budget, d)
    BY <1>3 DEF Grants
  <2>3. Value(spending.budget, d) \in Nat
    BY ValueType DEF Spendings
  <2>4. \A k \in BackersIn(b, sid) : Grants(next, sid, d)[k] = Grants(b, sid, d)[k]
    BY <1>3 DEF Grants, BackersIn
  <2> DEFINE f == Grants(b, sid, d)
             g == Grants(next, sid, d)
  <2>5. /\ d0 \notin DOMAIN f /\ DOMAIN g = DOMAIN f \cup {d0} /\ IsFiniteSet(DOMAIN f)
        /\ g[d0] \in Nat /\ \A y \in DOMAIN f : g[y] = f[y] /\ f[y] \in Nat
    BY <1>3, <2>1, <2>2, <2>3, <2>4
  <2> HIDE DEF f, g
  <2>6. SumFunction(g) = SumFunction(f) + g[d0]
    BY <2>5, SumGrows
  <2> QED BY <2>2, <2>6 DEF f, g
<1> QED BY <1>5, <1>6

LEMMA GrantsElsewhere ==
  ASSUME NEW b \in [Delegations -> Spendings \cup {None}], NEW d0 \in Delegations,
         b[d0] = None, NEW spending \in Spendings, NEW sid, spending.session_id # sid,
         NEW next, next[d0] = spending,
         \A k \in Delegations : k # d0 => next[k] = b[k]
  PROVE  /\ BackersIn(next, sid) = BackersIn(b, sid)
         /\ \A d : Grants(next, sid, d) = Grants(b, sid, d)
<1>2. BackersIn(next, sid) = BackersIn(b, sid) /\ d0 \notin BackersIn(b, sid)
  BY DEF BackersIn
<1>3. \A k \in BackersIn(b, sid) : next[k] = b[k]
  BY <1>2 DEF BackersIn
<1>4. ASSUME NEW d PROVE Grants(next, sid, d) = Grants(b, sid, d)
  BY <1>2, <1>3 DEF Grants
<1> QED BY <1>2, <1>4

(* What a handler makes of the books of the session it works on.           *)
LEMMA SameRecord ==
  ASSUME NEW old, NEW new, Bookable(old), new.tool_results = old.tool_results
  PROVE  Bookable(new) /\ \A d : Costs(new, d) = Costs(old, d)
<1>1. UsedKeys(new) = UsedKeys(old)
  BY DEF UsedKeys
<1>2. \A d : Costs(new, d) = Costs(old, d)
  BY <1>1 DEF Costs
<1> QED BY <1>1, <1>2 DEF Bookable

LEMMA NewBooks ==
  ASSUME NEW session, session.tool_results = [k \in Keys |-> None], NEW d,
         session.remaining_budgets \in Budgets
  PROVE  Bookable(session) /\ Held(session, d) = Value(session.remaining_budgets, d)
<1>1. UsedKeys(session) = {}
  BY DEF UsedKeys
<1>2. SumFunction(Costs(session, d)) = 0
  BY <1>1, SumEmpty DEF SumFunction, Costs
<1>3. Bookable(session)
  BY <1>1, FS_EmptySet DEF Bookable
<1> QED BY <1>2, <1>3, ValueType DEF Held

LEMMA AddedValue ==
  ASSUME NEW budget \in Budgets, NEW additions \in Budgets, NEW d \in Dims
  PROVE  Value(AddAssign(budget, additions), d) = Value(budget, d) + Value(additions, d)
<1> DEFINE new == AddAssign(budget, additions)
<1>1. Value(budget, d) \in Nat /\ Value(additions, d) \in Nat
  BY ValueType
<1>2. CASE Present(additions, d)
  <2>1. additions[d] = Value(additions, d)
    BY <1>2 DEF Value
  <2>2. new[d] = Value(budget, d) + Value(additions, d)
    BY <1>2, <2>1 DEF AddAssign
  <2> HIDE DEF new
  <2>3. Present(new, d)
    BY <1>1, <2>2, NoneAssumption DEF Present
  <2> QED BY <2>2, <2>3 DEF Value, new
<1>3. CASE ~ Present(additions, d)
  <2>1. new[d] = budget[d]
    BY <1>3 DEF AddAssign
  <2>2. Value(new, d) = Value(budget, d)
    BY <2>1 DEF Value, Present
  <2>3. Value(additions, d) = 0
    BY <1>3 DEF Value
  <2> QED BY <1>1, <2>2, <2>3
<1> QED BY <1>2, <1>3

LEMMA AmendedBooks ==
  ASSUME NEW session \in ActiveSessions, NEW additions \in Budgets, NEW sid,
         Bookable(session)
  PROVE  LET new == Amended(sid, session, additions) IN
         /\ Bookable(new)
         /\ \A d \in Dims : Held(new, d) = Held(session, d) + Value(additions, d)
<1> DEFINE new == Amended(sid, session, additions)
<1>1. /\ new.tool_results = session.tool_results
      /\ new.remaining_budgets = AddAssign(session.remaining_budgets, additions)
  BY DEF Amended, ActiveSessions, SessionsWith
<1>2. session.remaining_budgets \in Budgets
  BY DEF ActiveSessions, SessionsWith
<1> HIDE DEF new
<1>3. Bookable(new) /\ \A d : Costs(new, d) = Costs(session, d)
  BY <1>1, SameRecord
<1>4. \A d \in Dims : Value(new.remaining_budgets, d) =
                         Value(session.remaining_budgets, d) + Value(additions, d)
  BY <1>1, <1>2, AddedValue
<1>5. ASSUME NEW d \in Dims PROVE Held(new, d) = Held(session, d) + Value(additions, d)
  <2>1. /\ Value(session.remaining_budgets, d) \in Nat /\ Value(additions, d) \in Nat
        /\ SumFunction(Costs(session, d)) \in Nat
    BY <1>2, ValueType, SpentType
  <2> QED BY <1>3, <1>4, <2>1 DEF Held
<1> QED BY <1>3, <1>5 DEF new

(* Deducting the charges on some dimensions.                               *)
LEMMA DeductedValue ==
  ASSUME NEW budget \in Budgets, NEW charges, NEW paid \in SUBSET DOMAIN charges,
         \A d \in paid : Present(budget, d), Affordable(budget, charges),
         \A d \in DOMAIN charges : charges[d] \in Nat, NEW d \in Dims
  PROVE  /\ d \in paid => Value(Deduct(budget, charges, paid), d) =
                            Value(budget, d) - charges[d]
         /\ d \notin paid => Value(Deduct(budget, charges, paid), d) = Value(budget, d)
<1> DEFINE new == Deduct(budget, charges, paid)
<1>1. CASE d \in paid
  <2>1. budget[d] \in Nat /\ charges[d] \in Nat /\ Value(budget, d) = budget[d]
    BY <1>1, MaxU64Assumption DEF Present, Budgets, U64, Value
  <2>2. new[d] = budget[d] - charges[d]
    BY <1>1 DEF Deduct
  <2>3. new[d] \in Int
    BY <2>1, <2>2
  <2>4. Present(new, d)
    <3> HIDE DEF new
    <3> QED BY <2>3, NoneAssumption DEF Present
  <2> QED BY <1>1, <2>1, <2>2, <2>4 DEF Value
<1>2. CASE d \notin paid
  <2>1. new[d] = budget[d]
    BY <1>2 DEF Deduct
  <2> QED BY <1>2, <2>1 DEF Value, Present
<1> QED BY <1>1, <1>2

LEMMA StagedBooks ==
  ASSUME NEW session \in ActiveSessions, NEW key \in Keys, NEW call \in Calls,
         NEW id \in Nat, call.name \in DOMAIN Adapters, session.tool_results[key] = None,
         FreshCallOutcome(call, session) = "OK",
         Deductible(session.remaining_budgets, Charges(Adapters[call.name], call.arguments)),
         Bookable(session)
  PROVE  LET new == Staged(session, key, call, id) IN
         /\ Bookable(new)
         /\ \A d \in Dims : Held(new, d) = Held(session, d)
<1> DEFINE adapter == Adapters[call.name]
           charges == Charges(adapter, call.arguments)
           new     == Staged(session, key, call, id)
           record  == [request_fingerprint |-> call, response |-> Response(call, id)]
<1>1. /\ new.tool_results = [session.tool_results EXCEPT ![key] = record]
      /\ new.remaining_budgets =
           Deduct(session.remaining_budgets, charges, DOMAIN charges)
      /\ session.remaining_budgets \in Budgets
      /\ session.tool_results \in [Keys -> ToolResults \cup {None}]
  BY DEF Staged, ActiveSessions, SessionsWith
<1>2. Chargeable(adapter, call.arguments) /\ Affordable(session.remaining_budgets, charges)
  BY DEF FreshCallOutcome, ChargesFault
<1>3. WellDeclared(adapter)
  BY InputAssumption
<1>4. /\ new.tool_results[key] = record
      /\ \A k \in Keys : k # key => new.tool_results[k] = session.tool_results[k]
  BY <1>1
<1>5. new.tool_results[key] # None
  <2>1. record \in ToolResults
    BY DEF ToolResults, Response
  <2> QED BY <1>4, <2>1, NoneIsNoValue
<1>6. UsedKeys(new) = UsedKeys(session) \cup {key} /\ key \notin UsedKeys(session)
  BY <1>4, <1>5 DEF UsedKeys
<1> HIDE DEF new
<1>7. Bookable(new)
  <2>1. IsFiniteSet(UsedKeys(new))
    BY <1>6, FS_AddElement DEF Bookable
  <2> QED BY <1>2, <1>4, <1>6, <2>1 DEF Bookable, UsedKeys
<1>8. ASSUME NEW d \in Dims
      PROVE  Held(new, d) = Held(session, d)
  <2> DEFINE f == Costs(session, d)
             g == Costs(new, d)
  <2>1. Cost(call, d) = TotalOn(adapter, call.arguments, d) /\ Cost(call, d) \in Nat
    BY <1>2, CostType
  <2>2. /\ DOMAIN f = UsedKeys(session) /\ \A k \in UsedKeys(session) : f[k] \in Nat
        /\ SumFunction(f) \in Nat /\ DOMAIN g = UsedKeys(new)
    BY <1>7, SpentType
  <2>3. g[key] = Cost(call, d)
    BY <1>4, <1>6 DEF Costs
  <2>4. \A k \in UsedKeys(session) : g[k] = f[k]
    BY <1>4, <1>6 DEF Costs, UsedKeys
  <2>5. IsFiniteSet(UsedKeys(session))
    BY DEF Bookable
  <2>6. /\ key \notin DOMAIN f /\ DOMAIN g = DOMAIN f \cup {key} /\ IsFiniteSet(DOMAIN f)
        /\ g[key] \in Nat /\ \A y \in DOMAIN f : g[y] = f[y] /\ f[y] \in Nat
    BY <1>6, <2>1, <2>2, <2>3, <2>4, <2>5
  <2>7. SumFunction(g) = SumFunction(f) + Cost(call, d)
    <3> HIDE DEF f, g
    <3> QED BY <2>3, <2>6, SumGrows
  <2>8. /\ \A e \in DOMAIN charges : charges[e] \in Nat
        /\ d \in DOMAIN charges => charges[d] = Cost(call, d)
        /\ d \notin DOMAIN charges => Cost(call, d) = 0
    <3> HIDE DEF adapter
    <3> QED BY <1>2, <1>3, <2>1, ChargesAreSums
  <2>9. Value(new.remaining_budgets, d) = Value(session.remaining_budgets, d) - Cost(call, d)
    <3>1. \A e \in DOMAIN charges : Present(session.remaining_budgets, e)
      BY DEF Deductible
    <3>2. Value(session.remaining_budgets, d) \in Nat
      BY <1>1, ValueType
    <3> HIDE DEF charges
    <3>3. /\ d \in DOMAIN charges => Value(new.remaining_budgets, d) =
               Value(session.remaining_budgets, d) - charges[d]
          /\ d \notin DOMAIN charges => Value(new.remaining_budgets, d) =
               Value(session.remaining_budgets, d)
      BY <1>1, <1>2, <2>8, <3>1, DeductedValue
    <3> QED BY <2>8, <3>2, <3>3
  <2>10. Value(session.remaining_budgets, d) \in Nat
    BY <1>1, ValueType
  <2> QED BY <2>1, <2>2, <2>7, <2>9, <2>10 DEF Held
<1> QED BY <1>7, <1>8 DEF new

LEMMA HalfChargedBooks ==
  ASSUME NEW session \in ActiveSessions, NEW call, call.name \in DOMAIN Adapters,
         FreshCallOutcome(call, session) = "OK", Bookable(session), NEW paid,
         paid \in SUBSET {d \in DOMAIN Charges(Adapters[call.name], call.arguments) :
                            Present(session.remaining_budgets, d)}
  PROVE  LET charges == Charges(Adapters[call.name], call.arguments)
             new == [session EXCEPT !.remaining_budgets =
                       Deduct(session.remaining_budgets, charges, paid)]
         IN  /\ Bookable(new)
             /\ \A d \in Dims : Held(new, d) <= Held(session, d)
<1> DEFINE charges == Charges(Adapters[call.name], call.arguments)
           budget  == session.remaining_budgets
           new     == [session EXCEPT !.remaining_budgets = Deduct(budget, charges, paid)]
<1>1. /\ new.tool_results = session.tool_results
      /\ new.remaining_budgets = Deduct(budget, charges, paid)
      /\ budget \in Budgets
  BY DEF ActiveSessions, SessionsWith
<1> HIDE DEF new
<1>2. Bookable(new) /\ \A d : Costs(new, d) = Costs(session, d)
  BY <1>1, SameRecord
<1>3. Chargeable(Adapters[call.name], call.arguments) /\ Affordable(budget, charges)
  BY DEF FreshCallOutcome, ChargesFault
<1>4. WellDeclared(Adapters[call.name])
  BY InputAssumption
<1>5. \A d \in DOMAIN charges : charges[d] \in Nat
  BY <1>3, <1>4, ChargesAreSums
<1>6. ASSUME NEW d \in Dims PROVE Held(new, d) <= Held(session, d)
  <2>1. Value(budget, d) \in Nat /\ SumFunction(Costs(session, d)) \in Nat
    BY <1>1, ValueType, SpentType
  <2>2. paid \in SUBSET DOMAIN charges /\ \A e \in paid : Present(budget, e)
    OBVIOUS
  <2>3. /\ d \in paid => Value(new.remaining_budgets, d) = Value(budget, d) - charges[d]
        /\ d \notin paid => Value(new.remaining_budgets, d) = Value(budget, d)
    <3> HIDE DEF charges, budget
    <3> QED BY <1>1, <1>3, <1>5, <2>2, DeductedValue
  <2>4. Value(new.remaining_budgets, d) \in Int
    BY <1>5, <2>1, <2>2, <2>3
  <2>5. Value(new.remaining_budgets, d) <= Value(budget, d)
    BY <1>5, <2>1, <2>2, <2>3
  <2> QED BY <1>2, <2>1, <2>4, <2>5 DEF Held
<1> QED BY <1>2, <1>6 DEF new
-----------------------------------------------------------------------------
(* The budget of every session, step by step.                              *)
BudgetInv ==
  /\ DelegationInv
  /\ \A sid \in Live : Books(sessions[sid], backing, sid)

LEMMA HeldType ==
  ASSUME NEW session \in ActiveSessions, Bookable(session), NEW d
  PROVE  Held(session, d) \in Nat
<1>1. session.remaining_budgets \in Budgets
  BY DEF ActiveSessions, SessionsWith
<1> QED BY <1>1, SpentType, ValueType DEF Held

LEMMA InsertBooks ==
  ASSUME BudgetInv, NEW w \in Workers, InsertSession(w), NEW sid \in SessionIds,
         sessions'[sid] # None
  PROVE  /\ Books(sessions'[sid], backing', sid)
         /\ \A d \in Dims : Gap(sessions'[sid], backing', sid, d) =
              IF sid \in Live THEN Gap(sessions[sid], backing, sid, d) ELSE 0
<1> DEFINE r  == pending[w].request
           d0 == r.delegation
<1>1. PICK s \in SessionIds \ Live :
        LET session == NewSession(s, r, pending[w].now_ms) IN
        /\ sessions' = [sessions EXCEPT ![s] = session]
        /\ backing' = [backing EXCEPT ![d0] =
             [session_id |-> s, generation |-> 1, budget |-> r.proposal.budgets]]
        /\ Answer(w, "OK", session.capability_token)
  BY DEF InsertSession
<1> DEFINE new      == NewSession(s, r, pending[w].now_ms)
           spending == [session_id |-> s, generation |-> 1, budget |-> r.proposal.budgets]
<1>2. /\ TypeOK /\ UsedOnce /\ BacksSomething
      /\ pending[w] \in InService /\ pending[w].status = "consumed"
  BY DEF InsertSession, BudgetInv, DelegationInv, TypeOK, Idle
<1>3. r \in ProposeRequests
  BY <1>2 DEF InService
<1>4. /\ d0 \in Delegations /\ r.proposal.budgets \in Budgets
      /\ spending \in Spendings /\ spending.session_id = s
      /\ spending.budget = r.proposal.budgets
  BY <1>3, InputAssumption DEF ProposeRequests, Spendings
<1>5. backing[d0] = None
  <2>1. w \in InFlight(d0)
    BY <1>2 DEF InFlight
  <2> QED BY <1>2, <1>4, <2>1 DEF UsedOnce, Unused, InHand, Invested
<1>6. backing \in [Delegations -> Spendings \cup {None}]
  BY <1>2 DEF TypeOK
<1>7. /\ new.tool_results = [k \in Keys |-> None]
      /\ new.remaining_budgets = r.proposal.budgets
  BY DEF NewSession
<1>8. /\ backing'[d0] = spending /\ \A k \in Delegations : k # d0 => backing'[k] = backing[k]
      /\ sessions' = [sessions EXCEPT ![s] = new]
  BY <1>1, <1>4, <1>6
<1> HIDE DEF new, spending, d0
<1>9. CASE sid = s
  <2>1. sid \notin Live /\ sessions'[sid] = new
    BY <1>1, <1>2, <1>8, <1>9 DEF TypeOK
  <2>2. BackersIn(backing, sid) = {}
    BY <1>2, <2>1 DEF BacksSomething, BackersIn, Live
  <2>3. IsFiniteSet(BackersIn(backing, sid))
    BY <2>2, FS_EmptySet
  <2>4. /\ IsFiniteSet(BackersIn(backing', sid))
        /\ \A d : SumFunction(Grants(backing', sid, d)) =
                    SumFunction(Grants(backing, sid, d)) + Value(spending.budget, d)
    <3>1. spending \in Spendings /\ spending.session_id = sid
      BY <1>4, <1>9
    <3> QED BY <1>4, <1>5, <1>6, <1>8, <2>3, <3>1, GrantsGrow
  <2>5. \A d : SumFunction(Grants(backing, sid, d)) = 0
    BY <2>2, SumEmpty DEF SumFunction, Grants
  <2>6. Bookable(new) /\ \A d : Held(new, d) = Value(new.remaining_budgets, d)
    BY <1>4, <1>7, NewBooks
  <2>7. \A d : Gap(new, backing', sid, d) = 0
    BY <1>4, <1>7, <2>4, <2>5, <2>6, ValueType DEF Gap
  <2> QED BY <2>1, <2>4, <2>6, <2>7 DEF Books
<1>10. CASE sid # s
  <2>1. sessions'[sid] = sessions[sid] /\ sid \in Live
    BY <1>2, <1>8, <1>10 DEF TypeOK, Live
  <2>2. /\ BackersIn(backing', sid) = BackersIn(backing, sid)
        /\ \A d : Grants(backing', sid, d) = Grants(backing, sid, d)
    BY <1>4, <1>5, <1>6, <1>8, <1>10, GrantsElsewhere
  <2>3. Books(sessions[sid], backing, sid)
    BY <2>1 DEF BudgetInv
  <2> QED BY <2>1, <2>2, <2>3 DEF Books, Gap
<1> QED BY <1>9, <1>10

LEMMA AmendBooks ==
  ASSUME BudgetInv, NEW w \in Workers, Amend(w), NEW sid \in SessionIds,
         sessions'[sid] # None
  PROVE  /\ sid \in Live
         /\ Books(sessions'[sid], backing', sid)
         /\ \A d \in Dims : Gap(sessions'[sid], backing', sid, d) =
                              Gap(sessions[sid], backing, sid, d)
<1> DEFINE r        == pending[w].request
           d0       == r.delegation
           s        == r.session_id
           new      == Amended(s, Found(w), r.budget_additions)
           spending == [session_id |-> s, generation |-> new.generation,
                        budget |-> r.budget_additions]
<1>1. /\ Finds(w, "intent/amend")
      /\ AmendOutcome(r, Found(w), pending[w].now_ms) = "OK"
      /\ sessions' = [sessions EXCEPT ![s] = new]
      /\ backing' = [backing EXCEPT ![d0] = spending]
  BY DEF Amend, Store
<1>2. TypeOK /\ UsedOnce
  BY DEF BudgetInv, DelegationInv
<1>3. /\ r \in CheckedRequests /\ r.method = "intent/amend"
      /\ s \in SessionIds /\ Found(w) \in ActiveSessions
      /\ Found(w) = sessions[s] /\ s \in Live
  BY <1>1, <1>2, FoundType DEF Found, Finds, Live
<1>4. d0 \in Delegations /\ r.budget_additions \in Budgets
  BY <1>3, InputAssumption DEF CheckedRequests, ProposeRequests
<1>5. /\ ~ AddOverflows(Found(w).remaining_budgets, r.budget_additions)
      /\ d0 \notin used_delegations
  BY <1>1 DEF AmendOutcome, AmendFault
<1>6. new.generation \in Nat
  BY <1>3 DEF Amended, ActiveSessions, SessionsWith
<1>7. /\ spending \in Spendings /\ spending.session_id = s
      /\ spending.budget = r.budget_additions
  BY <1>3, <1>4, <1>6 DEF Spendings
<1>8. backing[d0] = None
  BY <1>2, <1>4, <1>5 DEF UsedOnce, Unused, InHand, Invested
<1>9. /\ backing \in [Delegations -> Spendings \cup {None}]
      /\ backing'[d0] = spending /\ \A k \in Delegations : k # d0 => backing'[k] = backing[k]
  BY <1>1, <1>2, <1>4 DEF TypeOK
<1>10. Bookable(Found(w)) /\ IsFiniteSet(BackersIn(backing, s))
  BY <1>3 DEF BudgetInv, Books
<1>11. /\ Bookable(new)
       /\ \A d \in Dims : Held(new, d) = Held(Found(w), d) + Value(r.budget_additions, d)
  BY <1>3, <1>4, <1>10, AmendedBooks
<1> HIDE DEF new, spending, d0
<1>12. CASE sid = s
  <2>1. sessions'[sid] = new
    BY <1>1, <1>2, <1>12 DEF TypeOK
  <2>2. /\ IsFiniteSet(BackersIn(backing', sid))
        /\ \A d : SumFunction(Grants(backing', sid, d)) =
                    SumFunction(Grants(backing, sid, d)) + Value(spending.budget, d)
    <3>1. spending \in Spendings /\ spending.session_id = sid
      BY <1>7, <1>12
    <3>2. IsFiniteSet(BackersIn(backing, sid))
      BY <1>10, <1>12
    <3>3. d0 \in Delegations
      BY <1>4
    <3> HIDE DEF r, s
    <3> QED BY <1>8, <1>9, <3>1, <3>2, <3>3, GrantsGrow
  <2>3. ASSUME NEW d \in Dims
        PROVE  Gap(new, backing', sid, d) = Gap(Found(w), backing, sid, d)
    <3>1. /\ SumFunction(Grants(backing, sid, d)) \in Nat
          /\ Held(Found(w), d) \in Nat /\ Value(r.budget_additions, d) \in Nat
      BY <1>3, <1>4, <1>9, <1>10, <1>12, GrantedType, HeldType, ValueType
    <3>2. SumFunction(Grants(backing', sid, d)) =
            SumFunction(Grants(backing, sid, d)) + Value(r.budget_additions, d)
      BY <1>7, <2>2
    <3> QED BY <1>11, <3>1, <3>2 DEF Gap
  <2> QED BY <1>3, <1>11, <1>12, <2>1, <2>2, <2>3 DEF Books
<1>13. CASE sid # s
  <2>1. sessions'[sid] = sessions[sid] /\ sid \in Live
    BY <1>1, <1>2, <1>13 DEF TypeOK, Live
  <2>2. /\ BackersIn(backing', sid) = BackersIn(backing, sid)
        /\ \A d : Grants(backing', sid, d) = Grants(backing, sid, d)
    <3>1. spending \in Spendings /\ spending.session_id # sid
      BY <1>7, <1>13
    <3> QED BY <1>4, <1>8, <1>9, <3>1, GrantsElsewhere
  <2>3. Books(sessions[sid], backing, sid)
    BY <2>1 DEF BudgetInv
  <2> QED BY <2>1, <2>2, <2>3 DEF Books, Gap
<1> QED BY <1>12, <1>13

LEMMA WorkBooks ==
  ASSUME TypeOK, NEW w \in Workers,
         CallExpires(w) \/ CallHalfCharged(w) \/ CallStaged(w) \/ Seal(w) \/ Abort(w),
         Bookable(sessions[pending[w].request.session_id])
  PROVE  LET old == sessions[pending[w].request.session_id]
             new == sessions'[pending[w].request.session_id]
         IN  /\ Bookable(new)
             /\ \A d \in Dims : Held(new, d) <= Held(old, d)
             /\ ~ CallHalfCharged(w) => \A d \in Dims : Held(new, d) = Held(old, d)
<1> DEFINE r   == pending[w].request
           old == sessions[r.session_id]
           new == sessions'[r.session_id]
<1>1. PICK method \in {"tools/call", "intent/seal", "intent/abort"} :
        /\ Finds(w, method)
        /\ CallExpires(w) \/ CallHalfCharged(w) \/ CallStaged(w) => method = "tools/call"
  BY DEF CallExpires, CallHalfCharged, CallStaged, FreshCall, CallAccepted,
     Seal, SealAccepted, Abort, AbortAccepted
<1>2. /\ r \in CheckedRequests /\ r.method = method
      /\ r.session_id \in SessionIds /\ Found(w) \in ActiveSessions
      /\ Found(w) = old
  BY <1>1, FoundType DEF Found
<1>3. \A next : Store(w, next) => new = next
  BY <1>2 DEF Store, TypeOK
<1>4. \A d : Held(old, d) \in Nat
  BY <1>2, HeldType
<1>5. ASSUME new.tool_results = old.tool_results,
             new.remaining_budgets = old.remaining_budgets
      PROVE  Bookable(new) /\ \A d : Held(new, d) = Held(old, d)
  <2>1. Bookable(old)
    OBVIOUS
  <2> HIDE DEF new, old
  <2>2. Bookable(new) /\ \A d : Costs(new, d) = Costs(old, d)
    BY <1>5, <2>1, SameRecord
  <2> QED BY <1>5, <2>2 DEF Held
<1>6. CASE CallExpires(w)
  <2>1. new = [Found(w) EXCEPT !.status = "EXPIRED"]
    BY <1>3, <1>6 DEF CallExpires
  <2>2. new.tool_results = old.tool_results /\ new.remaining_budgets = old.remaining_budgets
    BY <1>2, <2>1 DEF ActiveSessions, SessionsWith
  <2> QED BY <1>4, <1>5, <2>2
<1>7. CASE Seal(w)
  <2>1. \E key : new = Sealed(r.session_id, Found(w), key)
    BY <1>3, <1>7 DEF Seal
  <2>2. new.tool_results = old.tool_results /\ new.remaining_budgets = old.remaining_budgets
    BY <1>2, <2>1 DEF Sealed, ActiveSessions, SessionsWith
  <2> QED BY <1>4, <1>5, <2>2
<1>8. CASE Abort(w)
  <2>1. \E key : new = AbortedBy(r.session_id, Found(w), key)
    BY <1>3, <1>8 DEF Abort
  <2>2. new.tool_results = old.tool_results /\ new.remaining_budgets = old.remaining_budgets
    BY <1>2, <2>1 DEF AbortedBy, ActiveSessions, SessionsWith
  <2> QED BY <1>4, <1>5, <2>2
<1>9. ASSUME FreshCall(w), method = "tools/call"
      PROVE  /\ r.idempotency_key \in Keys /\ r.call \in Calls
             /\ r.call.name \in DOMAIN Adapters
             /\ FreshCallOutcome(r.call, Found(w)) = "OK"
             /\ old.tool_results[r.idempotency_key] = None
  <2>1. r.idempotency_key \in Keys /\ r.call \in Calls /\ r.call.name \in DOMAIN Adapters
    BY <1>2, <1>9 DEF CheckedRequests, ProposeRequests
  <2> QED BY <1>2, <1>9, <2>1 DEF FreshCall, CallAccepted, CallOutcome
<1>10. CASE CallStaged(w)
  <2>1. /\ FreshCall(w) /\ method = "tools/call"
        /\ Deductible(Found(w).remaining_budgets, PendingCharges(w))
        /\ new = Staged(Found(w), r.idempotency_key, r.call, uuids + 1)
    BY <1>1, <1>3, <1>10 DEF CallStaged
  <2>2. uuids + 1 \in Nat
    BY DEF TypeOK
  <2>3. Bookable(new) /\ \A d \in Dims : Held(new, d) = Held(old, d)
    <3>1. old \in ActiveSessions
      BY <1>2
    <3>2. Deductible(old.remaining_budgets, Charges(Adapters[r.call.name], r.call.arguments))
      BY <1>2, <2>1 DEF PendingCharges
    <3>3. new = Staged(old, r.idempotency_key, r.call, uuids + 1)
      BY <1>2, <2>1
    <3>4. Bookable(old) /\ FreshCallOutcome(r.call, old) = "OK"
      BY <1>2, <1>9, <2>1
    <3> HIDE DEF new, old, r
    <3> QED BY <1>9, <2>1, <2>2, <3>1, <3>2, <3>3, <3>4, StagedBooks
  <2> QED BY <1>4, <2>3
<1>11. CASE CallHalfCharged(w)
  <2> DEFINE charges == Charges(Adapters[r.call.name], r.call.arguments)
  <2>1. /\ FreshCall(w) /\ method = "tools/call"
        /\ \E paid \in SUBSET {d \in DOMAIN charges : Present(old.remaining_budgets, d)} :
             new = [old EXCEPT !.remaining_budgets =
                      Deduct(old.remaining_budgets, charges, paid)]
    BY <1>1, <1>2, <1>3, <1>11 DEF CallHalfCharged, PendingCharges
  <2>2. PICK paid \in SUBSET {d \in DOMAIN charges : Present(old.remaining_budgets, d)} :
          new = [old EXCEPT !.remaining_budgets = Deduct(old.remaining_budgets, charges, paid)]
    BY <2>1
  <2>3. Bookable(new) /\ \A d \in Dims : Held(new, d) <= Held(old, d)
    <3>1. old \in ActiveSessions /\ Bookable(old) /\ FreshCallOutcome(r.call, old) = "OK"
      BY <1>2, <1>9, <2>1
    <3> HIDE DEF new, old, r
    <3> QED BY <1>9, <2>1, <2>2, <3>1, HalfChargedBooks
  <2> QED BY <1>11, <2>3
<1> QED BY <1>6, <1>7, <1>8, <1>10, <1>11

(* No step loses what is on the books, but for a call that is half charged *)
(* and refused; no step ever makes a session hold more.                    *)
LEMMA BooksStep ==
  ASSUME BudgetInv, [Next]_vars, NEW sid \in SessionIds, sessions'[sid] # None
  PROVE  /\ Books(sessions'[sid], backing', sid)
         /\ \A d \in Dims :
              LET before == IF sid \in Live THEN Gap(sessions[sid], backing, sid, d) ELSE 0
                  after  == Gap(sessions'[sid], backing', sid, d)
              IN  /\ after >= before
                  /\ (\A w \in Workers : ~ CallHalfCharged(w)) => after = before
<1>1. TypeOK
  BY DEF BudgetInv, DelegationInv
<1>2. sid \in Live => /\ Books(sessions[sid], backing, sid)
                      /\ \A d : Gap(sessions[sid], backing, sid, d) \in Int
  <2> SUFFICES ASSUME sid \in Live
               PROVE  /\ Books(sessions[sid], backing, sid)
                      /\ \A d : Gap(sessions[sid], backing, sid, d) \in Int
    OBVIOUS
  <2>1. Books(sessions[sid], backing, sid)
    BY DEF BudgetInv
  <2>2. /\ sessions[sid] \in ActiveSessions
        /\ backing \in [Delegations -> Spendings \cup {None}]
    BY <1>1 DEF TypeOK, Live
  <2>3. \A d : Held(sessions[sid], d) \in Nat /\ SumFunction(Grants(backing, sid, d)) \in Nat
    BY <2>1, <2>2, HeldType, GrantedType DEF Books
  <2> QED BY <2>1, <2>3 DEF Gap
<1>3. CASE sid \in Live /\ sessions'[sid] = sessions[sid] /\ backing' = backing
  BY <1>2, <1>3
<1>4. CASE Tick \/ UNCHANGED vars
  BY <1>3, <1>4 DEF Tick, vars, Live
<1>5. ASSUME NEW w \in Workers, Receive(w) \/ Quiet(w) \/ DelegationConsumed(w)
                                  \/ ConsumeDelegation(w)
      PROVE  sid \in Live /\ sessions'[sid] = sessions[sid] /\ backing' = backing
  BY <1>1, <1>5, QuietType DEF Receive, Accept, DelegationConsumed, ConsumeDelegation, Live
<1>6. ASSUME NEW w \in Workers, InsertSession(w)
      PROVE  /\ Books(sessions'[sid], backing', sid)
             /\ \A d \in Dims : Gap(sessions'[sid], backing', sid, d) =
                  IF sid \in Live THEN Gap(sessions[sid], backing, sid, d) ELSE 0
  BY <1>6, InsertBooks
<1>7. ASSUME NEW w \in Workers, Amend(w)
      PROVE  /\ Books(sessions'[sid], backing', sid)
             /\ \A d \in Dims : Gap(sessions'[sid], backing', sid, d) =
                  IF sid \in Live THEN Gap(sessions[sid], backing, sid, d) ELSE 0
  BY <1>7, AmendBooks
<1>8. ASSUME NEW w \in Workers,
             CallExpires(w) \/ CallHalfCharged(w) \/ CallStaged(w) \/ Seal(w) \/ Abort(w)
      PROVE  /\ sid \in Live
             /\ Books(sessions'[sid], backing', sid)
             /\ \A d \in Dims : Gap(sessions'[sid], backing', sid, d) >=
                                  Gap(sessions[sid], backing, sid, d)
             /\ ~ CallHalfCharged(w) =>
                  \A d \in Dims : Gap(sessions'[sid], backing', sid, d) =
                                    Gap(sessions[sid], backing, sid, d)
  <2> DEFINE s == pending[w].request.session_id
  <2>1. /\ s \in Live /\ sessions' = [sessions EXCEPT ![s] = sessions'[s]]
        /\ sessions'[s] \in ActiveSessions
    BY <1>1, <1>8, WorkerChanges
  <2>2. backing' = backing
    BY <1>8 DEF CallExpires, CallHalfCharged, CallStaged, Seal, Abort
  <2>3. CASE sid # s
    <3>1. sid \in Live /\ sessions'[sid] = sessions[sid]
      BY <1>1, <2>1, <2>3 DEF TypeOK, Live
    <3> QED BY <1>2, <2>2, <3>1
  <2>4. CASE sid = s
    <3>1. sid \in Live /\ Bookable(sessions[s]) /\ IsFiniteSet(BackersIn(backing, sid))
      BY <1>2, <2>1, <2>4 DEF Books
    <3>2. /\ Bookable(sessions'[sid])
          /\ \A d \in Dims : Held(sessions'[sid], d) <= Held(sessions[sid], d)
          /\ ~ CallHalfCharged(w) =>
               \A d \in Dims : Held(sessions'[sid], d) = Held(sessions[sid], d)
      BY <1>1, <1>8, <2>4, <3>1, WorkBooks
    <3>3. /\ sessions[sid] \in ActiveSessions /\ sessions'[sid] \in ActiveSessions
          /\ backing \in [Delegations -> Spendings \cup {None}]
      BY <1>1, <2>1, <2>4, <3>1 DEF TypeOK, Live
    <3>4. \A d : /\ Held(sessions[sid], d) \in Nat /\ Held(sessions'[sid], d) \in Nat
                 /\ SumFunction(Grants(backing, sid, d)) \in Nat
      BY <2>4, <3>1, <3>2, <3>3, HeldType, GrantedType
    <3> QED BY <2>2, <3>1, <3>2, <3>4 DEF Books, Gap
  <2> QED BY <2>3, <2>4
<1>9. ASSUME NEW w \in Workers,
             Bookless(w) \/ ConsumeDelegation(w) \/ InsertSession(w) \/ Amend(w)
      PROVE  \/ Receive(w) \/ Quiet(w) \/ DelegationConsumed(w) \/ ConsumeDelegation(w)
             \/ InsertSession(w) \/ Amend(w)
             \/ CallExpires(w) \/ CallHalfCharged(w) \/ CallStaged(w) \/ Seal(w) \/ Abort(w)
  BY <1>9 DEF Bookless
<1> QED BY <1>2, <1>3, <1>4, <1>5, <1>6, <1>7, <1>8, <1>9, EachStep
-----------------------------------------------------------------------------
LEMMA BudgetInit == Init => BudgetInv
<1> SUFFICES ASSUME Init PROVE BudgetInv
  OBVIOUS
<1>1. Live = {}
  BY DEF Init, Live
<1> QED BY <1>1, DelegationInit DEF BudgetInv

LEMMA BudgetStep == BudgetInv /\ [Next]_vars => BudgetInv'
<1> SUFFICES ASSUME BudgetInv, [Next]_vars PROVE BudgetInv'
  OBVIOUS
<1>1. DelegationInv'
  BY DelegationStep DEF BudgetInv
<1>2. ASSUME NEW sid \in SessionIds, sessions'[sid] # None
      PROVE  Books(sessions'[sid], backing', sid)
  BY <1>2, BooksStep
<1>3. \A sid \in Live' : Books(sessions'[sid], backing', sid)
  BY <1>2 DEF Live
<1>4. (\A sid \in Live : Books(sessions[sid], backing, sid))'
  BY <1>3 DEF Books, Bookable, BackersIn, UsedKeys
<1> QED BY <1>1, <1>4 DEF BudgetInv

LEMMA BudgetHolds == Spec => []BudgetInv
  BY BudgetInit, BudgetStep, PTL DEF Spec

(* The two properties say that no session holds more than, and that every  *)
(* session holds exactly, what it was granted.                             *)
Solvent  == \A sid \in Live, d \in Dims : Gap(sessions[sid], backing, sid, d) >= 0
Balanced == \A sid \in Live, d \in Dims : Gap(sessions[sid], backing, sid, d) = 0

LEMMA GapMeans ==
  ASSUME BudgetInv, NEW sid \in Live, NEW d \in Dims
  PROVE  /\ Gap(sessions[sid], backing, sid, d) =
              Granted(sid, d)
                - (Value(sessions[sid].remaining_budgets, d) + Spent(sessions[sid], d))
         /\ Granted(sid, d) \in Nat
         /\ Value(sessions[sid].remaining_budgets, d) + Spent(sessions[sid], d) \in Nat
<1>1. /\ Bookable(sessions[sid]) /\ IsFiniteSet(BackersIn(backing, sid))
      /\ sessions[sid] \in ActiveSessions
      /\ backing \in [Delegations -> Spendings \cup {None}]
  BY DEF BudgetInv, Books, DelegationInv, TypeOK, Live
<1>2. Granted(sid, d) = SumFunction(Grants(backing, sid, d))
  BY DEF Granted, Grants, Backers, BackersIn
<1>3. Spent(sessions[sid], d) = SumFunction(Costs(sessions[sid], d))
  BY DEF Spent, Costs
<1>4. Held(sessions[sid], d) \in Nat /\ SumFunction(Grants(backing, sid, d)) \in Nat
  BY <1>1, HeldType, GrantedType
<1> QED BY <1>2, <1>3, <1>4 DEF Gap, Held

LEMMA SolventStep ==
  ASSUME BudgetInv, Solvent, [Next]_vars
  PROVE  Solvent'
<1>1. ASSUME NEW sid \in SessionIds, sessions'[sid] # None, NEW d \in Dims
      PROVE  Gap(sessions'[sid], backing', sid, d) >= 0
  <2> DEFINE before == IF sid \in Live THEN Gap(sessions[sid], backing, sid, d) ELSE 0
  <2>1. Gap(sessions'[sid], backing', sid, d) >= before
    BY <1>1, BooksStep
  <2>2. before >= 0 /\ before \in Int
    BY GapMeans DEF Solvent
  <2>3. Gap(sessions'[sid], backing', sid, d) \in Int
    <3>1. BudgetInv'
      BY BudgetStep
    <3>2. /\ Bookable(sessions'[sid]) /\ IsFiniteSet(BackersIn(backing', sid))
      BY <1>1, BooksStep DEF Books
    <3>3. /\ sessions'[sid] \in ActiveSessions
          /\ backing' \in [Delegations -> Spendings \cup {None}]
      BY <1>1, <3>1 DEF BudgetInv, DelegationInv, TypeOK
    <3>4. /\ Held(sessions'[sid], d) \in Nat
          /\ SumFunction(Grants(backing', sid, d)) \in Nat
      BY <3>2, <3>3, HeldType, GrantedType
    <3> QED BY <3>4 DEF Gap
  <2> QED BY <2>1, <2>2, <2>3
<1>2. \A sid \in Live', d \in Dims : Gap(sessions'[sid], backing', sid, d) >= 0
  BY <1>1 DEF Live
<1> QED BY <1>2 DEF Solvent, Gap, Held, Grants, Costs, BackersIn, UsedKeys, Value, Present

LEMMA SolventMeans == BudgetInv /\ Solvent => NeverOverspent
  BY GapMeans DEF Solvent, NeverOverspent

(* Whatever adapters declare, calls are never staged beyond the budget:    *)
(* what a session has left and what its calls cost never exceeds what its  *)
(* proposal and its amendments granted.                                    *)
THEOREM BudgetNeverOverspent == Spec => []NeverOverspent
<1>1. Init => Solvent
  BY DEF Init, Solvent, Live
<1>2. BudgetInv /\ Solvent /\ [Next]_vars => Solvent'
  BY SolventStep
<1> QED BY <1>1, <1>2, SolventMeans, BudgetHolds, PTL DEF Spec

(* No unit of budget appears or disappears, where every charge is on a     *)
(* dimension that all budgets have or is never zero.                       *)
THEOREM BudgetIsConserved ==
  ASSUME AdaptersCovered
  PROVE  Spec => []BudgetConservation
<1>1. Init => Balanced
  BY DEF Init, Balanced, Live
<1>2. ASSUME BudgetInv, Balanced, [Next]_vars PROVE Balanced'
  <2>1. \A w \in Workers : ~ CallHalfCharged(w)
    BY <1>2, NeverHalfCharged DEF BudgetInv, DelegationInv
  <2>2. ASSUME NEW sid \in SessionIds, sessions'[sid] # None, NEW d \in Dims
        PROVE  Gap(sessions'[sid], backing', sid, d) = 0
    <3> DEFINE before == IF sid \in Live THEN Gap(sessions[sid], backing, sid, d) ELSE 0
    <3>1. Gap(sessions'[sid], backing', sid, d) = before
      BY <1>2, <2>1, <2>2, BooksStep
    <3> QED BY <1>2, <3>1 DEF Balanced
  <2>3. \A sid \in Live', d \in Dims : Gap(sessions'[sid], backing', sid, d) = 0
    BY <2>2 DEF Live
  <2> QED BY <2>3 DEF Balanced, Gap, Held, Grants, Costs, BackersIn, UsedKeys, Value, Present
<1>3. BudgetInv /\ Balanced => BudgetConservation
  <2> SUFFICES ASSUME BudgetInv, Balanced, NEW sid \in Live, NEW d \in Dims
               PROVE  Granted(sid, d) =
                        Value(sessions[sid].remaining_budgets, d) + Spent(sessions[sid], d)
    BY DEF BudgetConservation
  <2> QED BY GapMeans DEF Balanced
<1> QED BY <1>1, <1>2, <1>3, BudgetHolds, PTL DEF Spec

(* The three adapters that are compiled into the binary are of that kind.  *)
COROLLARY BuiltInBudgetIsConserved ==
  ASSUME Adapters = BuiltInAdapters
  PROVE  Spec => []BudgetConservation
<1>1. AdaptersCovered
  BY BuiltInsAreCovered DEF AdaptersCovered
<1> QED BY <1>1, BudgetIsConserved
=============================================================================
