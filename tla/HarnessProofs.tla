----------------------------- MODULE HarnessProofs -----------------------------
(***************************************************************************)
(* What holds when the guard may be restarted and its clock set back, and  *)
(* what a block of the harness may believe then, for any number of clients,*)
(* workers, restarts, steps back and requests.                             *)
(*                                                                         *)
(* A restart wipes out the sessions and what is known of the delegations   *)
(* together, so the books of the empty table balance; and none of the      *)
(* invariants used here refers to the clock.  What does refer to it, that  *)
(* a session is EXPIRED past its deadline only, is not claimed.            *)
(*                                                                         *)
(* Every step of the harness is one of the guard under faults, or none:    *)
(* FaultInv holds of it.  ClientsInv adds what clients, messages and       *)
(* sessions on record have to do with each other.  A client knows at most  *)
(* what its session says (Agrees), a message says at most what its client  *)
(* knew when it was sent (Posted), and no two clients have a session in    *)
(* common (Apart).                                                         *)
(***************************************************************************)
EXTENDS HarnessProperties, BudgetProofs

(* What a restart wiped out was sound when it was, and does not come back. *)
LostForGood ==
  \A sid \in SessionIds : lost[sid] # None =>
    /\ sessions[sid] = None
    /\ lost[sid] \in ActiveSessions
    /\ Sound(lost[sid])
    /\ Accounted(lost[sid], uuids)

FaultInv ==
  /\ WorkInv
  /\ BudgetInv
  /\ Solvent
  /\ restarts \in Nat
  /\ lost \in [SessionIds -> ActiveSessions \cup {None}]
  /\ LostForGood
-----------------------------------------------------------------------------
(* What holds at the start of the guard.                                   *)
LEMMA FaultInitHolds == FaultInit => FaultInv
<1> SUFFICES ASSUME FaultInit PROVE FaultInv
  OBVIOUS
<1>1. Init /\ lost = [sid \in SessionIds |-> None]
  BY DEF FaultInit
<1>2. Solvent
  BY <1>1 DEF Init, Solvent, Live
<1> QED BY <1>1, <1>2, WorkInit, BudgetInit DEF FaultInit, FaultInv, LostForGood

(* The invariants hold of an empty table.                                  *)
LEMMA RestartStep ==
  ASSUME FaultInv, Restart
  PROVE  FaultInv'
<1>1. /\ sessions' = [sid \in SessionIds |-> None]
      /\ used_delegations' = {}
      /\ pending' = [w \in Workers |-> Idle]
      /\ backing' = [d \in Delegations |-> None]
      /\ now' = now /\ uuids' = uuids
      /\ lost' = [sid \in SessionIds |-> IF sid \in Live THEN sessions[sid] ELSE lost[sid]]
  BY DEF Restart
<1>2. TypeOK /\ WorkInv /\ SessionsSound /\ LostForGood
  BY DEF FaultInv, WorkInv, SessionsSound
<1>3. TypeOK'
  BY <1>1, <1>2 DEF TypeOK
<1>4. Live' = {}
  BY <1>1 DEF Live
<1>5. WorkInv'
  BY <1>3, <1>4 DEF WorkInv, SessionsSound
<1>6. UsedOnce'
  <2> SUFFICES ASSUME NEW d \in Delegations PROVE Unused(d)'
    BY DEF UsedOnce
  <2>1. InFlight(d)' = {}
    BY <1>1 DEF InFlight, Idle
  <2> QED BY <1>1, <2>1 DEF Unused
<1>7. OwnDelegation'
  BY <1>1 DEF OwnDelegation
<1>8. EachGenerationBacked' /\ BacksSomething' /\ BacksAlone'
  BY <1>1, <1>4 DEF EachGenerationBacked, BacksSomething, BacksAlone
<1>9. BudgetInv' /\ Solvent'
  BY <1>3, <1>4, <1>6, <1>7, <1>8 DEF BudgetInv, DelegationInv, Solvent
<1>10. ASSUME NEW sid \in SessionIds, lost'[sid] # None
       PROVE  /\ sessions'[sid] = None
              /\ lost'[sid] \in ActiveSessions
              /\ Sound(lost'[sid])
              /\ Accounted(lost'[sid], uuids')
  <2>1. CASE sid \in Live
    BY <1>1, <1>2, <2>1 DEF WorkInv, SessionsSound, TypeOK, Live
  <2>2. CASE sid \notin Live
    BY <1>1, <1>2, <1>10, <2>2 DEF LostForGood
  <2> QED BY <2>1, <2>2
<1>11. \A sid \in SessionIds : lost'[sid] # None =>
         /\ sessions'[sid] = None
         /\ lost'[sid] \in ActiveSessions
         /\ Sound(lost'[sid])
         /\ Accounted(lost'[sid], uuids')
  BY <1>10
<1>12. LostForGood'
  BY <1>11, Zenon DEF LostForGood, Sound, Revalidates, PolicyAllows, Accounted, StagedInOrder,
     DoneOnce, SettledFaithfully, RevertedFaithfully, Work, UsedKeys, Ordered, Range, Response
<1>13. lost' \in [SessionIds -> ActiveSessions \cup {None}]
  BY <1>1, <1>2 DEF TypeOK, Live, FaultInv
<1>14. restarts' \in Nat
  BY DEF FaultInv, Restart
<1> QED BY <1>5, <1>9, <1>12, <1>13, <1>14 DEF FaultInv

(* None of them reads the clock.                                           *)
LEMMA StepBackStep ==
  ASSUME FaultInv, StepBack
  PROVE  FaultInv'
<1>1. /\ UNCHANGED <<sessions, used_delegations, pending, uuids, backing, lost>>
      /\ now' \in Clock
  BY DEF StepBack
<1>2. /\ TypeOK /\ Live' = Live
      /\ \A sid \in Live : Sound(sessions[sid]) /\ Accounted(sessions[sid], uuids)
  BY <1>1 DEF FaultInv, WorkInv, SessionsSound, Live
<1>3. TypeOK'
  BY <1>1, <1>2 DEF TypeOK
<1>4. WorkInv'
  <2>1. \A sid \in Live' : Sound(sessions'[sid]) /\ Accounted(sessions'[sid], uuids')
    BY <1>1, <1>2
  <2>2. (\A sid \in Live : Sound(sessions[sid]) /\ Accounted(sessions[sid], uuids))'
    BY <2>1, Zenon DEF Sound, Revalidates, PolicyAllows, Accounted, StagedInOrder, DoneOnce,
       SettledFaithfully, RevertedFaithfully, Work, UsedKeys, Ordered, Range, Response
  <2> QED BY <1>3, <2>2 DEF WorkInv, SessionsSound
<1>5. UsedOnce' /\ OwnDelegation' /\ EachGenerationBacked' /\ BacksSomething' /\ BacksAlone'
  BY <1>1, <1>2 DEF FaultInv, BudgetInv, DelegationInv, UsedOnce, Unused, InHand, Invested,
     InFlight, OwnDelegation, EachGenerationBacked, BacksSomething, BacksAlone
<1>6. BudgetInv'
  BY <1>1, <1>2, <1>3, <1>5, Zenon DEF FaultInv, BudgetInv, DelegationInv, Books, Bookable,
     BackersIn, UsedKeys
<1>7. Solvent'
  BY <1>1, <1>2 DEF FaultInv, Solvent, Gap, Held, Grants, Costs, BackersIn, UsedKeys, Value,
     Present
<1>8. \A sid \in SessionIds : lost'[sid] # None =>
        /\ sessions'[sid] = None
        /\ lost'[sid] \in ActiveSessions
        /\ Sound(lost'[sid])
        /\ Accounted(lost'[sid], uuids')
  BY <1>1 DEF FaultInv, LostForGood
<1>9. LostForGood'
  BY <1>8, Zenon DEF LostForGood, Sound, Revalidates, PolicyAllows, Accounted, StagedInOrder,
     DoneOnce, SettledFaithfully, RevertedFaithfully, Work, UsedKeys, Ordered, Range, Response
<1> QED BY <1>1, <1>4, <1>6, <1>7, <1>9 DEF FaultInv, StepBack

(* A step of the session manager, or none.                                 *)
LEMMA ManagerStep ==
  ASSUME FaultInv, [Next]_vars, lost' = lost, restarts' = restarts,
         \A sid \in SessionIds : lost[sid] # None => sessions'[sid] = None
  PROVE  FaultInv'
<1>1. WorkInv' /\ BudgetInv' /\ Solvent'
  BY WorkStep, BudgetStep, SolventStep DEF FaultInv
<1>2. TypeOK
  BY DEF FaultInv, WorkInv, SessionsSound
<1>3. uuids \in Nat /\ uuids' \in {uuids, uuids + 1}
  BY <1>2, DrawsOne DEF TypeOK
<1>4. ASSUME NEW sid \in SessionIds, lost'[sid] # None
      PROVE  /\ sessions'[sid] = None
             /\ lost'[sid] \in ActiveSessions
             /\ Sound(lost'[sid])
             /\ Accounted(lost'[sid], uuids')
  <2>1. lost[sid] \in ActiveSessions /\ Sound(lost[sid]) /\ Accounted(lost[sid], uuids)
    BY <1>4 DEF FaultInv, LostForGood
  <2> QED BY <1>3, <1>4, <2>1, LaterAccounted
<1>5. \A sid \in SessionIds : lost'[sid] # None =>
        /\ sessions'[sid] = None
        /\ lost'[sid] \in ActiveSessions
        /\ Sound(lost'[sid])
        /\ Accounted(lost'[sid], uuids')
  BY <1>4
<1>6. LostForGood'
  BY <1>5, Zenon DEF LostForGood, Sound, Revalidates, PolicyAllows, Accounted, StagedInOrder,
     DoneOnce, SettledFaithfully, RevertedFaithfully, Work, UsedKeys, Ordered, Range, Response
<1> QED BY <1>1, <1>6 DEF FaultInv

(* Faults included, every step keeps the invariant.                        *)
LEMMA FaultStep == FaultInv /\ [FaultNext]_<<vars, faultVars>> => FaultInv'
<1> SUFFICES ASSUME FaultInv, [FaultNext]_<<vars, faultVars>> PROVE FaultInv'
  OBVIOUS
<1>1. CASE Next /\ FreshIds /\ UNCHANGED faultVars
  BY <1>1, ManagerStep DEF FreshIds, faultVars
<1>2. CASE Restart
  BY <1>2, RestartStep
<1>3. CASE StepBack
  BY <1>3, StepBackStep
<1>4. CASE UNCHANGED <<vars, faultVars>>
  <2>1. UNCHANGED vars /\ lost' = lost /\ restarts' = restarts
    BY <1>4 DEF faultVars
  <2>2. \A sid \in SessionIds : lost[sid] # None => sessions'[sid] = None
    BY <2>1 DEF vars, FaultInv, LostForGood
  <2> QED BY <2>1, <2>2, ManagerStep
<1> QED BY <1>1, <1>2, <1>3, <1>4 DEF FaultNext

(* So it is an invariant under faults.                                     *)
LEMMA FaultsHold == FaultSpec => []FaultInv
  BY FaultInitHolds, FaultStep, PTL DEF FaultSpec

(* A session is settled or rolled back, never both, also when the clock    *)
(* that expires it goes backwards and the guard comes up again.            *)
THEOREM OneOutcomeUnderFaults == FaultSpec => []OneOutcome
<1>1. FaultInv => OneOutcome
  BY DEF FaultInv, WorkInv, SessionsSound, Sound, OneOutcome, Open
<1> QED BY <1>1, FaultsHold, PTL

(* A retry stages nothing twice, and nothing is staged without a record,   *)
(* whatever was lost in between.                                           *)
THEOREM ExactlyOnceUnderFaults == FaultSpec => []ExactlyOnce
<1>1. FaultInv => ExactlyOnce
  BY DEF FaultInv, WorkInv, Accounted, DoneOnce, ExactlyOnce
<1> QED BY <1>1, FaultsHold, PTL

(* Within one life of the process no session holds more than it was        *)
(* granted.                                                                *)
THEOREM NeverOverspentUnderFaults == FaultSpec => []NeverOverspent
<1>1. FaultInv => NeverOverspent
  BY SolventMeans DEF FaultInv
<1> QED BY <1>1, FaultsHold, PTL

(* As long as the process lives, what is closed stays closed: setting the  *)
(* clock back reopens nothing.                                             *)
THEOREM ClosedWhileItLives == FaultSpec => ClosedUnlessLost
<1> DEFINE Kept == restarts' = restarts => StaysClosed
<1>1. ASSUME FaultInv, FaultNext, restarts' = restarts
      PROVE  StaysClosed
  <2>1. SessionsSound
    BY <1>1 DEF FaultInv, WorkInv
  <2>2. CASE Next
    BY <2>1, <2>2, StaysClosedStep
  <2>3. CASE StepBack
    BY <2>3 DEF StepBack, StaysClosed, Live
  <2>4. ~ Restart
    BY <1>1 DEF FaultInv, Restart
  <2> QED BY <1>1, <2>2, <2>3, <2>4 DEF FaultNext
<1>2. FaultInv /\ [FaultNext]_<<vars, faultVars>> => [Kept]_<<vars, faultVars>>
  BY <1>1
<1> QED BY <1>2, FaultsHold, PTL DEF FaultSpec, ClosedUnlessLost
-----------------------------------------------------------------------------
(* The inductive invariant of the harness.                                 *)

(* Where a block is decides what it has and what it waits for.             *)
WellPlaced(k) ==
  /\ k.waiting = None => k.answer = None
  /\ k.phase \in {"outside"} \cup Ended => k.waiting = None
  /\ k.phase = "outside" => k.rpc = 0 /\ k.capability_token = None /\ k.unanswered = {}
  /\ k.phase = "proposing" =>
       /\ k.waiting # None
       /\ k.waiting.method = "intent/propose"
       /\ k.capability_token = None
       /\ k.unanswered = {}
  /\ k.phase # "proposing" /\ k.waiting # None =>
       /\ k.waiting.method # "intent/propose"
       /\ k.capability_token # None
       /\ k.waiting.session_id = k.capability_token.session_id
       /\ k.waiting.capability_token = k.capability_token
  /\ k.phase = "working" => k.capability_token # None
  /\ k.phase = "sealing" => k.waiting # None /\ k.waiting.method = "intent/seal"
  /\ k.phase = "aborting" => k.waiting # None /\ k.waiting.method = "intent/abort"
  /\ k.phase = "returned" => k.settlement_receipt # None
  /\ k.capability_token = None =>
       /\ k.settlement_receipt = None
       /\ k.abort_receipt = None
       /\ k.acknowledged = [key \in ToolKeys |-> None]
  /\ k.waiting # None /\ k.waiting.method = "tools/call" =>
       k.waiting.idempotency_key \in ToolKeys
  /\ Succeeded(k, Opening) => k.answer.result \in Tokens
  /\ Succeeded(k, {"tools/call"}) => k.answer.result \in Responses
  /\ Succeeded(k, {"intent/seal"}) => k.answer.result \in SealReceipts
  /\ Succeeded(k, {"intent/abort"}) => k.answer.result \in AbortReceipts

(* A token is another one at an earlier generation, or the same.           *)
Precedes(t, u) ==
  /\ t = [u EXCEPT !.generation = t.generation]
  /\ 1 <= t.generation
  /\ t.generation <= u.generation

(* What client c in state k has in hand, against s, the session on record. *)
Agrees(c, k, s) ==
  LET t == Latest(k) IN
  /\ t \in Tokens
  /\ s \in ActiveSessions
  /\ t = Token(t.session_id, s.identity, t.generation, s.expires_at_ms)
  /\ 1 <= t.generation
  /\ t.generation <= s.generation
  /\ t.generation <= k.rpc
  /\ \E admitted \in Clock : s.expires_at_ms = admitted + Asks[c].ttl_ms
  /\ k.capability_token # None => Precedes(k.capability_token, t)
  /\ t = s.capability_token \/ "intent/amend" \in k.unanswered
  /\ s.settlement_result # None =>
       \/ k.settlement_receipt # None
       \/ "intent/seal" \in k.unanswered
       \/ Succeeded(k, {"intent/seal"})
  /\ k.settlement_receipt # None => k.settlement_receipt = s.settlement_result
  /\ k.abort_receipt # None => k.abort_receipt = s.abort_result
  /\ Succeeded(k, {"intent/seal"}) => k.answer.result = s.settlement_result
  /\ Succeeded(k, {"intent/abort"}) => k.answer.result = s.abort_result
  /\ Succeeded(k, {"tools/call"}) =>
       /\ s.tool_results[k.waiting.idempotency_key] # None
       /\ k.answer.result = s.tool_results[k.waiting.idempotency_key].response
  /\ \A key \in ToolKeys : k.acknowledged[key] # None =>
       /\ s.tool_results[key] # None
       /\ k.acknowledged[key] = s.tool_results[key].response

(* A request of a client in state k that was not answered yet.             *)
Posted(m, k) ==
  /\ 1 <= m.rpc /\ m.rpc <= k.rpc
  /\ m.request.method = "intent/propose" =>
       m.rpc = 1 /\ Latest(k) = None /\ m.request.proposal = Asks[m.from]
  /\ m.request.method # "intent/propose" =>
       /\ k.capability_token # None
       /\ m.request.session_id = k.capability_token.session_id
       /\ Precedes(m.request.capability_token, k.capability_token)
       /\ m.request.capability_token.generation < m.rpc
  /\ k.waiting # None /\ k.rpc = m.rpc => k.waiting = m.request /\ k.answer = None
  /\ (k.waiting # None /\ k.rpc = m.rpc) \/ m.request.method \in k.unanswered

Same(m, n) == m.from = n.from /\ m.rpc = n.rpc

InTransit == wire \cup {serving[w] : w \in {v \in Workers : serving[v] # None}}

OnePlace ==
  /\ \A m, n \in wire : Same(m, n) => m = n
  /\ \A m \in wire, w \in Workers : serving[w] # None => ~ Same(m, serving[w])
  /\ \A v, w \in Workers :
       v # w /\ serving[v] # None /\ serving[w] # None => ~ Same(serving[v], serving[w])

Linked ==
  \A w \in Workers :
    /\ pending[w] = Idle <=> serving[w] = None
    /\ serving[w] # None => pending[w].request = serving[w].request

Apart == \A c, d \in Clients : c # d /\ Owns(c) /\ Owns(d) => OwnSession(c) # OwnSession(d)

(* The block of client c, whose session is s on record, goes on from k as  *)
(* k2, and says nothing new by that.                                       *)
Continues(c, k, k2, s) ==
  /\ k2 \in Blocks
  /\ WellPlaced(k2)
  /\ Latest(k2) # None =>
       /\ Latest(k) # None
       /\ Latest(k2).session_id = Latest(k).session_id
       /\ Agrees(c, k2, s)
  /\ \A m \in Messages : Posted(m, k) => Posted(m, k2)

ClientsInv ==
  /\ HarnessTypeOK
  /\ \A c \in Clients : WellPlaced(client[c])
  /\ \A c \in Clients : Owns(c) => Agrees(c, client[c], Record(OwnSession(c)))
  /\ \A m \in InTransit : Posted(m, client[m.from])
  /\ OnePlace
  /\ Linked
  /\ Apart

HarnessInv == FaultInv /\ ClientsInv
-----------------------------------------------------------------------------
(* What a worker makes of a request, as far as clients are told of it.     *)

(* Every code that a request is answered with is one.                      *)
LEMMA CodesAreKnown ==
  ASSUME NEW r, NEW session, NEW t
  PROVE  /\ Precheck(r, t) \in Codes
         /\ AmendOutcome(r, session, t) \in Codes
         /\ CallOutcome(r, session, t) \in Codes
         /\ SealOutcome(r, session, t) \in Codes
         /\ AbortOutcome(r, session, t) \in Codes
<1>1. \A tool, resources : ToolFault(tool, resources) \in Codes
  BY DEF Codes, ToolFault
<1>2. ProposePrecheck(r, t) \in Codes
  BY <1>1 DEF Codes, ProposePrecheck
<1>3. CallPrecheck(r) \in Codes /\ ClosePrecheck(r) \in Codes /\ AmendPrecheck(r) \in Codes
  BY DEF Codes, CallPrecheck, ClosePrecheck, AmendPrecheck
<1>4. Precheck(r, t) \in Codes
  BY <1>2, <1>3 DEF Codes, Precheck
<1>5. AmendOutcome(r, session, t) \in Codes
  BY DEF Codes, AmendOutcome, AmendFault
<1>6. \A adapter, arguments : ChargesFault(adapter, arguments) \in Codes
  BY DEF Codes, ChargesFault
<1>7. \A call : FreshCallOutcome(call, session) \in Codes
  BY <1>6 DEF Codes, FreshCallOutcome
<1>8. CallOutcome(r, session, t) \in Codes
  BY <1>7 DEF Codes, CallOutcome
<1>9. /\ SealOutcome(r, session, t) \in Codes
      /\ AbortOutcome(r, session, t) \in Codes
  BY DEF Codes, SealOutcome, AbortOutcome, ReplayOutcome
<1> QED BY <1>4, <1>5, <1>8, <1>9

(* What clients are told of, and what may not change of it for nothing.    *)
SameTold(old, new) ==
  /\ new.identity = old.identity
  /\ new.expires_at_ms = old.expires_at_ms
  /\ new.generation = old.generation
  /\ new.capability_token = old.capability_token
  /\ new.tool_results = old.tool_results
  /\ new.settlement_result = old.settlement_result
  /\ new.abort_result = old.abort_result

(* What a success makes of the session and says of it.                     *)
Tells(r, old, new, result) ==
  /\ new.identity = old.identity
  /\ new.expires_at_ms = old.expires_at_ms
  /\ IF r.method = "intent/amend"
     THEN /\ r.capability_token = old.capability_token
          /\ old.capability_token.generation = old.generation
          /\ new.generation = old.generation + 1
          /\ result = Token(r.session_id, old.identity, new.generation, old.expires_at_ms)
          /\ new.capability_token = result
     ELSE /\ new.generation = old.generation
          /\ new.capability_token = old.capability_token
  /\ IF r.method = "intent/seal"
     THEN result \in SealReceipts /\ new.settlement_result = result
     ELSE new.settlement_result = old.settlement_result
  /\ r.method = "intent/abort" => result \in AbortReceipts /\ new.abort_result = result
  /\ r.method = "tools/call" =>
       /\ new.tool_results[r.idempotency_key] # None
       /\ new.tool_results[r.idempotency_key].response = result
       /\ result \in Responses

Inserts(w, sid) ==
  LET r == pending[w].request
      session == NewSession(sid, r, pending[w].now_ms)
  IN
  /\ r \in ProposeRequests
  /\ pending[w].now_ms \in Clock
  /\ sid \in SessionIds
  /\ sessions[sid] = None
  /\ sessions' = [sessions EXCEPT ![sid] = session]
  /\ reply' = [to |-> w, code |-> "OK", result |-> session.capability_token]

Refuses(w) ==
  /\ \E code \in Codes \ {"OK"} : reply' = [to |-> w, code |-> code]
  /\ \A sid \in SessionIds :
       \/ sessions'[sid] = sessions[sid]
       \/ /\ sid \in Live
          /\ sessions'[sid] \in ActiveSessions
          /\ SameTold(sessions[sid], sessions'[sid])

Fulfils(w) ==
  LET r   == pending[w].request
      sid == r.session_id
  IN
  /\ r \in CheckedRequests
  /\ r.method # "intent/propose"
  /\ sid \in Live
  /\ sessions' = [sessions EXCEPT ![sid] = sessions'[sid]]
  /\ sessions'[sid] \in ActiveSessions
  /\ \E result : /\ reply' = [to |-> w, code |-> "OK", result |-> result]
                 /\ Tells(r, sessions[sid], sessions'[sid], result)

(* A refusal changes no more of a session than clients are not told of.    *)
LEMMA RefusesStep ==
  ASSUME SessionsSound, NEW w \in Workers,
         \/ DelegationConsumed(w) \/ UnknownSession(w) \/ AmendRejected(w) \/ CallRejected(w)
         \/ CallExpires(w) \/ CallHalfCharged(w) \/ SealRejected(w) \/ AbortRejected(w)
  PROVE  Refuses(w)
<1> TypeOK
  BY DEF SessionsSound
<1>1. ASSUME NEW code \in Codes, code # "OK", Answer(w, code, None)
      PROVE  \E c \in Codes \ {"OK"} : reply' = [to |-> w, code |-> c]
  BY <1>1 DEF Answer
<1>2. \E c \in Codes \ {"OK"} : reply' = [to |-> w, code |-> c]
  <2>1. CASE DelegationConsumed(w) \/ UnknownSession(w)
    BY <1>1, <2>1 DEF Codes, DelegationConsumed, UnknownSession
  <2>2. CASE CallExpires(w) \/ CallHalfCharged(w)
    BY <1>1, <2>2 DEF Codes, CallExpires, CallHalfCharged
  <2>3. CASE AmendRejected(w) \/ CallRejected(w) \/ SealRejected(w) \/ AbortRejected(w)
    BY <1>1, <2>3, CodesAreKnown DEF AmendRejected, CallRejected, SealRejected,
       AbortRejected, Rejects
  <2> QED BY <2>1, <2>2, <2>3
<1>3. CASE \/ DelegationConsumed(w) \/ UnknownSession(w) \/ AmendRejected(w)
           \/ CallRejected(w) \/ SealRejected(w) \/ AbortRejected(w)
  <2>1. sessions' = sessions
    BY <1>3 DEF DelegationConsumed, UnknownSession, AmendRejected, CallRejected,
       SealRejected, AbortRejected, Rejects
  <2> QED BY <1>2, <2>1 DEF Refuses
<1>4. CASE CallExpires(w) \/ CallHalfCharged(w)
  <2> DEFINE sid == pending[w].request.session_id
             old == sessions[sid]
             new == sessions'[sid]
  <2>1. /\ sid \in Live
        /\ sessions' = [sessions EXCEPT ![sid] = new]
        /\ new \in ActiveSessions
    BY <1>4, WorkerChanges
  <2>2. old \in ActiveSessions /\ sid \in SessionIds
    BY <2>1 DEF Live, TypeOK
  <2>3. \A session : Store(w, session) => new = session
    BY <2>2 DEF Store, TypeOK
  <2>4. \/ new = [old EXCEPT !.status = "EXPIRED"]
        \/ \E budget : new = [old EXCEPT !.remaining_budgets = budget]
    BY <1>4, <2>3, ZenonT(30) DEF CallExpires, CallHalfCharged, Found
  <2>5. SameTold(old, new)
    BY <2>2, <2>4, Zenon DEF SameTold, ActiveSessions, SessionsWith
  <2> HIDE DEF new, old, sid
  <2>6. \A x \in SessionIds : x # sid => sessions'[x] = sessions[x]
    BY <2>1 DEF TypeOK
  <2> QED BY <1>2, <2>1, <2>5, <2>6 DEF Refuses, old, new
<1> QED BY <1>3, <1>4

(* A success is told as it went on record.                                 *)
LEMMA FulfilsStep ==
  ASSUME SessionsSound, NEW w \in Workers,
         \/ Amend(w) \/ CallReplayed(w) \/ CallStaged(w)
         \/ SealReplayed(w) \/ Seal(w) \/ AbortReplayed(w) \/ Abort(w)
  PROVE  Fulfils(w)
<1> TypeOK
  BY DEF SessionsSound
<1> DEFINE r   == pending[w].request
           sid == r.session_id
           old == sessions[sid]
           new == sessions'[sid]
<1>1. PICK method \in {"intent/amend", "tools/call", "intent/seal", "intent/abort"} :
        Finds(w, method)
  BY DEF Amend, CallReplayed, CallStaged, FreshCall, CallAccepted, SealReplayed, Seal,
         SealAccepted, AbortReplayed, Abort, AbortAccepted
<1>2. /\ r \in CheckedRequests
      /\ r.method = method
      /\ sid \in SessionIds
      /\ old \in ActiveSessions
      /\ Found(w) = old
      /\ sid \in Live
  BY <1>1, FoundType DEF Found, Finds, Live
<1>3. /\ sessions' = [sessions EXCEPT ![sid] = new]
      /\ new \in ActiveSessions
  <2>1. CASE CallReplayed(w) \/ SealReplayed(w) \/ AbortReplayed(w)
    <3>1. sessions' = sessions
      BY <2>1 DEF CallReplayed, SealReplayed, AbortReplayed
    <3> QED BY <1>2, <3>1 DEF TypeOK
  <2>2. CASE Amend(w) \/ CallStaged(w) \/ Seal(w) \/ Abort(w)
    BY <2>2, WorkerChanges
  <2> QED BY <2>1, <2>2
<1>4. reply' = [to |-> w, code |-> "OK", result |-> reply'.result]
  <2>1. ASSUME NEW result, Answer(w, "OK", result)
        PROVE  reply' = [to |-> w, code |-> "OK", result |-> reply'.result]
    BY <2>1 DEF Answer
  <2>2. CASE Seal(w)
    <3>1. reply'.code = "OK"
      BY <2>2, SealSettles
    <3> QED BY <2>2, <3>1 DEF Seal, Answer
  <2>3. CASE ~ Seal(w)
    BY <2>1, <2>3 DEF Amend, CallReplayed, CallStaged, SealReplayed, AbortReplayed, Abort
  <2> QED BY <2>2, <2>3
<1>5. \A session : Store(w, session) => new = session
  BY <1>2 DEF Store, TypeOK
<1>6. old.settlement_result \in SealReceipts \cup {None}
  BY <1>2 DEF ActiveSessions, SessionsWith
<1>7. CASE Amend(w)
  <2>1. r.method = "intent/amend"
    BY <1>7 DEF Amend, Finds, Checked
  <2>2. CapabilityValid(sid, old, r.capability_token, pending[w].now_ms)
    BY <1>2, <1>7, ZenonT(30) DEF Amend, AmendOutcome, AmendFault
  <2>3. new = Amended(sid, old, r.budget_additions)
    BY <1>2, <1>5, <1>7 DEF Amend
  <2>4. reply'.result = new.capability_token
    BY <1>2, <1>7, <2>3 DEF Amend, Answer
  <2>5. /\ r.capability_token = old.capability_token
        /\ old.capability_token.generation = old.generation
    BY <2>2 DEF CapabilityValid, Token
  <2>6. /\ new.identity = old.identity
        /\ new.expires_at_ms = old.expires_at_ms
        /\ new.generation = old.generation + 1
        /\ new.capability_token = Token(sid, old.identity, old.generation + 1, old.expires_at_ms)
        /\ new.settlement_result = old.settlement_result
    BY <1>2, <2>3 DEF Amended, ActiveSessions, SessionsWith
  <2> HIDE DEF old, new
  <2>7. Tells(r, old, new, reply'.result)
    BY <2>1, <2>4, <2>5, <2>6 DEF Tells
  <2> QED BY <1>2, <1>3, <1>4, <2>1, <2>7 DEF Fulfils, old, new
<1>8. CASE CallReplayed(w) \/ CallStaged(w)
  <2>1. r.method = "tools/call"
    BY <1>8 DEF CallReplayed, CallStaged, FreshCall, CallAccepted, Finds, Checked
  <2>2. new = old \/ \E id : new = Staged(old, r.idempotency_key, r.call, id)
    BY <1>2, <1>5, <1>8, ZenonT(30) DEF CallReplayed, CallStaged
  <2>3. /\ new.identity = old.identity
        /\ new.expires_at_ms = old.expires_at_ms
        /\ new.generation = old.generation
        /\ new.capability_token = old.capability_token
        /\ new.settlement_result = old.settlement_result
    BY <1>2, <2>2, ZenonT(30) DEF Staged, ActiveSessions, SessionsWith
  <2>4. new.tool_results[r.idempotency_key] =
          [request_fingerprint |-> r.call, response |-> reply'.result]
    BY <1>8, CallsAreRecorded
  <2>5. r.idempotency_key \in Keys
    BY <1>2, <2>1 DEF CheckedRequests, ProposeRequests
  <2>6. new.tool_results[r.idempotency_key] \in ToolResults \cup {None}
    BY <1>3, <2>5 DEF ActiveSessions, SessionsWith
  <2>7. new.tool_results[r.idempotency_key] # None
    <3>1. CASE CallReplayed(w)
      BY <1>2, <3>1, Zenon DEF CallReplayed
    <3>2. CASE CallStaged(w)
      <4>1. new = Staged(old, r.idempotency_key, r.call, uuids + 1)
        BY <1>2, <1>5, <3>2 DEF CallStaged
      <4>2. [request_fingerprint |-> r.call, response |-> Response(r.call, uuids + 1)]
              \in ToolResults
        BY <1>2, <2>1 DEF CheckedRequests, ProposeRequests, ToolResults, Response, TypeOK
      <4>3. new.tool_results = [old.tool_results EXCEPT ![r.idempotency_key] =
              [request_fingerprint |-> r.call, response |-> Response(r.call, uuids + 1)]]
        BY <1>2, <4>1 DEF Staged, ActiveSessions, SessionsWith
      <4>4. old.tool_results \in [Keys -> ToolResults \cup {None}]
        BY <1>2 DEF ActiveSessions, SessionsWith
      <4> HIDE DEF new, old
      <4> QED BY <2>5, <4>2, <4>3, <4>4, NoneIsNoValue
    <3> QED BY <1>8, <3>1, <3>2
  <2> HIDE DEF old, new
  <2>8. /\ reply'.result \in Responses
        /\ new.tool_results[r.idempotency_key].response = reply'.result
    BY <2>4, <2>6, <2>7 DEF ToolResults, Responses
  <2>9. Tells(r, old, new, reply'.result)
    BY <2>1, <2>3, <2>7, <2>8 DEF Tells
  <2> QED BY <1>2, <1>3, <1>4, <2>1, <2>9 DEF Fulfils, old, new
<1>9. CASE SealReplayed(w) \/ Seal(w)
  <2>1. r.method = "intent/seal"
    BY <1>9 DEF SealReplayed, Seal, SealAccepted, Finds, Checked
  <2>2. new.settlement_result = reply'.result
    BY <1>4, <1>9, SealsAreRecorded
  <2>3. new = old \/ new = Sealed(sid, old, r.idempotency_key)
    BY <1>2, <1>5, <1>9 DEF SealReplayed, Seal
  <2>4. /\ new.identity = old.identity
        /\ new.expires_at_ms = old.expires_at_ms
        /\ new.generation = old.generation
        /\ new.capability_token = old.capability_token
    BY <1>2, <2>3, ZenonT(30) DEF Sealed, ActiveSessions, SessionsWith
  <2>5. new.settlement_result # None
    <3>1. CASE SealReplayed(w)
      BY <1>2, <3>1 DEF SealReplayed, SealAccepted, SealOutcome, ReplayOutcome
    <3>2. CASE Seal(w)
      <4>1. new.status = "SETTLED"
        <5>1. reply'.code = "OK"
          BY <3>2, SealSettles
        <5>2. new = Sealed(sid, old, r.idempotency_key)
          BY <1>2, <1>5, <3>2 DEF Seal
        <5> QED BY <1>2, <3>2, <5>1, <5>2 DEF Seal, Answer
      <4>2. new = Sealed(sid, old, r.idempotency_key)
        BY <1>2, <1>5, <3>2, Zenon DEF Seal
      <4>3. new.settlement_result = SealReceipt(sid, old)
        BY <1>2, <4>1, <4>2 DEF Sealed, ActiveSessions, SessionsWith
      <4> QED BY <1>2, <4>3, ReceiptType, NoneIsNoValue
    <3> QED BY <1>9, <3>1, <3>2
  <2>6. new.settlement_result \in SealReceipts
    BY <1>3, <2>5 DEF ActiveSessions, SessionsWith
  <2> HIDE DEF old, new
  <2>7. Tells(r, old, new, reply'.result)
    BY <2>1, <2>2, <2>4, <2>6 DEF Tells
  <2> QED BY <1>2, <1>3, <1>4, <2>1, <2>7 DEF Fulfils, old, new
<1>10. CASE AbortReplayed(w) \/ Abort(w)
  <2>1. r.method = "intent/abort"
    BY <1>10 DEF AbortReplayed, Abort, AbortAccepted, Finds, Checked
  <2>2. new.abort_result = reply'.result
    BY <1>10, AbortsAreRecorded
  <2>3. new = old \/ new = AbortedBy(sid, old, r.idempotency_key)
    BY <1>2, <1>5, <1>10 DEF AbortReplayed, Abort
  <2>4. /\ new.identity = old.identity
        /\ new.expires_at_ms = old.expires_at_ms
        /\ new.generation = old.generation
        /\ new.capability_token = old.capability_token
        /\ new.settlement_result = old.settlement_result
    BY <1>2, <2>3, ZenonT(30) DEF AbortedBy, ActiveSessions, SessionsWith
  <2>5. new.abort_result # None
    <3>1. CASE AbortReplayed(w)
      BY <1>2, <3>1 DEF AbortReplayed, AbortAccepted, AbortOutcome, ReplayOutcome
    <3>2. CASE Abort(w)
      <4>1. new = AbortedBy(sid, old, r.idempotency_key)
        BY <1>2, <1>5, <3>2 DEF Abort
      <4>2. new.abort_result = AbortReceipt(sid, old)
        BY <1>2, <4>1 DEF AbortedBy, ActiveSessions, SessionsWith
      <4> QED BY <1>2, <4>2, ReceiptType, NoneIsNoValue
    <3> QED BY <1>10, <3>1, <3>2
  <2>6. new.abort_result \in AbortReceipts
    BY <1>3, <2>5 DEF ActiveSessions, SessionsWith
  <2> HIDE DEF old, new
  <2>7. Tells(r, old, new, reply'.result)
    BY <2>1, <2>2, <2>4, <2>6 DEF Tells
  <2> QED BY <1>2, <1>3, <1>4, <2>1, <2>7 DEF Fulfils, old, new
<1> QED BY <1>7, <1>8, <1>9, <1>10
-----------------------------------------------------------------------------
(* A block goes on.                                                        *)

(* The fields of a block have their types.                                 *)
LEMMA BlockFields ==
  ASSUME NEW k \in Blocks
  PROVE  /\ k.phase \in Phases
         /\ k.rpc \in Nat
         /\ k.waiting \in SentRequests \cup {None}
         /\ k.answer \in Answers \cup {None}
         /\ k.capability_token \in Tokens \cup {None}
         /\ k.acknowledged \in [ToolKeys -> Responses \cup {None}]
         /\ k.settlement_receipt \in SealReceipts \cup {None}
         /\ k.abort_receipt \in AbortReceipts \cup {None}
         /\ k.unanswered \in SUBSET Methods
  BY DEF Blocks

(* Every request is of one of the five methods.                            *)
LEMMA SentMethods == \A r \in SentRequests : r.method \in Methods
  BY DEF SentRequests, CheckedRequests, ProposeRequests, Methods

(* A block that sends a request.                                           *)
LEMMA BlockSends ==
  ASSUME NEW k \in Blocks, NEW phase \in Phases, NEW r \in SentRequests, NEW n \in Nat
  PROVE  [k EXCEPT !.phase = phase, !.rpc = n, !.waiting = r, !.answer = None] \in Blocks
  BY Zenon DEF Blocks

(* A block that sends a request while it waits for nothing.                *)
LEMMA SendsContinues ==
  ASSUME NEW c \in Clients, NEW k \in Blocks, WellPlaced(k), NEW s,
         Latest(k) # None => Agrees(c, k, s),
         k.waiting = None, NEW r \in SentRequests, NEW phase \in Phases,
         r.method = "intent/propose" =>
           k.phase = "outside" /\ phase = "proposing" /\ k.unanswered = {},
         r.method # "intent/propose" =>
           /\ k.phase = "working"
           /\ r.session_id = k.capability_token.session_id
           /\ r.capability_token = k.capability_token,
         phase \notin {"outside", "returned", "raised", "cancelled"},
         phase = "proposing" => r.method = "intent/propose",
         phase = "sealing" => r.method = "intent/seal",
         phase = "aborting" => r.method = "intent/abort",
         r.method = "tools/call" => r.idempotency_key \in ToolKeys
  PROVE  Continues(c, k, [k EXCEPT !.phase = phase, !.rpc = k.rpc + 1,
                                   !.waiting = r, !.answer = None], s)
<1> DEFINE k2 == [k EXCEPT !.phase = phase, !.rpc = k.rpc + 1, !.waiting = r, !.answer = None]
<1>1. /\ k2.phase = phase
      /\ k2.rpc = k.rpc + 1
      /\ k2.waiting = r
      /\ k2.answer = None
      /\ k2.capability_token = k.capability_token
      /\ k2.acknowledged = k.acknowledged
      /\ k2.settlement_receipt = k.settlement_receipt
      /\ k2.abort_receipt = k.abort_receipt
      /\ k2.unanswered = k.unanswered
      /\ k2 \in Blocks
  <2>1. k.rpc + 1 \in Nat
    BY BlockFields
  <2> DEFINE n == k.rpc + 1
  <2> HIDE DEF n
  <2>2. [k EXCEPT !.phase = phase, !.rpc = n, !.waiting = r, !.answer = None] \in Blocks
    BY <2>1, BlockSends, Zenon DEF n
  <2> QED BY <2>2 DEF Blocks, n
<1>2. r # None
  BY NoneIsNotSent
<1> HIDE DEF k2
<1>3. \A methods : ~ Succeeded(k2, methods) /\ ~ Succeeded(k, methods)
  BY <1>1 DEF Succeeded, WellPlaced
<1>4. Latest(k2) = Latest(k) /\ Latest(k) = k.capability_token
  BY <1>1, <1>3 DEF Latest
<1>5. WellPlaced(k2)
  BY <1>1, <1>2, <1>3 DEF WellPlaced, Ended
<1>6. Latest(k2) # None => Agrees(c, k2, s)
  BY <1>1, <1>3, <1>4, BlockFields DEF Agrees, Tokens
<1>7. ASSUME NEW m \in Messages, Posted(m, k)
      PROVE  Posted(m, k2)
  BY <1>1, <1>4, <1>7, BlockFields DEF Posted, Messages
<1> QED BY <1>1, <1>4, <1>5, <1>6, <1>7 DEF Continues, k2

(* What is posted in a block that has its answer, or gives it up, is of a  *)
(* method on which it gave up before, or does now.                         *)
LEMMA GivesUp ==
  ASSUME NEW k \in Blocks, NEW k2, NEW m, Posted(m, k),
         k.answer = None /\ k.waiting # None => k.waiting.method \in k2.unanswered,
         k.unanswered \subseteq k2.unanswered
  PROVE  m.request.method \in k2.unanswered
  BY DEF Posted

(* An awaited request ends without a success: by an error, by a timeout, or *)
(* by being cancelled.                                                     *)
LEMMA EndsContinues ==
  ASSUME NEW c \in Clients, NEW k \in Blocks, WellPlaced(k), NEW s,
         Latest(k) # None => Agrees(c, k, s),
         NEW phase \in {"working", "raised", "cancelled"}, NEW given \in SUBSET Methods,
         phase = "working" => k.phase = "working",
         k.phase \notin {"outside", "returned"},
         phase # "working" \/ k.waiting # None,
         phase # "cancelled" => ~ Succeeded(k, Methods),
         k.waiting # None /\ (k.answer = None \/ phase = "cancelled")
           => k.waiting.method \in given
  PROVE  Continues(c, k, [k EXCEPT !.phase = phase, !.waiting = None, !.answer = None,
                                   !.unanswered = k.unanswered \cup given], s)
<1> DEFINE k2 == [k EXCEPT !.phase = phase, !.waiting = None, !.answer = None,
                           !.unanswered = k.unanswered \cup given]
<1>1. /\ k2.phase = phase
      /\ k2.rpc = k.rpc
      /\ k2.waiting = None
      /\ k2.answer = None
      /\ k2.capability_token = k.capability_token
      /\ k2.acknowledged = k.acknowledged
      /\ k2.settlement_receipt = k.settlement_receipt
      /\ k2.abort_receipt = k.abort_receipt
      /\ k2.unanswered = k.unanswered \cup given
      /\ k2 \in Blocks
  <2>1. "working" \in Phases /\ "raised" \in Phases /\ "cancelled" \in Phases
    BY DEF Phases, Ended
  <2> QED BY <2>1, Zenon DEF Blocks
<1> HIDE DEF k2
<1>2. \A methods : ~ Succeeded(k2, methods)
  BY <1>1 DEF Succeeded
<1>3. Latest(k2) = k.capability_token
  BY <1>1, <1>2 DEF Latest
<1>4. WellPlaced(k2)
  BY <1>1, <1>2 DEF WellPlaced, Ended
<1>5. ASSUME NEW m \in Messages, Posted(m, k)
      PROVE  Posted(m, k2)
  <2>1. k.waiting # None /\ k.answer = None => k.waiting.method \in given
    OBVIOUS
  <2>2. m.request.method \in k2.unanswered
    BY <1>1, <1>5, <2>1, GivesUp
  <2>3. Latest(k) = None => Latest(k2) = None
    <3>1. CASE Succeeded(k, Opening)
      BY <3>1, NoneIsNoValue DEF Latest, WellPlaced
    <3> QED BY <1>3, <3>1 DEF Latest
  <2> QED BY <1>1, <1>5, <2>2, <2>3 DEF Posted
<1>6. ASSUME Latest(k2) # None
      PROVE  Latest(k) # None /\ Latest(k2).session_id = Latest(k).session_id /\ Agrees(c, k2, s)
  <2>1. k.capability_token # None /\ k.capability_token \in Tokens
    BY <1>3, <1>6 DEF Blocks
  <2>2. CASE Succeeded(k, Opening)
    <3>1. Latest(k) = k.answer.result /\ Latest(k) # None
      BY <2>2, NoneIsNoValue DEF Latest, WellPlaced
    <3>2. Agrees(c, k, s)
      BY <3>1
    <3>3. "intent/amend" \in k2.unanswered
      <4>1. k.waiting # None
        BY <2>2 DEF Succeeded, WellPlaced
      <4>2. k.waiting.method = "intent/amend"
        BY <2>1, <2>2, <4>1 DEF Succeeded, WellPlaced, Opening
      <4>3. phase = "cancelled"
        BY <2>2 DEF Succeeded, Opening, Methods
      <4> QED BY <1>1, <4>1, <4>2, <4>3
    <3>4. Precedes(k.capability_token, Latest(k))
      BY <2>1, <3>2 DEF Agrees
    <3>5. /\ k.capability_token.session_id = Latest(k).session_id
          /\ k.capability_token.tenant_id = Latest(k).tenant_id
          /\ k.capability_token.principal = Latest(k).principal
          /\ k.capability_token.expires_at_ms = Latest(k).expires_at_ms
          /\ Latest(k) \in Tokens
      BY <3>2, <3>4 DEF Precedes, Agrees, Tokens
    <3>6. k.capability_token = Token(k.capability_token.session_id, s.identity,
                                     k.capability_token.generation, s.expires_at_ms)
      BY <2>1, <3>2, <3>5 DEF Agrees, Token, Tokens
    <3>7. Precedes(k.capability_token, k.capability_token)
      BY <2>1, <3>4 DEF Precedes, Tokens
    <3>8. \A methods : Succeeded(k, methods) => k.waiting.method \in methods
      BY DEF Succeeded
    <3>9. /\ s.settlement_result # None =>
               \/ k.settlement_receipt # None
               \/ "intent/seal" \in k.unanswered
      BY <2>2, <3>2, <3>8 DEF Agrees, Opening
    <3>10. /\ 1 <= k.capability_token.generation
           /\ k.capability_token.generation <= s.generation
           /\ k.capability_token.generation <= k.rpc
      BY <2>1, <3>2, <3>4, <3>5 DEF Agrees, Precedes, Tokens, ActiveSessions, SessionsWith, Blocks
    <3> QED BY <1>1, <1>2, <1>3, <2>1, <3>1, <3>2, <3>3, <3>5, <3>6, <3>7, <3>9, <3>10 DEF Agrees
  <2>3. CASE ~ Succeeded(k, Opening)
    <3>1. Latest(k) = k.capability_token
      BY <2>3 DEF Latest
    <3>2. Agrees(c, k, s)
      BY <2>1, <3>1
    <3>3. s.settlement_result # None =>
            k2.settlement_receipt # None \/ "intent/seal" \in k2.unanswered
      <4>1. CASE Succeeded(k, {"intent/seal"})
        <5>1. k.waiting # None /\ k.waiting.method = "intent/seal"
          BY <4>1 DEF Succeeded, WellPlaced
        <5>2. phase = "cancelled"
          BY <4>1 DEF Succeeded, Methods
        <5> QED BY <1>1, <5>1, <5>2
      <4> QED BY <1>1, <3>2, <4>1 DEF Agrees
    <3> QED BY <1>1, <1>2, <1>3, <2>1, <3>1, <3>2, <3>3 DEF Agrees
  <2> QED BY <2>2, <2>3
<1> QED BY <1>1, <1>4, <1>5, <1>6 DEF Continues, k2

(* seal() failed in the end of a block, which sends an abort.              *)
LEMMA AbortsContinues ==
  ASSUME NEW c \in Clients, NEW k \in Blocks, WellPlaced(k), NEW s,
         Latest(k) # None => Agrees(c, k, s),
         k.phase = "sealing", ~ Succeeded(k, Methods),
         NEW given \in SUBSET Methods,
         k.answer = None => k.waiting.method \in given,
         NEW r \in SentRequests, r.method = "intent/abort",
         r.session_id = k.capability_token.session_id,
         r.capability_token = k.capability_token
  PROVE  Continues(c, k, [k EXCEPT !.phase = "aborting", !.rpc = k.rpc + 1,
                                   !.answer = None, !.waiting = r,
                                   !.unanswered = k.unanswered \cup given], s)
<1> DEFINE k2 == [k EXCEPT !.phase = "aborting", !.rpc = k.rpc + 1,
                           !.answer = None, !.waiting = r,
                           !.unanswered = k.unanswered \cup given]
<1>1. /\ k2.phase = "aborting"
      /\ k2.rpc = k.rpc + 1
      /\ k2.waiting = r
      /\ k2.answer = None
      /\ k2.capability_token = k.capability_token
      /\ k2.acknowledged = k.acknowledged
      /\ k2.settlement_receipt = k.settlement_receipt
      /\ k2.abort_receipt = k.abort_receipt
      /\ k2.unanswered = k.unanswered \cup given
      /\ k2 \in Blocks
  <2>1. k.rpc + 1 \in Nat /\ "aborting" \in Phases
    BY BlockFields DEF Phases
  <2> DEFINE n == k.rpc + 1
  <2> HIDE DEF n
  <2>2. [k EXCEPT !.phase = "aborting", !.rpc = n, !.answer = None, !.waiting = r,
                  !.unanswered = k.unanswered \cup given] \in Blocks
    BY <2>1, Zenon DEF Blocks, n
  <2> QED BY <2>2 DEF Blocks, n
<1>2. r # None
  BY NoneIsNotSent
<1> HIDE DEF k2
<1>3. \A methods : ~ Succeeded(k2, methods)
  BY <1>1 DEF Succeeded
<1>4. /\ k.waiting # None /\ k.waiting.method = "intent/seal"
      /\ k.capability_token # None
  BY DEF WellPlaced
<1>5. ~ Succeeded(k, {"intent/seal"}) /\ ~ Succeeded(k, Opening)
  BY DEF Succeeded, Methods, Opening
<1>6. Latest(k2) = k.capability_token /\ Latest(k) = k.capability_token
  BY <1>1, <1>3, <1>5 DEF Latest
<1>7. WellPlaced(k2)
  BY <1>1, <1>2, <1>3, <1>4 DEF WellPlaced, Ended
<1>8. Agrees(c, k2, s)
  BY <1>1, <1>3, <1>4, <1>5, <1>6, BlockFields DEF Agrees, Tokens
<1>9. ASSUME NEW m \in Messages, Posted(m, k)
      PROVE  Posted(m, k2)
  <2>1. m.request.method \in k2.unanswered
    BY <1>1, <1>9, GivesUp
  <2> QED BY <1>1, <1>6, <1>9, <2>1, BlockFields DEF Posted, Messages
<1> QED BY <1>1, <1>6, <1>7, <1>8, <1>9 DEF Continues, k2

(* A token read before one that was read before is one read before.        *)
LEMMA PrecedesTransitively ==
  ASSUME NEW t \in Tokens, NEW u \in Tokens, NEW v \in Tokens, Precedes(t, u), Precedes(u, v)
  PROVE  Precedes(t, v)
  BY DEF Precedes, Tokens

(* The answer was a success, and the block reads it.                       *)
LEMMA ReturnsContinues ==
  ASSUME NEW c \in Clients, client[c] \in Blocks, WellPlaced(client[c]), NEW s,
         Latest(client[c]) # None => Agrees(c, client[c], s),
         client[c].answer # None, client[c].answer.code = "OK"
  PROVE  Continues(c, client[c],
           [Learned(c, client[c].waiting, client[c].answer.result) EXCEPT
              !.phase = PhaseAfter(client[c].phase), !.waiting = None, !.answer = None], s)
<1> DEFINE k == client[c]
           r == k.waiting
           learned == Learned(c, r, k.answer.result)
           k2 == [learned EXCEPT !.phase = PhaseAfter(k.phase), !.waiting = None, !.answer = None]
<1>1. r # None /\ r \in SentRequests /\ r.method \in Methods
  BY SentMethods DEF WellPlaced, Blocks
<1>2. \A methods : Succeeded(k, methods) <=> r.method \in methods
  BY DEF Succeeded
<1>3. k.phase \in {"proposing", "working", "sealing", "aborting"}
  BY <1>1 DEF WellPlaced, Blocks, Phases, Ended
<1>4. PhaseAfter(k.phase) \in {"working", "returned", "raised"} /\ PhaseAfter(k.phase) \in Phases
  BY DEF PhaseAfter, Phases, Ended
<1>5. /\ r.method \in Opening => learned = [k EXCEPT !.capability_token = k.answer.result]
      /\ r.method = "tools/call" => learned = [k EXCEPT !.acknowledged =
            [k.acknowledged EXCEPT ![r.idempotency_key] = k.answer.result]]
      /\ r.method = "intent/seal" => learned = [k EXCEPT !.settlement_receipt = k.answer.result]
      /\ r.method = "intent/abort" => learned = [k EXCEPT !.abort_receipt = k.answer.result]
  BY DEF Learned, Opening
<1>6. r.method = "tools/call" => r.idempotency_key \in ToolKeys
  BY <1>1 DEF WellPlaced
<1>7. \A key \in ToolKeys, v \in Responses :
        [k.acknowledged EXCEPT ![key] = v] \in [ToolKeys -> Responses \cup {None}]
  BY DEF Blocks
<1>8. learned \in Blocks
  <2>1. CASE r.method \in Opening
    <3>1. k.answer.result \in Tokens
      BY <1>2, <2>1 DEF WellPlaced
    <3> QED BY <1>5, <2>1, <3>1 DEF Blocks
  <2>2. CASE r.method = "tools/call"
    <3>1. k.answer.result \in Responses
      BY <1>2, <2>2 DEF WellPlaced
    <3> DEFINE a == [k.acknowledged EXCEPT ![r.idempotency_key] = k.answer.result]
    <3>2. a \in [ToolKeys -> Responses \cup {None}]
      BY <1>6, <1>7, <2>2, <3>1
    <3>3. learned = [k EXCEPT !.acknowledged = a]
      BY <1>5, <2>2
    <3> HIDE DEF a, learned
    <3> QED BY <3>2, <3>3 DEF Blocks
  <2>3. CASE r.method = "intent/seal"
    <3>1. k.answer.result \in SealReceipts
      BY <1>2, <2>3 DEF WellPlaced
    <3> QED BY <1>5, <2>3, <3>1 DEF Blocks
  <2>4. CASE r.method = "intent/abort"
    <3>1. k.answer.result \in AbortReceipts
      BY <1>2, <2>4 DEF WellPlaced
    <3> QED BY <1>5, <2>4, <3>1 DEF Blocks
  <2> QED BY <1>1, <2>1, <2>2, <2>3, <2>4 DEF Methods, Opening
<1> HIDE DEF learned
<1>9. /\ k2.phase = PhaseAfter(k.phase)
      /\ k2.rpc = learned.rpc
      /\ k2.waiting = None
      /\ k2.answer = None
      /\ k2.capability_token = learned.capability_token
      /\ k2.acknowledged = learned.acknowledged
      /\ k2.settlement_receipt = learned.settlement_receipt
      /\ k2.abort_receipt = learned.abort_receipt
      /\ k2.unanswered = learned.unanswered
      /\ k2 \in Blocks
  BY <1>4, <1>8, Zenon DEF Blocks
<1>10. learned.rpc = k.rpc /\ learned.unanswered = k.unanswered
  BY <1>1, <1>5 DEF Blocks, Methods, Opening
<1>11. /\ r.method \in Opening => learned.capability_token = k.answer.result
       /\ r.method \notin Opening => learned.capability_token = k.capability_token
  BY <1>1, <1>5 DEF Blocks, Methods, Opening
<1>12. /\ r.method = "intent/seal" => learned.settlement_receipt = k.answer.result
       /\ r.method # "intent/seal" => learned.settlement_receipt = k.settlement_receipt
  BY <1>1, <1>5 DEF Blocks, Methods, Opening
<1>13. /\ r.method = "intent/abort" => learned.abort_receipt = k.answer.result
       /\ r.method # "intent/abort" => learned.abort_receipt = k.abort_receipt
  BY <1>1, <1>5 DEF Blocks, Methods, Opening
<1>14. /\ r.method = "tools/call" => learned.acknowledged =
            [k.acknowledged EXCEPT ![r.idempotency_key] = k.answer.result]
       /\ r.method # "tools/call" => learned.acknowledged = k.acknowledged
  BY <1>1, <1>5 DEF Blocks, Methods, Opening
<1> HIDE DEF k2
<1>15. \A methods : ~ Succeeded(k2, methods)
  BY <1>9 DEF Succeeded
<1>16. Latest(k2) = learned.capability_token /\ Latest(k) = learned.capability_token
  BY <1>2, <1>9, <1>11, <1>15 DEF Latest
<1>17. learned.capability_token # None /\ learned.capability_token \in Tokens
  <2>1. CASE r.method \in Opening
    BY <1>2, <1>11, <2>1, NoneIsNoValue DEF WellPlaced
  <2>2. CASE r.method \notin Opening
    <3>1. k.capability_token # None
      BY <1>1, <2>2 DEF WellPlaced, Opening
    <3> QED BY <1>11, <2>2, <3>1 DEF Blocks
  <2> QED BY <2>1, <2>2
<1>18. Agrees(c, k, s)
  BY <1>16, <1>17
<1>19. k2.phase = "returned" => k2.settlement_receipt # None
  <2>1. ASSUME k2.phase = "returned" PROVE k.phase = "sealing"
    BY <1>9, <2>1 DEF PhaseAfter
  <2>2. ASSUME k.phase = "sealing" PROVE k2.settlement_receipt # None
    <3>1. r.method = "intent/seal"
      BY <2>2 DEF WellPlaced
    <3>2. k.answer.result \in SealReceipts
      BY <1>2, <3>1 DEF WellPlaced
    <3> QED BY <1>9, <1>12, <3>1, <3>2, NoneIsNoValue
  <2> QED BY <2>1, <2>2
<1>20. WellPlaced(k2)
  BY <1>4, <1>9, <1>15, <1>17, <1>19 DEF WellPlaced, Ended
<1>21. ASSUME NEW m \in Messages, Posted(m, k)
       PROVE  Posted(m, k2)
  <2>1. Latest(k) # None
    BY <1>16, <1>17
  <2>2. m.request.method # "intent/propose" /\ k.capability_token # None
    BY <1>21, <2>1 DEF Posted
  <2>3. k.capability_token \in Tokens /\ Precedes(k.capability_token, Latest(k))
    BY <1>18, <2>2 DEF Agrees, Blocks
  <2>4. m.request.capability_token \in Tokens
    BY <2>2 DEF Messages, SentRequests, CheckedRequests, ProposeRequests
  <2>5. Precedes(m.request.capability_token, k.capability_token)
    BY <1>21, <2>2 DEF Posted
  <2>6. Precedes(m.request.capability_token, k2.capability_token)
    BY <1>9, <1>16, <1>17, <2>3, <2>4, <2>5, PrecedesTransitively
  <2>7. k2.capability_token.session_id = k.capability_token.session_id
    BY <1>9, <1>16, <1>17, <2>3 DEF Precedes, Tokens
  <2>8. m.request.method \in k.unanswered
    BY <1>21 DEF Posted
  <2> QED BY <1>9, <1>10, <1>17, <1>21, <2>2, <2>6, <2>7, <2>8 DEF Posted
<1>22. s.settlement_result # None =>
         k2.settlement_receipt # None \/ "intent/seal" \in k2.unanswered
  <2>1. CASE r.method = "intent/seal"
    <3>1. k.answer.result \in SealReceipts
      BY <1>2, <2>1 DEF WellPlaced
    <3> QED BY <1>9, <1>12, <2>1, <3>1, NoneIsNoValue
  <2>2. CASE r.method # "intent/seal"
    BY <1>2, <1>9, <1>10, <1>12, <1>18, <2>2 DEF Agrees
  <2> QED BY <2>1, <2>2
<1>23. k2.settlement_receipt # None => k2.settlement_receipt = s.settlement_result
  BY <1>2, <1>9, <1>12, <1>18 DEF Agrees
<1>24. k2.abort_receipt # None => k2.abort_receipt = s.abort_result
  BY <1>2, <1>9, <1>13, <1>18 DEF Agrees
<1>25. ASSUME NEW key \in ToolKeys, k2.acknowledged[key] # None
       PROVE  /\ s.tool_results[key] # None
              /\ k2.acknowledged[key] = s.tool_results[key].response
  <2>1. CASE r.method = "tools/call" /\ key = r.idempotency_key
    <3>1. k2.acknowledged[key] = k.answer.result
      BY <1>9, <1>14, <2>1 DEF Blocks
    <3> QED BY <1>2, <1>18, <2>1, <3>1 DEF Agrees
  <2>2. CASE ~ (r.method = "tools/call" /\ key = r.idempotency_key)
    <3>1. k2.acknowledged[key] = k.acknowledged[key]
      BY <1>6, <1>9, <1>14, <2>2 DEF Blocks
    <3> QED BY <1>18, <1>25, <3>1 DEF Agrees
  <2> QED BY <2>1, <2>2
<1>26. Precedes(k2.capability_token, Latest(k2))
  BY <1>9, <1>16, <1>17, <1>18 DEF Agrees, Precedes, Tokens
<1>27. Agrees(c, k2, s)
  <2>1. /\ Latest(k2) = Latest(k)
        /\ k2.rpc = k.rpc
        /\ k2.unanswered = k.unanswered
    BY <1>9, <1>10, <1>16
  <2> QED BY <1>15, <1>18, <1>22, <1>23, <1>24, <1>25, <1>26, <2>1 DEF Agrees
<1> QED BY <1>9, <1>16, <1>17, <1>20, <1>21, <1>27 DEF Continues, k2, learned

(* A step of one client, which may send a message.                         *)
LEMMA ClientMoves ==
  ASSUME ClientsInv, NEW c \in Clients, NEW k2,
         UNCHANGED <<guardVars, serving>>,
         client' = [client EXCEPT ![c] = k2],
         Continues(c, client[c], k2, Record(OwnSession(c))),
         \/ wire' = wire
         \/ \E m \in Messages : /\ wire' = wire \cup {m}
                                /\ m.from = c
                                /\ m.rpc = client[c].rpc + 1
                                /\ Posted(m, k2)
  PROVE  ClientsInv'
<1>1. /\ client \in [Clients -> Blocks]
      /\ wire \subseteq Messages
      /\ serving \in [Workers -> Messages \cup {None}]
      /\ \A d \in Clients : WellPlaced(client[d])
      /\ OnePlace /\ Linked /\ Apart
  BY DEF ClientsInv, HarnessTypeOK
<1>2. /\ client'[c] = k2
      /\ \A d \in Clients : d # c => client'[d] = client[d]
      /\ k2 \in Blocks
      /\ WellPlaced(k2)
  BY <1>1 DEF Continues
<1>3. /\ serving' = serving /\ pending' = pending /\ sessions' = sessions /\ lost' = lost
  BY DEF guardVars, vars, faultVars
<1>4. PICK new \in SUBSET Messages :
        /\ wire' = wire \cup new
        /\ \A m \in new : m.from = c /\ m.rpc = client[c].rpc + 1 /\ Posted(m, k2)
        /\ \A m, n \in new : m = n
  <2>1. CASE wire' = wire
    <3>1. /\ {} \in SUBSET Messages
          /\ wire' = wire \cup {}
          /\ \A m \in {} : m.from = c /\ m.rpc = client[c].rpc + 1 /\ Posted(m, k2)
          /\ \A m, n \in {} : m = n
      BY <2>1
    <3> QED BY <3>1, Zenon
  <2>2. CASE \E m \in Messages : /\ wire' = wire \cup {m}
                                 /\ m.from = c
                                 /\ m.rpc = client[c].rpc + 1
                                 /\ Posted(m, k2)
    <3>1. PICK m \in Messages : /\ wire' = wire \cup {m}
                                /\ m.from = c
                                /\ m.rpc = client[c].rpc + 1
                                /\ Posted(m, k2)
      BY <2>2
    <3>2. /\ {m} \in SUBSET Messages
          /\ wire' = wire \cup {m}
          /\ \A x \in {m} : x.from = c /\ x.rpc = client[c].rpc + 1 /\ Posted(x, k2)
          /\ \A x, y \in {m} : x = y
      BY <3>1
    <3> QED BY <3>2, Zenon
  <2> QED BY <2>1, <2>2
<1>5. HarnessTypeOK'
  <2>1. client' \in [Clients -> Blocks]
    BY <1>1, <1>2
  <2>2. wire' \subseteq Messages
    BY <1>1, <1>4
  <2>3. \A d \in Clients : client'[d].answer # None => client'[d].waiting # None
    BY <1>1, <1>2 DEF WellPlaced
  <2> QED BY <1>1, <1>3, <2>1, <2>2, <2>3 DEF HarnessTypeOK
<1>6. (\A d \in Clients : WellPlaced(client[d]))'
  <2>1. \A d \in Clients : WellPlaced(client'[d])
    BY <1>1, <1>2
  <2> QED BY <2>1
<1>7. \A sid : Record(sid)' = Record(sid)
  BY <1>3 DEF Record
<1>8. (\A d \in Clients : Owns(d) => Agrees(d, client[d], Record(OwnSession(d))))'
  <2> SUFFICES ASSUME NEW d \in Clients, Owns(d)'
               PROVE  Agrees(d, client'[d], Record(OwnSession(d))')
    OBVIOUS
  <2>1. CASE d = c
    <3>1. Latest(k2) # None
      BY <1>2, <2>1 DEF Owns
    <3>2. /\ Latest(k2).session_id = Latest(client[c]).session_id
          /\ Agrees(c, k2, Record(OwnSession(c)))
      BY <3>1 DEF Continues
    <3>3. OwnSession(d)' = OwnSession(c)
      BY <1>2, <2>1, <3>2 DEF OwnSession
    <3>4. Record(OwnSession(d))' = Record(OwnSession(c))
      BY <1>3, <3>3 DEF Record
    <3> QED BY <1>2, <2>1, <3>2, <3>4
  <2>2. CASE d # c
    <3>1. Owns(d) /\ OwnSession(d)' = OwnSession(d)
      BY <1>2, <2>2 DEF Owns, OwnSession
    <3>2. Record(OwnSession(d))' = Record(OwnSession(d))
      BY <1>3, <3>1 DEF Record
    <3> QED BY <1>2, <2>2, <3>1, <3>2 DEF ClientsInv
  <2> QED BY <2>1, <2>2
<1>9. (\A m \in InTransit : Posted(m, client[m.from]))'
  <2> SUFFICES ASSUME NEW m \in InTransit'
               PROVE  Posted(m, client'[m.from])
    OBVIOUS
  <2>1. CASE m \in InTransit
    <3>1. Posted(m, client[m.from]) /\ m \in Messages /\ m.from \in Clients
      <4>1. m \in Messages
        BY <1>1, <2>1 DEF InTransit
      <4> QED BY <2>1, <4>1 DEF ClientsInv, Messages
    <3>2. CASE m.from = c
      BY <1>2, <3>1, <3>2 DEF Continues
    <3>3. CASE m.from # c
      BY <1>2, <3>1, <3>3
    <3> QED BY <3>2, <3>3
  <2>2. CASE m \notin InTransit
    <3>1. m \in new
      BY <1>3, <1>4, <2>2 DEF InTransit
    <3> QED BY <1>2, <1>4, <3>1
  <2> QED BY <2>1, <2>2
<1>10. OnePlace'
  <2>1. ASSUME NEW m \in new, NEW n \in InTransit
        PROVE  ~ Same(m, n) /\ ~ Same(n, m)
    <3>1. n \in Messages
      BY <1>1 DEF InTransit
    <3>2. n.from = c => n.rpc <= client[c].rpc
      BY DEF ClientsInv, Posted
    <3>3. n.rpc \in Nat /\ client[c].rpc \in Nat
      BY <1>1, <3>1, BlockFields DEF Messages
    <3> QED BY <1>4, <3>2, <3>3 DEF Same
  <2>2. ASSUME NEW m \in wire', NEW n \in wire', Same(m, n) PROVE m = n
    <3>1. CASE m \in wire /\ n \in wire
      BY <1>1, <2>2, <3>1 DEF OnePlace
    <3>2. CASE m \in new /\ n \in new
      BY <1>4, <3>2
    <3>3. CASE (m \in new /\ n \in wire) \/ (m \in wire /\ n \in new)
      BY <2>1, <2>2, <3>3 DEF InTransit
    <3> QED BY <1>4, <3>1, <3>2, <3>3
  <2>3. ASSUME NEW m \in wire', NEW w \in Workers, serving[w] # None
        PROVE  ~ Same(m, serving[w])
    <3>1. CASE m \in wire
      BY <1>1, <2>3, <3>1 DEF OnePlace
    <3>2. CASE m \in new
      BY <2>1, <2>3, <3>2 DEF InTransit
    <3> QED BY <1>4, <3>1, <3>2
  <2> QED BY <1>1, <1>3, <2>2, <2>3 DEF OnePlace
<1>11. Linked'
  BY <1>1, <1>3 DEF Linked
<1>12. Apart'
  <2>1. \A d \in Clients : Owns(d)' => Owns(d) /\ OwnSession(d)' = OwnSession(d)
    BY <1>2 DEF Owns, OwnSession, Continues
  <2> QED BY <1>1, <2>1 DEF Apart
<1> QED BY <1>5, <1>6, <1>8, <1>9, <1>10, <1>11, <1>12 DEF ClientsInv

(* The client sends r while it waits for nothing.                          *)
LEMMA SendStep ==
  ASSUME ClientsInv, NEW c \in Clients, NEW phase \in Phases, NEW r \in SentRequests,
         Send(c, phase, r), UNCHANGED <<guardVars, serving>>,
         client[c].waiting = None,
         r.method = "intent/propose" =>
           client[c].phase = "outside" /\ phase = "proposing" /\ r.proposal = Asks[c],
         r.method # "intent/propose" =>
           /\ client[c].phase = "working"
           /\ r.session_id = client[c].capability_token.session_id
           /\ r.capability_token = client[c].capability_token,
         phase \notin {"outside", "returned", "raised", "cancelled"},
         phase = "proposing" => r.method = "intent/propose",
         phase = "sealing" => r.method = "intent/seal",
         phase = "aborting" => r.method = "intent/abort",
         r.method = "tools/call" => r.idempotency_key \in ToolKeys
  PROVE  ClientsInv'
<1> DEFINE k  == client[c]
           k2 == [k EXCEPT !.phase = phase, !.rpc = k.rpc + 1, !.waiting = r, !.answer = None]
           m  == Message(c, r)
           s  == Record(OwnSession(c))
<1>1. /\ client \in [Clients -> Blocks]
      /\ k \in Blocks
      /\ WellPlaced(k)
      /\ Owns(c) => Agrees(c, k, s)
  BY DEF ClientsInv, HarnessTypeOK
<1>2. k.answer = None
  BY <1>1 DEF WellPlaced
<1>3. Latest(k) = k.capability_token
  BY <1>2 DEF Latest, Succeeded
<1>4. Latest(k) # None => Agrees(c, k, s)
  BY <1>1 DEF Owns
<1>5. Continues(c, k, k2, s)
  <2>1. r.method = "intent/propose" => k.unanswered = {}
    BY <1>1 DEF WellPlaced
  <2> HIDE DEF k, s
  <2> QED BY <1>1, <1>4, <2>1, SendsContinues, Zenon DEF k
<1>6. client' = [client EXCEPT ![c] = k2]
  BY <1>1, Zenon DEF Send
<1>7. /\ m.from = c
      /\ m.rpc = k.rpc + 1
      /\ m.request = r
      /\ wire' = wire \cup {m}
  BY DEF Send, Message
<1>8. k.rpc \in Nat
  BY <1>1, BlockFields
<1>9. m \in Messages
  BY <1>8 DEF Message, Messages
<1>10. /\ k2.rpc = k.rpc + 1
       /\ k2.waiting = r
       /\ k2.answer = None
       /\ k2.capability_token = k.capability_token
  BY <1>1 DEF Blocks
<1>11. Latest(k2) = k.capability_token /\ r # None
  BY <1>10, NoneIsNotSent DEF Latest, Succeeded
<1> HIDE DEF k2, m
<1>12. Posted(m, k2)
  <2>1. CASE r.method = "intent/propose"
    <3>1. k.rpc = 0 /\ k.capability_token = None
      BY <1>1, <2>1 DEF WellPlaced
    <3> QED BY <1>7, <1>10, <1>11, <2>1, <3>1 DEF Posted
  <2>2. CASE r.method # "intent/propose"
    <3>1. k.capability_token # None /\ k.capability_token \in Tokens
      BY <1>1, <2>2 DEF WellPlaced, Blocks
    <3>2. /\ 1 <= k.capability_token.generation
          /\ k.capability_token.generation <= k.rpc
          /\ k.capability_token.generation \in Nat
      BY <1>3, <1>4, <3>1 DEF Agrees, Tokens
    <3>3. Precedes(k.capability_token, k.capability_token)
      BY <3>1, <3>2 DEF Precedes, Tokens
    <3> QED BY <1>7, <1>8, <1>10, <1>11, <2>2, <3>1, <3>2, <3>3 DEF Posted
  <2> QED BY <2>1, <2>2
<1> QED BY <1>5, <1>6, <1>7, <1>9, <1>12, ClientMoves, Zenon

(* The token of a workflow, and what it allows the workflow to say.        *)
LEMMA WorkingToken ==
  ASSUME ClientsInv, NEW c \in Clients, Working(c)
  PROVE  LET t == client[c].capability_token IN
         /\ t \in Tokens
         /\ t.session_id \in SessionIds
         /\ client[c].rpc \in Nat
         /\ t.generation \in 1..client[c].rpc
         /\ \E admitted \in Clock : t.expires_at_ms = admitted + Asks[c].ttl_ms
<1> DEFINE k == client[c]
           t == k.capability_token
           s == Record(OwnSession(c))
<1>1. /\ k \in Blocks
      /\ WellPlaced(k)
      /\ Owns(c) => Agrees(c, k, s)
  BY DEF ClientsInv, HarnessTypeOK
<1>2. k.answer = None /\ t # None
  BY <1>1 DEF WellPlaced, Working
<1>3. Latest(k) = t
  BY <1>2 DEF Latest, Succeeded
<1>4. t \in Tokens /\ k.rpc \in Nat
  BY <1>1, <1>2 DEF Blocks
<1>5. Agrees(c, k, s)
  BY <1>1, <1>2, <1>3 DEF Owns
<1>6. t.generation \in 1..k.rpc
  BY <1>3, <1>4, <1>5 DEF Agrees, Tokens
<1>7. t.expires_at_ms = s.expires_at_ms
  BY <1>3, <1>5 DEF Agrees, Token
<1> QED BY <1>4, <1>5, <1>6, <1>7 DEF Agrees, Tokens

(* The first request of a block.                                           *)
LEMMA EnterStep ==
  ASSUME ClientsInv, now \in Clock, NEW c \in Clients, Enter(c)
  PROVE  ClientsInv'
<1> DEFINE r == [method |-> "intent/propose", proposal |-> Asks[c],
                 delegation |-> Mint(c, now + DelegationTtl(c))]
<1>1. client[c] \in Blocks /\ WellPlaced(client[c])
  BY DEF ClientsInv, HarnessTypeOK
<1>2. client[c].phase = "outside" /\ client[c].waiting = None /\ client[c].rpc = 0
  BY <1>1 DEF Enter, WellPlaced
<1>3. 1 \in 1..MaxRpcs
  BY HarnessAssumption
<1>4. Mint(c, now + DelegationTtl(c)) = Delegation(c, now + DelegationTtl(c), 1)
  BY <1>2 DEF Mint
<1>5. Mint(c, now + DelegationTtl(c)) \in Delegations
  BY <1>3, <1>4, HarnessAssumption
<1>6. Asks[c] \in Proposals
  BY HarnessAssumption
<1>7. r \in SentRequests
  BY <1>5, <1>6 DEF SentRequests, CheckedRequests, ProposeRequests
<1>8. /\ r.method = "intent/propose"
      /\ r.proposal = Asks[c]
  OBVIOUS
<1>9. Send(c, "proposing", r) /\ UNCHANGED <<guardVars, serving>>
  BY DEF Enter
<1>10. "proposing" \in Phases
  BY DEF Phases
<1> HIDE DEF r
<1> QED BY <1>2, <1>7, <1>8, <1>9, <1>10, SendStep

(* The requests of a workflow that goes on.                                *)
LEMMA AskStep ==
  ASSUME ClientsInv, NEW c \in Clients, CallTool(c) \/ AmendBudget(c)
  PROVE  ClientsInv'
<1> DEFINE t == client[c].capability_token
<1>1. /\ Working(c)
      /\ client[c].phase = "working"
      /\ client[c].waiting = None
      /\ client[c].rpc < MaxRpcs
      /\ UNCHANGED <<guardVars, serving>>
  BY DEF CallTool, AmendBudget, MayAsk, Working
<1>2. /\ t \in Tokens
      /\ t.session_id \in SessionIds
      /\ client[c].rpc \in Nat
      /\ t.generation \in 1..client[c].rpc
      /\ \E admitted \in Clock : t.expires_at_ms = admitted + Asks[c].ttl_ms
  BY <1>1, WorkingToken
<1>3. t.generation \in 1..MaxRpcs /\ client[c].rpc + 1 \in 1..MaxRpcs
  BY <1>1, <1>2, HarnessAssumption
<1>4. "working" \in Phases
  BY DEF Phases
<1>5. CASE CallTool(c)
  <2>1. PICK key \in ToolKeys, call \in Calls :
          Send(c, "working",
               [method |-> "tools/call", session_id |-> t.session_id,
                capability_token |-> t, generation |-> t.generation,
                idempotency_key |-> key, call |-> call])
    BY <1>5 DEF CallTool
  <2> DEFINE r == [method |-> "tools/call", session_id |-> t.session_id,
                   capability_token |-> t, generation |-> t.generation,
                   idempotency_key |-> key, call |-> call]
  <2>2. t.generation \in Generations /\ key \in Keys
    BY <1>3, HarnessAssumption
  <2>3. r \in SentRequests
    BY <1>2, <2>2 DEF SentRequests
  <2>4. /\ r.method = "tools/call"
        /\ r.session_id = t.session_id
        /\ r.capability_token = t
        /\ r.idempotency_key \in ToolKeys
    OBVIOUS
  <2>5. Send(c, "working", r)
    BY <2>1
  <2> HIDE DEF r
  <2> QED BY <1>1, <1>4, <2>3, <2>4, <2>5, SendStep
<1>6. CASE AmendBudget(c)
  <2>1. PICK additions \in Additions :
          Send(c, "working",
               [method |-> "intent/amend", session_id |-> t.session_id,
                capability_token |-> t, delegation |-> Mint(c, t.expires_at_ms),
                budget_additions |-> additions])
    BY <1>6 DEF AmendBudget
  <2> DEFINE r == [method |-> "intent/amend", session_id |-> t.session_id,
                   capability_token |-> t, delegation |-> Mint(c, t.expires_at_ms),
                   budget_additions |-> additions]
  <2>2. Mint(c, t.expires_at_ms) \in Delegations
    <3>1. PICK admitted \in Clock : t.expires_at_ms = admitted + Asks[c].ttl_ms
      BY <1>2
    <3>2. Delegation(c, admitted + Asks[c].ttl_ms, client[c].rpc + 1) \in Delegations
      BY <1>3, HarnessAssumption
    <3> QED BY <3>1, <3>2 DEF Mint
  <2>3. r \in SentRequests
    BY <1>2, <2>2 DEF SentRequests, CheckedRequests
  <2>4. /\ r.method = "intent/amend"
        /\ r.session_id = t.session_id
        /\ r.capability_token = t
    OBVIOUS
  <2>5. Send(c, "working", r)
    BY <2>1
  <2> HIDE DEF r
  <2> QED BY <1>1, <1>4, <2>3, <2>4, <2>5, SendStep
<1> QED BY <1>5, <1>6

(* What seal() and abort() send is something a client may send.            *)
LEMMA CloseRequestSent ==
  ASSUME NEW c \in Clients, client[c].capability_token \in Tokens,
         NEW method \in {"intent/seal", "intent/abort"},
         NEW key \in ToolKeys \cup {SealKey, AbortKey}
  PROVE  LET r == CloseRequest(c, method, key) IN
         /\ r \in SentRequests
         /\ r.method = method
         /\ r.session_id = client[c].capability_token.session_id
         /\ r.capability_token = client[c].capability_token
<1>1. key \in Keys
  BY HarnessAssumption
<1>2. client[c].capability_token.session_id \in SessionIds
  BY DEF Tokens
<1> QED BY <1>1, <1>2 DEF CloseRequest, SentRequests, CheckedRequests

(* The requests that close a session, early or at the end of the block.    *)
LEMMA CloseStep ==
  ASSUME ClientsInv, NEW c \in Clients, CloseEarly(c) \/ Finish(c) \/ Fail(c)
  PROVE  ClientsInv'
<1> DEFINE t == client[c].capability_token
<1>1. /\ Working(c)
      /\ client[c].phase = "working"
      /\ client[c].waiting = None
      /\ UNCHANGED <<guardVars, serving>>
  BY DEF CloseEarly, Finish, Fail, MayAsk, Working
<1>2. t \in Tokens
  BY <1>1, WorkingToken
<1>3. PICK method \in {"intent/seal", "intent/abort"},
           key \in ToolKeys \cup {SealKey, AbortKey},
           phase \in {"working", "sealing", "aborting"} :
        /\ Send(c, phase, CloseRequest(c, method, key))
        /\ phase = "sealing" => method = "intent/seal"
        /\ phase = "aborting" => method = "intent/abort"
  BY DEF CloseEarly, Finish, Fail
<1> DEFINE r == CloseRequest(c, method, key)
<1>4. /\ r \in SentRequests
      /\ r.method = method
      /\ r.session_id = t.session_id
      /\ r.capability_token = t
  BY <1>2, CloseRequestSent
<1>5. phase \in Phases
  BY DEF Phases
<1>6. Send(c, phase, r)
  BY <1>3
<1> HIDE DEF r
<1> QED BY <1>1, <1>3, <1>4, <1>5, <1>6, SendStep

(* A block is cancelled.                                                   *)
LEMMA CancelStep ==
  ASSUME ClientsInv, NEW c \in Clients, Cancel(c)
  PROVE  ClientsInv'
<1> DEFINE k == client[c]
           s == Record(OwnSession(c))
           given == IF k.waiting = None THEN {} ELSE {k.waiting.method}
           k2 == [k EXCEPT !.phase = "cancelled", !.waiting = None, !.answer = None,
                           !.unanswered = k.unanswered \cup given]
<1>1. /\ client \in [Clients -> Blocks]
      /\ k \in Blocks
      /\ WellPlaced(k)
      /\ Latest(k) # None => Agrees(c, k, s)
  BY DEF ClientsInv, HarnessTypeOK, Owns
<1>2. k.phase \notin {"outside", "returned"}
  BY DEF Cancel, Ended
<1>3. given \in SUBSET Methods
  BY <1>1, SentMethods DEF Blocks
<1>4. k.waiting # None => k.waiting.method \in given
  OBVIOUS
<1>5. client' = [client EXCEPT ![c] = k2] /\ UNCHANGED <<guardVars, wire, serving>>
  <2>1. (IF k.waiting = None THEN k.unanswered ELSE k.unanswered \cup {k.waiting.method})
          = k.unanswered \cup given
    OBVIOUS
  <2>2. client' = [client EXCEPT ![c].phase = "cancelled", ![c].waiting = None,
                                 ![c].answer = None, ![c].unanswered = k.unanswered \cup given]
    BY <2>1, Zenon DEF Cancel
  <2> HIDE DEF given
  <2> QED BY <1>1, <2>2, Zenon DEF Cancel
<1> HIDE DEF given, s, k
<1>6. Continues(c, k, k2, s)
  BY <1>1, <1>2, <1>3, <1>4, EndsContinues, Zenon
<1> HIDE DEF k2
<1> QED BY <1>5, <1>6, ClientMoves, Zenon DEF k, s

(* A block reads a success.                                                *)
LEMMA ReturnsStep ==
  ASSUME ClientsInv, NEW c \in Clients, Returns(c)
  PROVE  ClientsInv'
<1> DEFINE k2 == [Learned(c, client[c].waiting, client[c].answer.result) EXCEPT
                    !.phase = PhaseAfter(client[c].phase), !.waiting = None, !.answer = None]
           s == Record(OwnSession(c))
<1>1. /\ client[c] \in Blocks
      /\ WellPlaced(client[c])
      /\ Latest(client[c]) # None => Agrees(c, client[c], s)
  BY DEF ClientsInv, HarnessTypeOK, Owns
<1>2. /\ client[c].answer # None
      /\ client[c].answer.code = "OK"
      /\ client' = [client EXCEPT ![c] = k2]
      /\ UNCHANGED <<guardVars, wire, serving>>
  BY DEF Returns
<1>3. Continues(c, client[c], k2, s)
  BY <1>1, <1>2, ReturnsContinues, Zenon
<1> HIDE DEF k2
<1> QED BY <1>2, <1>3, ClientMoves, Zenon

(* An awaited request raises, because of a refusal or of a timeout.        *)
LEMMA RaisesStep ==
  ASSUME ClientsInv, NEW c \in Clients, client[c].waiting # None,
         ~ Succeeded(client[c], Methods), NEW given \in SUBSET Methods,
         client[c].answer = None => client[c].waiting.method \in given,
         Raises(c, given), UNCHANGED <<guardVars, serving>>
  PROVE  ClientsInv'
<1> DEFINE k == client[c]
           s == Record(OwnSession(c))
<1>1. /\ client \in [Clients -> Blocks]
      /\ k \in Blocks
      /\ WellPlaced(k)
      /\ Latest(k) # None => Agrees(c, k, s)
  BY DEF ClientsInv, HarnessTypeOK, Owns
<1>2. k.phase \in {"proposing", "working", "sealing", "aborting"}
  BY <1>1 DEF WellPlaced, Blocks, Phases, Ended
<1>3. CASE k.phase # "sealing"
  <2> DEFINE phase == IF k.phase = "working" THEN "working" ELSE "raised"
             k2 == [k EXCEPT !.phase = phase, !.waiting = None, !.answer = None,
                             !.unanswered = k.unanswered \cup given]
  <2>1. client' = [client EXCEPT ![c] = k2] /\ wire' = wire
    BY <1>1, <1>3, Zenon DEF Raises
  <2>2. /\ phase \in {"working", "raised", "cancelled"}
        /\ phase = "working" => k.phase = "working"
        /\ phase # "cancelled"
    OBVIOUS
  <2>3. k.waiting # None /\ ~ Succeeded(k, Methods) /\ k.phase \notin {"outside", "returned"}
    BY <1>2
  <2>4. k.answer = None => k.waiting.method \in given
    OBVIOUS
  <2> HIDE DEF phase, s, k
  <2>5. Continues(c, k, k2, s)
    BY <1>1, <2>2, <2>3, <2>4, EndsContinues, Zenon
  <2> HIDE DEF k2
  <2> QED BY <2>1, <2>5, ClientMoves, Zenon DEF k, s
<1>4. CASE k.phase = "sealing"
  <2> DEFINE r  == CloseRequest(c, "intent/abort", AbortKey)
             k2 == [k EXCEPT !.phase = "aborting", !.rpc = k.rpc + 1, !.answer = None,
                             !.waiting = r, !.unanswered = k.unanswered \cup given]
             m  == Message(c, r)
  <2>1. client' = [client EXCEPT ![c] = k2] /\ wire' = wire \cup {m}
    BY <1>1, <1>4, Zenon DEF Raises
  <2>2. k.capability_token # None /\ k.capability_token \in Tokens
    BY <1>1, <1>4 DEF WellPlaced, Blocks
  <2>3. /\ r \in SentRequests
        /\ r.method = "intent/abort"
        /\ r.session_id = k.capability_token.session_id
        /\ r.capability_token = k.capability_token
    BY <2>2, CloseRequestSent
  <2>4. k.rpc \in Nat
    BY <1>1, BlockFields
  <2>5. /\ m.from = c
        /\ m.rpc = k.rpc + 1
        /\ m.request = r
        /\ m \in Messages
    BY <2>3, <2>4 DEF Message, Messages
  <2>6. /\ k2.rpc = k.rpc + 1
        /\ k2.waiting = r
        /\ k2.answer = None
        /\ k2.capability_token = k.capability_token
    BY <1>1 DEF Blocks
  <2>7. r # None
    BY <2>3, NoneIsNotSent
  <2>8. Latest(k) = k.capability_token
    BY <1>1, <1>4 DEF Latest, Succeeded, Methods, Opening
  <2>9. Agrees(c, k, s)
    BY <1>1, <2>2, <2>8
  <2>10. /\ k.capability_token.generation \in Nat
         /\ 1 <= k.capability_token.generation
         /\ k.capability_token.generation <= k.rpc
    BY <2>2, <2>8, <2>9 DEF Agrees, Tokens
  <2>11. Precedes(k.capability_token, k.capability_token)
    BY <2>2, <2>10 DEF Precedes, Tokens
  <2> HIDE DEF r, m, s, k2
  <2>12. Posted(m, k2)
    BY <2>2, <2>3, <2>4, <2>5, <2>6, <2>7, <2>10, <2>11 DEF Posted
  <2>13. Continues(c, k, k2, s)
    BY <1>1, <1>4, <2>3, AbortsContinues, Zenon DEF k2
  <2> QED BY <2>1, <2>5, <2>12, <2>13, ClientMoves, Zenon DEF s
<1> QED BY <1>3, <1>4

(* An awaited request ends.                                                *)
LEMMA AwaitStep ==
  ASSUME ClientsInv, NEW c \in Clients, Await(c)
  PROVE  ClientsInv'
<1>1. client[c] \in Blocks /\ (client[c].answer # None => client[c].waiting # None)
  BY DEF ClientsInv, HarnessTypeOK
<1>2. CASE Returns(c)
  BY <1>2, ReturnsStep
<1>3. CASE Rejected(c)
  <2>1. {} \in SUBSET Methods
    OBVIOUS
  <2>2. ~ Succeeded(client[c], Methods)
    BY <1>3 DEF Rejected, Succeeded
  <2> QED BY <1>1, <1>3, <2>1, <2>2, RaisesStep DEF Rejected
<1>4. CASE TimesOut(c)
  <2>1. {client[c].waiting.method} \in SUBSET Methods
    BY <1>1, <1>4, SentMethods DEF TimesOut, Blocks
  <2>2. ~ Succeeded(client[c], Methods)
    BY <1>4 DEF TimesOut, Succeeded
  <2> QED BY <1>1, <1>4, <2>1, <2>2, RaisesStep DEF TimesOut
<1> QED BY <1>2, <1>3, <1>4 DEF Await

ClientActs(c) ==
  \/ Enter(c)
  \/ CallTool(c) \/ AmendBudget(c) \/ CloseEarly(c)
  \/ Finish(c) \/ Fail(c) \/ Cancel(c)
  \/ Await(c)

(* A client keeps the invariant by all it does, and leaves the guard alone.*)
LEMMA ClientStep ==
  ASSUME ClientsInv, now \in Clock, NEW c \in Clients, ClientActs(c)
  PROVE  ClientsInv' /\ UNCHANGED guardVars
<1>1. ClientsInv'
  BY EnterStep, AskStep, CloseStep, CancelStep, AwaitStep DEF ClientActs
<1>2. UNCHANGED guardVars
  BY DEF ClientActs, Enter, CallTool, AmendBudget, CloseEarly, Finish, Fail, Cancel, Await,
     Returns, Rejected, TimesOut
<1> QED BY <1>1, <1>2
-----------------------------------------------------------------------------
(* A block hears an answer.                                                *)

(* What no step takes back of a session.                                   *)
Grows(old, new) ==
  /\ new \in ActiveSessions
  /\ old.settlement_result # None => new.settlement_result = old.settlement_result
  /\ old.abort_result # None => new.abort_result = old.abort_result
  /\ \A key \in Keys : old.tool_results[key] # None =>
       new.tool_results[key] = old.tool_results[key]

(* What a client was told holds of a session that changed no more.         *)
LEMMA ToldNothing ==
  ASSUME NEW c \in Clients, NEW k, NEW s, NEW s2 \in ActiveSessions, Agrees(c, k, s),
         SameTold(s, s2)
  PROVE  Agrees(c, k, s2)
  BY DEF Agrees, SameTold

(* A client that gave up on the request that succeeded.                    *)
LEMMA ToldInVain ==
  ASSUME NEW c \in Clients, NEW k \in Blocks, WellPlaced(k), NEW s \in ActiveSessions, NEW s2,
         Agrees(c, k, s), Grows(s, s2),
         NEW r, NEW result, Tells(r, s, s2, result), r.method \in k.unanswered
  PROVE  Agrees(c, k, s2)
<1>1. s.generation \in Nat /\ Latest(k).generation \in Nat
  BY DEF ActiveSessions, SessionsWith, Agrees, Tokens
<1>2. /\ s2.identity = s.identity
      /\ s2.expires_at_ms = s.expires_at_ms
      /\ s2.generation \in {s.generation, s.generation + 1}
  BY DEF Tells
<1>3. Latest(k).generation <= s2.generation
  BY <1>1, <1>2 DEF Agrees
<1>4. Latest(k) = s2.capability_token \/ "intent/amend" \in k.unanswered
  BY DEF Agrees, Tells
<1>5. s2.settlement_result # None =>
        \/ k.settlement_receipt # None
        \/ "intent/seal" \in k.unanswered
        \/ Succeeded(k, {"intent/seal"})
  BY DEF Agrees, Tells
<1>6. /\ k.settlement_receipt # None => k.settlement_receipt = s2.settlement_result
      /\ k.abort_receipt # None => k.abort_receipt = s2.abort_result
  BY DEF Agrees, Grows
<1>7. /\ Succeeded(k, {"intent/seal"}) => k.answer.result = s2.settlement_result
      /\ Succeeded(k, {"intent/abort"}) => k.answer.result = s2.abort_result
  BY NoneIsNoValue DEF Agrees, Grows, WellPlaced
<1>8. ToolKeys \subseteq Keys
  BY HarnessAssumption
<1>9. Succeeded(k, {"tools/call"}) => k.waiting.idempotency_key \in Keys
  BY <1>8 DEF WellPlaced, Succeeded
<1>10. Succeeded(k, {"tools/call"}) =>
         /\ s2.tool_results[k.waiting.idempotency_key] # None
         /\ k.answer.result = s2.tool_results[k.waiting.idempotency_key].response
  BY <1>9 DEF Agrees, Grows
<1>11. \A key \in ToolKeys : k.acknowledged[key] # None =>
         /\ s2.tool_results[key] # None
         /\ k.acknowledged[key] = s2.tool_results[key].response
  BY <1>8 DEF Agrees, Grows
<1>12. s2 \in ActiveSessions
  BY DEF Grows
<1> QED BY <1>2, <1>3, <1>4, <1>5, <1>6, <1>7, <1>10, <1>11, <1>12 DEF Agrees

(* A client that hears an answer, and what it waited for.                  *)
Hears(k, answer) == [k EXCEPT !.answer = answer]

(* An answer changes nothing else of the block that hears it.              *)
LEMMA HearsFields ==
  ASSUME NEW k \in Blocks, NEW a \in Answers, k.waiting # None
  PROVE  LET k2 == Hears(k, a) IN
         /\ k2.phase = k.phase
         /\ k2.rpc = k.rpc
         /\ k2.waiting = k.waiting
         /\ k2.answer = a /\ a # None
         /\ k2.capability_token = k.capability_token
         /\ k2.acknowledged = k.acknowledged
         /\ k2.settlement_receipt = k.settlement_receipt
         /\ k2.abort_receipt = k.abort_receipt
         /\ k2.unanswered = k.unanswered
         /\ k2 \in Blocks
         /\ \A methods : Succeeded(k2, methods) <=> a.code = "OK" /\ k.waiting.method \in methods
  BY NoneIsNotSent DEF Hears, Blocks, Succeeded

(* What it sent before and gave up on is posted as it was.                 *)
LEMMA HearsPosted ==
  ASSUME NEW k \in Blocks, NEW a \in Answers, k.waiting # None, k.answer = None,
         NEW m \in Messages, Posted(m, k), m.rpc # k.rpc,
         m.request.method = "intent/propose" => Latest(Hears(k, a)) = None
  PROVE  Posted(m, Hears(k, a))
<1> DEFINE k2 == Hears(k, a)
<1>1. /\ k2.rpc = k.rpc
      /\ k2.waiting = k.waiting
      /\ k2.capability_token = k.capability_token
      /\ k2.unanswered = k.unanswered
  BY HearsFields
<1> HIDE DEF k2
<1> QED BY <1>1 DEF Posted, k2

(* A refusal tells a client nothing.                                       *)
LEMMA HearsRefusal ==
  ASSUME NEW c \in Clients, NEW k \in Blocks, WellPlaced(k), NEW s,
         NEW a \in Answers, a.code # "OK", k.waiting # None, k.answer = None
  PROVE  LET k2 == Hears(k, a) IN
         /\ WellPlaced(k2)
         /\ Latest(k2) = Latest(k)
         /\ Agrees(c, k, s) => Agrees(c, k2, s)
<1> DEFINE k2 == Hears(k, a)
<1>1. /\ k2.phase = k.phase
      /\ k2.rpc = k.rpc
      /\ k2.waiting = k.waiting
      /\ k2.capability_token = k.capability_token
      /\ k2.acknowledged = k.acknowledged
      /\ k2.settlement_receipt = k.settlement_receipt
      /\ k2.abort_receipt = k.abort_receipt
      /\ k2.unanswered = k.unanswered
      /\ \A methods : ~ Succeeded(k2, methods)
  BY HearsFields
<1>2. \A methods : ~ Succeeded(k, methods)
  BY DEF Succeeded
<1> HIDE DEF k2
<1>3. WellPlaced(k2)
  BY <1>1, <1>2 DEF WellPlaced
<1>4. Latest(k2) = Latest(k)
  BY <1>1, <1>2 DEF Latest
<1>5. Agrees(c, k, s) => Agrees(c, k2, s)
  BY <1>1, <1>2, <1>4 DEF Agrees
<1> QED BY <1>3, <1>4, <1>5 DEF k2

(* A success tells it what is on record by now.                            *)
LEMMA HearsSuccess ==
  ASSUME NEW c \in Clients, NEW k \in Blocks, WellPlaced(k), NEW s \in ActiveSessions, NEW s2,
         k.waiting # None, k.answer = None, k.waiting.method # "intent/propose",
         Agrees(c, k, s), Grows(s, s2),
         k.waiting.capability_token.generation < k.rpc,
         NEW a \in Answers, a.code = "OK", Tells(k.waiting, s, s2, a.result)
  PROVE  LET k2 == Hears(k, a) IN
         /\ WellPlaced(k2)
         /\ Latest(k2).session_id = Latest(k).session_id
         /\ Latest(k2) # None
         /\ Agrees(c, k2, s2)
<1> DEFINE k2 == Hears(k, a)
           r  == k.waiting
<1>1. /\ k2.phase = k.phase
      /\ k2.rpc = k.rpc
      /\ k2.waiting = r
      /\ k2.answer = a
      /\ k2.capability_token = k.capability_token
      /\ k2.acknowledged = k.acknowledged
      /\ k2.settlement_receipt = k.settlement_receipt
      /\ k2.abort_receipt = k.abort_receipt
      /\ k2.unanswered = k.unanswered
      /\ \A methods : Succeeded(k2, methods) <=> r.method \in methods
  BY HearsFields
<1>2. \A methods : ~ Succeeded(k, methods)
  BY DEF Succeeded
<1> HIDE DEF k2
<1>3. Latest(k) = k.capability_token /\ k.capability_token # None
  BY <1>2 DEF Latest, WellPlaced
<1>4. /\ r.capability_token = k.capability_token
      /\ r.session_id = k.capability_token.session_id
  BY DEF WellPlaced
<1>5. /\ s2 \in ActiveSessions
      /\ s2.capability_token \in Tokens
      /\ s.generation \in Nat
      /\ k.capability_token \in Tokens
      /\ k.capability_token.generation \in Nat
      /\ k.rpc \in Nat
  BY <1>3, Zenon DEF Grows, ActiveSessions, SessionsWith, Blocks, Tokens
<1>6. Latest(k2) \in Tokens /\ Latest(k2) # None
  <2>1. CASE r.method \in Opening
    BY <1>1, <1>5, <2>1, NoneIsNoValue DEF Latest, Opening, Tells
  <2>2. CASE r.method \notin Opening
    BY <1>1, <1>3, <1>5, <2>2 DEF Latest
  <2> QED BY <2>1, <2>2
<1>7. a.result \in (CASE r.method = "intent/amend" -> Tokens
                      [] r.method = "tools/call"   -> Responses
                      [] r.method = "intent/seal"  -> SealReceipts
                      [] r.method = "intent/abort" -> AbortReceipts)
  BY <1>5, SentMethods DEF Tells, Blocks, Methods
<1>8. WellPlaced(k2)
  <2>1. r.method = "intent/amend" => a.result \in Tokens
    BY <1>7
  <2>2. r.method = "tools/call" => a.result \in Responses
    BY <1>7
  <2>3. r.method = "intent/seal" => a.result \in SealReceipts
    BY <1>7
  <2>4. r.method = "intent/abort" => a.result \in AbortReceipts
    BY <1>7
  <2>5. r.method \in Opening => r.method = "intent/amend"
    BY DEF Opening
  <2> QED BY <1>1, <2>1, <2>2, <2>3, <2>4, <2>5 DEF WellPlaced
<1>9. /\ s2.identity = s.identity
      /\ s2.expires_at_ms = s.expires_at_ms
  BY DEF Tells
<1>10. /\ Latest(k2) = Token(Latest(k2).session_id, s2.identity, Latest(k2).generation,
                             s2.expires_at_ms)
       /\ Latest(k2).session_id = k.capability_token.session_id
       /\ k.capability_token.generation <= Latest(k2).generation
       /\ Latest(k2).generation <= s2.generation
       /\ Latest(k2).generation <= k.rpc
       /\ Latest(k2) = s2.capability_token \/ "intent/amend" \in k2.unanswered
  <2>1. CASE r.method = "intent/amend"
    <3>1. Latest(k2) = a.result
      BY <1>1, <2>1 DEF Latest, Opening
    <3>2. /\ a.result = Token(r.session_id, s.identity, s.generation + 1, s.expires_at_ms)
          /\ s2.generation = s.generation + 1
          /\ k.capability_token.generation = s.generation
          /\ s2.capability_token = a.result
      BY <1>4, <2>1 DEF Tells
    <3>3. a.result.generation = s.generation + 1 /\ a.result.session_id = r.session_id
      BY <3>2 DEF Token
    <3> QED BY <1>4, <1>5, <1>9, <3>1, <3>2, <3>3
  <2>2. CASE r.method # "intent/amend"
    <3>1. Latest(k2) = k.capability_token
      BY <1>1, <2>2 DEF Latest, Opening
    <3>2. s2.generation = s.generation /\ s2.capability_token = s.capability_token
      BY <2>2 DEF Tells
    <3> QED BY <1>1, <1>3, <1>5, <1>9, <3>1, <3>2 DEF Agrees
  <2> QED BY <2>1, <2>2
<1>11. 1 <= k.capability_token.generation
  BY <1>3 DEF Agrees
<1>12. Precedes(k.capability_token, Latest(k2))
  <2>1. k.capability_token = Token(k.capability_token.session_id, s.identity,
                                   k.capability_token.generation, s.expires_at_ms)
    BY <1>3 DEF Agrees
  <2>2. k.capability_token = [Latest(k2) EXCEPT !.generation = k.capability_token.generation]
    <3> DEFINE t == Latest(k2)
               u == k.capability_token
    <3>1. t = Token(u.session_id, s.identity, t.generation, s.expires_at_ms)
      BY <1>9, <1>10
    <3>2. u = Token(u.session_id, s.identity, u.generation, s.expires_at_ms)
      BY <2>1
    <3> HIDE DEF t, u
    <3>3. u = [t EXCEPT !.generation = u.generation]
      BY <3>1, <3>2 DEF Token
    <3> QED BY <3>3 DEF t, u
  <2> QED BY <1>10, <1>11, <2>2 DEF Precedes
<1>13. s2.settlement_result # None =>
         \/ k2.settlement_receipt # None
         \/ "intent/seal" \in k2.unanswered
         \/ Succeeded(k2, {"intent/seal"})
  BY <1>1, <1>2 DEF Agrees, Tells
<1>14. /\ k2.settlement_receipt # None => k2.settlement_receipt = s2.settlement_result
       /\ k2.abort_receipt # None => k2.abort_receipt = s2.abort_result
  BY <1>1 DEF Agrees, Grows
<1>15. /\ Succeeded(k2, {"intent/seal"}) => k2.answer.result = s2.settlement_result
       /\ Succeeded(k2, {"intent/abort"}) => k2.answer.result = s2.abort_result
       /\ Succeeded(k2, {"tools/call"}) =>
            /\ s2.tool_results[k2.waiting.idempotency_key] # None
            /\ k2.answer.result = s2.tool_results[k2.waiting.idempotency_key].response
  BY <1>1 DEF Tells
<1>16. \A key \in ToolKeys : k2.acknowledged[key] # None =>
         /\ s2.tool_results[key] # None
         /\ k2.acknowledged[key] = s2.tool_results[key].response
  BY <1>1, HarnessAssumption DEF Agrees, Grows
<1>17. 1 <= Latest(k2).generation
  BY <1>5, <1>6, <1>10, <1>11 DEF Tokens
<1>18. \E admitted \in Clock : s2.expires_at_ms = admitted + Asks[c].ttl_ms
  BY <1>9 DEF Agrees
<1>19. Agrees(c, k2, s2)
  BY <1>1, <1>5, <1>6, <1>10, <1>12, <1>13, <1>14, <1>15, <1>16, <1>17, <1>18 DEF Agrees
<1> QED BY <1>3, <1>6, <1>8, <1>10, <1>19 DEF k2

(* The answer to its proposal tells it of a new session.                   *)
LEMMA HearsOfSession ==
  ASSUME NEW c \in Clients, NEW k \in Blocks, WellPlaced(k),
         NEW r \in ProposeRequests, r.proposal = Asks[c], k.waiting = r, r # None,
         k.answer = None, 1 <= k.rpc,
         NEW sid \in SessionIds, NEW t \in Clock,
         NEW a \in Answers, a.code = "OK",
         a.result = NewSession(sid, r, t).capability_token
  PROVE  LET k2 == Hears(k, a) IN
         /\ WellPlaced(k2)
         /\ Latest(k2) # None
         /\ Latest(k2).session_id = sid
         /\ Agrees(c, k2, NewSession(sid, r, t))
<1> DEFINE k2 == Hears(k, a)
           s  == NewSession(sid, r, t)
<1>1. /\ k2.phase = k.phase
      /\ k2.rpc = k.rpc
      /\ k2.waiting = r
      /\ k2.answer = a
      /\ k2.capability_token = k.capability_token
      /\ k2.acknowledged = k.acknowledged
      /\ k2.settlement_receipt = k.settlement_receipt
      /\ k2.abort_receipt = k.abort_receipt
      /\ k2.unanswered = k.unanswered
      /\ k2 \in Blocks
      /\ \A methods : Succeeded(k2, methods) <=> r.method \in methods
  BY HearsFields
<1>2. r.method = "intent/propose"
  BY DEF ProposeRequests
<1>3. /\ k.phase = "proposing"
      /\ k.capability_token = None
      /\ k.settlement_receipt = None
      /\ k.abort_receipt = None
      /\ k.acknowledged = [key \in ToolKeys |-> None]
  BY <1>2 DEF WellPlaced
<1>4. t \in Nat
  BY InputAssumption
<1>5. s \in ActiveSessions /\ s.capability_token \in Tokens
  BY <1>4, NewSessionType DEF ActiveSessions, SessionsWith
<1>6. /\ s.identity = r.proposal.identity
      /\ s.expires_at_ms = t + Asks[c].ttl_ms
      /\ s.generation = 1
      /\ s.capability_token = Token(sid, s.identity, 1, s.expires_at_ms)
      /\ s.settlement_result = None
  BY DEF NewSession
<1> HIDE DEF k2, s
<1>7. Latest(k2) = s.capability_token
  BY <1>1, <1>2 DEF Latest, Opening, s
<1>8. Latest(k2) # None
  BY <1>5, <1>7, NoneIsNoValue
<1>9. Latest(k2).session_id = sid /\ Latest(k2).generation = 1
  BY <1>6, <1>7 DEF Token
<1>10. WellPlaced(k2)
  <2>1. Succeeded(k2, Opening) => k2.answer.result \in Tokens
    BY <1>1, <1>5, <1>7, <1>2 DEF s
  <2>2. /\ ~ Succeeded(k2, {"tools/call"})
        /\ ~ Succeeded(k2, {"intent/seal"})
        /\ ~ Succeeded(k2, {"intent/abort"})
    BY <1>1, <1>2
  <2> QED BY <1>1, <1>2, <1>3, <2>1, <2>2 DEF WellPlaced, Ended
<1>11. Agrees(c, k2, s)
  <2>1. /\ ~ Succeeded(k2, {"tools/call"})
        /\ ~ Succeeded(k2, {"intent/seal"})
        /\ ~ Succeeded(k2, {"intent/abort"})
    BY <1>1, <1>2
  <2>2. \A key \in ToolKeys : k2.acknowledged[key] = None
    BY <1>1, <1>3
  <2>3. /\ k2.capability_token = None
        /\ k2.settlement_receipt = None
        /\ k2.abort_receipt = None
        /\ 1 <= k2.rpc
    BY <1>1, <1>3
  <2>4. Latest(k2) = Token(Latest(k2).session_id, s.identity, Latest(k2).generation,
                           s.expires_at_ms)
    BY <1>6, <1>7, <1>9
  <2>5. Latest(k2).generation <= s.generation /\ 1 <= Latest(k2).generation
        /\ Latest(k2).generation <= k2.rpc
    BY <1>6, <1>9, <2>3
  <2> QED BY <1>5, <1>6, <1>7, <2>1, <2>2, <2>3, <2>4, <2>5 DEF Agrees
<1> QED BY <1>8, <1>9, <1>10, <1>11 DEF k2, s
-----------------------------------------------------------------------------
(* A worker takes a message and is done with it.                           *)

(* How a worker goes on with the request it holds.                         *)
LEMMA ServeCases ==
  ASSUME SessionsSound, NEW w \in Workers, Serve(w)
  PROVE  /\ pending[w] # Idle
         /\ \A v \in Workers : v # w => pending'[v] = pending[v]
         /\ \/ /\ pending'[w] # Idle
               /\ pending'[w].request = pending[w].request
               /\ reply' = NoReply
               /\ sessions' = sessions
            \/ /\ pending'[w] = Idle
               /\ Refuses(w) \/ Fulfils(w) \/ \E sid : Inserts(w, sid)
<1> TypeOK
  BY DEF SessionsSound
<1>1. pending[w] # Idle
  <2>1. pending[w].status = "checked" \/ pending[w].status = "consumed"
    <3>1. CASE \/ InsertSession(w) \/ ConsumeDelegation(w)
               \/ DelegationConsumed(w) \/ UnknownSession(w)
      BY <3>1 DEF InsertSession, ConsumeDelegation, DelegationConsumed, UnknownSession, Checked
    <3>2. CASE \E method : Finds(w, method)
      BY <3>2 DEF Finds, Checked
    <3>3. CASE \/ AmendRejected(w) \/ Amend(w) \/ CallRejected(w) \/ CallExpires(w)
               \/ CallReplayed(w) \/ CallHalfCharged(w) \/ CallStaged(w)
      BY <3>2, <3>3 DEF AmendRejected, Amend, CallRejected, CallExpires, CallReplayed,
         CallHalfCharged, CallStaged, FreshCall, CallAccepted
    <3>4. CASE \/ SealRejected(w) \/ SealReplayed(w) \/ Seal(w)
               \/ AbortRejected(w) \/ AbortReplayed(w) \/ Abort(w)
      BY <3>2, <3>4 DEF SealRejected, SealReplayed, Seal, SealAccepted, AbortRejected,
         AbortReplayed, Abort, AbortAccepted
    <3> QED BY <3>1, <3>3, <3>4 DEF Serve
  <2> QED BY <2>1 DEF Idle
<1>2. CASE ConsumeDelegation(w)
  <2>1. /\ pending' = [pending EXCEPT ![w] = [pending[w] EXCEPT !.status = "consumed"]]
        /\ pending[w] \in InService
        /\ reply' = NoReply
        /\ sessions' = sessions
    BY <1>1, <1>2 DEF ConsumeDelegation, TypeOK
  <2>2. pending'[w] = [pending[w] EXCEPT !.status = "consumed"]
    BY <2>1 DEF TypeOK
  <2>3. pending'[w].status = "consumed" /\ pending'[w].request = pending[w].request
    BY <2>1, <2>2 DEF InService
  <2>4. pending'[w] # Idle
    BY <2>3 DEF Idle
  <2>5. \A v \in Workers : v # w => pending'[v] = pending[v]
    BY <2>1 DEF TypeOK
  <2> QED BY <1>1, <2>1, <2>3, <2>4, <2>5
<1>3. CASE ~ ConsumeDelegation(w)
  <2>1. \E code, result : Answer(w, code, result)
    BY <1>3, Zenon DEF Serve, ConsumeDelegation, DelegationConsumed, InsertSession,
       UnknownSession, AmendRejected, Amend, CallRejected, CallExpires, CallReplayed,
       CallHalfCharged, CallStaged, SealRejected, SealReplayed, Seal, AbortRejected,
       AbortReplayed, Abort, Rejects
  <2>2. /\ pending'[w] = Idle
        /\ \A v \in Workers : v # w => pending'[v] = pending[v]
    BY <2>1 DEF Answer, TypeOK
  <2>3. CASE InsertSession(w)
    <3> DEFINE r == pending[w].request
    <3>1. PICK sid \in SessionIds \ Live :
            /\ sessions' = [sessions EXCEPT ![sid] = NewSession(sid, r, pending[w].now_ms)]
            /\ Answer(w, "OK", NewSession(sid, r, pending[w].now_ms).capability_token)
      BY <2>3, Zenon DEF InsertSession
    <3>2. pending[w] \in InService /\ pending[w].status = "consumed"
      BY <1>1, <2>3 DEF InsertSession, TypeOK
    <3>3. r \in ProposeRequests /\ pending[w].now_ms \in Clock
      BY <3>2 DEF InService
    <3>4. sessions[sid] = None
      BY DEF Live
    <3>5. Inserts(w, sid)
      BY <3>1, <3>3, <3>4 DEF Inserts, Answer
    <3> QED BY <1>1, <2>2, <3>5
  <2>4. CASE \/ DelegationConsumed(w) \/ UnknownSession(w) \/ AmendRejected(w) \/ CallRejected(w)
             \/ CallExpires(w) \/ CallHalfCharged(w) \/ SealRejected(w) \/ AbortRejected(w)
    BY <1>1, <2>2, <2>4, RefusesStep
  <2>5. CASE \/ Amend(w) \/ CallReplayed(w) \/ CallStaged(w)
             \/ SealReplayed(w) \/ Seal(w) \/ AbortReplayed(w) \/ Abort(w)
    BY <1>1, <2>2, <2>5, FulfilsStep
  <2> QED BY <1>3, <2>3, <2>4, <2>5 DEF Serve
<1> QED BY <1>2, <1>3

(* A message names a session that its client was told of and a token that  *)
(* was issued for it.                                                      *)
LEMMA TokensInTransit ==
  ASSUME ClientsInv, NEW m \in InTransit, m.request.method # "intent/propose"
  PROVE  LET sid == m.request.session_id
             t   == m.request.capability_token
         IN  /\ m \in Messages
             /\ Owns(m.from)
             /\ OwnSession(m.from) = sid
             /\ Record(sid) \in ActiveSessions
             /\ t.generation \in 1..Record(sid).generation
             /\ t = Token(sid, Record(sid).identity, t.generation, Record(sid).expires_at_ms)
<1> DEFINE c   == m.from
           k   == client[c]
           sid == m.request.session_id
           t   == m.request.capability_token
           s   == Record(OwnSession(c))
           u   == k.capability_token
<1>1. m \in Messages
  BY DEF InTransit, ClientsInv, HarnessTypeOK
<1>2. c \in Clients /\ m.request \in SentRequests
  BY <1>1 DEF Messages
<1>3. k \in Blocks /\ WellPlaced(k) /\ Posted(m, k)
  BY <1>2 DEF ClientsInv, HarnessTypeOK
<1>4. u # None /\ sid = u.session_id /\ Precedes(t, u) /\ u \in Tokens
  BY <1>3 DEF Posted, Blocks
<1>5. Owns(c)
  <2>1. CASE Succeeded(k, Opening)
    <3>1. Latest(k) \in Tokens
      BY <1>3, <2>1 DEF Latest, WellPlaced
    <3> QED BY <3>1, NoneIsNoValue DEF Owns
  <2>2. CASE ~ Succeeded(k, Opening)
    BY <1>4, <2>2 DEF Latest, Owns
  <2> QED BY <2>1, <2>2
<1>6. Agrees(c, k, s)
  BY <1>2, <1>5 DEF ClientsInv
<1> DEFINE v == Latest(k)
<1>7. v \in Tokens /\ Precedes(u, v) /\ v.session_id = OwnSession(c)
  BY <1>4, <1>6, Zenon DEF Agrees, OwnSession
<1>8. t \in Tokens
  BY <1>2, <1>3 DEF SentRequests, CheckedRequests, ProposeRequests
<1>9. Precedes(t, v)
  BY <1>4, <1>7, <1>8, PrecedesTransitively
<1>10. /\ v = Token(v.session_id, s.identity, v.generation, s.expires_at_ms)
       /\ v.generation <= s.generation
       /\ s \in ActiveSessions
  BY <1>6 DEF Agrees
<1>11. sid = OwnSession(c) /\ s = Record(sid)
  <2>1. u.session_id = v.session_id
    <3> HIDE DEF u, v
    <3> QED BY <1>4, <1>7 DEF Precedes, Tokens
  <2> QED BY <1>4, <1>7, <2>1
<1>12. t.generation \in 1..s.generation
  <2>1. s.generation \in Nat /\ t.generation \in Nat /\ v.generation \in Nat
    BY <1>7, <1>8, <1>10 DEF ActiveSessions, SessionsWith, Tokens
  <2> QED BY <1>9, <1>10, <2>1 DEF Precedes
<1>13. t = Token(sid, s.identity, t.generation, s.expires_at_ms)
  <2>1. v.session_id = sid
    BY <1>7, <1>11
  <2> HIDE DEF v, t, s, sid
  <2>2. t = [v EXCEPT !.generation = t.generation]
    BY <1>9 DEF Precedes
  <2>3. v = Token(sid, s.identity, v.generation, s.expires_at_ms)
    BY <1>10, <2>1
  <2> QED BY <2>2, <2>3 DEF Token
<1> QED BY <1>1, <1>5, <1>10, <1>11, <1>12, <1>13

(* What a worker takes from the network is a request that any client of    *)
(* the session manager might have made.                                    *)
LEMMA PresentedRequests ==
  ASSUME HarnessInv, NEW m \in wire
  PROVE  Presented(m.request) \in Requests
<1> DEFINE r   == m.request
           sid == r.session_id
<1>1. m \in InTransit /\ m \in Messages /\ r \in SentRequests
  BY DEF InTransit, HarnessInv, ClientsInv, HarnessTypeOK, Messages
<1>2. CASE r.method = "intent/propose"
  BY <1>1, <1>2 DEF Presented, SentRequests, CheckedRequests, ProposeRequests, Requests
<1>3. CASE r.method # "intent/propose"
  <2>1. /\ Record(sid) \in ActiveSessions
        /\ r.capability_token.generation \in 1..Record(sid).generation
        /\ r.capability_token = Token(sid, Record(sid).identity, r.capability_token.generation,
                                      Record(sid).expires_at_ms)
    BY <1>1, <1>3, TokensInTransit DEF HarnessInv
  <2>2. sid \in SessionIds
    BY <1>1, <1>3 DEF SentRequests, CheckedRequests, ProposeRequests
  <2>3. lost[sid] = None => r.capability_token \in PresentedTokens
    <3> SUFFICES ASSUME lost[sid] = None PROVE r.capability_token \in PresentedTokens
      OBVIOUS
    <3>1. Record(sid) = sessions[sid]
      BY DEF Record
    <3>2. sid \in Live
      BY <2>1, <2>2, <3>1, NoneIsNoValue DEF Live
    <3>3. r.capability_token = TokenOf(sid, r.capability_token.generation)
      BY <2>1, <3>1 DEF TokenOf
    <3> QED BY <2>1, <3>1, <3>2, <3>3 DEF PresentedTokens, IssuedTokens
  <2>4. None \in PresentedTokens
    BY DEF PresentedTokens
  <2>5. \A t \in PresentedTokens : [r EXCEPT !.capability_token = t] \in Requests
    BY <1>1, <1>3 DEF SentRequests, CheckedRequests, ProposeRequests, Requests,
       AmendRequests, CallRequests, CloseRequests
  <2>6. CASE lost[sid] = None
    <3>1. r = [r EXCEPT !.capability_token = r.capability_token]
      BY <1>1, <1>3 DEF SentRequests, CheckedRequests, ProposeRequests
    <3>2. r \in Requests
      BY <2>3, <2>5, <2>6, <3>1
    <3> QED BY <2>6, <3>2 DEF Presented
  <2>7. CASE lost[sid] # None
    BY <1>3, <2>4, <2>5, <2>7 DEF Presented
  <2> QED BY <2>6, <2>7
<1> QED BY <1>2, <1>3

(* Whatever happens is something that can happen to the session manager.   *)
LEMMA GuardStep ==
  ASSUME HarnessInv, [HarnessNext]_harnessVars
  PROVE  [FaultNext]_<<vars, faultVars>>
<1>1. \A sid \in SessionIds : lost[sid] # None => sessions[sid] = None
  BY DEF HarnessInv, FaultInv, LostForGood
<1>2. now \in Clock
  BY DEF HarnessInv, FaultInv, WorkInv, SessionsSound, TypeOK
<1>3. CASE TimePasses
  BY <1>1, <1>3 DEF TimePasses, Tick, Next, FreshIds, FaultNext
<1>4. CASE GuardRestarts
  BY <1>4 DEF GuardRestarts, FaultNext
<1>5. ASSUME NEW w \in Workers, Take(w)
      PROVE  FaultNext
  <2>1. PICK m \in wire :
          /\ Accept(w, Presented(m.request)) \/ Decline(w, Presented(m.request))
          /\ UNCHANGED faultVars
    BY <1>5 DEF Take
  <2>2. Presented(m.request) \in Requests
    BY PresentedRequests
  <2>3. Receive(w) \/ Refuse(w)
    BY <2>1, <2>2 DEF Receive, Refuse, Accept, Decline
  <2>4. sessions' = sessions
    BY <2>1 DEF Accept, Decline
  <2> QED BY <1>1, <2>1, <2>3, <2>4 DEF Next, FreshIds, FaultNext
<1>6. ASSUME NEW w \in Workers, Process(w)
      PROVE  FaultNext
  BY <1>6 DEF Process, Next, FaultNext
<1>7. ASSUME NEW c \in Clients, ClientActs(c)
      PROVE  UNCHANGED <<vars, faultVars>>
  BY <1>2, <1>7, ClientStep DEF HarnessInv, guardVars
<1>8. CASE UNCHANGED harnessVars
  BY <1>8 DEF harnessVars
<1> QED BY <1>3, <1>4, <1>5, <1>6, <1>7, <1>8 DEF HarnessNext, ClientActs

(* The answer that this step gives.                                        *)
Told == [code   |-> reply'.code,
         result |-> IF reply'.code = "OK" THEN reply'.result ELSE None]

(* Who waits for the answer to m, and who gave up on it.                   *)
LEMMA WaitsFor ==
  ASSUME ClientsInv, NEW m \in InTransit
  PROVE  LET k == client[m.from] IN
         /\ m \in Messages
         /\ m.from \in Clients
         /\ m.request \in SentRequests
         /\ k \in Blocks /\ WellPlaced(k) /\ Posted(m, k)
         /\ Awaits(m) => k.waiting = m.request /\ k.waiting # None /\ k.answer = None
                         /\ k.rpc = m.rpc
         /\ ~ Awaits(m) => m.request.method \in k.unanswered
<1>1. m \in Messages
  BY DEF InTransit, ClientsInv, HarnessTypeOK
<1>2. m.from \in Clients /\ m.request \in SentRequests
  BY <1>1 DEF Messages
<1>3. client[m.from] \in Blocks /\ WellPlaced(client[m.from]) /\ Posted(m, client[m.from])
  BY <1>2 DEF ClientsInv, HarnessTypeOK
<1> QED BY <1>1, <1>2, <1>3 DEF Posted, Awaits

(* Another message of the same client stays posted.                        *)
LEMMA OthersPosted ==
  ASSUME ClientsInv, NEW m \in InTransit, Awaits(m), NEW a \in Answers,
         NEW n \in InTransit, n.from = m.from, ~ Same(n, m)
  PROVE  Posted(n, Hears(client[m.from], a))
<1> DEFINE k == client[m.from]
<1>1. /\ k \in Blocks /\ WellPlaced(k) /\ Posted(m, k)
      /\ k.waiting = m.request /\ k.waiting # None /\ k.answer = None
      /\ k.rpc = m.rpc
  BY WaitsFor
<1>2. n \in Messages /\ Posted(n, k)
  BY WaitsFor
<1>3. n.rpc # k.rpc
  BY <1>1 DEF Same
<1>4. n.request.method # "intent/propose"
  <2> SUFFICES ASSUME n.request.method = "intent/propose" PROVE FALSE
    OBVIOUS
  <2>1. n.rpc = 1 /\ Latest(k) = None
    BY <1>2 DEF Posted
  <2>2. k.capability_token # None
    BY <1>1, <1>3, <2>1 DEF Posted
  <2>3. Latest(k) = k.capability_token
    BY <1>1 DEF Latest, Succeeded
  <2> QED BY <2>1, <2>2, <2>3
<1> HIDE DEF k
<1>5. Posted(n, Hears(k, a))
  BY <1>1, <1>2, <1>3, <1>4, HearsPosted
<1> QED BY <1>5 DEF k

(* A message that was answered is nowhere any more.                        *)
Leaves(m) ==
  /\ wire' \subseteq wire
  /\ serving' \in [Workers -> Messages \cup {None}]
  /\ InTransit' \subseteq InTransit
  /\ \A n \in InTransit' : ~ Same(n, m)
  /\ OnePlace'
  /\ Linked'

(* What is left to show of a step that answers m.                          *)
LEMMA AnswersStep ==
  ASSUME ClientsInv, NEW m \in InTransit, Leaves(m), Told \in Answers,
         client' = IF Awaits(m) THEN [client EXCEPT ![m.from] = Hears(client[m.from], Told)]
                                ELSE client,
         WellPlaced(client'[m.from]),
         \A c \in Clients : Owns(c)' => Agrees(c, client'[c], Record(OwnSession(c))'),
         Apart'
  PROVE  ClientsInv'
<1> DEFINE k == client[m.from]
<1>1. /\ client \in [Clients -> Blocks]
      /\ wire \subseteq Messages
      /\ \A c \in Clients : client[c].answer # None => client[c].waiting # None
      /\ \A c \in Clients : WellPlaced(client[c])
      /\ \A n \in InTransit : Posted(n, client[n.from])
  BY DEF ClientsInv, HarnessTypeOK
<1>2. /\ m.from \in Clients
      /\ Awaits(m) => k.waiting # None /\ k.answer = None
  BY WaitsFor
<1>3. Awaits(m) => /\ Hears(k, Told) \in Blocks
                   /\ Hears(k, Told).waiting = k.waiting
  BY <1>1, <1>2, HearsFields
<1>4. client' \in [Clients -> Blocks]
  BY <1>1, <1>2, <1>3
<1>5. \A c \in Clients : c # m.from => client'[c] = client[c]
  BY <1>1, <1>2
<1>6. client'[m.from] = IF Awaits(m) THEN Hears(k, Told) ELSE k
  BY <1>1, <1>2
<1>7. \A c \in Clients : client'[c].answer # None => client'[c].waiting # None
  BY <1>1, <1>2, <1>3, <1>5, <1>6
<1>8. HarnessTypeOK'
  BY <1>1, <1>4, <1>7 DEF HarnessTypeOK, Leaves
<1>9. \A c \in Clients : WellPlaced(client'[c])
  BY <1>1, <1>5
<1>10. ASSUME NEW n \in InTransit'
       PROVE  Posted(n, client'[n.from])
  <2>1. n \in InTransit /\ ~ Same(n, m) /\ Posted(n, client[n.from])
    BY <1>1 DEF Leaves
  <2>2. CASE n.from # m.from \/ ~ Awaits(m)
    <3>1. n.from \in Clients
      BY <2>1, WaitsFor
    <3> QED BY <1>5, <1>6, <2>1, <2>2, <3>1
  <2>3. CASE n.from = m.from /\ Awaits(m)
    BY <1>6, <2>1, <2>3, OthersPosted
  <2> QED BY <2>2, <2>3
<1> QED BY <1>8, <1>9, <1>10 DEF ClientsInv, Leaves

(* The request that m carries is refused.                                  *)
LEMMA RefusedStep ==
  ASSUME ClientsInv, NEW m \in InTransit, Leaves(m), Respond(m),
         reply'.code \in Codes \ {"OK"},
         \A c \in Clients : Owns(c) =>
           LET s == Record(OwnSession(c)) IN
           \E s2 : /\ s2 = s \/ (s2 \in ActiveSessions /\ SameTold(s, s2))
                   /\ \A sid : sid = OwnSession(c) => Record(sid)' = s2
  PROVE  ClientsInv'
<1> DEFINE k == client[m.from]
<1>1. /\ m.from \in Clients
      /\ k \in Blocks /\ WellPlaced(k)
      /\ Awaits(m) => k.waiting # None /\ k.answer = None
  BY WaitsFor
<1>2. Told \in Answers /\ Told.code # "OK"
  BY DEF Told, Answers
<1>3. reply'.code # "none"
  BY DEF Codes
<1>4. client \in [Clients -> Blocks]
  BY DEF ClientsInv, HarnessTypeOK
<1>5. client' = IF Awaits(m) THEN [client EXCEPT ![m.from] = Hears(k, Told)] ELSE client
  BY <1>1, <1>3, <1>4 DEF Respond, Told, Hears
<1>6. \A c \in Clients : /\ WellPlaced(client'[c])
                         /\ Latest(client'[c]) = Latest(client[c])
                         /\ \A s : Agrees(c, client[c], s) => Agrees(c, client'[c], s)
  <2> SUFFICES ASSUME NEW c \in Clients
               PROVE  /\ WellPlaced(client'[c])
                      /\ Latest(client'[c]) = Latest(client[c])
                      /\ \A s : Agrees(c, client[c], s) => Agrees(c, client'[c], s)
    OBVIOUS
  <2>1. CASE c = m.from /\ Awaits(m)
    <3>1. client'[c] = Hears(k, Told)
      BY <1>4, <1>5, <2>1
    <3> HIDE DEF k
    <3>2. /\ WellPlaced(Hears(k, Told))
          /\ Latest(Hears(k, Told)) = Latest(k)
          /\ \A s : Agrees(c, k, s) => Agrees(c, Hears(k, Told), s)
      BY <1>1, <1>2, <2>1, HearsRefusal
    <3> QED BY <2>1, <3>1, <3>2 DEF k
  <2>2. CASE ~ (c = m.from /\ Awaits(m))
    <3>1. client'[c] = client[c]
      BY <1>4, <1>5, <2>2
    <3> QED BY <3>1 DEF ClientsInv
  <2> QED BY <2>1, <2>2
<1>7. \A c \in Clients : (Owns(c)' <=> Owns(c)) /\ OwnSession(c)' = OwnSession(c)
  BY <1>6 DEF Owns, OwnSession
<1>8. ASSUME NEW c \in Clients, Owns(c)'
      PROVE  Agrees(c, client'[c], Record(OwnSession(c))')
  <2>1. Owns(c)
    BY <1>7, <1>8
  <2>2. Agrees(c, client[c], Record(OwnSession(c)))
    BY <2>1 DEF ClientsInv
  <2>3. PICK s2 : /\ \/ s2 = Record(OwnSession(c))
                     \/ s2 \in ActiveSessions /\ SameTold(Record(OwnSession(c)), s2)
                  /\ \A sid : sid = OwnSession(c) => Record(sid)' = s2
    BY <2>1
  <2>4. Agrees(c, client[c], s2)
    BY <2>2, <2>3, ToldNothing
  <2>5. Record(OwnSession(c))' = s2
    BY <1>7, <2>3 DEF Record
  <2> QED BY <1>6, <2>4, <2>5
<1>9. Apart'
  BY <1>7 DEF Apart, ClientsInv
<1> QED BY <1>1, <1>2, <1>5, <1>6, <1>8, <1>9, AnswersStep

(* A step that changes no client, no session and only moves messages.      *)
LEMMA QuietStep ==
  ASSUME ClientsInv, client' = client,
         \A sid \in SessionIds : Record(sid)' = Record(sid),
         wire' \subseteq wire, serving' \in [Workers -> Messages \cup {None}],
         InTransit' \subseteq InTransit, OnePlace', Linked'
  PROVE  ClientsInv'
<1>1. HarnessTypeOK'
  BY DEF ClientsInv, HarnessTypeOK
<1>2. (\A c \in Clients : WellPlaced(client[c]))'
  <2>1. \A c \in Clients : WellPlaced(client'[c])
    BY DEF ClientsInv
  <2> QED BY <2>1
<1>3. (\A c \in Clients : Owns(c) => Agrees(c, client[c], Record(OwnSession(c))))'
  <2> SUFFICES ASSUME NEW c \in Clients, Owns(c)'
               PROVE  Agrees(c, client'[c], Record(OwnSession(c))')
    OBVIOUS
  <2>1. Owns(c) /\ OwnSession(c)' = OwnSession(c)
    BY DEF Owns, OwnSession
  <2>2. Agrees(c, client[c], Record(OwnSession(c)))
    BY <2>1 DEF ClientsInv
  <2>3. OwnSession(c) \in SessionIds
    BY <2>2 DEF Agrees, OwnSession, Tokens
  <2>4. Record(OwnSession(c))' = Record(OwnSession(c))
    BY <2>1, <2>3 DEF Record
  <2> QED BY <2>2, <2>4
<1>4. (\A m \in InTransit : Posted(m, client[m.from]))'
  <2>1. \A m \in InTransit' : Posted(m, client'[m.from])
    BY DEF ClientsInv
  <2> QED BY <2>1
<1>5. Apart'
  <2>1. \A c \in Clients : (Owns(c)' <=> Owns(c)) /\ OwnSession(c)' = OwnSession(c)
    BY DEF Owns, OwnSession
  <2> QED BY <2>1 DEF ClientsInv, Apart
<1> QED BY <1>1, <1>2, <1>3, <1>4, <1>5 DEF ClientsInv

(* The clock moves on, and a client would not know.                        *)
LEMMA PassesStep ==
  ASSUME ClientsInv, TimePasses
  PROVE  ClientsInv'
<1>1. /\ client' = client /\ wire' = wire /\ serving' = serving
      /\ pending' = pending /\ sessions' = sessions /\ lost' = lost
  BY DEF TimePasses, Tick, faultVars
<1>2. \A sid \in SessionIds : Record(sid)' = Record(sid)
  BY <1>1 DEF Record
<1>3. InTransit' = InTransit /\ OnePlace' /\ Linked'
  BY <1>1 DEF InTransit, OnePlace, Linked, ClientsInv
<1>4. serving' \in [Workers -> Messages \cup {None}]
  BY <1>1 DEF ClientsInv, HarnessTypeOK
<1> QED BY <1>1, <1>2, <1>3, <1>4, QuietStep

(* A restart takes the sessions from the table but not from the record, and*)
(* forgets the messages in service.                                        *)
LEMMA RestartsStep ==
  ASSUME HarnessInv, GuardRestarts
  PROVE  ClientsInv'
<1>1. /\ client' = client /\ wire' = wire
      /\ serving' = [w \in Workers |-> None]
      /\ pending' = [w \in Workers |-> Idle]
      /\ sessions' = [sid \in SessionIds |-> None]
      /\ lost' = [sid \in SessionIds |-> IF sid \in Live THEN sessions[sid] ELSE lost[sid]]
  BY DEF GuardRestarts, Restart
<1>2. ASSUME NEW sid \in SessionIds
      PROVE  Record(sid)' = Record(sid)
  <2>1. lost[sid] # None => sid \notin Live
    BY DEF HarnessInv, FaultInv, LostForGood, Live
  <2> QED BY <1>1, <1>2, <2>1 DEF Record, Live
<1>3. InTransit' \subseteq InTransit
  BY <1>1 DEF InTransit
<1>4. OnePlace' /\ Linked'
  BY <1>1 DEF OnePlace, Linked, HarnessInv, ClientsInv
<1>5. serving' \in [Workers -> Messages \cup {None}]
  BY <1>1
<1> QED BY <1>1, <1>2, <1>3, <1>4, <1>5, QuietStep DEF HarnessInv

(* A worker takes a message: it accepts it and says nothing, or refuses it.*)
LEMMA TakeStep ==
  ASSUME HarnessInv, NEW w \in Workers, Take(w)
  PROVE  ClientsInv'
<1>1. PICK m \in wire :
        /\ wire' = wire \ {m}
        /\ Accept(w, Presented(m.request)) \/ Decline(w, Presented(m.request))
        /\ serving' = IF pending'[w] = Idle THEN serving ELSE [serving EXCEPT ![w] = m]
        /\ Respond(m)
        /\ UNCHANGED faultVars
  BY DEF Take
<1> DEFINE r == m.request
           p == Presented(r)
<1>2. ClientsInv /\ TypeOK
  BY DEF HarnessInv, FaultInv, WorkInv, SessionsSound
<1>3. /\ serving \in [Workers -> Messages \cup {None}]
      /\ wire \subseteq Messages
      /\ OnePlace /\ Linked
  BY <1>2 DEF ClientsInv, HarnessTypeOK
<1>4. pending[w] = Idle /\ serving[w] = None /\ sessions' = sessions /\ lost' = lost
  BY <1>1, <1>3 DEF Accept, Decline, Linked, faultVars
<1>5. m \in InTransit /\ m \in Messages /\ r \in SentRequests
  BY <1>3 DEF InTransit, Messages
<1>6. \A sid : Record(sid)' = Record(sid)
  BY <1>4 DEF Record
<1>7. CASE Accept(w, p)
  <2>1. p = r
    <3>1. CASE r.method # "intent/propose" /\ lost[r.session_id] # None
      <4>1. p = [r EXCEPT !.capability_token = None]
        BY <3>1 DEF Presented
      <4>2. p.method = r.method /\ p.capability_token = None
        BY <1>5, <3>1, <4>1 DEF SentRequests, CheckedRequests, ProposeRequests
      <4>3. AmendPrecheck(p) # "OK" /\ ClosePrecheck(p) # "OK" /\ CallPrecheck(p) # "OK"
        BY <4>2 DEF CallPrecheck, ClosePrecheck, AmendPrecheck
      <4>4. Precheck(p, now) # "OK"
        BY <3>1, <4>2, <4>3 DEF Precheck
      <4> QED BY <1>7, <4>4 DEF Accept
    <3>2. CASE ~ (r.method # "intent/propose" /\ lost[r.session_id] # None)
      BY <3>2 DEF Presented
    <3> QED BY <3>1, <3>2
  <2>2. /\ pending' = [pending EXCEPT ![w] =
                        [status |-> "checked", request |-> r, now_ms |-> now]]
        /\ reply' = NoReply
    BY <1>7, <2>1 DEF Accept
  <2>3. pending'[w] = [status |-> "checked", request |-> r, now_ms |-> now]
    BY <1>2, <2>2 DEF TypeOK
  <2>4. pending'[w] # Idle /\ pending'[w].request = r
    <3>1. pending'[w].status = "checked"
      BY <2>3
    <3> QED BY <2>3, <3>1 DEF Idle
  <2>5. serving' = [serving EXCEPT ![w] = m] /\ client' = client
    BY <1>1, <2>2, <2>4 DEF Respond, NoReply
  <2>6. /\ \A v \in Workers : v # w => pending'[v] = pending[v] /\ serving'[v] = serving[v]
        /\ serving'[w] = m
        /\ serving' \in [Workers -> Messages \cup {None}]
    BY <1>2, <1>3, <1>5, <2>2, <2>5 DEF TypeOK
  <2>7. m # None
    BY <1>5, NoneIsNotSent
  <2>8. Linked'
    BY <1>3, <2>4, <2>6, <2>7 DEF Linked
  <2>9. OnePlace'
    <3>1. \A n \in wire' : n \in wire /\ ~ Same(n, m)
      BY <1>1, <1>3 DEF OnePlace
    <3>2. \A v \in Workers : v # w /\ serving[v] # None =>
            ~ Same(m, serving[v]) /\ ~ Same(serving[v], m)
      BY <1>3 DEF OnePlace, Same
    <3> QED BY <1>3, <2>6, <3>1, <3>2 DEF OnePlace
  <2>10. InTransit' \subseteq InTransit
    <3> SUFFICES ASSUME NEW n \in InTransit' PROVE n \in InTransit
      OBVIOUS
    <3>1. CASE n \in wire'
      BY <1>1, <3>1 DEF InTransit
    <3>2. CASE n \notin wire'
      <4>1. PICK v \in Workers : serving'[v] # None /\ n = serving'[v]
        BY <3>2 DEF InTransit
      <4> QED BY <1>5, <2>6, <4>1 DEF InTransit
    <3> QED BY <3>1, <3>2
  <2> QED BY <1>1, <1>2, <1>6, <2>5, <2>6, <2>8, <2>9, <2>10, QuietStep
<1>8. CASE Decline(w, p)
  <2>1. pending' = pending /\ reply' = [to |-> w, code |-> Precheck(p, now)]
        /\ Precheck(p, now) # "OK"
    BY <1>8 DEF Decline
  <2>2. reply'.code \in Codes \ {"OK"}
    BY <2>1, CodesAreKnown
  <2>3. serving' = serving
    BY <1>1, <1>4, <2>1
  <2>4. \A n \in wire' : n \in wire /\ ~ Same(n, m)
    BY <1>1, <1>3 DEF OnePlace
  <2>5. \A v \in Workers : serving[v] # None => ~ Same(serving[v], m)
    BY <1>3 DEF OnePlace, Same
  <2>6. InTransit' \subseteq InTransit /\ \A n \in InTransit' : ~ Same(n, m)
    BY <2>3, <2>4, <2>5 DEF InTransit
  <2>7. OnePlace' /\ Linked'
    BY <1>3, <2>1, <2>3, <2>4 DEF OnePlace, Linked
  <2>8. Leaves(m)
    BY <1>3, <2>3, <2>4, <2>6, <2>7 DEF Leaves
  <2>9. \A c \in Clients : Owns(c) =>
          LET s == Record(OwnSession(c)) IN
          \E s2 : /\ s2 = s \/ (s2 \in ActiveSessions /\ SameTold(s, s2))
                  /\ \A sid : sid = OwnSession(c) => Record(sid)' = s2
    BY <1>6
  <2> QED BY <1>1, <1>2, <1>5, <2>2, <2>8, <2>9, RefusedStep
<1> QED BY <1>1, <1>7, <1>8

(* A worker is done with its message.                                      *)
LEMMA DoneLeaves ==
  ASSUME ClientsInv, NEW w \in Workers, serving[w] # None,
         wire' = wire, serving' = [serving EXCEPT ![w] = None],
         pending'[w] = Idle, \A v \in Workers : v # w => pending'[v] = pending[v]
  PROVE  Leaves(serving[w])
<1> DEFINE m == serving[w]
<1>1. /\ serving \in [Workers -> Messages \cup {None}]
      /\ OnePlace /\ Linked
  BY DEF ClientsInv, HarnessTypeOK
<1>2. /\ serving'[w] = None
      /\ \A v \in Workers : v # w => serving'[v] = serving[v]
      /\ serving' \in [Workers -> Messages \cup {None}]
  BY <1>1
<1>3. \A n \in wire : ~ Same(n, m)
  BY <1>1 DEF OnePlace, Same
<1>4. \A v \in Workers : v # w /\ serving[v] # None => ~ Same(serving[v], m)
  BY <1>1 DEF OnePlace, Same
<1>5. InTransit' \subseteq InTransit
  BY <1>2 DEF InTransit
<1>6. \A n \in InTransit' : ~ Same(n, m)
  <2> SUFFICES ASSUME NEW n \in InTransit' PROVE ~ Same(n, m)
    OBVIOUS
  <2>1. n \in wire \/ \E v \in Workers : v # w /\ serving[v] # None /\ n = serving[v]
    BY <1>2 DEF InTransit
  <2> QED BY <1>3, <1>4, <2>1
<1>7. OnePlace'
  BY <1>1, <1>2 DEF OnePlace
<1>8. Linked'
  BY <1>1, <1>2 DEF Linked
<1> QED BY <1>2, <1>5, <1>6, <1>7, <1>8 DEF Leaves

(* A worker refuses the request it holds.                                  *)
LEMMA ProcessRefuses ==
  ASSUME HarnessInv, NEW w \in Workers, Process(w),
         NEW m \in InTransit, serving[w] = m, Leaves(m), Refuses(w)
  PROVE  ClientsInv'
<1>1. ClientsInv /\ SessionsSound
  BY DEF HarnessInv, FaultInv, WorkInv
<1>2. lost' = lost /\ Respond(m)
  BY DEF Process, faultVars
<1>3. PICK code \in Codes \ {"OK"} : reply' = [to |-> w, code |-> code]
  BY DEF Refuses
<1>4. reply'.code \in Codes \ {"OK"}
  BY <1>3
<1>5. \A sid \in SessionIds :
        \/ Record(sid)' = Record(sid)
        \/ Record(sid)' \in ActiveSessions /\ SameTold(Record(sid), Record(sid)')
  <2> SUFFICES ASSUME NEW sid \in SessionIds
               PROVE  \/ Record(sid)' = Record(sid)
                      \/ Record(sid)' \in ActiveSessions /\ SameTold(Record(sid), Record(sid)')
    OBVIOUS
  <2>1. CASE sessions'[sid] = sessions[sid]
    BY <1>2, <2>1 DEF Record
  <2>2. CASE /\ sid \in Live
             /\ sessions'[sid] \in ActiveSessions
             /\ SameTold(sessions[sid], sessions'[sid])
    <3>1. lost[sid] = None
      BY <2>2 DEF Live, HarnessInv, FaultInv, LostForGood
    <3>2. Record(sid) = sessions[sid] /\ Record(sid)' = sessions'[sid]
      BY <1>2, <3>1 DEF Record
    <3> QED BY <2>2, <3>2
  <2> QED BY <2>1, <2>2 DEF Refuses
<1>6. \A c \in Clients : Owns(c) => OwnSession(c) \in SessionIds
  BY <1>1 DEF ClientsInv, Agrees, OwnSession, Tokens
<1>7. \A c \in Clients : Owns(c) =>
        LET s == Record(OwnSession(c)) IN
        \E s2 : /\ s2 = s \/ (s2 \in ActiveSessions /\ SameTold(s, s2))
                /\ \A sid : sid = OwnSession(c) => Record(sid)' = s2
  BY <1>5, <1>6
<1> QED BY <1>1, <1>2, <1>4, <1>7, RefusedStep

(* A worker serves a request for a session that is there.                  *)
LEMMA ProcessFulfils ==
  ASSUME HarnessInv, NEW w \in Workers, Process(w),
         NEW m \in InTransit, serving[w] = m, Leaves(m), pending[w].request = m.request,
         Fulfils(w)
  PROVE  ClientsInv'
<1> DEFINE r   == m.request
           c   == m.from
           k   == client[c]
           sid == r.session_id
           s   == sessions[sid]
           s2  == sessions'[sid]
<1>1. ClientsInv /\ SessionsSound /\ TypeOK
  BY DEF HarnessInv, FaultInv, WorkInv, SessionsSound
<1>2. lost' = lost /\ Respond(m) /\ Serve(w)
  BY DEF Process, faultVars
<1>3. /\ r.method # "intent/propose"
      /\ sid \in Live
      /\ sessions' = [sessions EXCEPT ![sid] = s2]
      /\ s2 \in ActiveSessions
      /\ \E result : /\ reply' = [to |-> w, code |-> "OK", result |-> result]
                     /\ Tells(r, s, s2, result)
  BY DEF Fulfils
<1>4. PICK result : /\ reply' = [to |-> w, code |-> "OK", result |-> result]
                    /\ Tells(r, s, s2, result)
  BY <1>3
<1>5. lost[sid] = None /\ sid \in SessionIds /\ s \in ActiveSessions
  BY <1>1, <1>3 DEF Live, HarnessInv, FaultInv, LostForGood, TypeOK
<1>6. Record(sid) = s /\ Record(sid)' = s2
  BY <1>2, <1>5 DEF Record
<1>7. \A x \in SessionIds : x # sid => Record(x)' = Record(x)
  <2>1. \A x \in SessionIds : x # sid => sessions'[x] = sessions[x]
    BY <1>1, <1>3 DEF TypeOK
  <2> QED BY <1>2, <2>1 DEF Record
<1>8. /\ m \in Messages /\ c \in Clients /\ r \in SentRequests
      /\ k \in Blocks /\ WellPlaced(k) /\ Posted(m, k)
      /\ Awaits(m) => k.waiting = r /\ k.waiting # None /\ k.answer = None /\ k.rpc = m.rpc
      /\ ~ Awaits(m) => r.method \in k.unanswered
  BY <1>1, WaitsFor
<1>9. Owns(c) /\ OwnSession(c) = sid
  BY <1>1, <1>3, TokensInTransit
<1>10. Agrees(c, k, s)
  BY <1>1, <1>6, <1>8, <1>9 DEF ClientsInv
<1>11. Grows(s, s2)
  <2>1. StaysClosed
    BY <1>1, <1>2, StaysClosedStep DEF Next
  <2>2. /\ s.settlement_result # None => s2.settlement_result = s.settlement_result
        /\ s.abort_result # None => s2.abort_result = s.abort_result
        /\ \A key \in UsedKeys(s) : s2.tool_results[key] = s.tool_results[key]
    BY <1>3, <2>1 DEF StaysClosed
  <2> QED BY <1>3, <2>2 DEF Grows, UsedKeys
<1>12. Told.code = "OK" /\ Told.result = result
  BY <1>4 DEF Told
<1>13. Told \in Answers
  <2>1. r.method \in Methods
    BY <1>8, SentMethods
  <2>2. s2.capability_token \in Tokens
    BY <1>3 DEF ActiveSessions, SessionsWith
  <2>3. result \in Tokens \cup Responses \cup SealReceipts \cup AbortReceipts
    BY <1>3, <1>4, <2>1, <2>2 DEF Tells, Methods
  <2>4. Told = [code |-> "OK", result |-> result]
    BY <1>4 DEF Told
  <2> QED BY <2>3, <2>4 DEF Answers, Codes
<1>14. client \in [Clients -> Blocks]
  BY <1>1 DEF ClientsInv, HarnessTypeOK
<1>15. client' = IF Awaits(m) THEN [client EXCEPT ![c] = Hears(k, Told)] ELSE client
  BY <1>2, <1>4, <1>14 DEF Respond, Told, Hears
<1>16. /\ WellPlaced(client'[c])
       /\ Latest(client'[c]) # None
       /\ Latest(client'[c]).session_id = sid
       /\ Agrees(c, client'[c], s2)
  <2>1. CASE Awaits(m)
    <3>1. client'[c] = Hears(k, Told)
      BY <1>8, <1>14, <1>15, <2>1
    <3>2. k.waiting.capability_token.generation < k.rpc
      BY <1>3, <1>8, <2>1 DEF Posted
    <3>3. k.waiting.method # "intent/propose" /\ Tells(k.waiting, s, s2, Told.result)
      BY <1>3, <1>4, <1>8, <1>12, <2>1
    <3>4. Latest(k).session_id = sid
      BY <1>9 DEF OwnSession
    <3> HIDE DEF k, s, s2, sid, r
    <3>5. /\ WellPlaced(Hears(k, Told))
          /\ Latest(Hears(k, Told)).session_id = Latest(k).session_id
          /\ Latest(Hears(k, Told)) # None
          /\ Agrees(c, Hears(k, Told), s2)
      BY <1>5, <1>8, <1>10, <1>11, <1>12, <1>13, <2>1, <3>2, <3>3, HearsSuccess
    <3> QED BY <3>1, <3>4, <3>5
  <2>2. CASE ~ Awaits(m)
    <3>1. client'[c] = k
      BY <1>15, <2>2
    <3>2. Latest(k) # None /\ Latest(k).session_id = sid
      BY <1>9 DEF Owns, OwnSession
    <3>3. Agrees(c, k, s2)
      <4> HIDE DEF k, s, s2, r
      <4> QED BY <1>3, <1>4, <1>5, <1>8, <1>10, <1>11, <2>2, ToldInVain
    <3> QED BY <1>8, <3>1, <3>2, <3>3
  <2> QED BY <2>1, <2>2
<1>17. \A d \in Clients : d # c => client'[d] = client[d]
  BY <1>14, <1>15
<1>18. \A d \in Clients : (Owns(d)' <=> Owns(d)) /\ (Owns(d) => OwnSession(d)' = OwnSession(d))
  BY <1>9, <1>16, <1>17 DEF Owns, OwnSession
<1>19. Apart'
  BY <1>1, <1>18 DEF Apart, ClientsInv
<1>20. ASSUME NEW d \in Clients, Owns(d)'
       PROVE  Agrees(d, client'[d], Record(OwnSession(d))')
  <2>1. CASE d = c
    <3>1. OwnSession(d)' = sid
      BY <1>16, <2>1 DEF OwnSession
    <3>2. Record(OwnSession(d))' = s2
      BY <1>6, <3>1 DEF Record
    <3> QED BY <1>16, <2>1, <3>2
  <2>2. CASE d # c
    <3>1. Owns(d) /\ OwnSession(d)' = OwnSession(d)
      BY <1>18, <1>20
    <3>2. Agrees(d, client[d], Record(OwnSession(d)))
      BY <1>1, <3>1 DEF ClientsInv
    <3>3. OwnSession(d) # sid
      BY <1>1, <1>8, <1>9, <2>2, <3>1 DEF ClientsInv, Apart
    <3>4. OwnSession(d) \in SessionIds
      BY <3>2 DEF Agrees, OwnSession, Tokens
    <3>5. Record(OwnSession(d))' = Record(OwnSession(d))
      BY <1>7, <3>1, <3>3, <3>4 DEF Record
    <3> QED BY <1>17, <2>2, <3>2, <3>5
  <2> QED BY <2>1, <2>2
<1> QED BY <1>1, <1>13, <1>15, <1>16, <1>19, <1>20, AnswersStep

(* A worker admits a session, which no client was told of yet.             *)
LEMMA ProcessInserts ==
  ASSUME HarnessInv, NEW w \in Workers, Process(w),
         NEW m \in InTransit, serving[w] = m, Leaves(m), pending[w].request = m.request,
         NEW sid, Inserts(w, sid)
  PROVE  ClientsInv'
<1> DEFINE r == m.request
           c == m.from
           k == client[c]
           t == pending[w].now_ms
           s == NewSession(sid, r, t)
<1>1. ClientsInv /\ SessionsSound /\ TypeOK
  BY DEF HarnessInv, FaultInv, WorkInv, SessionsSound
<1>2. lost' = lost /\ Respond(m) /\ FreshIds
  BY DEF Process, faultVars
<1>3. /\ r \in ProposeRequests
      /\ t \in Clock
      /\ sid \in SessionIds
      /\ sessions[sid] = None
      /\ sessions' = [sessions EXCEPT ![sid] = s]
      /\ reply' = [to |-> w, code |-> "OK", result |-> s.capability_token]
  BY DEF Inserts
<1>4. s \in ActiveSessions /\ s # None /\ s.capability_token \in Tokens
  <2>1. t \in Nat
    BY <1>3, InputAssumption, Zenon
  <2>2. s \in ActiveSessions
    BY <1>3, <2>1, NewSessionType
  <2> HIDE DEF s
  <2> QED BY <2>2, NoneIsNoValue DEF ActiveSessions, SessionsWith
<1> HIDE DEF s
<1>5. sessions'[sid] = s
  BY <1>1, <1>3 DEF TypeOK
<1>6. lost[sid] = None
  BY <1>2, <1>3, <1>4, <1>5 DEF FreshIds
<1>7. Record(sid) = None /\ Record(sid)' = s
  BY <1>2, <1>3, <1>5, <1>6 DEF Record
<1>8. \A x \in SessionIds : x # sid => Record(x)' = Record(x)
  <2>1. \A x \in SessionIds : x # sid => sessions'[x] = sessions[x]
    BY <1>1, <1>3 DEF TypeOK
  <2> QED BY <1>2, <2>1 DEF Record
<1>9. /\ m \in Messages /\ c \in Clients /\ r \in SentRequests
      /\ k \in Blocks /\ WellPlaced(k) /\ Posted(m, k)
      /\ Awaits(m) => k.waiting = r /\ k.waiting # None /\ k.answer = None /\ k.rpc = m.rpc
  BY <1>1, WaitsFor
<1>10. r.method = "intent/propose"
  BY <1>3 DEF ProposeRequests
<1>11. ~ Owns(c) /\ r.proposal = Asks[c] /\ m.rpc = 1
  BY <1>9, <1>10 DEF Posted, Owns
<1>12. \A d \in Clients : Owns(d) =>
         /\ Agrees(d, client[d], Record(OwnSession(d)))
         /\ OwnSession(d) \in SessionIds
         /\ OwnSession(d) # sid
  <2> SUFFICES ASSUME NEW d \in Clients, Owns(d)
               PROVE  /\ Agrees(d, client[d], Record(OwnSession(d)))
                      /\ OwnSession(d) \in SessionIds
                      /\ OwnSession(d) # sid
    OBVIOUS
  <2>1. Agrees(d, client[d], Record(OwnSession(d)))
    BY <1>1 DEF ClientsInv
  <2>2. OwnSession(d) \in SessionIds
    BY <2>1 DEF Agrees, OwnSession, Tokens
  <2>3. Record(OwnSession(d)) # None
    BY <2>1, NoneIsNoValue DEF Agrees
  <2> QED BY <1>7, <2>1, <2>2, <2>3
<1>13. Told = [code |-> "OK", result |-> s.capability_token]
  BY <1>3 DEF Told
<1>14. Told \in Answers
  BY <1>4, <1>13 DEF Answers, Codes
<1>15. client \in [Clients -> Blocks]
  BY <1>1 DEF ClientsInv, HarnessTypeOK
<1>16. client' = IF Awaits(m) THEN [client EXCEPT ![c] = Hears(k, Told)] ELSE client
  BY <1>2, <1>3, <1>15 DEF Respond, Told, Hears
<1>17. /\ WellPlaced(client'[c])
       /\ Owns(c)' => /\ OwnSession(c)' = sid
                      /\ Agrees(c, client'[c], s)
  <2>1. CASE Awaits(m)
    <3>1. client'[c] = Hears(k, Told)
      BY <1>9, <1>15, <1>16, <2>1
    <3>2. Told.code = "OK" /\ Told.result = s.capability_token
      BY <1>13
    <3>3. k.waiting = r /\ r # None /\ k.answer = None /\ 1 <= k.rpc
      BY <1>9, <1>11, <2>1
    <3> HIDE DEF k, r, t
    <3>4. /\ WellPlaced(Hears(k, Told))
          /\ Latest(Hears(k, Told)).session_id = sid
          /\ Agrees(c, Hears(k, Told), s)
      BY <1>3, <1>9, <1>11, <1>14, <3>2, <3>3, HearsOfSession DEF s
    <3> QED BY <3>1, <3>4 DEF Owns, OwnSession
  <2>2. CASE ~ Awaits(m)
    <3>1. client'[c] = k
      BY <1>16, <2>2
    <3> QED BY <1>9, <1>11, <3>1 DEF Owns
  <2> QED BY <2>1, <2>2
<1>18. \A d \in Clients : d # c => /\ client'[d] = client[d]
                                   /\ Owns(d)' <=> Owns(d)
                                   /\ OwnSession(d)' = OwnSession(d)
  BY <1>15, <1>16 DEF Owns, OwnSession
<1>19. Apart'
  <2> SUFFICES ASSUME NEW d \in Clients, NEW e \in Clients, d # e, Owns(d)', Owns(e)'
               PROVE  OwnSession(d)' # OwnSession(e)'
    BY DEF Apart
  <2>1. CASE d # c /\ e # c
    BY <1>1, <1>18, <2>1 DEF ClientsInv, Apart
  <2>2. CASE d = c
    BY <1>12, <1>17, <1>18, <2>2
  <2>3. CASE e = c
    BY <1>12, <1>17, <1>18, <2>3
  <2> QED BY <2>1, <2>2, <2>3
<1>20. ASSUME NEW d \in Clients, Owns(d)'
       PROVE  Agrees(d, client'[d], Record(OwnSession(d))')
  <2>1. CASE d = c
    <3>1. Record(OwnSession(d))' = s
      BY <1>7, <1>17, <1>20, <2>1 DEF Record
    <3> QED BY <1>17, <1>20, <2>1, <3>1
  <2>2. CASE d # c
    <3>1. Owns(d) /\ OwnSession(d)' = OwnSession(d)
      BY <1>18, <1>20, <2>2
    <3>2. Record(OwnSession(d))' = Record(OwnSession(d))
      BY <1>8, <1>12, <3>1 DEF Record
    <3> QED BY <1>12, <1>18, <2>2, <3>1, <3>2
  <2> QED BY <2>1, <2>2
<1> QED BY <1>1, <1>14, <1>16, <1>17, <1>19, <1>20, AnswersStep

(* A worker goes on.                                                       *)
LEMMA ProcessStep ==
  ASSUME HarnessInv, NEW w \in Workers, Process(w)
  PROVE  ClientsInv'
<1> DEFINE m == serving[w]
<1>1. ClientsInv /\ SessionsSound
  BY DEF HarnessInv, FaultInv, WorkInv
<1>2. /\ serving \in [Workers -> Messages \cup {None}]
      /\ Linked
  BY <1>1 DEF ClientsInv, HarnessTypeOK
<1>3. Serve(w)
  BY DEF Process
<1>4. /\ pending[w] # Idle
      /\ \A v \in Workers : v # w => pending'[v] = pending[v]
      /\ \/ /\ pending'[w] # Idle
            /\ pending'[w].request = pending[w].request
            /\ reply' = NoReply
            /\ sessions' = sessions
         \/ /\ pending'[w] = Idle
            /\ Refuses(w) \/ Fulfils(w) \/ \E sid : Inserts(w, sid)
  BY <1>1, <1>3, ServeCases
<1>5. m # None /\ pending[w].request = m.request
  BY <1>2, <1>4 DEF Linked
<1>6. m \in InTransit
  BY <1>5 DEF InTransit
<1>7. wire' = wire /\ lost' = lost
  BY DEF Process, faultVars
<1>8. CASE pending'[w] # Idle
  <2>1. /\ pending'[w].request = pending[w].request
        /\ reply' = NoReply
        /\ sessions' = sessions
    BY <1>4, <1>8
  <2>2. serving' = serving /\ client' = client
    BY <1>8, <2>1 DEF Process, Respond, NoReply
  <2>3. \A sid \in SessionIds : Record(sid)' = Record(sid)
    BY <1>7, <2>1 DEF Record
  <2>4. InTransit' = InTransit /\ OnePlace'
    BY <1>1, <1>7, <2>2 DEF InTransit, OnePlace, ClientsInv
  <2>5. Linked'
    BY <1>2, <1>4, <1>5, <1>8, <2>1, <2>2 DEF Linked
  <2> QED BY <1>1, <1>2, <1>7, <2>2, <2>3, <2>4, <2>5, QuietStep
<1>9. CASE pending'[w] = Idle
  <2>1. serving' = [serving EXCEPT ![w] = None]
    BY <1>9 DEF Process
  <2>2. Leaves(m)
    BY <1>1, <1>4, <1>5, <1>7, <1>9, <2>1, DoneLeaves, Zenon
  <2>3. PICK n \in InTransit : n = m
    BY <1>6
  <2>4. serving[w] = n /\ Leaves(n) /\ pending[w].request = n.request
    BY <1>5, <2>2, <2>3
  <2> HIDE DEF m
  <2> QED BY <1>4, <1>9, <2>4, ProcessRefuses, ProcessFulfils, ProcessInserts
<1> QED BY <1>8, <1>9
-----------------------------------------------------------------------------
(* At the start nobody was told of anything.                               *)
LEMMA HarnessInitHolds == HarnessInit => HarnessInv
<1> SUFFICES ASSUME HarnessInit PROVE HarnessInv
  OBVIOUS
<1>1. FaultInv
  BY FaultInitHolds DEF HarnessInit
<1>2. /\ client = [c \in Clients |-> NewClient]
      /\ wire = {}
      /\ serving = [w \in Workers |-> None]
      /\ pending = [w \in Workers |-> Idle]
  BY DEF HarnessInit, FaultInit, Init
<1>3. NewClient \in Blocks
  BY DEF NewClient, Blocks, Phases
<1>4. ~ Succeeded(NewClient, Opening) /\ Latest(NewClient) = None
  BY DEF NewClient, Succeeded, Latest
<1>5. WellPlaced(NewClient)
  BY DEF NewClient, WellPlaced, Succeeded, Ended
<1>6. HarnessTypeOK
  BY <1>2, <1>3 DEF HarnessTypeOK, NewClient
<1>7. \A c \in Clients : WellPlaced(client[c]) /\ ~ Owns(c)
  BY <1>2, <1>4, <1>5 DEF Owns
<1>8. InTransit = {} /\ OnePlace /\ Linked
  BY <1>2 DEF InTransit, OnePlace, Linked
<1> QED BY <1>1, <1>6, <1>7, <1>8 DEF HarnessInv, ClientsInv, Apart

(* Every step of the harness keeps the invariant.                          *)
LEMMA HarnessStep == HarnessInv /\ [HarnessNext]_harnessVars => HarnessInv'
<1> SUFFICES ASSUME HarnessInv, [HarnessNext]_harnessVars PROVE HarnessInv'
  OBVIOUS
<1>1. FaultInv'
  BY GuardStep, FaultStep DEF HarnessInv
<1>2. ClientsInv /\ now \in Clock
  BY DEF HarnessInv, FaultInv, WorkInv, SessionsSound, TypeOK
<1>3. CASE UNCHANGED harnessVars
  <2>1. /\ client' = client /\ wire' = wire /\ serving' = serving
        /\ pending' = pending /\ sessions' = sessions /\ lost' = lost
    BY <1>3 DEF harnessVars, vars, faultVars
  <2>2. \A sid \in SessionIds : Record(sid)' = Record(sid)
    BY <2>1 DEF Record
  <2>3. InTransit' = InTransit /\ OnePlace' /\ Linked'
    BY <1>2, <2>1 DEF InTransit, OnePlace, Linked, ClientsInv
  <2>4. serving' \in [Workers -> Messages \cup {None}]
    BY <1>2, <2>1 DEF ClientsInv, HarnessTypeOK
  <2> QED BY <1>1, <1>2, <2>1, <2>2, <2>3, <2>4, QuietStep DEF HarnessInv
<1>4. CASE TimePasses \/ GuardRestarts
  BY <1>1, <1>2, <1>4, PassesStep, RestartsStep DEF HarnessInv
<1>5. CASE \E w \in Workers : Take(w) \/ Process(w)
  BY <1>1, <1>5, TakeStep, ProcessStep DEF HarnessInv
<1>6. CASE \E c \in Clients : ClientActs(c)
  BY <1>1, <1>2, <1>6, ClientStep DEF HarnessInv
<1> QED BY <1>3, <1>4, <1>5, <1>6 DEF HarnessNext, ClientActs

(* So it is an invariant of the harness.                                   *)
LEMMA HarnessHolds == HarnessSpec => []HarnessInv
  BY HarnessInitHolds, HarnessStep, PTL DEF HarnessSpec

(* The blocks, the network and the workers always have their types, and an *)
(* answer is given only to a client that waits for one.                    *)
THEOREM HarnessTypeCorrect == HarnessSpec => []HarnessTypeOK
<1>1. HarnessInv => HarnessTypeOK
  BY DEF HarnessInv, ClientsInv
<1> QED BY <1>1, HarnessHolds, PTL

(* A session on record is sound and its work is accounted for, lost or not.*)
LEMMA RecordsSound ==
  ASSUME HarnessInv, NEW sid \in SessionIds, Record(sid) # None
  PROVE  /\ Record(sid) \in ActiveSessions
         /\ Sound(Record(sid))
         /\ Accounted(Record(sid), uuids)
<1>1. CASE lost[sid] # None
  BY <1>1 DEF Record, HarnessInv, FaultInv, LostForGood
<1>2. CASE lost[sid] = None
  BY <1>2 DEF Record, HarnessInv, FaultInv, WorkInv, SessionsSound, TypeOK, Live
<1> QED BY <1>1, <1>2

(* A client that has a token has a session on record.                      *)
LEMMA HolderOwns ==
  ASSUME HarnessInv, NEW c \in Clients, Holds(c)
  PROVE  LET k == client[c]
             t == k.capability_token
         IN  /\ k \in Blocks /\ WellPlaced(k)
             /\ Owns(c)
             /\ t \in Tokens
             /\ OwnSession(c) = t.session_id
             /\ t.session_id \in SessionIds
             /\ Agrees(c, k, SessionOf(c))
             /\ Sound(SessionOf(c))
             /\ Accounted(SessionOf(c), uuids)
<1> DEFINE k == client[c]
           t == k.capability_token
           u == Latest(k)
<1>1. ClientsInv
  BY DEF HarnessInv
<1>2. k \in Blocks /\ WellPlaced(k)
  BY <1>1 DEF ClientsInv, HarnessTypeOK
<1>3. t # None /\ t \in Tokens
  BY <1>2 DEF Holds, Blocks
<1>4. Owns(c)
  BY <1>2, <1>3, NoneIsNoValue DEF Owns, Latest, WellPlaced
<1>5. Agrees(c, k, Record(OwnSession(c)))
  BY <1>1, <1>4 DEF ClientsInv
<1>6. u \in Tokens /\ Precedes(t, u)
  BY <1>3, <1>5 DEF Agrees
<1>7. t.session_id = u.session_id /\ t.session_id \in SessionIds
  <2> HIDE DEF t, u
  <2> QED BY <1>3, <1>6 DEF Precedes, Tokens
<1>8. OwnSession(c) = t.session_id
  BY <1>7 DEF OwnSession
<1>9. SessionOf(c) = Record(OwnSession(c))
  BY <1>8 DEF SessionOf
<1>10. Record(OwnSession(c)) # None
  BY <1>5, NoneIsNoValue DEF Agrees
<1> QED BY <1>2, <1>3, <1>4, <1>5, <1>7, <1>8, <1>9, <1>10, RecordsSound

(* A result on record of a settled session is in its receipt.              *)
LEMMA SettledNumbers ==
  ASSUME NEW s \in ActiveSessions, NEW drawn, Sound(s), Accounted(s, drawn),
         s.settlement_result # None, NEW key \in Keys, s.tool_results[key] # None
  PROVE  s.tool_results[key].response.staged_id \in Numbers(s.settlement_result.settled_actions)
<1> DEFINE id == s.tool_results[key].response.staged_id
           plan == s.settlement_result.settled_actions
<1>1. Work(s) = s.staged_actions
  BY DEF Sound, Work
<1>2. PICK i \in DOMAIN s.staged_actions :
        Response(s.staged_actions[i].call, s.staged_actions[i].staged_id)
          = s.tool_results[key].response
  BY <1>1 DEF Accounted, DoneOnce, UsedKeys
<1>3. s.staged_actions[i].staged_id = id
  BY <1>2 DEF Response
<1>4. s.staged_actions[i] \in Range(plan)
  BY Zenon DEF Accounted, SettledFaithfully, Range
<1>5. PICK j \in DOMAIN plan : plan[j] = s.staged_actions[i]
  BY <1>4 DEF Range
<1> QED BY <1>3, <1>5 DEF Numbers

(* `async with session()` ends normally only with its session settled: the *)
(* receipt in hand is the one on record, and every call that the workflow  *)
(* was told is staged is in it, whatever was lost or late in between.      *)
THEOREM SuccessSettles == HarnessSpec => []SuccessIsSettled
<1>1. ASSUME HarnessInv, NEW c \in Clients, client[c].phase = "returned"
      PROVE  /\ client[c].settlement_receipt # None
             /\ SessionOf(c).settlement_result = client[c].settlement_receipt
             /\ \A k \in ToolKeys : client[c].acknowledged[k] # None =>
                  client[c].acknowledged[k].staged_id \in
                    Numbers(client[c].settlement_receipt.settled_actions)
  <2>1. WellPlaced(client[c])
    BY <1>1 DEF HarnessInv, ClientsInv
  <2>2. client[c].settlement_receipt # None /\ Holds(c)
    BY <1>1, <2>1 DEF WellPlaced, Holds
  <2>3. /\ Agrees(c, client[c], SessionOf(c))
        /\ Sound(SessionOf(c))
        /\ Accounted(SessionOf(c), uuids)
    BY <1>1, <2>2, HolderOwns
  <2>4. SessionOf(c).settlement_result = client[c].settlement_receipt
    BY <2>2, <2>3 DEF Agrees
  <2>5. ASSUME NEW k \in ToolKeys, client[c].acknowledged[k] # None
        PROVE  client[c].acknowledged[k].staged_id \in
                 Numbers(client[c].settlement_receipt.settled_actions)
    <3>1. k \in Keys /\ SessionOf(c) \in ActiveSessions
      BY <2>3, HarnessAssumption DEF Agrees
    <3>2. /\ SessionOf(c).tool_results[k] # None
          /\ client[c].acknowledged[k] = SessionOf(c).tool_results[k].response
      BY <2>3, <2>5 DEF Agrees
    <3> QED BY <2>2, <2>3, <2>4, <3>1, <3>2, SettledNumbers
  <2> QED BY <2>2, <2>4, <2>5
<1>2. HarnessInv => SuccessIsSettled
  BY <1>1 DEF SuccessIsSettled
<1> QED BY <1>2, HarnessHolds, PTL

(* A receipt in a client's hands is never taken back: what it was told is  *)
(* settled stays settled and was not rolled back, and the other way round. *)
THEOREM ReceiptsStand == HarnessSpec => []ReceiptsInHandStand
<1>1. ASSUME HarnessInv, NEW c \in Clients, Holds(c)
      PROVE  /\ client[c].settlement_receipt # None =>
                  /\ SessionOf(c).settlement_result = client[c].settlement_receipt
                  /\ SessionOf(c).abort_result = None
             /\ client[c].abort_receipt # None =>
                  /\ SessionOf(c).abort_result = client[c].abort_receipt
                  /\ SessionOf(c).settlement_result = None
  <2>1. Agrees(c, client[c], SessionOf(c)) /\ Sound(SessionOf(c))
    BY <1>1, HolderOwns
  <2> QED BY <2>1 DEF Agrees, Sound
<1>2. HarnessInv => ReceiptsInHandStand
  BY <1>1 DEF ReceiptsInHandStand
<1> QED BY <1>2, HarnessHolds, PTL

(* A block that raises or is cancelled leaves nothing settled behind it,   *)
(* unless it has the receipt or gave up on the answer to a seal().         *)
THEOREM NotSettledUnawares == HarnessSpec => []NeverSettledUnawares
<1>1. ASSUME HarnessInv, NEW c \in Clients, Holds(c),
             client[c].phase \in {"aborting", "raised", "cancelled"}
      PROVE  \/ SessionOf(c).settlement_result = None
             \/ client[c].settlement_receipt # None
             \/ "intent/seal" \in client[c].unanswered
  <2>1. Agrees(c, client[c], SessionOf(c)) /\ WellPlaced(client[c])
    BY <1>1, HolderOwns
  <2>2. ~ Succeeded(client[c], {"intent/seal"})
    BY <1>1, <2>1 DEF WellPlaced, Succeeded, Ended
  <2> QED BY <2>1, <2>2 DEF Agrees
<1>2. HarnessInv => NeverSettledUnawares
  BY <1>1 DEF NeverSettledUnawares
<1> QED BY <1>2, HarnessHolds, PTL

(* A client has the active token of its session, but for one that waits for*)
(* an answer to amend() or gave up on one.                                 *)
THEOREM FencedByLostAmend == HarnessSpec => []FencedByLostAmendOnly
<1>1. ASSUME HarnessInv, NEW c \in Clients, Fenced(c)
      PROVE  \/ "intent/amend" \in client[c].unanswered
             \/ client[c].waiting # None /\ client[c].waiting.method = "intent/amend"
  <2>1. Holds(c) /\ client[c].capability_token # SessionOf(c).capability_token
    BY <1>1 DEF Fenced
  <2>2. Agrees(c, client[c], SessionOf(c)) /\ WellPlaced(client[c])
    BY <1>1, <2>1, HolderOwns
  <2>3. CASE Succeeded(client[c], Opening)
    BY <2>1, <2>2, <2>3 DEF Succeeded, Opening, WellPlaced, Holds
  <2>4. CASE ~ Succeeded(client[c], Opening)
    BY <2>1, <2>2, <2>4 DEF Agrees, Latest
  <2> QED BY <2>3, <2>4
<1>2. HarnessInv => FencedByLostAmendOnly
  BY <1>1 DEF FencedByLostAmendOnly
<1> QED BY <1>2, HarnessHolds, PTL
-----------------------------------------------------------------------------
(* What a client does leaves it the session it has.                        *)
LEMMA ActsKeepSession ==
  ASSUME HarnessInv, NEW c \in Clients, Holds(c), NEW d \in Clients, ClientActs(d)
  PROVE  client'[c].capability_token.session_id = client[c].capability_token.session_id
<1> DEFINE k == client[c]
           t == k.capability_token
<1>1. /\ k \in Blocks /\ WellPlaced(k)
      /\ t \in Tokens
      /\ Agrees(c, k, SessionOf(c))
      /\ OwnSession(c) = t.session_id
  BY HolderOwns
<1>2. client \in [Clients -> Blocks]
  BY DEF HarnessInv, ClientsInv, HarnessTypeOK
<1>3. CASE d = c /\ Returns(d)
  <2>1. client'[c] = [Learned(c, k.waiting, k.answer.result) EXCEPT
                        !.phase = PhaseAfter(k.phase), !.waiting = None, !.answer = None]
    BY <1>2, <1>3 DEF Returns
  <2>2. k.answer # None /\ k.answer.code = "OK" /\ k.waiting # None
    BY <1>1, <1>3 DEF Returns, WellPlaced
  <2>3. k.waiting.method \in Methods
    BY <1>1, <2>2, SentMethods DEF Blocks
  <2>4. CASE k.waiting.method \in Opening
    <3>1. Succeeded(k, Opening)
      BY <2>2, <2>4 DEF Succeeded
    <3>2. Latest(k) = k.answer.result
      BY <3>1 DEF Latest
    <3>3. Learned(c, k.waiting, k.answer.result) = [k EXCEPT !.capability_token = k.answer.result]
      BY <2>4 DEF Learned, Opening
    <3>4. client'[c].capability_token = k.answer.result
      BY <1>1, <2>1, <3>3 DEF Blocks
    <3> QED BY <1>1, <3>2, <3>4 DEF OwnSession
  <2>5. CASE k.waiting.method \notin Opening
    <3>1. \/ \E a : Learned(c, k.waiting, k.answer.result) = [k EXCEPT !.acknowledged = a]
          \/ \E a : Learned(c, k.waiting, k.answer.result) = [k EXCEPT !.settlement_receipt = a]
          \/ \E a : Learned(c, k.waiting, k.answer.result) = [k EXCEPT !.abort_receipt = a]
      BY <2>3, <2>5, Zenon DEF Learned, Opening, Methods
    <3>2. client'[c].capability_token = t
      BY <1>1, <2>1, <3>1, ZenonT(30) DEF Blocks
    <3> QED BY <3>2
  <2> QED BY <2>4, <2>5
<1>4. CASE ~ (d = c /\ Returns(d))
  <2>1. CASE d # c
    <3>1. client'[c] = client[c]
      BY <1>2, <2>1, Zenon
         DEF ClientActs, Enter, CallTool, AmendBudget, CloseEarly, Finish, Fail, Send, Cancel, Await,
             Returns, Rejected, TimesOut, Raises
    <3> QED BY <3>1
  <2>2. CASE d = c
    <3>1. client'[c].capability_token = t
      <4>1. CASE \/ Enter(c) \/ CallTool(c) \/ AmendBudget(c)
                 \/ CloseEarly(c) \/ Finish(c) \/ Fail(c)
        <5>1. \E phase, r : Send(c, phase, r)
          BY <4>1, Zenon DEF Enter, CallTool, AmendBudget, CloseEarly, Finish, Fail
        <5> QED BY <1>1, <1>2, <5>1 DEF Send, Blocks
      <4>2. CASE Cancel(c)
        BY <1>1, <1>2, <4>2 DEF Cancel, Blocks
      <4>3. CASE Rejected(c) \/ TimesOut(c)
        <5>1. \E given : Raises(c, given)
          BY <4>3 DEF Rejected, TimesOut
        <5> QED BY <1>1, <1>2, <5>1 DEF Raises, Blocks
      <4> QED BY <1>4, <2>2, <4>1, <4>2, <4>3 DEF ClientActs, Await
    <3> QED BY <3>1
  <2> QED BY <2>1, <2>2
<1> QED BY <1>3, <1>4

(* The guard's side only gives answers.                                    *)
LEMMA GuardKeepsTokens ==
  ASSUME HarnessInv, [HarnessNext]_harnessVars, ~ \E d \in Clients : ClientActs(d),
         NEW c \in Clients
  PROVE  client'[c].capability_token = client[c].capability_token
<1>1. client \in [Clients -> Blocks]
  BY DEF HarnessInv, ClientsInv, HarnessTypeOK
<1>2. ASSUME NEW m, Respond(m)
      PROVE  client'[c].capability_token = client[c].capability_token
  <2>1. client[c] \in Blocks
    BY <1>1
  <2>2. \A a : [client[c] EXCEPT !.answer = a].capability_token = client[c].capability_token
    BY <2>1 DEF Blocks
  <2>3. client'[c] = client[c] \/ \E a : client'[c] = [client[c] EXCEPT !.answer = a]
    BY <1>1, <1>2, Zenon DEF Respond
  <2> QED BY <2>2, <2>3, Zenon
<1>3. CASE \E w \in Workers : Take(w) \/ Process(w)
  BY <1>2, <1>3 DEF Take, Process
<1>4. CASE TimePasses \/ GuardRestarts \/ UNCHANGED harnessVars
  BY <1>4 DEF TimePasses, GuardRestarts, harnessVars
<1> QED BY <1>3, <1>4 DEF HarnessNext, ClientActs

(* A worker acts on a session for its client only, and only under the last *)
(* token that this client read.                                            *)
LEMMA ActsForOwner ==
  ASSUME HarnessInv, NEW c \in Clients, Holds(c), NEW w \in Workers,
         pending[w].status = "checked", pending[w].request.method # "intent/propose",
         pending[w].request.session_id = client[c].capability_token.session_id,
         ActsOn(w, client[c].capability_token.session_id),
         lost[client[c].capability_token.session_id] = None
  PROVE  ~ Fenced(c)
<1> DEFINE k   == client[c]
           t   == k.capability_token
           sid == t.session_id
           m   == serving[w]
           u   == m.request.capability_token
           s   == Record(sid)
<1>1. /\ k \in Blocks
      /\ t \in Tokens
      /\ Agrees(c, k, SessionOf(c))
      /\ Owns(c) /\ OwnSession(c) = sid
  BY HolderOwns
<1>2. SessionOf(c) = s /\ s = sessions[sid]
  BY DEF SessionOf, Record
<1>3. pending[w] # Idle
  BY DEF Idle
<1>4. m # None /\ pending[w].request = m.request
  BY <1>3 DEF HarnessInv, ClientsInv, Linked
<1>5. m \in InTransit
  BY <1>4 DEF InTransit
<1>6. Owns(m.from) /\ OwnSession(m.from) = sid /\ m \in Messages
  BY <1>4, <1>5, TokensInTransit DEF HarnessInv
<1>7. m.from = c
  BY <1>1, <1>6 DEF HarnessInv, ClientsInv, Apart, Messages
<1>8. Precedes(u, t)
  <2>1. Posted(m, k)
    BY <1>5, <1>7 DEF HarnessInv, ClientsInv
  <2> QED BY <1>4, <2>1 DEF Posted
<1>9. /\ u = s.capability_token
      /\ u.generation = s.generation
  <2>1. CapabilityValid(sid, sessions[sid], pending[w].request.capability_token,
                        pending[w].now_ms)
    BY Zenon DEF ActsOn
  <2>2. /\ u = s.capability_token
        /\ u = Token(sid, s.identity, s.generation, s.expires_at_ms)
    BY <1>2, <1>4, <2>1 DEF CapabilityValid
  <2> QED BY <2>2 DEF Token
<1>10. t.generation <= s.generation
  <2>1. Latest(k) \in Tokens /\ Precedes(t, Latest(k)) /\ s \in ActiveSessions
        /\ Latest(k).generation <= s.generation
    BY <1>1, <1>2, Zenon DEF Agrees, Holds
  <2> QED BY <1>1, <2>1 DEF Precedes, Tokens, ActiveSessions, SessionsWith
<1>11. u = t
  <2>1. t.generation \in Nat /\ s.generation \in Nat
    BY <1>1, <1>2, Zenon DEF Tokens, Agrees, ActiveSessions, SessionsWith
  <2>2. u.generation = t.generation
    BY <1>8, <1>9, <1>10, <2>1 DEF Precedes
  <2> HIDE DEF u, t
  <2> QED BY <1>1, <1>8, <2>2 DEF Precedes, Tokens
<1> QED BY <1>2, <1>9, <1>11 DEF Fenced

(* What is on record of a session changes only when a worker answers a     *)
(* request that names it.                                                  *)
LEMMA RecordChanges ==
  ASSUME HarnessInv, [HarnessNext]_harnessVars, NEW sid \in SessionIds,
         Record(sid) # None, Record(sid)' # Record(sid)
  PROVE  /\ lost[sid] = None
         /\ Record(sid) = sessions[sid]
         /\ Record(sid)' = sessions'[sid]
         /\ \E w \in Workers : Changes(w, sid)
<1>1. ASSUME ~ \E w \in Workers : Process(w)
      PROVE  Record(sid)' = Record(sid)
  <2>1. CASE GuardRestarts
    <3>1. lost[sid] # None => sid \notin Live
      BY DEF HarnessInv, FaultInv, LostForGood, Live
    <3> QED BY <2>1, <3>1 DEF GuardRestarts, Restart, Record, Live
  <2>2. CASE \E d \in Clients : ClientActs(d)
    <3>1. UNCHANGED guardVars
      BY <2>2, ClientStep DEF HarnessInv, FaultInv, WorkInv, SessionsSound, TypeOK
    <3> QED BY <3>1 DEF guardVars, vars, faultVars, Record
  <2>3. CASE \E w \in Workers : Take(w)
    BY <2>3 DEF Take, Accept, Decline, faultVars, Record
  <2>4. CASE TimePasses \/ UNCHANGED harnessVars
    BY <2>4 DEF TimePasses, Tick, harnessVars, vars, faultVars, Record
  <2> QED BY <1>1, <2>1, <2>2, <2>3, <2>4 DEF HarnessNext, ClientActs
<1>2. PICK v \in Workers : Process(v)
  BY <1>1
<1>3. lost' = lost /\ FreshIds /\ Next
  BY <1>2 DEF Process, faultVars, Next
<1>4. lost[sid] = None
  BY <1>3 DEF Record
<1>5. Record(sid) = sessions[sid] /\ Record(sid)' = sessions'[sid]
  BY <1>3, <1>4 DEF Record
<1>6. sid \in Live
  BY <1>5 DEF Live
<1>7. TypeOK
  BY DEF HarnessInv, FaultInv, WorkInv, SessionsSound
<1> QED BY <1>3, <1>4, <1>5, <1>6, <1>7, SessionStep

(* A session that was admitted changes only when a request of the block    *)
(* that was given its token is answered: a session whose admission nobody  *)
(* was told of stays as it is, and blocks do not reach each other's, for   *)
(* any number of them.                                                     *)
THEOREM OwnRequestsAct == HarnessSpec => OwnRequestsOnly
<1> DEFINE Acts(sid, w) == /\ serving[w] # None
                           /\ serving'[w] = None
                           /\ Owns(serving[w].from)
                           /\ OwnSession(serving[w].from) = sid
<1>1. ASSUME HarnessInv, [HarnessNext]_harnessVars, NEW sid \in SessionIds,
             Record(sid) # None, Record(sid)' # Record(sid)
      PROVE  \E w \in Workers : Acts(sid, w)
  <2>1. PICK w \in Workers : Changes(w, sid)
    BY <1>1, RecordChanges
  <2>2. /\ pending[w].status = "checked"
        /\ pending[w].request.method # "intent/propose"
        /\ pending[w].request.session_id = sid
        /\ pending'[w] = Idle
    BY <2>1 DEF Changes
  <2>3. pending[w] # Idle
    BY <2>2 DEF Idle
  <2>4. serving[w] # None /\ pending[w].request = serving[w].request
    BY <1>1, <2>3 DEF HarnessInv, ClientsInv, Linked
  <2>5. serving'[w] = None
    BY <1>1, <2>2, HarnessStep DEF HarnessInv, ClientsInv, Linked
  <2>6. serving[w] \in InTransit
    BY <2>4 DEF InTransit
  <2>7. Owns(serving[w].from) /\ OwnSession(serving[w].from) = sid
    BY <1>1, <2>2, <2>4, <2>6, TokensInTransit DEF HarnessInv
  <2> QED BY <2>4, <2>5, <2>7
<1>2. HarnessInv /\ [HarnessNext]_harnessVars =>
        [\A sid \in SessionIds : Record(sid) # None /\ Record(sid)' # Record(sid) =>
           \E w \in Workers : Acts(sid, w)]_harnessVars
  BY <1>1
<1> QED BY <1>2, HarnessHolds, PTL DEF HarnessSpec, OwnRequestsOnly

(* While a client does not have the active token, no request of its, sent  *)
(* before or after, late or not, changes its session; it can only expire.  *)
THEOREM FencedStrands == HarnessSpec => FencedClientStrands
<1> DEFINE Stranded(c) ==
             \/ SessionOf(c)' = SessionOf(c)
             \/ SessionOf(c)' = [SessionOf(c) EXCEPT !.status = "EXPIRED"]
<1>1. ASSUME HarnessInv, [HarnessNext]_harnessVars, NEW c \in Clients, Fenced(c)
      PROVE  Stranded(c)
  <2>1. Holds(c)
    BY <1>1 DEF Fenced
  <2>2. PICK sid \in SessionIds : sid = client[c].capability_token.session_id
    BY <1>1, <2>1, HolderOwns
  <2>3. client'[c].capability_token.session_id = sid
    BY <1>1, <2>1, <2>2, ActsKeepSession, GuardKeepsTokens
  <2>4. SessionOf(c) = Record(sid) /\ SessionOf(c)' = Record(sid)'
    BY <2>2, <2>3 DEF SessionOf, Record
  <2>5. CASE Record(sid)' = Record(sid)
    BY <2>4, <2>5
  <2>6. CASE Record(sid)' # Record(sid)
    <3>1. SessionOf(c) # None
      <4>1. SessionOf(c) \in ActiveSessions
        BY <1>1, <2>1, HolderOwns DEF Agrees
      <4> QED BY <4>1, NoneIsNoValue
    <3>2. PICK w \in Workers : Changes(w, sid)
      BY <1>1, <2>4, <2>6, <3>1, RecordChanges
    <3>3. /\ lost[sid] = None
          /\ Record(sid) = sessions[sid]
          /\ Record(sid)' = sessions'[sid]
      BY <1>1, <2>4, <2>6, <3>1, RecordChanges
    <3>4. ~ ActsOn(w, sid)
      BY <1>1, <2>1, <2>2, <3>2, <3>3, ActsForOwner DEF Changes
    <3>5. sessions'[sid] = [sessions[sid] EXCEPT !.status = "EXPIRED"]
      BY <3>2, <3>4 DEF Changes, Expires, OnlyExpires
    <3> QED BY <2>4, <3>3, <3>5
  <2> QED BY <2>5, <2>6
<1>2. HarnessInv /\ [HarnessNext]_harnessVars =>
        [\A c \in Clients : Fenced(c) =>
           \/ SessionOf(c)' = SessionOf(c)
           \/ SessionOf(c)' = [SessionOf(c) EXCEPT !.status = "EXPIRED"] ]_harnessVars
  BY <1>1
<1> QED BY <1>2, HarnessHolds, PTL DEF HarnessSpec, FencedClientStrands
-----------------------------------------------------------------------------
(* What create_delegation_token makes: the one spelling that the MAC has.  *)
IsCanonical(d) ==
  d = [identity |-> d.identity, expires_at_ms |-> d.expires_at_ms, nonce |-> d.nonce,
       spelling |-> "canonical"]

CarriesCanonical(r) ==
  r.method \in {"intent/propose", "intent/amend"} => IsCanonical(r.delegation)

(* Tokens that are on their way, in service or spent are of that kind.     *)
CanonicalInv ==
  /\ \A m \in wire : CarriesCanonical(m.request)
  /\ \A w \in Workers : serving[w] # None => CarriesCanonical(serving[w].request)
  /\ \A d \in Delegations : backing[d] # None => IsCanonical(d)

(* So is what a block mints.                                               *)
LEMMA MintsCanonical ==
  ASSUME NEW c, NEW t
  PROVE  IsCanonical(Mint(c, t))
BY DEF IsCanonical, Mint, Delegation

(* Blocks put nothing else on the wire.                                    *)
LEMMA ClientsSendCanonical ==
  ASSUME CanonicalInv, NEW c \in Clients, ClientActs(c)
  PROVE  CanonicalInv'
<1>1. ASSUME UNCHANGED <<guardVars, serving>>,
             NEW r, NEW rpc, CarriesCanonical(r),
             wire' \subseteq wire \cup {[from |-> c, rpc |-> rpc, request |-> r]}
      PROVE  CanonicalInv'
  BY <1>1 DEF guardVars, vars, CanonicalInv
<1>2. ASSUME UNCHANGED <<guardVars, serving>>,
             NEW phase, NEW r, CarriesCanonical(r), Send(c, phase, r)
      PROVE  CanonicalInv'
  BY <1>1, <1>2 DEF Send, Message
<1>3. ASSUME NEW method \in {"intent/seal", "intent/abort"}, NEW key
      PROVE  CarriesCanonical(CloseRequest(c, method, key))
  BY DEF CarriesCanonical, CloseRequest
<1>4. CASE Enter(c)
  <2> DEFINE r == [method |-> "intent/propose", proposal |-> Asks[c],
                   delegation |-> Mint(c, now + DelegationTtl(c))]
  <2>1. CarriesCanonical(r)
    BY MintsCanonical DEF CarriesCanonical
  <2>2. Send(c, "proposing", r) /\ UNCHANGED <<guardVars, serving>>
    BY <1>4 DEF Enter
  <2> HIDE DEF r
  <2> QED BY <1>2, <2>1, <2>2
<1>5. CASE CallTool(c)
  <2>1. PICK r : Send(c, "working", r) /\ r.method = "tools/call"
    BY <1>5 DEF CallTool
  <2> QED BY <1>2, <1>5, <2>1 DEF CarriesCanonical, CallTool
<1>6. CASE AmendBudget(c)
  <2> DEFINE token == client[c].capability_token
  <2>1. PICK additions \in Additions :
          Send(c, "working",
               [method |-> "intent/amend", session_id |-> token.session_id,
                capability_token |-> token, delegation |-> Mint(c, token.expires_at_ms),
                budget_additions |-> additions])
    BY <1>6 DEF AmendBudget
  <2> DEFINE r == [method |-> "intent/amend", session_id |-> token.session_id,
                   capability_token |-> token, delegation |-> Mint(c, token.expires_at_ms),
                   budget_additions |-> additions]
  <2>2. CarriesCanonical(r)
    BY MintsCanonical DEF CarriesCanonical
  <2>3. Send(c, "working", r) /\ UNCHANGED <<guardVars, serving>>
    BY <1>6, <2>1 DEF AmendBudget
  <2> HIDE DEF r
  <2> QED BY <1>2, <2>2, <2>3
<1>7. CASE CloseEarly(c)
  <2>1. PICK method \in {"intent/seal", "intent/abort"},
             key \in ToolKeys \cup {SealKey, AbortKey} :
          Send(c, "working", CloseRequest(c, method, key))
    BY <1>7 DEF CloseEarly
  <2> QED BY <1>2, <1>3, <1>7, <2>1 DEF CloseEarly
<1>8. CASE Finish(c) \/ Fail(c)
  BY <1>2, <1>3, <1>8 DEF Finish, Fail
<1>9. CASE Cancel(c) \/ Returns(c)
  BY <1>9 DEF Cancel, Returns, guardVars, vars, CanonicalInv
<1>10. CASE Rejected(c) \/ TimesOut(c)
  <2>1. /\ UNCHANGED <<guardVars, serving>>
        /\ \/ wire' = wire
           \/ wire' = wire \cup {Message(c, CloseRequest(c, "intent/abort", AbortKey))}
    BY <1>10 DEF Rejected, TimesOut, Raises
  <2> QED BY <1>1, <1>3, <2>1 DEF Message
<1> QED BY <1>4, <1>5, <1>6, <1>7, <1>8, <1>9, <1>10 DEF ClientActs, Await

(* A worker spends the token of the request that it serves.                *)
LEMMA SpendsWhatItServes ==
  ASSUME TypeOK, NEW w \in Workers, Serve(w), NEW d \in Delegations,
         backing[d] = None, backing'[d] # None
  PROVE  /\ pending[w] # Idle
         /\ pending[w].request.method \in {"intent/propose", "intent/amend"}
         /\ d = pending[w].request.delegation
<1>1. CASE InsertSession(w)
  <2>1. pending[w].status = "consumed"
    BY <1>1 DEF InsertSession
  <2>2. pending[w] \in {Idle} \cup InService /\ pending[w] # Idle
    BY <2>1 DEF TypeOK, Idle
  <2>3. pending[w].request.method = "intent/propose"
    BY <2>1, <2>2 DEF InService, ProposeRequests
  <2>4. d = pending[w].request.delegation
    BY <1>1 DEF InsertSession, TypeOK
  <2> QED BY <2>2, <2>3, <2>4
<1>2. CASE Amend(w)
  <2>1. pending[w].request.method = "intent/amend" /\ pending[w] # Idle
    BY <1>2 DEF Amend, Finds, Checked, Idle
  <2>2. d = pending[w].request.delegation
    BY <1>2 DEF Amend, TypeOK
  <2> QED BY <2>1, <2>2
<1>3. CASE ~ InsertSession(w) /\ ~ Amend(w)
  <2>1. backing' = backing
    BY <1>3 DEF Serve, ConsumeDelegation, DelegationConsumed, UnknownSession, AmendRejected,
       CallRejected, CallExpires, CallReplayed, CallHalfCharged, CallStaged, SealRejected,
       SealReplayed, Seal, AbortRejected, AbortReplayed, Abort, Rejects
  <2> QED BY <2>1
<1> QED BY <1>1, <1>2, <1>3

(* One case per kind of step: a block, the network, a worker, the clock,   *)
(* a restart.                                                              *)
LEMMA CanonicalStep ==
  HarnessInv /\ CanonicalInv /\ [HarnessNext]_harnessVars => CanonicalInv'
<1> SUFFICES ASSUME HarnessInv, CanonicalInv, [HarnessNext]_harnessVars
             PROVE  CanonicalInv'
  OBVIOUS
<1>1. TypeOK /\ Linked /\ serving \in [Workers -> Messages \cup {None}]
  BY DEF HarnessInv, FaultInv, WorkInv, SessionsSound, ClientsInv, HarnessTypeOK
<1>2. CASE TimePasses \/ UNCHANGED harnessVars
  BY <1>2 DEF TimePasses, Tick, harnessVars, vars, CanonicalInv
<1>3. CASE GuardRestarts
  BY <1>3 DEF GuardRestarts, Restart, CanonicalInv
<1>4. ASSUME NEW w \in Workers, Take(w)
      PROVE  CanonicalInv'
  <2>1. PICK m \in wire :
          /\ wire' = wire \ {m}
          /\ serving' = serving \/ serving' = [serving EXCEPT ![w] = m]
          /\ backing' = backing
    BY <1>4 DEF Take, Accept, Decline
  <2> QED BY <1>1, <2>1 DEF CanonicalInv
<1>5. ASSUME NEW w \in Workers, Process(w)
      PROVE  CanonicalInv'
  <2>1. /\ wire' = wire
        /\ serving' = serving \/ serving' = [serving EXCEPT ![w] = None]
    BY <1>5 DEF Process
  <2>2. ASSUME NEW d \in Delegations, backing'[d] # None
        PROVE  IsCanonical(d)
    <3>1. CASE backing[d] # None
      BY <3>1 DEF CanonicalInv
    <3>2. CASE backing[d] = None
      <4>1. /\ pending[w] # Idle
            /\ pending[w].request.method \in {"intent/propose", "intent/amend"}
            /\ d = pending[w].request.delegation
        BY <1>1, <1>5, <2>2, <3>2, SpendsWhatItServes DEF Process
      <4> QED BY <1>1, <4>1 DEF Linked, CanonicalInv, CarriesCanonical
    <3> QED BY <3>1, <3>2
  <2> QED BY <1>1, <2>1, <2>2 DEF CanonicalInv
<1>6. ASSUME NEW c \in Clients, ClientActs(c)
      PROVE  CanonicalInv'
  BY <1>6, ClientsSendCanonical
<1> QED BY <1>2, <1>3, <1>4, <1>5, <1>6 DEF HarnessNext, ClientActs

(* The blocks of the harness write every delegation in one way, and never  *)
(* twice the same; so of the proofs they mint each backs one generation of *)
(* one session, as long as the guard lives, although used_delegations is a *)
(* set of strings.                                                         *)
THEOREM MintedProofsServeOnce == HarnessSpec => [](DelegationAccounting /\ ProofServesOnce)
<1>1. HarnessInit => CanonicalInv
  BY DEF HarnessInit, FaultInit, Init, CanonicalInv
<1>2. CanonicalInv => ProofServesOnce
  <2> SUFFICES ASSUME CanonicalInv, NEW d1 \in Delegations, NEW d2 \in Delegations,
                      DelegationProof(d1) = DelegationProof(d2),
                      backing[d1] # None, backing[d2] # None
               PROVE  d1 = d2
    BY DEF ProofServesOnce
  <2>1. /\ d1.identity = d2.identity
        /\ d1.expires_at_ms = d2.expires_at_ms
        /\ d1.nonce = d2.nonce
    BY DEF DelegationProof
  <2> QED BY <2>1 DEF CanonicalInv, IsCanonical
<1>3. HarnessInv => DelegationAccounting
  BY TokensAccounted DEF HarnessInv, FaultInv, BudgetInv
<1> QED BY <1>1, <1>2, <1>3, CanonicalStep, HarnessHolds, PTL DEF HarnessSpec
=============================================================================
