------------------------ MODULE SessionManagerProofs ------------------------
(***************************************************************************)
(* Proofs about SessionManager, for every set of workers, sessions, keys,  *)
(* calls, adapters and delegations: the types, and the life of a session.  *)
(* A session has one outcome, seal denies nothing that was staged, only    *)
(* the deadline expires it, it never reopens and it moves only under its   *)
(* active token.                                                           *)
(***************************************************************************)
EXTENDS SessionProperties, SettlementProofs

(* Budgets stay within u64, and dimensions are never lost.                 *)
LEMMA AddAssignType ==
  ASSUME NEW b \in Budgets, NEW a \in Budgets, ~ AddOverflows(b, a)
  PROVE  AddAssign(b, a) \in Budgets
<1>1. ASSUME NEW d \in Dims
      PROVE  /\ AddAssign(b, a)[d] \in U64 \cup {None}
             /\ d \in BuiltInDims => AddAssign(b, a)[d] # None
  <2>1. CASE Present(a, d)
    <3>1. a[d] \in U64 /\ Value(b, d) \in U64
      BY <2>1, MaxU64Assumption DEF Budgets, Value, Present, U64
    <3>2. Value(b, d) + a[d] <= MaxU64
      BY <2>1, <3>1, MaxU64Assumption DEF AddOverflows, U64
    <3>3. Value(b, d) + a[d] \in U64 /\ Value(b, d) + a[d] # None
      BY <3>1, <3>2, MaxU64Assumption, NoneAssumption DEF U64
    <3>4. AddAssign(b, a)[d] = Value(b, d) + a[d]
      BY <2>1 DEF AddAssign
    <3> QED BY <3>3, <3>4
  <2>2. CASE ~ Present(a, d)
    BY <2>2 DEF AddAssign, Budgets
  <2> QED BY <2>1, <2>2
<1>2. AddAssign(b, a) = [d \in Dims |-> AddAssign(b, a)[d]]
  BY DEF AddAssign
<1>3. BuiltInDims \subseteq Dims
  BY DEF Dims
<1> QED BY <1>1, <1>2, <1>3 DEF Budgets

LEMMA DeductType ==
  ASSUME NEW b \in Budgets, NEW charges, NEW paid,
         Affordable(b, charges), paid \subseteq DOMAIN charges,
         \A d \in paid : Present(b, d),
         \A d \in DOMAIN charges : charges[d] \in U64
  PROVE  Deduct(b, charges, paid) \in Budgets
<1>1. ASSUME NEW d \in Dims
      PROVE  /\ Deduct(b, charges, paid)[d] \in U64 \cup {None}
             /\ d \in BuiltInDims => Deduct(b, charges, paid)[d] # None
  <2>1. CASE d \in paid
    <3>1. charges[d] <= b[d] /\ b[d] \in U64 /\ charges[d] \in U64
      BY <2>1 DEF Affordable, Value, Present, Budgets
    <3>2. b[d] - charges[d] \in U64
      BY <3>1, MaxU64Assumption DEF U64
    <3>3. Deduct(b, charges, paid)[d] = b[d] - charges[d]
      BY <2>1 DEF Deduct
    <3>4. b[d] - charges[d] # None
      BY <3>2, NoneAssumption, MaxU64Assumption DEF U64
    <3> QED BY <3>2, <3>3, <3>4
  <2>2. CASE d \notin paid
    BY <2>2 DEF Deduct, Budgets
  <2> QED BY <2>1, <2>2
<1>2. Deduct(b, charges, paid) = [d \in Dims |-> Deduct(b, charges, paid)[d]]
  BY DEF Deduct
<1>3. BuiltInDims \subseteq Dims
  BY DEF Dims
<1> QED BY <1>1, <1>2, <1>3 DEF Budgets
-----------------------------------------------------------------------------
(* What each handler makes of a session is a session again.                *)
LEMMA TokenType ==
  ASSUME NEW sid \in SessionIds, NEW identity \in Identities,
         NEW generation \in Nat, NEW expires_at_ms \in Nat
  PROVE  Token(sid, identity, generation, expires_at_ms) \in Tokens
  BY DEF Token, Tokens

LEMMA NewSessionType ==
  ASSUME NEW sid \in SessionIds, NEW r \in ProposeRequests, NEW t \in Nat
  PROVE  NewSession(sid, r, t) \in ActiveSessions
<1>1. r.proposal \in Proposals
  BY DEF ProposeRequests
<1>2. /\ r.proposal.identity \in Identities
      /\ r.proposal.target_resources \in SUBSET Scopes
      /\ r.proposal.budgets \in Budgets
      /\ t + r.proposal.ttl_ms \in Nat
  BY <1>1, InputAssumption DEF Identities, Scopes
<1>3. Token(sid, r.proposal.identity, 1, t + r.proposal.ttl_ms) \in Tokens
  BY <1>2, TokenType
<1>4. << >> \in Seq(StagedActions)
  OBVIOUS
<1> QED BY <1>1, <1>2, <1>3, <1>4 DEF NewSession, ActiveSessions, SessionsWith, Statuses

LEMMA AmendedType ==
  ASSUME NEW sid \in SessionIds, NEW session \in ActiveSessions, NEW a \in Additions,
         ~ AddOverflows(session.remaining_budgets, a)
  PROVE  Amended(sid, session, a) \in ActiveSessions
<1>1. session.remaining_budgets \in Budgets /\ a \in Budgets
  BY InputAssumption DEF ActiveSessions, SessionsWith
<1>2. AddAssign(session.remaining_budgets, a) \in Budgets
  BY <1>1, AddAssignType
<1>3. /\ session.identity \in Identities
      /\ session.generation + 1 \in Nat \ {0}
      /\ session.expires_at_ms \in Nat
  BY DEF ActiveSessions, SessionsWith
<1>4. Token(sid, session.identity, session.generation + 1, session.expires_at_ms) \in Tokens
  BY <1>3, TokenType
<1> QED BY <1>2, <1>3, <1>4 DEF Amended, ActiveSessions, SessionsWith, Statuses

LEMMA ExpiredType ==
  ASSUME NEW session \in ActiveSessions
  PROVE  [session EXCEPT !.status = "EXPIRED"] \in ActiveSessions
  BY DEF ActiveSessions, SessionsWith, Statuses

LEMMA ChargedType ==
  ASSUME NEW session \in ActiveSessions, NEW b \in Budgets
  PROVE  [session EXCEPT !.remaining_budgets = b] \in ActiveSessions
  BY DEF ActiveSessions, SessionsWith

LEMMA StagedType ==
  ASSUME NEW session \in ActiveSessions, NEW key \in Keys, NEW call \in Calls,
         NEW id \in Nat, call.name \in DOMAIN Adapters,
         FreshCallOutcome(call, session) = "OK",
         Deductible(session.remaining_budgets, Charges(Adapters[call.name], call.arguments))
  PROVE  Staged(session, key, call, id) \in ActiveSessions
<1> DEFINE adapter == Adapters[call.name]
           charges == Charges(adapter, call.arguments)
           action  == [call             |-> call,
                       resource_ids     |-> MatchedResources(adapter, call.arguments),
                       settlement_order |-> adapter.settlement_order,
                       staged_id        |-> id]
           result  == [request_fingerprint |-> call, response |-> Response(call, id)]
<1>1. /\ InScope(adapter, call.arguments, session.target_resources)
      /\ Chargeable(adapter, call.arguments)
      /\ Affordable(session.remaining_budgets, charges)
  BY DEF FreshCallOutcome, ChargesFault
<1>2. \A d \in DOMAIN charges : charges[d] \in U64
  BY <1>1 DEF Chargeable
<1>3. Deduct(session.remaining_budgets, charges, DOMAIN charges) \in Budgets
  <2>1. session.remaining_budgets \in Budgets
    BY DEF ActiveSessions, SessionsWith
  <2>2. \A d \in DOMAIN charges : Present(session.remaining_budgets, d)
    BY DEF Deductible
  <2> HIDE DEF charges
  <2> QED BY <1>1, <1>2, <2>1, <2>2, DeductType
<1>4. MatchedResources(adapter, call.arguments) \in SUBSET (Scopes \cup {Unscoped})
  BY <1>1 DEF MatchedResources, InScope, ActiveSessions, SessionsWith
<1>5. adapter.settlement_order \in Nat
  BY InputAssumption DEF WellDeclared
<1>6. action \in StagedActions
  BY <1>4, <1>5 DEF StagedActions
<1>7. Append(session.staged_actions, action) \in Seq(StagedActions)
  BY <1>6 DEF ActiveSessions, SessionsWith
<1>8. result \in ToolResults
  BY DEF ToolResults, Response
<1>9. Staged(session, key, call, id) =
        [session EXCEPT
           !.status            = "ACTIVE",
           !.remaining_budgets = Deduct(session.remaining_budgets, charges, DOMAIN charges),
           !.staged_actions    = Append(session.staged_actions, action),
           !.tool_results      = [session.tool_results EXCEPT ![key] = result]]
  BY DEF Staged
<1> HIDE DEF charges, action, result
<1>10. [session.tool_results EXCEPT ![key] = result] \in [Keys -> ToolResults \cup {None}]
  BY <1>8 DEF ActiveSessions, SessionsWith
<1> QED BY <1>3, <1>7, <1>9, <1>10 DEF ActiveSessions, SessionsWith, Statuses

LEMMA ReceiptType ==
  ASSUME NEW sid \in SessionIds, NEW session \in ActiveSessions
  PROVE  SealReceipt(sid, session) \in SealReceipts /\ AbortReceipt(sid, session) \in AbortReceipts
<1>1. session.staged_actions \in Seq(StagedActions)
  BY DEF ActiveSessions, SessionsWith
<1>2. \A a \in StagedActions : a.settlement_order \in Nat
  BY DEF StagedActions
<1>3. /\ SettlementPlan(session.staged_actions) \in Seq(StagedActions)
      /\ RollbackPlan(session.staged_actions) \in Seq(StagedActions)
  BY <1>1, <1>2, PlansSort
<1>4. SealReceipt(sid, session) \in SealReceipts
  BY <1>3 DEF SealReceipt, SealReceipts, ActiveSessions, SessionsWith
<1>5. AbortReceipt(sid, session) \in AbortReceipts
  BY <1>3 DEF AbortReceipt, AbortReceipts
<1> QED BY <1>4, <1>5

LEMMA SealedType ==
  ASSUME NEW sid \in SessionIds, NEW session \in ActiveSessions, NEW key \in Keys
  PROVE  Sealed(sid, session, key) \in ActiveSessions
<1>1. SealReceipt(sid, session) \in SealReceipts
  BY ReceiptType
<1>2. << >> \in Seq(StagedActions)
  OBVIOUS
<1> QED BY <1>1, <1>2 DEF Sealed, ActiveSessions, SessionsWith, Statuses

LEMMA AbortedType ==
  ASSUME NEW sid \in SessionIds, NEW session \in ActiveSessions, NEW key \in Keys
  PROVE  AbortedBy(sid, session, key) \in ActiveSessions
<1>1. AbortReceipt(sid, session) \in AbortReceipts
  BY ReceiptType
<1>2. << >> \in Seq(StagedActions)
  OBVIOUS
<1> QED BY <1>1, <1>2 DEF AbortedBy, ActiveSessions, SessionsWith, Statuses
-----------------------------------------------------------------------------
(* Type correctness.                                                       *)
LEMMA IssuedTokensType ==
  ASSUME TypeOK
  PROVE  IssuedTokens \subseteq Tokens
<1>1. ASSUME NEW sid \in Live, NEW g \in 1..sessions[sid].generation
      PROVE  TokenOf(sid, g) \in Tokens
  <2>1. sid \in SessionIds /\ sessions[sid] \in ActiveSessions
    BY DEF TypeOK, Live
  <2>2. /\ sessions[sid].identity \in Identities
        /\ sessions[sid].generation \in Nat
        /\ sessions[sid].expires_at_ms \in Nat
    BY <2>1 DEF ActiveSessions, SessionsWith
  <2>3. g \in Nat
    BY <2>2
  <2> QED BY <2>1, <2>2, <2>3, TokenType DEF TokenOf
<1> QED BY <1>1 DEF IssuedTokens

LEMMA CheckedType ==
  ASSUME IssuedTokens \subseteq Tokens, NEW r \in Requests, Precheck(r, now) = "OK"
  PROVE  r \in CheckedRequests
<1>1. PresentedTokens \ {None} \subseteq Tokens
  BY DEF PresentedTokens
<1>2. CASE r \in ProposeRequests
  BY <1>2 DEF CheckedRequests
<1>3. CASE r \in AmendRequests
  <2>1. r.method = "intent/amend"
    BY <1>3 DEF AmendRequests
  <2>2. r.capability_token # None
    BY <2>1 DEF Precheck, AmendPrecheck
  <2> QED BY <1>1, <1>3, <2>2 DEF AmendRequests, CheckedRequests
<1>4. CASE r \in CallRequests
  <2>1. r.method = "tools/call"
    BY <1>4 DEF CallRequests
  <2>2. CallPrecheck(r) = "OK"
    BY <2>1 DEF Precheck
  <2>3. /\ r.capability_token # None
        /\ r.idempotency_key # BlankKey
        /\ r.call.name \in DOMAIN Adapters
    BY <2>2 DEF CallPrecheck, ClosePrecheck, AmendPrecheck
  <2> QED BY <1>1, <1>4, <2>3 DEF CallRequests, CheckedRequests
<1>5. CASE r \in CloseRequests
  <2>1. r.method \in {"intent/seal", "intent/abort"}
    BY <1>5 DEF CloseRequests
  <2>2. ClosePrecheck(r) = "OK"
    BY <2>1 DEF Precheck
  <2>3. r.capability_token # None /\ r.idempotency_key # BlankKey
    BY <2>2 DEF ClosePrecheck, AmendPrecheck
  <2> QED BY <1>1, <1>5, <2>3 DEF CloseRequests, CheckedRequests
<1> QED BY <1>2, <1>3, <1>4, <1>5 DEF Requests

(* What a worker that runs a locked part has in hand.                      *)
LEMMA FoundType ==
  ASSUME TypeOK, NEW w \in Workers, NEW method, Finds(w, method),
         method \in {"intent/amend", "tools/call", "intent/seal", "intent/abort"}
  PROVE  /\ pending[w].request \in CheckedRequests
         /\ pending[w].request.method = method
         /\ pending[w].request.session_id \in SessionIds
         /\ Found(w) \in ActiveSessions
         /\ pending[w].now_ms \in Clock
<1>1. pending[w] \in InService /\ pending[w].status = "checked"
  BY DEF TypeOK, Finds, Checked, Idle
<1>2. pending[w].request \in CheckedRequests /\ pending[w].now_ms \in Clock
  BY <1>1 DEF InService
<1>3. pending[w].request.method = method /\ sessions[pending[w].request.session_id] # None
  BY DEF Finds, Checked
<1>4. pending[w].request.session_id \in SessionIds
  BY <1>2, <1>3 DEF CheckedRequests, ProposeRequests
<1> QED BY <1>2, <1>3, <1>4 DEF TypeOK, Found

LEMMA AnswerType ==
  ASSUME TypeOK, NEW w, NEW code, NEW result, Answer(w, code, result)
  PROVE  pending' \in [Workers -> {Idle} \cup InService]
  BY DEF TypeOK, Answer

(* The session that the request names is a session after the step.         *)
Keeps(w) == sessions'[pending[w].request.session_id] \in ActiveSessions

LEMMA StoreType ==
  ASSUME TypeOK, NEW w, NEW session \in ActiveSessions, Store(w, session),
         pending[w].request.session_id \in SessionIds
  PROVE  /\ sessions' \in [SessionIds -> ActiveSessions \cup {None}]
         /\ Keeps(w)
  BY DEF TypeOK, Store, Keeps

LEMMA TypeInit == Init => TypeOK
  BY DEF Init, TypeOK

(* A step that only answers or only moves the clock.                       *)
LEMMA ReceiveType ==
  ASSUME TypeOK, NEW w \in Workers, Receive(w)
  PROVE  TypeOK'
<1>1. PICK r \in Requests :
        /\ Precheck(r, now) = "OK"
        /\ pending' = [pending EXCEPT ![w] =
             [status |-> "checked", request |-> r, now_ms |-> now]]
  BY DEF Receive, Accept
<1>2. r \in CheckedRequests
  BY <1>1, CheckedType, IssuedTokensType
<1>3. [status |-> "checked", request |-> r, now_ms |-> now] \in InService
  BY <1>2 DEF InService, TypeOK
<1>4. pending' \in [Workers -> {Idle} \cup InService]
  BY <1>1, <1>3 DEF TypeOK
<1> QED BY <1>4 DEF Receive, Accept, TypeOK

LEMMA ProposeType ==
  ASSUME TypeOK, NEW w \in Workers,
         ConsumeDelegation(w) \/ DelegationConsumed(w) \/ InsertSession(w)
  PROVE  TypeOK'
<1>1. CASE ConsumeDelegation(w)
  <2>1. pending[w] \in InService /\ pending[w].status = "checked"
    BY <1>1 DEF ConsumeDelegation, Checked, TypeOK, Idle
  <2>2. pending[w].request \in CheckedRequests /\ pending[w].now_ms \in Clock
        /\ pending[w] = [status |-> "checked", request |-> pending[w].request,
                         now_ms |-> pending[w].now_ms]
    BY <2>1 DEF InService
  <2>3. pending[w].request \in ProposeRequests
    BY <1>1, <2>2 DEF ConsumeDelegation, Checked, CheckedRequests
  <2>4. [pending[w] EXCEPT !.status = "consumed"] \in InService
    BY <2>2, <2>3 DEF InService
  <2>5. pending' \in [Workers -> {Idle} \cup InService]
    BY <1>1, <2>4 DEF ConsumeDelegation, TypeOK
  <2>6. pending[w].request.delegation \in Delegations
    BY <2>3 DEF ProposeRequests
  <2> QED BY <1>1, <2>5, <2>6 DEF ConsumeDelegation, TypeOK
<1>2. CASE DelegationConsumed(w)
  <2>1. pending' \in [Workers -> {Idle} \cup InService]
    BY <1>2, AnswerType DEF DelegationConsumed
  <2> QED BY <1>2, <2>1 DEF DelegationConsumed, TypeOK
<1>3. CASE InsertSession(w)
  <2> DEFINE r == pending[w].request
  <2>1. PICK sid \in SessionIds \ Live :
          LET session == NewSession(sid, r, pending[w].now_ms) IN
          /\ sessions' = [sessions EXCEPT ![sid] = session]
          /\ backing' = [backing EXCEPT ![r.delegation] =
               [session_id |-> sid, generation |-> 1, budget |-> r.proposal.budgets]]
          /\ Answer(w, "OK", session.capability_token)
    BY <1>3 DEF InsertSession
  <2>2. pending[w] \in InService /\ pending[w].status = "consumed"
    BY <1>3 DEF InsertSession, TypeOK, Idle
  <2>3. r \in ProposeRequests /\ pending[w].now_ms \in Nat
    BY <2>2, InputAssumption DEF InService
  <2>4. NewSession(sid, r, pending[w].now_ms) \in ActiveSessions
    BY <2>3, NewSessionType
  <2>5. [session_id |-> sid, generation |-> 1, budget |-> r.proposal.budgets] \in Spendings
    BY <2>3, InputAssumption DEF Spendings, ProposeRequests
  <2>6. pending' \in [Workers -> {Idle} \cup InService]
    BY <2>1, AnswerType
  <2>7. sessions' \in [SessionIds -> ActiveSessions \cup {None}]
    BY <2>1, <2>4 DEF TypeOK
  <2>8. backing' \in [Delegations -> Spendings \cup {None}]
    BY <2>1, <2>5 DEF TypeOK
  <2> QED BY <1>3, <2>6, <2>7, <2>8 DEF InsertSession, TypeOK
<1> QED BY <1>1, <1>2, <1>3

LEMMA AmendType ==
  ASSUME TypeOK, NEW w \in Workers, Amend(w)
  PROVE  TypeOK' /\ Keeps(w)
<1> DEFINE r    == pending[w].request
           next == Amended(r.session_id, Found(w), r.budget_additions)
<1>1. /\ r \in CheckedRequests
      /\ r.method = "intent/amend"
      /\ r.session_id \in SessionIds
      /\ Found(w) \in ActiveSessions
  BY FoundType DEF Amend
<1>2. r.delegation \in Delegations /\ r.budget_additions \in Additions
  BY <1>1 DEF CheckedRequests, ProposeRequests
<1>3. ~ AddOverflows(Found(w).remaining_budgets, r.budget_additions)
  BY DEF Amend, AmendOutcome, AmendFault
<1>4. next \in ActiveSessions
  BY <1>1, <1>2, <1>3, AmendedType
<1>5. sessions' \in [SessionIds -> ActiveSessions \cup {None}] /\ Keeps(w)
  BY <1>1, <1>4, StoreType DEF Amend
<1>6. pending' \in [Workers -> {Idle} \cup InService]
  BY AnswerType DEF Amend
<1>7. [session_id |-> r.session_id, generation |-> next.generation,
       budget |-> r.budget_additions] \in Spendings
  BY <1>1, <1>2, <1>4, InputAssumption DEF Spendings, ActiveSessions, SessionsWith
<1>8. backing' \in [Delegations -> Spendings \cup {None}]
  BY <1>7 DEF Amend, TypeOK
<1> QED BY <1>2, <1>5, <1>6, <1>8 DEF Amend, TypeOK

LEMMA CallType ==
  ASSUME TypeOK, NEW w \in Workers,
         CallExpires(w) \/ CallHalfCharged(w) \/ CallStaged(w)
  PROVE  TypeOK' /\ Keeps(w)
<1> DEFINE r == pending[w].request
<1>1. /\ r \in CheckedRequests
      /\ r.method = "tools/call"
      /\ r.session_id \in SessionIds
      /\ Found(w) \in ActiveSessions
  BY FoundType DEF CallExpires, CallHalfCharged, CallStaged, FreshCall, CallAccepted
<1>2. /\ r.idempotency_key \in Keys
      /\ r.call \in Calls
      /\ r.call.name \in DOMAIN Adapters
  BY <1>1 DEF CheckedRequests, ProposeRequests
<1>3. pending' \in [Workers -> {Idle} \cup InService]
  BY AnswerType DEF CallExpires, CallHalfCharged, CallStaged
<1>4. ASSUME FreshCall(w)
      PROVE  FreshCallOutcome(r.call, Found(w)) = "OK"
  BY <1>4 DEF FreshCall, CallAccepted, CallOutcome
<1>5. CASE CallExpires(w)
  <2>1. sessions' \in [SessionIds -> ActiveSessions \cup {None}] /\ Keeps(w)
    BY <1>1, <1>5, ExpiredType, StoreType DEF CallExpires
  <2> QED BY <1>3, <1>5, <2>1 DEF CallExpires, TypeOK
<1>6. CASE CallHalfCharged(w)
  <2> DEFINE budget  == Found(w).remaining_budgets
             charges == PendingCharges(w)
  <2>1. PICK paid \in SUBSET {d \in DOMAIN charges : Present(budget, d)} :
          Store(w, [Found(w) EXCEPT !.remaining_budgets = Deduct(budget, charges, paid)])
    BY <1>6 DEF CallHalfCharged
  <2>2. FreshCallOutcome(r.call, Found(w)) = "OK"
    BY <1>4, <1>6 DEF CallHalfCharged
  <2>3. Affordable(budget, charges) /\ \A d \in DOMAIN charges : charges[d] \in U64
    BY <2>2 DEF FreshCallOutcome, ChargesFault, Chargeable, PendingCharges
  <2>4. budget \in Budgets
    BY <1>1 DEF ActiveSessions, SessionsWith
  <2> HIDE DEF charges, budget
  <2>5. Deduct(budget, charges, paid) \in Budgets
    BY <2>1, <2>3, <2>4, DeductType
  <2>6. [Found(w) EXCEPT !.remaining_budgets = Deduct(budget, charges, paid)] \in ActiveSessions
    BY <1>1, <2>5, ChargedType
  <2>7. sessions' \in [SessionIds -> ActiveSessions \cup {None}] /\ Keeps(w)
    BY <1>1, <2>1, <2>6, StoreType
  <2> QED BY <1>3, <1>6, <2>7 DEF CallHalfCharged, TypeOK
<1>7. CASE CallStaged(w)
  <2>1. FreshCallOutcome(r.call, Found(w)) = "OK"
    BY <1>4, <1>7 DEF CallStaged
  <2>2. uuids + 1 \in Nat
    BY DEF TypeOK
  <2>3. Staged(Found(w), r.idempotency_key, r.call, uuids + 1) \in ActiveSessions
    BY <1>1, <1>2, <1>7, <2>1, <2>2, StagedType DEF CallStaged, PendingCharges
  <2>4. sessions' \in [SessionIds -> ActiveSessions \cup {None}] /\ Keeps(w)
    BY <1>1, <1>7, <2>3, StoreType DEF CallStaged
  <2> QED BY <1>3, <1>7, <2>2, <2>4 DEF CallStaged, TypeOK
<1> QED BY <1>5, <1>6, <1>7

LEMMA CloseType ==
  ASSUME TypeOK, NEW w \in Workers, Seal(w) \/ Abort(w)
  PROVE  TypeOK' /\ Keeps(w)
<1> DEFINE r == pending[w].request
<1>1. /\ r \in CheckedRequests
      /\ r.method \in {"intent/seal", "intent/abort"}
      /\ r.session_id \in SessionIds
      /\ Found(w) \in ActiveSessions
  BY FoundType DEF Seal, SealAccepted, Abort, AbortAccepted
<1>2. r.idempotency_key \in Keys
  BY <1>1 DEF CheckedRequests, ProposeRequests
<1>3. pending' \in [Workers -> {Idle} \cup InService]
  BY AnswerType DEF Seal, Abort
<1>4. sessions' \in [SessionIds -> ActiveSessions \cup {None}] /\ Keeps(w)
  BY <1>1, <1>2, SealedType, AbortedType, StoreType DEF Seal, Abort
<1> QED BY <1>3, <1>4 DEF Seal, Abort, TypeOK

(* The steps of a worker that answer and leave the sessions alone.         *)
Quiet(w) ==
  \/ Refuse(w) \/ Undispatched(w) \/ UnknownSession(w) \/ AmendRejected(w)
  \/ CallRejected(w) \/ CallReplayed(w)
  \/ SealRejected(w) \/ SealReplayed(w) \/ AbortRejected(w) \/ AbortReplayed(w)

LEMMA QuietType ==
  ASSUME TypeOK, NEW w \in Workers, Quiet(w)
  PROVE  TypeOK' /\ UNCHANGED <<sessions, used_delegations, now, uuids, backing>>
<1>1. /\ UNCHANGED <<sessions, used_delegations, now, uuids, backing>>
      /\ pending' = pending \/ \E code, result : Answer(w, code, result)
  BY DEF Quiet, Refuse, Decline, Undispatched, UnknownSession, AmendRejected, CallRejected, CallReplayed,
         SealRejected, SealReplayed, AbortRejected, AbortReplayed, Rejects
<1>2. pending' \in [Workers -> {Idle} \cup InService]
  BY <1>1, AnswerType DEF TypeOK
<1> QED BY <1>1, <1>2 DEF TypeOK

LEMMA TypeStep == TypeOK /\ [Next]_vars => TypeOK'
<1> SUFFICES ASSUME TypeOK, [Next]_vars PROVE TypeOK'
  OBVIOUS
<1>1. CASE Tick
  BY <1>1 DEF Tick, TypeOK
<1>2. ASSUME NEW w \in Workers, Receive(w) \/ Refuse(w) \/ Undispatched(w) \/ Serve(w)
      PROVE  TypeOK'
  BY <1>2, ReceiveType, ProposeType, AmendType, CallType, CloseType, QuietType
     DEF Serve, Quiet
<1>3. CASE UNCHANGED vars
  BY <1>3 DEF vars, TypeOK
<1> QED BY <1>1, <1>2, <1>3 DEF Next

(* Every variable of the session manager always has its type.              *)
THEOREM TypeCorrect == Spec => []TypeOK
  BY TypeInit, TypeStep, PTL DEF Spec
-----------------------------------------------------------------------------
(* A session has a receipt exactly as its status says, and everything it   *)
(* staged passes the policy.                                               *)
Sound(session) ==
  /\ session.settlement_result # None => session.status \in {"SETTLED", "EXPIRED"}
  /\ session.abort_result # None => session.status \in {"ABORTED", "EXPIRED"}
  /\ session.settlement_result = None \/ session.abort_result = None
  /\ session.status = "SETTLED" => session.settlement_result # None
  /\ session.status = "ABORTED" => session.abort_result # None
  /\ Revalidates(session)

(* The clock that a request in service read is not ahead of the clock.     *)
ClocksRead == \A w \in Workers : pending[w] # Idle => pending[w].now_ms <= now

(* The invariants that carry the proofs below.  The first depends on no    *)
(* clock and no order of the deadlines, so it also survives a clock that   *)
(* is set back.                                                            *)
SessionsSound ==
  /\ TypeOK
  /\ \A sid \in Live : Sound(sessions[sid])

LifecycleInv ==
  /\ SessionsSound
  /\ ClocksRead
  /\ ExpiredOnlyAfterDeadline
-----------------------------------------------------------------------------
(* What a worker does to an open session whose token it holds.             *)
ActsOn(w, sid) ==
  LET r   == pending[w].request
      old == sessions[sid]
      new == sessions'[sid]
  IN
  /\ CapabilityValid(sid, old, r.capability_token, pending[w].now_ms)
  /\ old.status \in Open
  /\ \/ new = Amended(sid, old, r.budget_additions)
     \/ \E budget : new = [old EXCEPT !.remaining_budgets = budget]
     \/ /\ r.idempotency_key \in Keys
        /\ r.call \in Calls
        /\ r.call.name \in DOMAIN Adapters
        /\ old.tool_results[r.idempotency_key] = None
        /\ FreshCallOutcome(r.call, old) = "OK"
        /\ Deductible(old.remaining_budgets,
                      Charges(Adapters[r.call.name], r.call.arguments))
        /\ uuids' = uuids + 1
        /\ new = Staged(old, r.idempotency_key, r.call, uuids + 1)
     \/ r.idempotency_key \in Keys /\ new = Sealed(sid, old, r.idempotency_key)
     \/ r.idempotency_key \in Keys /\ new = AbortedBy(sid, old, r.idempotency_key)

(* The one thing it does to a session without holding its active token.    *)
Expires(w, sid) ==
  pending[w].now_ms >= sessions[sid].expires_at_ms /\ OnlyExpires(sid)

Changes(w, sid) ==
  /\ pending[w].status = "checked"
  /\ pending[w].request.method # "intent/propose"
  /\ pending[w].request.session_id = sid
  /\ pending'[w] = Idle
  /\ ActsOn(w, sid) \/ Expires(w, sid)

(* A step of one worker, seen from the sessions: it changes none, or the   *)
(* one its request names, or inserts one.                                  *)
LEMMA WorkerChanges ==
  ASSUME TypeOK, NEW w \in Workers,
         \/ Amend(w) \/ CallExpires(w) \/ CallHalfCharged(w) \/ CallStaged(w)
         \/ Seal(w) \/ Abort(w)
  PROVE  LET sid == pending[w].request.session_id IN
         /\ sid \in Live
         /\ sessions' = [sessions EXCEPT ![sid] = sessions'[sid]]
         /\ sessions'[sid] \in ActiveSessions
         /\ Changes(w, sid)
<1> DEFINE r   == pending[w].request
           sid == r.session_id
           old == sessions[sid]
           new == sessions'[sid]
<1>1. PICK method \in {"intent/amend", "tools/call", "intent/seal", "intent/abort"} :
        Finds(w, method)
  BY DEF Amend, CallExpires, CallHalfCharged, CallStaged, FreshCall, CallAccepted,
         Seal, SealAccepted, Abort, AbortAccepted
<1>2. /\ r \in CheckedRequests
      /\ r.method = method
      /\ sid \in SessionIds
      /\ old \in ActiveSessions
      /\ pending[w].status = "checked"
      /\ Found(w) = old
  BY <1>1, FoundType DEF Finds, Checked, Found
<1>3. sid \in Live /\ r.method # "intent/propose"
  BY <1>1, <1>2 DEF Live, Finds
<1>4. pending'[w] = Idle
  BY DEF Amend, CallExpires, CallHalfCharged, CallStaged, Seal, Abort, Answer, TypeOK
<1>5. \A session : Store(w, session) =>
        sessions' = [sessions EXCEPT ![sid] = new] /\ new = session
  BY <1>2 DEF Store, TypeOK
<1>6. old.status \in Statuses
  BY <1>2 DEF ActiveSessions, SessionsWith
<1>7. new \in ActiveSessions
  BY AmendType, CallType, CloseType DEF Keeps
<1>8. CASE Amend(w)
  <2>1. /\ CapabilityValid(sid, old, r.capability_token, pending[w].now_ms)
        /\ old.status \in Open
    BY <1>2, <1>8 DEF Amend, AmendOutcome, AmendFault
  <2>2. Store(w, Amended(sid, old, r.budget_additions))
    BY <1>2, <1>8 DEF Amend
  <2> QED BY <1>2, <1>3, <1>4, <1>5, <1>7, <2>1, <2>2 DEF Changes, ActsOn
<1>9. CASE CallExpires(w)
  <2>1. /\ pending[w].now_ms >= old.expires_at_ms
        /\ Store(w, [old EXCEPT !.status = "EXPIRED"])
    BY <1>2, <1>9 DEF CallExpires
  <2> QED BY <1>2, <1>3, <1>4, <1>5, <1>7, <2>1 DEF Changes, Expires, OnlyExpires
<1>10. ASSUME FreshCall(w)
      PROVE  /\ CapabilityValid(sid, old, r.capability_token, pending[w].now_ms)
             /\ old.status \in Open
             /\ old.tool_results[r.idempotency_key] = None
             /\ FreshCallOutcome(r.call, old) = "OK"
  BY <1>2, <1>10 DEF FreshCall, CallAccepted, CallOutcome
<1>11. CASE CallHalfCharged(w)
  <2>1. \E budget : Store(w, [old EXCEPT !.remaining_budgets = budget])
    BY <1>2, <1>11 DEF CallHalfCharged
  <2>2. FreshCall(w)
    BY <1>11 DEF CallHalfCharged
  <2> QED BY <1>2, <1>3, <1>4, <1>5, <1>7, <1>10, <2>1, <2>2 DEF Changes, ActsOn
<1>12. CASE CallStaged(w)
  <2>1. /\ FreshCall(w)
        /\ Deductible(old.remaining_budgets,
                      Charges(Adapters[r.call.name], r.call.arguments))
        /\ uuids' = uuids + 1
        /\ Store(w, Staged(old, r.idempotency_key, r.call, uuids + 1))
    BY <1>2, <1>12 DEF CallStaged, PendingCharges
  <2>2. r.method = "tools/call"
    BY <1>12 DEF CallStaged, FreshCall, CallAccepted, Finds, Checked
  <2>3. /\ r.idempotency_key \in Keys
        /\ r.call \in Calls
        /\ r.call.name \in DOMAIN Adapters
    BY <1>2, <2>2 DEF CheckedRequests, ProposeRequests
  <2> QED BY <1>2, <1>3, <1>4, <1>5, <1>7, <1>10, <2>1, <2>3 DEF Changes, ActsOn
<1>13. CASE Seal(w)
  <2>1. /\ CapabilityValid(sid, old, r.capability_token, pending[w].now_ms)
        /\ old.status \in Open
        /\ Store(w, Sealed(sid, old, r.idempotency_key))
    BY <1>2, <1>13 DEF Seal, SealAccepted, SealOutcome
  <2>2. r.idempotency_key \in Keys
    BY <1>2, <1>13 DEF Seal, SealAccepted, Finds, Checked, CheckedRequests, ProposeRequests
  <2> QED BY <1>2, <1>3, <1>4, <1>5, <1>7, <2>1, <2>2 DEF Changes, ActsOn
<1>14. CASE Abort(w)
  <2>1. /\ CapabilityValid(sid, old, r.capability_token, pending[w].now_ms)
        /\ old.status \in Open
        /\ Store(w, AbortedBy(sid, old, r.idempotency_key))
    BY <1>2, <1>6, <1>14 DEF Abort, AbortAccepted, AbortOutcome, Statuses, Open
  <2>2. r.idempotency_key \in Keys
    BY <1>2, <1>14 DEF Abort, AbortAccepted, Finds, Checked, CheckedRequests, ProposeRequests
  <2> QED BY <1>2, <1>3, <1>4, <1>5, <1>7, <2>1, <2>2 DEF Changes, ActsOn
<1> QED BY <1>8, <1>9, <1>11, <1>12, <1>13, <1>14

(* No step removes a session, and every change of one is the Change of a   *)
(* worker that holds a request for it.                                     *)
LEMMA SessionStep ==
  ASSUME TypeOK, [Next]_vars, NEW sid \in Live
  PROVE  /\ sessions'[sid] # None
         /\ sessions'[sid] = sessions[sid] \/ \E w \in Workers : Changes(w, sid)
<1> DEFINE Stays == sessions'[sid] = sessions[sid]
<1>1. ASSUME Tick \/ UNCHANGED vars
      PROVE  Stays
  BY <1>1 DEF Tick, vars
<1>2. ASSUME NEW w \in Workers, Receive(w) \/ Refuse(w) \/ Undispatched(w) \/ Serve(w)
      PROVE  Stays \/ (Changes(w, sid) /\ sessions'[sid] \in ActiveSessions)
  <2>1. CASE Receive(w) \/ Quiet(w) \/ ConsumeDelegation(w) \/ DelegationConsumed(w)
    BY <2>1, QuietType DEF Receive, Accept, ConsumeDelegation, DelegationConsumed
  <2>2. CASE InsertSession(w)
    BY <2>2 DEF InsertSession, TypeOK
  <2>3. CASE \/ Amend(w) \/ CallExpires(w) \/ CallHalfCharged(w) \/ CallStaged(w)
             \/ Seal(w) \/ Abort(w)
    <3>1. /\ sessions' = [sessions EXCEPT ![pending[w].request.session_id] =
                            sessions'[pending[w].request.session_id]]
          /\ sessions'[pending[w].request.session_id] \in ActiveSessions
          /\ Changes(w, pending[w].request.session_id)
      BY <2>3, WorkerChanges
    <3>2. pending[w].request.session_id # sid => Stays
      BY <3>1 DEF Live, TypeOK
    <3> QED BY <3>1, <3>2
  <2> QED BY <1>2, <2>1, <2>2, <2>3 DEF Serve, Quiet
<1>3. Stays \/ \E w \in Workers : Changes(w, sid) /\ sessions'[sid] \in ActiveSessions
  BY <1>1, <1>2 DEF Next
<1>4. None \notin ActiveSessions /\ sessions[sid] # None
  BY NoneIsNoValue DEF Live
<1> QED BY <1>3, <1>4
-----------------------------------------------------------------------------
(* What a change makes of a sound session is sound.                        *)
LEMMA NewSound ==
  ASSUME NEW sid \in SessionIds, NEW r, NEW t
  PROVE  /\ Sound(NewSession(sid, r, t))
         /\ NewSession(sid, r, t).status # "EXPIRED"
  BY DEF NewSession, Sound, Revalidates

LEMMA AmendedSound ==
  ASSUME NEW sid, NEW session \in ActiveSessions, NEW a,
         Sound(session), session.status \in Open
  PROVE  Sound(Amended(sid, session, a))
<1>1. session.settlement_result = None /\ session.abort_result = None
  BY DEF Sound, Open
<1>2. LET new == Amended(sid, session, a) IN
      /\ new.settlement_result = None /\ new.abort_result = None
      /\ new.status = "ACTIVE"
      /\ new.staged_actions = session.staged_actions
      /\ new.identity = session.identity
  BY <1>1 DEF Amended, ActiveSessions, SessionsWith
<1>3. Revalidates(Amended(sid, session, a))
  BY <1>2 DEF Sound, Revalidates, PolicyAllows
<1> QED BY <1>2, <1>3 DEF Sound

LEMMA ChargedSound ==
  ASSUME NEW session \in ActiveSessions, NEW budget, Sound(session)
  PROVE  Sound([session EXCEPT !.remaining_budgets = budget])
<1> DEFINE new == [session EXCEPT !.remaining_budgets = budget]
<1>1. /\ new.settlement_result = session.settlement_result
      /\ new.abort_result = session.abort_result
      /\ new.status = session.status
      /\ new.staged_actions = session.staged_actions
      /\ new.identity = session.identity
  BY DEF ActiveSessions, SessionsWith
<1> HIDE DEF new
<1>2. Revalidates(new)
  BY <1>1 DEF Sound, Revalidates, PolicyAllows
<1>3. Sound(new)
  BY <1>1, <1>2 DEF Sound
<1> QED BY <1>3 DEF new

LEMMA ExpiredSound ==
  ASSUME NEW session \in ActiveSessions, Sound(session)
  PROVE  Sound([session EXCEPT !.status = "EXPIRED"])
<1> DEFINE new == [session EXCEPT !.status = "EXPIRED"]
<1>1. /\ new.settlement_result = session.settlement_result
      /\ new.abort_result = session.abort_result
      /\ new.status = "EXPIRED"
      /\ new.staged_actions = session.staged_actions
      /\ new.identity = session.identity
  BY DEF ActiveSessions, SessionsWith
<1> HIDE DEF new
<1>2. Revalidates(new)
  BY <1>1 DEF Sound, Revalidates, PolicyAllows
<1>3. Sound(new)
  BY <1>1, <1>2 DEF Sound
<1> QED BY <1>3 DEF new

(* A fresh call passed the policy for the resources it is staged with, so  *)
(* the policy, which depends on nothing that changes, will pass it again.  *)
LEMMA StagedSound ==
  ASSUME NEW session \in ActiveSessions, NEW key, NEW call, NEW id,
         Sound(session), session.status \in Open,
         FreshCallOutcome(call, session) = "OK"
  PROVE  Sound(Staged(session, key, call, id))
<1> DEFINE new    == Staged(session, key, call, id)
           action == [call             |-> call,
                      resource_ids     |-> MatchedResources(Adapters[call.name], call.arguments),
                      settlement_order |-> Adapters[call.name].settlement_order,
                      staged_id        |-> id]
<1>1. session.settlement_result = None /\ session.abort_result = None
  BY DEF Sound, Open
<1>2. /\ new.settlement_result = None /\ new.abort_result = None
      /\ new.status = "ACTIVE"
      /\ new.staged_actions = Append(session.staged_actions, action)
      /\ new.identity = session.identity
  BY <1>1 DEF Staged, ActiveSessions, SessionsWith
<1>3. PolicyAllows(session, call, action.resource_ids)
  BY DEF FreshCallOutcome
<1> HIDE DEF new
<1>4. ASSUME NEW i \in DOMAIN new.staged_actions
      PROVE  PolicyAllows(new, new.staged_actions[i].call, new.staged_actions[i].resource_ids)
  <2>1. session.staged_actions \in Seq(StagedActions)
    BY DEF ActiveSessions, SessionsWith
  <2>2. CASE i \in DOMAIN session.staged_actions
    <3>1. new.staged_actions[i] = session.staged_actions[i]
      BY <1>2, <2>1, <2>2
    <3>2. PolicyAllows(session, session.staged_actions[i].call,
                       session.staged_actions[i].resource_ids)
      BY <2>2 DEF Sound, Revalidates
    <3> QED BY <1>2, <3>1, <3>2 DEF PolicyAllows
  <2>3. CASE i \notin DOMAIN session.staged_actions
    <3>1. new.staged_actions[i] = action
      BY <1>2, <2>1, <2>3
    <3>2. new.staged_actions[i].call = call
          /\ new.staged_actions[i].resource_ids = action.resource_ids
      BY <3>1
    <3> HIDE DEF action
    <3> QED BY <1>2, <1>3, <3>2 DEF PolicyAllows
  <2> QED BY <2>2, <2>3
<1>5. Sound(new)
  BY <1>2, <1>4 DEF Sound, Revalidates
<1> QED BY <1>5 DEF new

LEMMA SealedSound ==
  ASSUME NEW sid \in SessionIds, NEW session \in ActiveSessions, NEW key \in Keys,
         Sound(session), session.status \in Open
  PROVE  /\ Sound(Sealed(sid, session, key))
         /\ Sealed(sid, session, key).status = "SETTLED"
<1> DEFINE new == Sealed(sid, session, key)
<1>1. session.settlement_result = None /\ session.abort_result = None
  BY DEF Sound, Open
<1>2. SealReceipt(sid, session) # None
  BY ReceiptType, NoneIsNoValue
<1>3. Revalidates(session)
  BY DEF Sound
<1>4. /\ new.settlement_result # None /\ new.abort_result = None
      /\ new.status = "SETTLED"
      /\ new.staged_actions = session.staged_actions
      /\ new.identity = session.identity
  BY <1>1, <1>2, <1>3 DEF Sealed, ActiveSessions, SessionsWith
<1> HIDE DEF new
<1>5. Revalidates(new)
  BY <1>3, <1>4 DEF Revalidates, PolicyAllows
<1>6. Sound(new) /\ new.status = "SETTLED"
  BY <1>4, <1>5 DEF Sound
<1> QED BY <1>6 DEF new

LEMMA AbortedSound ==
  ASSUME NEW sid \in SessionIds, NEW session \in ActiveSessions, NEW key \in Keys,
         Sound(session), session.status \in Open
  PROVE  /\ Sound(AbortedBy(sid, session, key))
         /\ AbortedBy(sid, session, key).status = "ABORTED"
<1> DEFINE new == AbortedBy(sid, session, key)
<1>1. session.settlement_result = None
  BY DEF Sound, Open
<1>2. AbortReceipt(sid, session) # None
  BY ReceiptType, NoneIsNoValue
<1>3. /\ new.settlement_result = None /\ new.abort_result # None
      /\ new.status = "ABORTED"
      /\ new.staged_actions = << >>
  BY <1>1, <1>2 DEF AbortedBy, ActiveSessions, SessionsWith
<1> HIDE DEF new
<1>4. Revalidates(new)
  BY <1>3 DEF Revalidates
<1>5. Sound(new) /\ new.status = "ABORTED"
  BY <1>3, <1>4 DEF Sound
<1> QED BY <1>5 DEF new
-----------------------------------------------------------------------------
(* The invariant.                                                          *)
LEMMA ClockStep ==
  ASSUME TypeOK, [Next]_vars
  PROVE  now \in Nat /\ now' \in Nat /\ now <= now'
<1>1. now \in Nat
  BY InputAssumption DEF TypeOK
<1>2. CASE Tick
  <2>1. now' \in Clock /\ now' > now
    BY <1>2 DEF Tick
  <2>2. now' \in Nat
    BY <2>1, InputAssumption
  <2> QED BY <1>1, <2>1, <2>2
<1>3. CASE UNCHANGED now
  BY <1>1, <1>3
<1>4. Tick \/ UNCHANGED now
  BY QuietType DEF Next, vars, Receive, Accept, Serve, Quiet, ConsumeDelegation, DelegationConsumed,
     InsertSession, Amend, CallExpires, CallHalfCharged, CallStaged, Seal, Abort
<1> QED BY <1>2, <1>3, <1>4

(* A request in service was so before, or has just read the clock.         *)
LEMMA PendingStep ==
  ASSUME TypeOK, [Next]_vars, NEW w \in Workers, pending'[w] # Idle
  PROVE  \/ /\ pending[w] # Idle
            /\ pending'[w].now_ms = pending[w].now_ms
         \/ pending'[w].now_ms = now
<1>1. CASE Tick \/ UNCHANGED vars
  BY <1>1 DEF Tick, vars
<1>2. ASSUME NEW v \in Workers, Receive(v)
      PROVE  pending'[w] = pending[w] \/ pending'[w].now_ms = now
  BY <1>2 DEF Receive, Accept, TypeOK
<1>3. ASSUME NEW v \in Workers, ConsumeDelegation(v)
      PROVE  \/ pending'[w] = pending[w]
             \/ /\ pending[w] # Idle
                /\ pending'[w].now_ms = pending[w].now_ms
  <2>1. pending[v] \in InService
    BY <1>3 DEF ConsumeDelegation, Checked, TypeOK, Idle
  <2>2. [pending[v] EXCEPT !.status = "consumed"].now_ms = pending[v].now_ms
    BY <2>1 DEF InService
  <2>3. pending[v] # Idle
    BY <1>3 DEF ConsumeDelegation, Checked, Idle
  <2>4. pending' = [pending EXCEPT ![v] = [pending[v] EXCEPT !.status = "consumed"]]
    BY <1>3 DEF ConsumeDelegation
  <2> QED BY <2>2, <2>3, <2>4 DEF TypeOK
<1>4. ASSUME NEW v \in Workers, NEW code, NEW result, Answer(v, code, result)
      PROVE  pending'[w] = pending[w]
  BY <1>4 DEF Answer, TypeOK
<1>5. ASSUME NEW v \in Workers, Refuse(v) \/ Undispatched(v) \/ Serve(v)
      PROVE  \/ pending' = pending
             \/ ConsumeDelegation(v)
             \/ \E code, result : Answer(v, code, result)
  BY <1>5 DEF Refuse, Decline, Undispatched, Serve, DelegationConsumed, InsertSession, UnknownSession,
     AmendRejected, Amend, CallRejected, CallExpires, CallReplayed, CallHalfCharged,
     CallStaged, SealRejected, SealReplayed, Seal, AbortRejected, AbortReplayed, Abort,
     Rejects
<1> QED BY <1>1, <1>2, <1>3, <1>4, <1>5 DEF Next

LEMMA ClocksStep ==
  ASSUME TypeOK, ClocksRead, [Next]_vars
  PROVE  ClocksRead'
<1> SUFFICES ASSUME NEW w \in Workers, pending'[w] # Idle
             PROVE  pending'[w].now_ms <= now'
  BY DEF ClocksRead
<1>1. now \in Nat /\ now' \in Nat /\ now <= now'
  BY ClockStep
<1>2. CASE pending'[w].now_ms = now
  BY <1>1, <1>2
<1>3. CASE pending[w] # Idle /\ pending'[w].now_ms = pending[w].now_ms
  <2>1. pending[w].now_ms <= now /\ pending[w].now_ms \in Nat
    BY <1>3, InputAssumption DEF ClocksRead, TypeOK, InService
  <2> QED BY <1>1, <1>3, <2>1
<1> QED BY <1>2, <1>3, PendingStep

LEMMA ChangeSound ==
  ASSUME SessionsSound, NEW sid \in Live, NEW w \in Workers, Changes(w, sid)
  PROVE  /\ Sound(sessions'[sid])
         /\ ActsOn(w, sid) => sessions'[sid].status # "EXPIRED"
<1> DEFINE r   == pending[w].request
           old == sessions[sid]
           new == sessions'[sid]
<1>1. sid \in SessionIds /\ old \in ActiveSessions /\ Sound(old)
  BY DEF SessionsSound, TypeOK, Live
<1>2. CASE Expires(w, sid) /\ ~ ActsOn(w, sid)
  <2>1. new = [old EXCEPT !.status = "EXPIRED"]
    BY <1>2 DEF Expires, OnlyExpires
  <2> QED BY <1>1, <1>2, <2>1, ExpiredSound
<1>3. CASE ActsOn(w, sid)
  <2>1. old.status \in Open
    BY <1>3 DEF ActsOn
  <2>2. CASE new = Amended(sid, old, r.budget_additions)
    <3>1. new.status = "ACTIVE"
      BY <1>1, <2>2 DEF Amended, ActiveSessions, SessionsWith
    <3> QED BY <1>1, <2>1, <2>2, <3>1, AmendedSound
  <2>3. CASE \E budget : new = [old EXCEPT !.remaining_budgets = budget]
    <3>1. new.status = old.status
      BY <1>1, <2>3 DEF ActiveSessions, SessionsWith
    <3> QED BY <1>1, <2>1, <2>3, <3>1, ChargedSound DEF Open
  <2>4. CASE /\ FreshCallOutcome(r.call, old) = "OK"
             /\ new = Staged(old, r.idempotency_key, r.call, uuids + 1)
    <3>1. new.status = "ACTIVE"
      BY <1>1, <2>4 DEF Staged, ActiveSessions, SessionsWith
    <3> QED BY <1>1, <2>1, <2>4, <3>1, StagedSound
  <2>5. CASE r.idempotency_key \in Keys /\ new = Sealed(sid, old, r.idempotency_key)
    BY <1>1, <2>1, <2>5, SealedSound
  <2>6. CASE r.idempotency_key \in Keys /\ new = AbortedBy(sid, old, r.idempotency_key)
    BY <1>1, <2>1, <2>6, AbortedSound
  <2> QED BY <1>3, <2>2, <2>3, <2>4, <2>5, <2>6 DEF ActsOn
<1> QED BY <1>2, <1>3 DEF Changes

(* What expires a session has read a clock that is past its deadline.      *)
LEMMA ChangeDue ==
  ASSUME SessionsSound, ClocksRead, NEW sid \in Live, NEW w \in Workers, Changes(w, sid),
         sessions'[sid].status = "EXPIRED"
  PROVE  now >= sessions'[sid].expires_at_ms
<1>1. sessions[sid] \in ActiveSessions /\ Expires(w, sid)
  BY ChangeSound DEF SessionsSound, TypeOK, Live, Changes
<1>2. sessions'[sid] = [sessions[sid] EXCEPT !.status = "EXPIRED"]
  BY <1>1 DEF Expires, OnlyExpires
<1>3. /\ sessions'[sid].expires_at_ms = sessions[sid].expires_at_ms
      /\ sessions[sid].expires_at_ms \in Nat
  BY <1>1, <1>2 DEF ActiveSessions, SessionsWith
<1>4. pending[w] # Idle
  BY DEF Changes, Idle
<1>5. pending[w].now_ms <= now /\ pending[w].now_ms \in Nat /\ now \in Nat
  BY <1>4, InputAssumption DEF SessionsSound, ClocksRead, TypeOK, InService
<1>6. pending[w].now_ms >= sessions[sid].expires_at_ms
  BY <1>1 DEF Expires
<1> QED BY <1>3, <1>5, <1>6

(* Sessions come into being by InsertSession alone.                        *)
LEMMA Inserted ==
  ASSUME TypeOK, [Next]_vars, NEW sid \in SessionIds,
         sessions[sid] = None, sessions'[sid] # None
  PROVE  \E r, t : sessions'[sid] = NewSession(sid, r, t)
<1>1. CASE Tick \/ UNCHANGED vars
  BY <1>1 DEF Tick, vars
<1>2. ASSUME NEW w \in Workers, Receive(w) \/ Refuse(w) \/ Undispatched(w) \/ Serve(w)
      PROVE  \E r, t : sessions'[sid] = NewSession(sid, r, t)
  <2>1. CASE Receive(w) \/ Quiet(w) \/ ConsumeDelegation(w) \/ DelegationConsumed(w)
    BY <2>1, QuietType DEF Receive, Accept, ConsumeDelegation, DelegationConsumed
  <2>2. CASE InsertSession(w)
    BY <2>2 DEF InsertSession, TypeOK
  <2>3. CASE \/ Amend(w) \/ CallExpires(w) \/ CallHalfCharged(w) \/ CallStaged(w)
             \/ Seal(w) \/ Abort(w)
    <3>1. /\ pending[w].request.session_id \in Live
          /\ sessions' = [sessions EXCEPT ![pending[w].request.session_id] =
                            sessions'[pending[w].request.session_id]]
      BY <2>3, WorkerChanges
    <3>2. sid # pending[w].request.session_id
      BY <3>1 DEF Live
    <3> QED BY <3>1, <3>2 DEF TypeOK
  <2> QED BY <1>2, <2>1, <2>2, <2>3 DEF Serve, Quiet
<1> QED BY <1>1, <1>2 DEF Next

LEMMA LifecycleInit == Init => LifecycleInv
<1> SUFFICES ASSUME Init PROVE LifecycleInv
  OBVIOUS
<1>1. TypeOK
  BY TypeInit
<1>2. Live = {} /\ ClocksRead
  BY DEF Init, Live, ClocksRead
<1> QED BY <1>1, <1>2 DEF LifecycleInv, SessionsSound, ExpiredOnlyAfterDeadline

LEMMA SoundStep == SessionsSound /\ [Next]_vars => SessionsSound'
<1> SUFFICES ASSUME SessionsSound, [Next]_vars PROVE SessionsSound'
  OBVIOUS
<1>1. TypeOK
  BY DEF SessionsSound
<1>2. TypeOK'
  BY <1>1, TypeStep
<1>3. ASSUME NEW sid \in SessionIds, sessions'[sid] # None
      PROVE  Sound(sessions'[sid])
  <2>1. CASE sid \in Live
    <3>1. CASE sessions'[sid] = sessions[sid]
      BY <2>1, <3>1 DEF SessionsSound
    <3>2. CASE \E w \in Workers : Changes(w, sid)
      BY <2>1, <3>2, ChangeSound
    <3> QED BY <1>1, <2>1, <3>1, <3>2, SessionStep
  <2>2. CASE sid \notin Live
    <3>1. sessions[sid] = None
      BY <2>2 DEF Live
    <3>2. \E r, t : sessions'[sid] = NewSession(sid, r, t)
      BY <1>1, <1>3, <3>1, Inserted
    <3> QED BY <3>2, NewSound
  <2> QED BY <2>1, <2>2
<1>4. \A sid \in Live' : Sound(sessions'[sid])
  BY <1>3 DEF Live
<1>5. (\A sid \in Live : Sound(sessions[sid]))'
  BY <1>4 DEF Sound, Revalidates, PolicyAllows
<1> QED BY <1>2, <1>5 DEF SessionsSound

LEMMA DeadlineStep ==
  ASSUME LifecycleInv, [Next]_vars
  PROVE  ExpiredOnlyAfterDeadline'
<1>1. TypeOK /\ TypeOK' /\ ClocksRead /\ SessionsSound
  BY TypeStep DEF LifecycleInv, SessionsSound
<1>2. now \in Nat /\ now' \in Nat /\ now <= now'
  BY <1>1, ClockStep
<1>3. ASSUME NEW sid \in SessionIds, sessions'[sid] # None,
             sessions'[sid].status = "EXPIRED"
      PROVE  now' >= sessions'[sid].expires_at_ms
  <2>1. sessions'[sid].expires_at_ms \in Nat
    BY <1>1, <1>3 DEF TypeOK, ActiveSessions, SessionsWith
  <2>2. CASE sid \in Live
    <3>1. CASE sessions'[sid] = sessions[sid]
      BY <1>2, <1>3, <2>1, <2>2, <3>1 DEF LifecycleInv, ExpiredOnlyAfterDeadline
    <3>2. CASE \E w \in Workers : Changes(w, sid)
      <4>1. now >= sessions'[sid].expires_at_ms
        BY <1>1, <1>3, <2>2, <3>2, ChangeDue
      <4> QED BY <1>2, <2>1, <4>1
    <3> QED BY <1>1, <2>2, <3>1, <3>2, SessionStep
  <2>3. CASE sid \notin Live
    <3>1. sessions[sid] = None
      BY <2>3 DEF Live
    <3>2. \E r, t : sessions'[sid] = NewSession(sid, r, t)
      BY <1>1, <1>3, <3>1, Inserted
    <3> QED BY <1>3, <3>2, NewSound
  <2> QED BY <2>2, <2>3
<1> QED BY <1>3 DEF Live, ExpiredOnlyAfterDeadline

LEMMA LifecycleStep == LifecycleInv /\ [Next]_vars => LifecycleInv'
  BY SoundStep, ClocksStep, DeadlineStep DEF LifecycleInv, SessionsSound

LEMMA LifecycleHolds == Spec => []LifecycleInv
  BY LifecycleInit, LifecycleStep, PTL DEF Spec

(* A session is settled or rolled back, never both.                        *)
THEOREM OneOutcomeAlways == Spec => []OneOutcome
<1>1. LifecycleInv => OneOutcome
  BY DEF LifecycleInv, SessionsSound, Sound, OneOutcome, Open
<1> QED BY <1>1, LifecycleHolds, PTL

(* What a call could stage, seal does not deny: a session is ABORTED by    *)
(* intent/abort only.                                                      *)
THEOREM SealNeverDeniesStaged == Spec => []SealNeverDenied
<1>1. LifecycleInv => SealNeverDenied
  BY DEF LifecycleInv, SessionsSound, Sound, SealNeverDenied
<1> QED BY <1>1, LifecycleHolds, PTL

(* A session is marked EXPIRED only once its deadline has passed.          *)
THEOREM ExpiryIsDue == Spec => []ExpiredOnlyAfterDeadline
<1>1. LifecycleInv => ExpiredOnlyAfterDeadline
  BY DEF LifecycleInv
<1> QED BY <1>1, LifecycleHolds, PTL
-----------------------------------------------------------------------------
(* What a step may not do to a session.                                    *)
LEMMA ChangeStaysClosed ==
  ASSUME SessionsSound, NEW sid \in Live, NEW w \in Workers, Changes(w, sid)
  PROVE  LET old == sessions[sid]
             new == sessions'[sid]
         IN  /\ old.status \notin Open => new.status \notin Open
             /\ old.settlement_result # None =>
                  /\ new.settlement_result = old.settlement_result
                  /\ new.staged_actions = old.staged_actions
                  /\ new.generation = old.generation
             /\ old.abort_result # None => new.abort_result = old.abort_result
             /\ \A k \in UsedKeys(old) : new.tool_results[k] = old.tool_results[k]
<1> DEFINE r   == pending[w].request
           old == sessions[sid]
           new == sessions'[sid]
<1>1. old \in ActiveSessions /\ Sound(old)
  BY DEF SessionsSound, TypeOK, Live
<1>2. CASE Expires(w, sid)
  <2>1. new = [old EXCEPT !.status = "EXPIRED"]
    BY <1>2 DEF Expires, OnlyExpires
  <2>2. /\ new.status = "EXPIRED"
        /\ new.settlement_result = old.settlement_result
        /\ new.staged_actions = old.staged_actions
        /\ new.generation = old.generation
        /\ new.abort_result = old.abort_result
        /\ new.tool_results = old.tool_results
    BY <1>1, <2>1 DEF ActiveSessions, SessionsWith
  <2> QED BY <2>2 DEF Open
<1>3. CASE ActsOn(w, sid)
  <2>1. /\ old.status \in Open
        /\ old.settlement_result = None
        /\ old.abort_result = None
    BY <1>1, <1>3 DEF ActsOn, Sound, Open
  <2>2. ASSUME NEW k \in UsedKeys(old)
        PROVE  new.tool_results[k] = old.tool_results[k]
    <3>1. k \in Keys /\ old.tool_results[k] # None
      BY <2>2 DEF UsedKeys
    <3>2. CASE new = Amended(sid, old, r.budget_additions)
      BY <1>1, <3>2 DEF Amended, ActiveSessions, SessionsWith
    <3>3. CASE \E budget : new = [old EXCEPT !.remaining_budgets = budget]
      BY <1>1, <3>3 DEF ActiveSessions, SessionsWith
    <3>4. CASE /\ old.tool_results[r.idempotency_key] = None
               /\ new = Staged(old, r.idempotency_key, r.call, uuids + 1)
      <4>2. new.tool_results = [old.tool_results EXCEPT ![r.idempotency_key] =
              [request_fingerprint |-> r.call, response |-> Response(r.call, uuids + 1)]]
        BY <1>1, <3>4 DEF Staged, ActiveSessions, SessionsWith
      <4>3. k # r.idempotency_key
        BY <3>1, <3>4
      <4> QED BY <1>1, <3>1, <4>2, <4>3 DEF ActiveSessions, SessionsWith
    <3>5. CASE new = Sealed(sid, old, r.idempotency_key)
      BY <1>1, <3>5 DEF Sealed, ActiveSessions, SessionsWith
    <3>6. CASE new = AbortedBy(sid, old, r.idempotency_key)
      BY <1>1, <3>6 DEF AbortedBy, ActiveSessions, SessionsWith
    <3> QED BY <1>3, <3>2, <3>3, <3>4, <3>5, <3>6 DEF ActsOn
  <2> QED BY <2>1, <2>2
<1> QED BY <1>2, <1>3 DEF Changes

LEMMA StaysClosedStep ==
  ASSUME SessionsSound, [Next]_vars
  PROVE  StaysClosed
<1> SUFFICES ASSUME NEW sid \in Live
             PROVE  LET old == sessions[sid]
                        new == sessions'[sid]
                    IN  /\ new # None
                        /\ old.status \notin Open => new.status \notin Open
                        /\ old.settlement_result # None =>
                             /\ new.settlement_result = old.settlement_result
                             /\ new.staged_actions = old.staged_actions
                             /\ new.generation = old.generation
                        /\ old.abort_result # None => new.abort_result = old.abort_result
                        /\ \A k \in UsedKeys(old) :
                             new.tool_results[k] = old.tool_results[k]
  BY DEF StaysClosed
<1>1. TypeOK
  BY DEF SessionsSound
<1>2. sessions'[sid] # None
  BY <1>1, SessionStep
<1>3. CASE sessions'[sid] = sessions[sid]
  BY <1>2, <1>3
<1>4. CASE \E w \in Workers : Changes(w, sid)
  BY <1>2, <1>4, ChangeStaysClosed
<1> QED BY <1>1, <1>3, <1>4, SessionStep

(* A closed session is not reopened, and neither its receipt nor a         *)
(* recorded result ever changes.                                           *)
THEOREM NeverReopens == Spec => ClosedForGood
<1>1. LifecycleInv /\ [Next]_vars => [StaysClosed]_vars
  BY StaysClosedStep DEF LifecycleInv
<1> QED BY <1>1, LifecycleHolds, PTL DEF Spec, ClosedForGood

(* A session changes only under the token that is active when its lock is  *)
(* held, or by being marked EXPIRED.                                       *)
THEOREM ActiveTokenGoverns == Spec => StaleTokenHasNoEffect
<1> DEFINE Governed ==
      \A sid \in Live : sessions'[sid] # sessions[sid] =>
        \/ OnlyExpires(sid)
        \/ \E w \in Workers :
             /\ pending[w].status = "checked"
             /\ pending'[w] = Idle
             /\ pending[w].request.session_id = sid
             /\ pending[w].request.capability_token = TokenOf(sid, sessions[sid].generation)
<1>1. ASSUME TypeOK, [Next]_vars
      PROVE  Governed
  <2> SUFFICES ASSUME NEW sid \in Live, NEW w \in Workers, Changes(w, sid)
               PROVE  \/ OnlyExpires(sid)
                      \/ /\ pending[w].status = "checked"
                         /\ pending'[w] = Idle
                         /\ pending[w].request.session_id = sid
                         /\ pending[w].request.capability_token =
                              TokenOf(sid, sessions[sid].generation)
    BY <1>1, SessionStep
  <2>1. CASE Expires(w, sid)
    BY <2>1 DEF Expires
  <2>2. CASE ActsOn(w, sid)
    BY <2>2 DEF ActsOn, Changes, CapabilityValid, TokenOf
  <2> QED BY <2>1, <2>2 DEF Changes
<1>2. TypeOK /\ [Next]_vars => [Governed]_vars
  BY <1>1
<1> QED BY <1>2, TypeCorrect, PTL DEF Spec, StaleTokenHasNoEffect

(* Past its deadline a session is frozen but for being marked EXPIRED.     *)
THEOREM DeadlineFreezes == Spec => FrozenAfterDeadline
<1> DEFINE Frozen ==
      \A sid \in Live : PastDeadline(sid) /\ sessions'[sid] # sessions[sid] =>
        OnlyExpires(sid)
<1>1. ASSUME TypeOK, [Next]_vars
      PROVE  Frozen
  <2> SUFFICES ASSUME NEW sid \in Live, PastDeadline(sid),
                      NEW w \in Workers, Changes(w, sid)
               PROVE  OnlyExpires(sid)
    BY <1>1, SessionStep
  <2>1. pending[w].now_ms >= sessions[sid].expires_at_ms
    BY DEF PastDeadline, Changes
  <2>2. pending[w].now_ms \in Nat /\ sessions[sid].expires_at_ms \in Nat
    <3>1. pending[w] \in InService
      BY <1>1 DEF Changes, TypeOK, Idle
    <3>2. sessions[sid] \in ActiveSessions
      BY <1>1 DEF TypeOK, Live
    <3> QED BY <3>1, <3>2, InputAssumption DEF InService, ActiveSessions, SessionsWith
  <2>3. ~ ActsOn(w, sid)
    BY <2>1, <2>2 DEF ActsOn, CapabilityValid
  <2> QED BY <2>3 DEF Changes, Expires
<1>2. TypeOK /\ [Next]_vars => [Frozen]_vars
  BY <1>1
<1> QED BY <1>2, TypeCorrect, PTL DEF Spec, FrozenAfterDeadline
=============================================================================
