--------------------------- MODULE SessionManager ---------------------------
(***************************************************************************)
(* The session manager of the Clared Guard (clared-core/src/session.rs):   *)
(* admission, amendment, tool calls, seal and abort of execution           *)
(* envelopes, served by concurrent workers.                                *)
(*                                                                         *)
(* Every handler first runs the checks that need no shared state and reads *)
(* the clock, and only then takes the write lock of the session table.     *)
(* Here the first part is Accept (or Decline), the locked part one step.   *)
(* propose takes two locks one after the other, so it has two such steps.  *)
(***************************************************************************)
EXTENDS SettlementAdapters

CONSTANTS
  SessionIds,    \* bound: the session ids that may be drawn
  Workers,       \* requests the runtime serves at the same time
  Keys,          \* idempotency keys that clients use
  BlankKey,      \* a key that is empty once trimmed
  Delegations,   \* tokens as presented: [identity, expires_at_ms, nonce, spelling]
  Proposals,     \* the envelopes that clients propose
  Calls,         \* records [name, arguments]
  Additions,     \* budgets that amendments add
  Generations,   \* generations that callers put beside their token
  Adapters,      \* the registry: tool name -> declaration
  Clock,         \* bound: the instants (in ms) that the clock may show
  Malformed      \* names that Cedar cannot parse as an entity id

Policy == INSTANCE CedarPolicy

VARIABLES
  sessions,          \* RwLock<HashMap<String, ActiveSession>>
  used_delegations,  \* Mutex<HashSet<String>>: the tokens as they were presented
  pending,           \* worker -> the request it is serving
  now,               \* the system clock
  uuids,             \* how many staged ids were drawn
  reply,             \* the response sent by the last step, if it sent one
  backing            \* history: what each delegation token was spent on

vars == <<sessions, used_delegations, pending, now, uuids, reply, backing>>
-----------------------------------------------------------------------------
(* The structs of the code.                                                *)
Identities == {p.identity : p \in Proposals}

Scopes == UNION {p.target_resources : p \in Proposals}

(* The statuses a session has when no handler is at work on it: SUSPENDED  *)
(* and SEALING never outlast the lock.                                     *)
Statuses == {"ADMITTED", "ACTIVE", "SETTLED", "ABORTED", "EXPIRED"}

Tokens ==
  [session_id : SessionIds, tenant_id : {i.tenant_id : i \in Identities},
   principal : {i.principal : i \in Identities}, generation : Nat, expires_at_ms : Nat]

StagedActions ==
  [call : Calls, resource_ids : SUBSET (Scopes \cup {Unscoped}),
   settlement_order : Nat, staged_id : Nat]

ToolResults ==
  [request_fingerprint : Calls,
   response : [tool : {c.name : c \in Calls}, staged_id : Nat]]

SealReceipts ==
  [status : {"SETTLED"}, session_id : SessionIds, generation : Nat,
   settled_actions : Seq(StagedActions)]

AbortReceipts ==
  [status : {"ABORTED"}, session_id : SessionIds, reverted_actions : Seq(StagedActions)]

(* struct ActiveSession; the session id is the key in the table.           *)
SessionsWith(statuses) ==
  [identity : Identities,
   target_resources : SUBSET Scopes,
   allowed_tools : {p.allowed_tools : p \in Proposals},
   remaining_budgets : Budgets,
   capability_token : Tokens,
   generation : Nat \ {0},
   expires_at_ms : Nat,
   status : statuses,
   staged_actions : Seq(StagedActions),
   tool_results : [Keys -> ToolResults \cup {None}],
   seal_idempotency_key : Keys \cup {None},
   settlement_result : SealReceipts \cup {None},
   abort_idempotency_key : Keys \cup {None},
   abort_result : AbortReceipts \cup {None}]

ActiveSessions == SessionsWith(Statuses)

ASSUME InputAssumption ==
  /\ Clock \subseteq Nat
  /\ BlankKey \notin Keys
  /\ Additions \subseteq Budgets
  /\ \A p \in Proposals :
       p.allowed_tools \in Seq(STRING) /\ p.budgets \in Budgets /\ p.ttl_ms \in Nat
  /\ \A tool \in DOMAIN Adapters : WellDeclared(Adapters[tool])

ASSUME NoneIsNoValue ==
  None \notin Keys \cup Tokens \cup ToolResults \cup SealReceipts
                 \cup AbortReceipts \cup ActiveSessions
-----------------------------------------------------------------------------
Idle == [status |-> "idle"]

NoReply == [code |-> "none"]

(* Mutant of Open: a settled session still takes requests.                 *)
NotFinal == {"ADMITTED", "ACTIVE", "SETTLED"}

(* Another one: an expired session does when its deadline is ahead again.  *)
ExpiredReopens == {"ADMITTED", "ACTIVE", "EXPIRED"}

Open == {"ADMITTED", "ACTIVE"}

(* The claims are the token: only tokens the signer issued verify, and no  *)
(* two tokens are issued with the same session id and generation.          *)
Token(sid, identity, generation, expires_at_ms) ==
  [session_id |-> sid, tenant_id |-> identity.tenant_id,
   principal |-> identity.principal, generation |-> generation,
   expires_at_ms |-> expires_at_ms]

TokenOf(sid, generation) ==
  Token(sid, sessions[sid].identity, generation, sessions[sid].expires_at_ms)

Live == {sid \in SessionIds : sessions[sid] # None}

IssuedTokens ==
  UNION {{TokenOf(sid, g) : g \in 1..sessions[sid].generation} : sid \in Live}

(* None stands for a token whose signature does not verify.                *)
PresentedTokens == IssuedTokens \cup {None}

Methods == {"intent/propose", "intent/amend", "tools/call", "intent/seal", "intent/abort"}

ProposeRequests ==
  [method : {"intent/propose"}, proposal : Proposals, delegation : Delegations]

AmendRequests ==
  [method : {"intent/amend"}, session_id : SessionIds,
   capability_token : PresentedTokens, delegation : Delegations,
   budget_additions : Additions]

CallRequests ==
  [method : {"tools/call"}, session_id : SessionIds,
   capability_token : PresentedTokens, generation : Generations,
   idempotency_key : Keys \cup {BlankKey}, call : Calls]

CloseRequests ==
  [method : {"intent/seal", "intent/abort"}, session_id : SessionIds,
   capability_token : PresentedTokens, idempotency_key : Keys \cup {BlankKey}]

Requests == ProposeRequests \cup AmendRequests \cup CallRequests \cup CloseRequests
-----------------------------------------------------------------------------
(* Checks before any lock is taken.                                        *)

(* A delegation token is a string.  Here it has what its MAC was made of:  *)
(* an identity, an expiry and a nonce; and the spelling of the expiry in   *)
(* it, since parse::<i64> accepts more than one ("9000", "09000").  The    *)
(* MAC is compared with that of the parsed number, written canonically, so *)
(* that the proof a token carries is all but its spelling.                 *)
DelegationProof(delegation) ==
  [identity |-> delegation.identity, expires_at_ms |-> delegation.expires_at_ms,
   nonce |-> delegation.nonce]

(* verify_delegation_token looks at the proof.                             *)
DelegationValid(delegation, identity, now_ms) ==
  LET proof == DelegationProof(delegation) IN
  /\ proof.expires_at_ms > now_ms
  /\ proof.identity = identity

ToolFault(tool, target_resources) ==
  IF tool \notin DOMAIN Adapters THEN "MISSING_ADAPTER"
  ELSE IF Adapters[tool].resource_arguments # {} /\ target_resources = {}
  THEN "RESOURCE_OUTSIDE_ENVELOPE" ELSE "OK"

TtlRange == 1000..(600 * 1000)

ProposePrecheck(r, now_ms) ==
  LET tools  == r.proposal.allowed_tools
      faulty == {i \in DOMAIN tools :
                   ToolFault(tools[i], r.proposal.target_resources) # "OK"}
  IN  IF r.proposal.ttl_ms \notin TtlRange \/ tools = << >> THEN "INVALID_PARAMS"
      ELSE IF faulty # {} THEN ToolFault(tools[Min(faulty)], r.proposal.target_resources)
      ELSE IF ~ DelegationValid(r.delegation, r.proposal.identity, now_ms)
      THEN "INVALID_DELEGATION" ELSE "OK"

AmendPrecheck(r) ==
  IF r.capability_token = None THEN "INVALID_CAPABILITY" ELSE "OK"

ClosePrecheck(r) ==
  IF r.idempotency_key = BlankKey THEN "INVALID_PARAMS" ELSE AmendPrecheck(r)

CallPrecheck(r) ==
  IF ClosePrecheck(r) # "OK" THEN ClosePrecheck(r)
  ELSE IF r.call.name \notin DOMAIN Adapters THEN "MISSING_ADAPTER" ELSE "OK"

Precheck(r, now_ms) ==
  CASE r.method = "intent/propose" -> ProposePrecheck(r, now_ms)
    [] r.method = "intent/amend"   -> AmendPrecheck(r)
    [] r.method = "tools/call"     -> CallPrecheck(r)
    [] OTHER                       -> ClosePrecheck(r)
-----------------------------------------------------------------------------
(* Checks inside the lock, in the order of the code; "OK" is success.      *)

(* Mutants of CapabilityValid: no deadline; any token of the session.      *)
CapabilityNeverExpires(sid, session, token, now_ms) ==
  /\ token = session.capability_token
  /\ token = Token(sid, session.identity, session.generation, session.expires_at_ms)

AnyTokenOfSession(sid, session, token, now_ms) ==
  token.session_id = sid /\ now_ms < session.expires_at_ms

CapabilityValid(sid, session, token, now_ms) ==
  /\ token = session.capability_token
  /\ token = Token(sid, session.identity, session.generation, session.expires_at_ms)
  /\ now_ms < session.expires_at_ms

(* What amend checks before it consumes the delegation.                    *)
AmendFault(r, session, now_ms) ==
  IF ~ CapabilityValid(r.session_id, session, r.capability_token, now_ms)
  THEN "INVALID_CAPABILITY"
  ELSE IF session.status \notin Open THEN "INVALID_LIFECYCLE"
  ELSE IF ~ DelegationValid(r.delegation, session.identity, now_ms)
  THEN "INVALID_DELEGATION"
  ELSE IF AddOverflows(session.remaining_budgets, r.budget_additions)
  THEN "INSUFFICIENT_BUDGET"
  ELSE IF session.generation = MaxU64 THEN "INTERNAL_ERROR" ELSE "OK"

(* Mutant of AmendOutcome: a consumed token serves again.                  *)
AmendOutcomeAnyDelegation(r, session, now_ms) == AmendFault(r, session, now_ms)

AmendOutcome(r, session, now_ms) ==
  IF AmendFault(r, session, now_ms) # "OK" THEN AmendFault(r, session, now_ms)
  ELSE IF r.delegation \in used_delegations THEN "INVALID_DELEGATION" ELSE "OK"

PolicyAllows(session, call, resource_ids) ==
  \A resource \in resource_ids :
    Policy!Allows(session.identity.principal, call.name, resource,
                  Policy!PolicyContext(call.arguments))

(* Mutant of FreshCallOutcome: the policy is left to the seal.             *)
FreshCallUnscreened(call, session) ==
  LET adapter == Adapters[call.name] IN
  IF ~ InScope(adapter, call.arguments, session.target_resources)
  THEN "RESOURCE_OUTSIDE_ENVELOPE"
  ELSE IF ~ Affordable(session.remaining_budgets, Charges(adapter, call.arguments))
  THEN "INSUFFICIENT_BUDGET" ELSE "OK"

(* What a call that was not served before has to pass, up to the check     *)
(* that every charge is covered.                                           *)
FreshCallOutcome(call, session) ==
  LET adapter == Adapters[call.name] IN
  IF ~ InScope(adapter, call.arguments, session.target_resources)
  THEN "RESOURCE_OUTSIDE_ENVELOPE"
  ELSE IF ~ PolicyAllows(session, call, MatchedResources(adapter, call.arguments))
  THEN "POLICY_VIOLATION"
  ELSE IF ~ Chargeable(adapter, call.arguments)
  THEN ChargesFault(adapter, call.arguments)
  ELSE IF ~ Affordable(session.remaining_budgets, Charges(adapter, call.arguments))
  THEN "INSUFFICIENT_BUDGET" ELSE "OK"

CallOutcome(r, session, now_ms) ==
  LET cached == session.tool_results[r.idempotency_key] IN
  IF \/ ~ CapabilityValid(r.session_id, session, r.capability_token, now_ms)
     \/ r.generation # session.generation
  THEN "INVALID_CAPABILITY"
  ELSE IF session.status \notin Open THEN "INVALID_LIFECYCLE"
  ELSE IF ~ \E i \in DOMAIN session.allowed_tools : session.allowed_tools[i] = r.call.name
  THEN "TOOL_OUTSIDE_ENVELOPE"
  ELSE IF cached = None THEN FreshCallOutcome(r.call, session)
  ELSE IF cached.request_fingerprint # r.call THEN "IDEMPOTENCY_CONFLICT" ELSE "OK"

(* Mutant of ReplayOutcome: any key gets the receipt.                      *)
ReplayAnyKey(key, usedKey, receipt) ==
  IF receipt = None THEN "INTERNAL_ERROR" ELSE "OK"

(* The part of seal and abort that looks at a receipt already issued.      *)
ReplayOutcome(key, usedKey, receipt) ==
  IF key # usedKey THEN "IDEMPOTENCY_CONFLICT"
  ELSE IF receipt = None THEN "INTERNAL_ERROR" ELSE "OK"

SealOutcome(r, session, now_ms) ==
  IF ~ CapabilityValid(r.session_id, session, r.capability_token, now_ms)
  THEN "INVALID_CAPABILITY"
  ELSE IF session.status = "SETTLED"
  THEN ReplayOutcome(r.idempotency_key, session.seal_idempotency_key,
                     session.settlement_result)
  ELSE IF session.status \notin Open THEN "INVALID_LIFECYCLE" ELSE "OK"

(* Mutant of AbortOutcome: the status is not looked at.                    *)
AbortOutcomeAnyStatus(r, session, now_ms) ==
  IF ~ CapabilityValid(r.session_id, session, r.capability_token, now_ms)
  THEN "INVALID_CAPABILITY" ELSE "OK"

AbortOutcome(r, session, now_ms) ==
  IF ~ CapabilityValid(r.session_id, session, r.capability_token, now_ms)
  THEN "INVALID_CAPABILITY"
  ELSE IF session.status = "ABORTED"
  THEN ReplayOutcome(r.idempotency_key, session.abort_idempotency_key,
                     session.abort_result)
  ELSE IF session.status \notin Open \cup {"SUSPENDED", "SEALING"}
  THEN "INVALID_LIFECYCLE" ELSE "OK"
-----------------------------------------------------------------------------
(* What the handlers make of a session.                                    *)
NewSession(sid, r, now_ms) ==
  LET expires == now_ms + r.proposal.ttl_ms IN
  [identity             |-> r.proposal.identity,
   target_resources     |-> r.proposal.target_resources,
   allowed_tools        |-> r.proposal.allowed_tools,
   remaining_budgets    |-> r.proposal.budgets,
   capability_token     |-> Token(sid, r.proposal.identity, 1, expires),
   generation           |-> 1,
   expires_at_ms        |-> expires,
   status               |-> "ADMITTED",
   staged_actions       |-> << >>,
   tool_results         |-> [k \in Keys |-> None],
   seal_idempotency_key |-> None, settlement_result |-> None,
   abort_idempotency_key |-> None, abort_result |-> None]

Amended(sid, session, additions) ==
  [session EXCEPT
     !.status            = "ACTIVE",
     !.remaining_budgets = AddAssign(session.remaining_budgets, additions),
     !.generation        = session.generation + 1,
     !.capability_token  = Token(sid, session.identity, session.generation + 1,
                                 session.expires_at_ms)]

Response(call, staged_id) == [tool |-> call.name, staged_id |-> staged_id]

Staged(session, key, call, staged_id) ==
  LET adapter == Adapters[call.name]
      charges == Charges(adapter, call.arguments)
      action  == [call             |-> call,
                  resource_ids     |-> MatchedResources(adapter, call.arguments),
                  settlement_order |-> adapter.settlement_order,
                  staged_id        |-> staged_id]
  IN  [session EXCEPT
         !.status            = "ACTIVE",
         !.remaining_budgets = Deduct(session.remaining_budgets, charges, DOMAIN charges),
         !.staged_actions    = Append(session.staged_actions, action),
         !.tool_results      = [session.tool_results EXCEPT ![key] =
                                  [request_fingerprint |-> call,
                                   response |-> Response(call, staged_id)]]]

(* Seal evaluates the policy again over everything staged.                 *)
Revalidates(session) ==
  \A i \in DOMAIN session.staged_actions :
    PolicyAllows(session, session.staged_actions[i].call,
                 session.staged_actions[i].resource_ids)

SealReceipt(sid, session) ==
  [status |-> "SETTLED", session_id |-> sid, generation |-> session.generation,
   settled_actions |-> SettlementPlan(session.staged_actions)]

Sealed(sid, session, key) ==
  IF Revalidates(session)
  THEN [session EXCEPT !.status               = "SETTLED",
                       !.seal_idempotency_key = key,
                       !.settlement_result    = SealReceipt(sid, session)]
  ELSE [session EXCEPT !.status = "ABORTED", !.staged_actions = << >>]

AbortReceipt(sid, session) ==
  [status |-> "ABORTED", session_id |-> sid,
   reverted_actions |-> RollbackPlan(session.staged_actions)]

(* Mutant of AbortedBy: the actions are gone when the plan is made.        *)
AbortedByUnplanned(sid, session, key) ==
  LET cleared == [session EXCEPT !.staged_actions = << >>] IN
  [cleared EXCEPT !.status                = "ABORTED",
                  !.abort_idempotency_key = key,
                  !.abort_result          = AbortReceipt(sid, cleared)]

AbortedBy(sid, session, key) ==
  [session EXCEPT !.status                = "ABORTED",
                  !.staged_actions        = << >>,
                  !.abort_idempotency_key = key,
                  !.abort_result          = AbortReceipt(sid, session)]
-----------------------------------------------------------------------------
Init ==
  /\ sessions = [sid \in SessionIds |-> None]
  /\ used_delegations = {}
  /\ pending = [w \in Workers |-> Idle]
  /\ now \in Clock
  /\ uuids = 0
  /\ reply = NoReply
  /\ backing = [d \in Delegations |-> None]

(* The wall clock moves on.  Clock is the bound on it.                     *)
Tick ==
  /\ now' \in {t \in Clock : t > now}
  /\ reply' = NoReply
  /\ UNCHANGED <<sessions, used_delegations, pending, uuids, backing>>

Proposing == {w \in Workers :
  pending[w] # Idle /\ pending[w].request.method = "intent/propose"}

(* Bound: no more proposals are let in than there are session ids left.    *)
RoomForSession == Cardinality(Live) + Cardinality(Proposing) < Cardinality(SessionIds)

(* A request passes the checks that need no lock and its clock is read.    *)
Accept(w, r) ==
  /\ pending[w] = Idle
  /\ Precheck(r, now) = "OK"
  /\ r.method = "intent/propose" => RoomForSession
  /\ pending' = [pending EXCEPT ![w] =
       [status |-> "checked", request |-> r, now_ms |-> now]]
  /\ reply' = NoReply
  /\ UNCHANGED <<sessions, used_delegations, now, uuids, backing>>

(* A request fails one of those checks.                                    *)
Decline(w, r) ==
  /\ pending[w] = Idle
  /\ Precheck(r, now) # "OK"
  /\ reply' = [to |-> w, code |-> Precheck(r, now)]
  /\ UNCHANGED <<sessions, used_delegations, pending, now, uuids, backing>>

Receive(w) == pending[w] = Idle /\ \E r \in Requests : Accept(w, r)

Refuse(w) == pending[w] = Idle /\ \E r \in Requests : Decline(w, r)

(* The dispatcher answers by itself when the method is not one of the      *)
(* five, or the params do not deserialize into what the method takes.      *)
Undispatched(w) ==
  /\ pending[w] = Idle
  /\ \E method \in Methods \cup {"other"} :
       reply' = [to   |-> w,
                 code |-> IF method \in Methods THEN "INVALID_PARAMS"
                                                ELSE "METHOD_NOT_FOUND"]
  /\ UNCHANGED <<sessions, used_delegations, pending, now, uuids, backing>>

Answer(w, code, result) ==
  /\ pending' = [pending EXCEPT ![w] = Idle]
  /\ reply' = IF code = "OK" THEN [to |-> w, code |-> "OK", result |-> result]
                             ELSE [to |-> w, code |-> code]
-----------------------------------------------------------------------------
(* propose, after the checks: the delegation is consumed under the mutex,  *)
(* then the session is inserted under the write lock.  consume_delegation  *)
(* inserts the token as presented: another spelling of it is another       *)
(* string, and is not found.                                               *)
Checked(w, method) ==
  pending[w].status = "checked" /\ pending[w].request.method = method

(* Mutant of ConsumeDelegation: the set is not consulted.                  *)
ConsumeDelegationAgain(w) ==
  /\ Checked(w, "intent/propose")
  /\ used_delegations' = used_delegations \cup {pending[w].request.delegation}
  /\ pending' = [pending EXCEPT ![w].status = "consumed"]
  /\ reply' = NoReply
  /\ UNCHANGED <<sessions, now, uuids, backing>>

ConsumeDelegation(w) ==
  /\ Checked(w, "intent/propose")
  /\ pending[w].request.delegation \notin used_delegations
  /\ used_delegations' = used_delegations \cup {pending[w].request.delegation}
  /\ pending' = [pending EXCEPT ![w].status = "consumed"]
  /\ reply' = NoReply
  /\ UNCHANGED <<sessions, now, uuids, backing>>

DelegationConsumed(w) ==
  /\ Checked(w, "intent/propose")
  /\ pending[w].request.delegation \in used_delegations
  /\ Answer(w, "INVALID_DELEGATION", None)
  /\ UNCHANGED <<sessions, used_delegations, now, uuids, backing>>

InsertSession(w) ==
  LET r == pending[w].request IN
  /\ pending[w].status = "consumed"
  /\ \E sid \in SessionIds \ Live :
       LET session == NewSession(sid, r, pending[w].now_ms) IN
       /\ sessions' = [sessions EXCEPT ![sid] = session]
       /\ backing' = [backing EXCEPT ![r.delegation] =
            [session_id |-> sid, generation |-> 1, budget |-> r.proposal.budgets]]
       /\ Answer(w, "OK", session.capability_token)
  /\ UNCHANGED <<used_delegations, now, uuids>>
-----------------------------------------------------------------------------
(* The four handlers that find a session under the write lock.             *)
UnknownSession(w) ==
  /\ pending[w].status = "checked"
  /\ pending[w].request.method # "intent/propose"
  /\ sessions[pending[w].request.session_id] = None
  /\ Answer(w, "UNKNOWN_SESSION", None)
  /\ UNCHANGED <<sessions, used_delegations, now, uuids, backing>>

(* The worker holds a request of this method for a session that exists.    *)
Finds(w, method) ==
  /\ Checked(w, method)
  /\ sessions[pending[w].request.session_id] # None

Found(w) == sessions[pending[w].request.session_id]

Store(w, session) ==
  sessions' = [sessions EXCEPT ![pending[w].request.session_id] = session]

Rejects(w, code) ==
  /\ code # "OK"
  /\ Answer(w, code, None)
  /\ UNCHANGED <<sessions, used_delegations, now, uuids, backing>>

(* Mutant of AmendRejected: the delegation is consumed before the checks.  *)
AmendRejectedSpends(w) ==
  LET code == AmendOutcome(pending[w].request, Found(w), pending[w].now_ms) IN
  /\ Finds(w, "intent/amend")
  /\ code # "OK"
  /\ used_delegations' = used_delegations \cup {pending[w].request.delegation}
  /\ Answer(w, code, None)
  /\ UNCHANGED <<sessions, now, uuids, backing>>

AmendRejected(w) ==
  /\ Finds(w, "intent/amend")
  /\ Rejects(w, AmendOutcome(pending[w].request, Found(w), pending[w].now_ms))

Amend(w) ==
  LET r    == pending[w].request
      next == Amended(r.session_id, Found(w), r.budget_additions)
  IN
  /\ Finds(w, "intent/amend")
  /\ AmendOutcome(r, Found(w), pending[w].now_ms) = "OK"
  /\ used_delegations' = used_delegations \cup {r.delegation}
  /\ Store(w, next)
  /\ backing' = [backing EXCEPT ![r.delegation] =
       [session_id |-> r.session_id, generation |-> next.generation,
        budget |-> r.budget_additions]]
  /\ Answer(w, "OK", next.capability_token)
  /\ UNCHANGED <<now, uuids>>

(* A call refused while the session's deadline has not passed, or refused  *)
(* for a reason that comes after the capability check.                     *)
CallRejected(w) ==
  /\ Finds(w, "tools/call")
  /\ pending[w].now_ms < Found(w).expires_at_ms
  /\ Rejects(w, CallOutcome(pending[w].request, Found(w), pending[w].now_ms))

(* Mutant of CallExpires: any refused call expires the session.            *)
CallExpiresOnRefusal(w) ==
  /\ Finds(w, "tools/call")
  /\ CallOutcome(pending[w].request, Found(w), pending[w].now_ms) # "OK"
  /\ Store(w, [Found(w) EXCEPT !.status = "EXPIRED"])
  /\ Answer(w, "INVALID_CAPABILITY", None)
  /\ UNCHANGED <<used_delegations, now, uuids, backing>>

(* The deadline has passed: whatever its status, the session is EXPIRED.   *)
CallExpires(w) ==
  /\ Finds(w, "tools/call")
  /\ pending[w].now_ms >= Found(w).expires_at_ms
  /\ Store(w, [Found(w) EXCEPT !.status = "EXPIRED"])
  /\ Answer(w, "INVALID_CAPABILITY", None)
  /\ UNCHANGED <<used_delegations, now, uuids, backing>>

CallAccepted(w) ==
  /\ Finds(w, "tools/call")
  /\ CallOutcome(pending[w].request, Found(w), pending[w].now_ms) = "OK"

CallReplayed(w) ==
  LET cached == Found(w).tool_results[pending[w].request.idempotency_key] IN
  /\ CallAccepted(w)
  /\ cached # None
  /\ Answer(w, "OK", cached.response)
  /\ UNCHANGED <<sessions, used_delegations, now, uuids, backing>>

PendingCharges(w) ==
  Charges(Adapters[pending[w].request.call.name], pending[w].request.call.arguments)

FreshCall(w) ==
  /\ CallAccepted(w)
  /\ Found(w).tool_results[pending[w].request.idempotency_key] = None

(* deduct refuses a dimension the budget lacks.  The charges are visited   *)
(* in the arbitrary order of a hash map: any of the others may be paid.    *)
CallHalfCharged(w) ==
  LET budget  == Found(w).remaining_budgets
      charges == PendingCharges(w)
  IN
  /\ FreshCall(w)
  /\ ~ Deductible(budget, charges)
  /\ \E paid \in SUBSET {d \in DOMAIN charges : Present(budget, d)} :
       Store(w, [Found(w) EXCEPT !.remaining_budgets = Deduct(budget, charges, paid)])
  /\ Answer(w, "INSUFFICIENT_BUDGET", None)
  /\ UNCHANGED <<used_delegations, now, uuids, backing>>

CallStaged(w) ==
  LET r == pending[w].request IN
  /\ FreshCall(w)
  /\ Deductible(Found(w).remaining_budgets, PendingCharges(w))
  /\ uuids' = uuids + 1
  /\ Store(w, Staged(Found(w), r.idempotency_key, r.call, uuids + 1))
  /\ Answer(w, "OK", Response(r.call, uuids + 1))
  /\ UNCHANGED <<used_delegations, now, backing>>
-----------------------------------------------------------------------------
SealRejected(w) ==
  /\ Finds(w, "intent/seal")
  /\ Rejects(w, SealOutcome(pending[w].request, Found(w), pending[w].now_ms))

SealAccepted(w) ==
  /\ Finds(w, "intent/seal")
  /\ SealOutcome(pending[w].request, Found(w), pending[w].now_ms) = "OK"

SealReplayed(w) ==
  /\ SealAccepted(w)
  /\ Found(w).status = "SETTLED"
  /\ Answer(w, "OK", Found(w).settlement_result)
  /\ UNCHANGED <<sessions, used_delegations, now, uuids, backing>>

(* Mutant of Seal: settles and then reports an error.                      *)
SealUnreported(w) ==
  LET r == pending[w].request IN
  /\ SealAccepted(w)
  /\ Found(w).status # "SETTLED"
  /\ Store(w, Sealed(r.session_id, Found(w), r.idempotency_key))
  /\ Answer(w, "INTERNAL_ERROR", None)
  /\ UNCHANGED <<used_delegations, now, uuids, backing>>

(* Mutant of Seal: the lock is dropped between SEALING and the outcome.     *)
SealMarksFirst(w) ==
  /\ SealAccepted(w)
  /\ Found(w).status # "SETTLED"
  /\ Store(w, [Found(w) EXCEPT !.status = "SEALING"])
  /\ reply' = NoReply
  /\ UNCHANGED <<used_delegations, pending, now, uuids, backing>>

Seal(w) ==
  LET r    == pending[w].request
      next == Sealed(r.session_id, Found(w), r.idempotency_key)
  IN
  /\ SealAccepted(w)
  /\ Found(w).status # "SETTLED"
  /\ Store(w, next)
  /\ Answer(w, IF next.status = "SETTLED" THEN "OK" ELSE "POLICY_VIOLATION",
            next.settlement_result)
  /\ UNCHANGED <<used_delegations, now, uuids, backing>>

AbortRejected(w) ==
  /\ Finds(w, "intent/abort")
  /\ Rejects(w, AbortOutcome(pending[w].request, Found(w), pending[w].now_ms))

AbortAccepted(w) ==
  /\ Finds(w, "intent/abort")
  /\ AbortOutcome(pending[w].request, Found(w), pending[w].now_ms) = "OK"

AbortReplayed(w) ==
  /\ AbortAccepted(w)
  /\ Found(w).status = "ABORTED"
  /\ Answer(w, "OK", Found(w).abort_result)
  /\ UNCHANGED <<sessions, used_delegations, now, uuids, backing>>

Abort(w) ==
  LET r    == pending[w].request
      next == AbortedBy(r.session_id, Found(w), r.idempotency_key)
  IN
  /\ AbortAccepted(w)
  /\ Found(w).status # "ABORTED"
  /\ Store(w, next)
  /\ Answer(w, "OK", next.abort_result)
  /\ UNCHANGED <<used_delegations, now, uuids, backing>>
-----------------------------------------------------------------------------
(* The rest of a handler once its request was received.                    *)
Serve(w) ==
  \/ ConsumeDelegation(w) \/ DelegationConsumed(w) \/ InsertSession(w)
  \/ UnknownSession(w)
  \/ AmendRejected(w) \/ Amend(w)
  \/ CallRejected(w) \/ CallExpires(w) \/ CallReplayed(w)
  \/ CallHalfCharged(w) \/ CallStaged(w)
  \/ SealRejected(w) \/ SealReplayed(w) \/ Seal(w)
  \/ AbortRejected(w) \/ AbortReplayed(w) \/ Abort(w)

Next ==
  Tick \/ \E w \in Workers : Receive(w) \/ Refuse(w) \/ Undispatched(w) \/ Serve(w)

Spec == Init /\ [][Next]_vars
=============================================================================
