-------------------------- MODULE SessionProperties --------------------------
(***************************************************************************)
(* What the session manager has to guarantee, over the state of            *)
(* SessionManager.                                                         *)
(***************************************************************************)
EXTENDS SessionManager, Functions

(* What a request is once it passed the checks that come before the lock.  *)
CheckedRequests ==
  ProposeRequests \cup
  [method : {"intent/amend"}, session_id : SessionIds, capability_token : Tokens,
   delegation : Delegations, budget_additions : Additions] \cup
  [method : {"tools/call"}, session_id : SessionIds, capability_token : Tokens,
   generation : Generations, idempotency_key : Keys,
   call : {c \in Calls : c.name \in DOMAIN Adapters}] \cup
  [method : {"intent/seal", "intent/abort"}, session_id : SessionIds,
   capability_token : Tokens, idempotency_key : Keys]

InService ==
  [status : {"checked"}, now_ms : Clock, request : CheckedRequests] \cup
  [status : {"consumed"}, now_ms : Clock, request : ProposeRequests]

(* History: what a delegation token was spent on, and with which budget.   *)
Spendings == [session_id : SessionIds, generation : Nat, budget : Budgets]

ASSUME NoSpendingIsNone == None \notin Spendings

(* Every variable has its type; a request in service passed the checks     *)
(* that come before the lock, and only a proposal is past its first lock.  *)
TypeOK ==
  /\ sessions \in [SessionIds -> ActiveSessions \cup {None}]
  /\ used_delegations \subseteq Delegations
  /\ pending \in [Workers -> {Idle} \cup InService]
  /\ now \in Clock
  /\ uuids \in Nat
  /\ backing \in [Delegations -> Spendings \cup {None}]
-----------------------------------------------------------------------------
(* Everything a session ever staged, also after an abort discarded it.     *)
Work(session) ==
  IF session.abort_result # None THEN session.abort_result.reverted_actions
                                 ELSE session.staged_actions

UsedKeys(session) == {k \in Keys : session.tool_results[k] # None}

(* A retry stages nothing twice and nothing is staged without a record:    *)
(* the actions of a session, settled or rolled back, are one for one the   *)
(* results recorded under its idempotency keys.                            *)
ExactlyOnce ==
  \A sid \in Live :
    LET session == sessions[sid]
        work    == Work(session)
    IN  /\ Len(work) = Cardinality(UsedKeys(session))
        /\ \A k \in UsedKeys(session) : \E i \in DOMAIN work :
             /\ work[i].call = session.tool_results[k].request_fingerprint
             /\ Response(work[i].call, work[i].staged_id) = session.tool_results[k].response
        /\ \A k1, k2 \in UsedKeys(session) :
             session.tool_results[k1].response.staged_id =
               session.tool_results[k2].response.staged_id => k1 = k2

(* What one call costs on one dimension, charge by charge.                 *)
Cost(call, d) ==
  LET charges == Adapters[call.name].budget_charges
  IN  SumFunctionOnSet([i \in DOMAIN charges |-> Amount(charges[i], call.arguments)],
                       {i \in DOMAIN charges : charges[i].dimension = d})

Spent(session, d) ==
  SumFunction([k \in UsedKeys(session) |->
                 Cost(session.tool_results[k].request_fingerprint, d)])

Backers(sid) ==
  {b \in Delegations : backing[b] # None /\ backing[b].session_id = sid}

Granted(sid, d) == SumFunction([b \in Backers(sid) |-> Value(backing[b].budget, d)])

(* No unit of budget appears or disappears: what was proposed and what     *)
(* amendments added is what is left plus what the staged calls cost.       *)
BudgetConservation ==
  \A sid \in Live, d \in Dims :
    Granted(sid, d) = Value(sessions[sid].remaining_budgets, d) + Spent(sessions[sid], d)

(* Whatever adapters declare, calls are never staged beyond the budget.    *)
NeverOverspent ==
  \A sid \in Live, d \in Dims :
    Value(sessions[sid].remaining_budgets, d) + Spent(sessions[sid], d) <= Granted(sid, d)

(* A plan lists the actions by `Before`, those that tie as they were       *)
(* staged; staged ids are drawn in increasing order.                       *)
Ordered(plan, Before(_, _)) ==
  \A i, j \in DOMAIN plan : i < j =>
    \/ Before(plan[i].settlement_order, plan[j].settlement_order)
    \/ /\ plan[i].settlement_order = plan[j].settlement_order
       /\ plan[i].staged_id < plan[j].staged_id

(* The settlement receipt lists what is staged, all of it, in settlement   *)
(* order, under the generation that sealed; the abort receipt runs in the  *)
(* opposite order.                                                         *)
ReceiptFaithful ==
  \A sid \in Live :
    LET session == sessions[sid] IN
    /\ session.settlement_result # None =>
         LET plan == session.settlement_result.settled_actions IN
         /\ Range(plan) = Range(session.staged_actions)
         /\ Len(plan) = Len(session.staged_actions)
         /\ Ordered(plan, LAMBDA a, b : a < b)
         /\ session.settlement_result.generation = session.generation
    /\ session.abort_result # None =>
         Ordered(session.abort_result.reverted_actions, LAMBDA a, b : a > b)

(* A session is settled or rolled back, never both, and an open session is *)
(* neither; SETTLED is never without its receipt.                          *)
OneOutcome ==
  \A sid \in Live :
    LET session == sessions[sid] IN
    /\ session.settlement_result = None \/ session.abort_result = None
    /\ session.status \in Open =>
         session.settlement_result = None /\ session.abort_result = None
    /\ session.status = "SETTLED" => session.settlement_result # None

(* Seal never finds fault with what a call was allowed to stage: a session *)
(* is ABORTED by intent/abort only, and has the receipt to show for it.    *)
SealNeverDenied ==
  \A sid \in Live :
    sessions[sid].status = "ABORTED" => sessions[sid].abort_result # None

(* Refusals do not expire a session early: only its deadline does.         *)
ExpiredOnlyAfterDeadline ==
  \A sid \in Live :
    sessions[sid].status = "EXPIRED" => now >= sessions[sid].expires_at_ms

(* Proposals that consumed a token and have yet to insert their session.   *)
InFlight(d) ==
  {w \in Workers : pending[w].status = "consumed" /\ pending[w].request.delegation = d}

(* Every generation of every session rests on a delegation token of its    *)
(* own, of the session's identity; a token, as it is presented, is used    *)
(* once, and not in vain.  This is what used_delegations, a set of         *)
(* strings, ensures; it is not ProofServesOnce.                            *)
DelegationAccounting ==
  /\ \A sid \in Live : \A g \in 1..sessions[sid].generation : \E d \in Delegations :
       /\ backing[d] # None
       /\ backing[d].session_id = sid
       /\ backing[d].generation = g
       /\ d.identity = sessions[sid].identity
  /\ \A d \in Delegations : backing[d] # None =>
       /\ sessions[backing[d].session_id] # None
       /\ backing[d].generation \in 1..sessions[backing[d].session_id].generation
  /\ \A d1, d2 \in Delegations : d1 # d2 /\ backing[d1] # None /\ backing[d2] # None =>
       \/ backing[d1].session_id # backing[d2].session_id
       \/ backing[d1].generation # backing[d2].generation
  /\ \A d \in Delegations :
       IF d \in used_delegations
       THEN Cardinality(InFlight(d)) = (IF backing[d] = None THEN 1 ELSE 0)
       ELSE InFlight(d) = {} /\ backing[d] = None

(* specs/execution-envelope.md: "A consumed token cannot admit or amend    *)
(* another session", of tokens that carry the same proof.                  *)
ProofServesOnce ==
  \A d1, d2 \in Delegations :
    /\ DelegationProof(d1) = DelegationProof(d2)
    /\ backing[d1] # None
    /\ backing[d2] # None
    => backing[d1] = backing[d2]
-----------------------------------------------------------------------------
(* A step may not reopen a closed session, change a receipt that was       *)
(* issued, change a recorded result, or touch what was settled.            *)
StaysClosed ==
  \A sid \in Live :
    LET old == sessions[sid]
        new == sessions'[sid]
    IN  /\ new # None
        /\ old.status \notin Open => new.status \notin Open
        /\ old.settlement_result # None =>
             /\ new.settlement_result = old.settlement_result
             /\ new.staged_actions = old.staged_actions
             /\ new.generation = old.generation
        /\ old.abort_result # None => new.abort_result = old.abort_result
        /\ \A k \in UsedKeys(old) : new.tool_results[k] = old.tool_results[k]

ClosedForGood == [][StaysClosed]_vars

(* The only change of a session that an error may leave behind.            *)
OnlyExpires(sid) ==
  sessions'[sid] = [sessions[sid] EXCEPT !.status = "EXPIRED"]

(* A request that is answered with an error consumes no delegation and     *)
(* changes no session, but for one that it finds past its deadline.        *)
RejectionChangesNothing ==
  [][ reply'.code \notin {"OK", "none"} =>
        /\ used_delegations' = used_delegations
        /\ \A sid \in SessionIds :
             sessions'[sid] = sessions[sid] \/ (sid \in Live /\ OnlyExpires(sid)) ]_vars

(* A step changes a session only under the token that is active when the   *)
(* lock is held: what was sent before an amendment and comes after it has  *)
(* no effect.                                                              *)
StaleTokenHasNoEffect ==
  [][ \A sid \in Live : sessions'[sid] # sessions[sid] =>
        \/ OnlyExpires(sid)
        \/ \E w \in Workers :
             /\ pending[w].status = "checked"
             /\ pending'[w] = Idle
             /\ pending[w].request.session_id = sid
             /\ pending[w].request.capability_token = TokenOf(sid, sessions[sid].generation) ]_vars

(* The worker answered in this step, and with what.                        *)
Succeeds(w, method) ==
  /\ pending[w].status = "checked"
  /\ pending[w].request.method = method
  /\ reply'.code = "OK"
  /\ reply'.to = w

(* Every success is on record as it was answered: the key that asked is    *)
(* the key on record, so a retry can be told from another request.         *)
RepliesAreRecorded ==
  [][ \A w \in Workers :
        LET r   == pending[w].request
            new == sessions'[r.session_id]
        IN  /\ Succeeds(w, "tools/call") =>
                 new.tool_results[r.idempotency_key] =
                   [request_fingerprint |-> r.call, response |-> reply'.result]
            /\ Succeeds(w, "intent/seal") =>
                 /\ new.seal_idempotency_key = r.idempotency_key
                 /\ new.settlement_result = reply'.result
            /\ Succeeds(w, "intent/abort") =>
                 /\ new.abort_idempotency_key = r.idempotency_key
                 /\ new.abort_result = reply'.result ]_vars

(* Past its deadline, and once every request that read the clock before it *)
(* was answered, a session is frozen but for being marked EXPIRED.         *)
PastDeadline(sid) ==
  /\ now >= sessions[sid].expires_at_ms
  /\ \A w \in Workers : pending[w].status = "checked" =>
       \/ pending[w].request.method = "intent/propose"
       \/ pending[w].request.session_id # sid
       \/ pending[w].now_ms >= sessions[sid].expires_at_ms

FrozenAfterDeadline ==
  [][ \A sid \in Live : PastDeadline(sid) /\ sessions'[sid] # sessions[sid] =>
        OnlyExpires(sid) ]_vars

(* Every request that was received is answered, whatever it asks for and   *)
(* whatever the others do meanwhile, through both locks (the fairness is   *)
(* that of GuardLocks).                                                    *)
EveryRequestAnswered ==
  \A w \in Workers : pending[w] # Idle ~> pending[w] = Idle
-----------------------------------------------------------------------------
(* Two statements of specs/execution-envelope.md that the code departs     *)
(* from.                                                                   *)

(* "Any non-terminal state -> EXPIRED": a settled or aborted session stays *)
(* settled or aborted.                                                     *)
TerminalStatusIsFinal ==
  [][ \A sid \in Live : sessions[sid].status \in {"SETTLED", "ABORTED"} =>
        sessions'[sid].status = sessions[sid].status ]_vars

(* "Reserve every adapter-declared budget charge atomically": a call that  *)
(* is refused costs nothing.                                               *)
ChargesAreAtomic ==
  [][ reply'.code \notin {"OK", "none"} =>
        \A sid \in Live :
          sessions'[sid].remaining_budgets = sessions[sid].remaining_budgets ]_vars
=============================================================================
