----------------------------- MODULE GuardLocks -----------------------------
(***************************************************************************)
(* The two locks of the session manager.  The table of sessions is behind  *)
(* a RwLock of which only the write side is used, the consumed delegations *)
(* are behind a Mutex.  Handlers are cut at every acquisition and wherever *)
(* they change a session in place, so a budget is charged one dimension    *)
(* after the other, and SUSPENDED and SEALING can be observed, if anybody  *)
(* can look.                                                               *)
(*                                                                         *)
(* The variables of SessionManager are the memory of the process.          *)
(***************************************************************************)
EXTENDS SessionProperties

NoOwner == None

ASSUME NoOwnerIsNoWorker == NoOwner \notin Workers

(* Nor is None a session that is half done.                                *)
ASSUME NoneIsNotHalfDone == None \notin SessionsWith({"SUSPENDED", "SEALING"})

VARIABLES
  sessions_lock,     \* the worker that holds the RwLock, or NoOwner
  delegations_lock,  \* the worker that holds the Mutex, or NoOwner
  step,              \* worker -> where it is between two acquisitions
  todo,              \* the dimensions the holder has still to charge
  held               \* history: the table when the RwLock was taken

lockVars == <<sessions_lock, delegations_lock, step, todo, held>>

Steps == {"start", "mutex", "locked", "amending", "consuming", "suspending",
          "resuming", "charging", "sealing"}

LockInit ==
  /\ Init
  /\ sessions_lock = NoOwner
  /\ delegations_lock = NoOwner
  /\ step = [w \in Workers |-> "start"]
  /\ todo = {}
  /\ held = sessions

At(w, s) == step[w] = s

Moves(w, s) == step' = [step EXCEPT ![w] = s]

(* The guard of the RwLock is dropped on return.                           *)
Leaves(w) ==
  /\ sessions_lock' = NoOwner
  /\ Moves(w, "start")
  /\ UNCHANGED <<delegations_lock, todo, held>>

(* The guard of the Mutex is a temporary of one statement.                 *)
DropsMutex(w, s) ==
  /\ delegations_lock' = NoOwner
  /\ Moves(w, s)
  /\ UNCHANGED <<sessions_lock, todo, held>>
-----------------------------------------------------------------------------
(* The worker is about to call sessions.write().                           *)
WantsSessions(w) ==
  /\ At(w, "start")
  /\ pending[w] # Idle
  /\ pending[w].status = "consumed" \/ pending[w].request.method # "intent/propose"

(* It is about to call used_delegations.lock().                            *)
WantsDelegations(w) ==
  At(w, "amending") \/ (At(w, "start") /\ Checked(w, "intent/propose"))

(* Mutant of LockSessions: the read side of the RwLock.                    *)
LockSessionsShared(w) ==
  /\ WantsSessions(w)
  /\ sessions_lock' = w
  /\ held' = sessions
  /\ Moves(w, "locked")
  /\ UNCHANGED <<vars, delegations_lock, todo>>

LockSessions(w) ==
  /\ WantsSessions(w)
  /\ sessions_lock = NoOwner
  /\ sessions_lock' = w
  /\ held' = sessions
  /\ Moves(w, "locked")
  /\ UNCHANGED <<vars, delegations_lock, todo>>

LockDelegations(w) ==
  /\ WantsDelegations(w)
  /\ delegations_lock = NoOwner
  /\ delegations_lock' = w
  /\ Moves(w, IF At(w, "amending") THEN "consuming" ELSE "mutex")
  /\ UNCHANGED <<vars, sessions_lock, todo, held>>

(* Mutant of ProposeConsumes: the Mutex is kept until the session is in    *)
(* the table.                                                              *)
ProposeConsumesHolding(w) ==
  /\ At(w, "mutex")
  /\ \/ ConsumeDelegation(w) /\ Moves(w, "start") /\ UNCHANGED delegations_lock
     \/ DelegationConsumed(w) /\ Moves(w, "start") /\ delegations_lock' = NoOwner
  /\ UNCHANGED <<sessions_lock, todo, held>>

(* consume_delegation, called by propose.                                  *)
ProposeConsumes(w) ==
  /\ At(w, "mutex")
  /\ ConsumeDelegation(w) \/ DelegationConsumed(w)
  /\ DropsMutex(w, "start")

(* Handlers that look and return, or change a session in one assignment.   *)
Returns(w) ==
  /\ At(w, "locked")
  /\ \/ InsertSession(w)
     \/ UnknownSession(w)
     \/ Finds(w, "intent/amend") /\
          Rejects(w, AmendFault(pending[w].request, Found(w), pending[w].now_ms))
     \/ CallRejected(w) \/ CallExpires(w) \/ CallReplayed(w)
     \/ SealRejected(w) \/ SealReplayed(w)
     \/ AbortRejected(w) \/ AbortReplayed(w) \/ Abort(w)
  /\ Leaves(w)
-----------------------------------------------------------------------------
(* amend takes the Mutex while it holds the RwLock.                        *)
AmendChecked(w) ==
  /\ At(w, "locked")
  /\ Finds(w, "intent/amend")
  /\ AmendFault(pending[w].request, Found(w), pending[w].now_ms) = "OK"
  /\ Moves(w, "amending")
  /\ UNCHANGED <<vars, sessions_lock, delegations_lock, todo, held>>

AmendLoses(w) ==
  /\ At(w, "consuming")
  /\ pending[w].request.delegation \in used_delegations
  /\ Rejects(w, "INVALID_DELEGATION")
  /\ sessions_lock' = NoOwner
  /\ delegations_lock' = NoOwner
  /\ Moves(w, "start")
  /\ UNCHANGED <<todo, held>>

(* From here on amend cannot fail.  `reply` shows the answer already: the  *)
(* token in it was made before; the code returns it after Resume, which    *)
(* is when the worker is idle again.                                       *)
AmendConsumes(w) ==
  LET r    == pending[w].request
      next == Amended(r.session_id, Found(w), r.budget_additions)
  IN
  /\ At(w, "consuming")
  /\ r.delegation \notin used_delegations
  /\ used_delegations' = used_delegations \cup {r.delegation}
  /\ backing' = [backing EXCEPT ![r.delegation] =
       [session_id |-> r.session_id, generation |-> next.generation,
        budget |-> r.budget_additions]]
  /\ reply' = [to |-> w, code |-> "OK", result |-> next.capability_token]
  /\ DropsMutex(w, "suspending")
  /\ UNCHANGED <<sessions, pending, now, uuids>>

Suspend(w) ==
  /\ At(w, "suspending")
  /\ Store(w, [Found(w) EXCEPT
       !.status = "SUSPENDED",
       !.remaining_budgets =
          AddAssign(Found(w).remaining_budgets, pending[w].request.budget_additions)])
  /\ Moves(w, "resuming")
  /\ UNCHANGED <<used_delegations, pending, now, uuids, reply, backing,
                 sessions_lock, delegations_lock, todo, held>>

(* Mutant of Resume: the session stays suspended.                          *)
ResumeSuspended(w) ==
  LET sid == pending[w].request.session_id IN
  /\ At(w, "resuming")
  /\ Store(w, [Amended(sid, held[sid], pending[w].request.budget_additions) EXCEPT
                 !.status = "SUSPENDED"])
  /\ pending' = [pending EXCEPT ![w] = Idle]
  /\ Leaves(w)
  /\ UNCHANGED <<used_delegations, now, uuids, reply, backing>>

Resume(w) ==
  LET sid  == pending[w].request.session_id
      next == Amended(sid, Found(w), pending[w].request.budget_additions)
  IN
  /\ At(w, "resuming")
  /\ Store(w, [next EXCEPT !.remaining_budgets = Found(w).remaining_budgets])
  /\ pending' = [pending EXCEPT ![w] = Idle]
  /\ Leaves(w)
  /\ UNCHANGED <<used_delegations, now, uuids, reply, backing>>
-----------------------------------------------------------------------------
(* execute_tool charges one dimension after the other, in any order.       *)
CallAffordable(w) ==
  /\ At(w, "locked")
  /\ FreshCall(w)
  /\ todo' = DOMAIN PendingCharges(w)
  /\ Moves(w, "charging")
  /\ UNCHANGED <<vars, sessions_lock, delegations_lock, held>>

DeductOne(w) ==
  LET budget == Found(w).remaining_budgets IN
  /\ At(w, "charging")
  /\ \E d \in todo :
       /\ Present(budget, d)
       /\ Store(w, [Found(w) EXCEPT
                      !.remaining_budgets = Deduct(budget, PendingCharges(w), {d})])
       /\ todo' = todo \ {d}
  /\ UNCHANGED <<used_delegations, pending, now, uuids, reply, backing,
                 sessions_lock, delegations_lock, step, held>>

DeductFails(w) ==
  /\ At(w, "charging")
  /\ \E d \in todo : ~ Present(Found(w).remaining_budgets, d)
  /\ Rejects(w, "INSUFFICIENT_BUDGET")
  /\ sessions_lock' = NoOwner
  /\ todo' = {}
  /\ Moves(w, "start")
  /\ UNCHANGED <<delegations_lock, held>>

Stage(w) ==
  LET r    == pending[w].request
      next == Staged(Found(w), r.idempotency_key, r.call, uuids + 1)
  IN
  /\ At(w, "charging")
  /\ todo = {}
  /\ uuids' = uuids + 1
  /\ Store(w, [next EXCEPT !.remaining_budgets = Found(w).remaining_budgets])
  /\ Answer(w, "OK", Response(r.call, uuids + 1))
  /\ Leaves(w)
  /\ UNCHANGED <<used_delegations, now, backing>>
-----------------------------------------------------------------------------
SealBegins(w) ==
  /\ At(w, "locked")
  /\ SealAccepted(w)
  /\ Found(w).status # "SETTLED"
  /\ Store(w, [Found(w) EXCEPT !.status = "SEALING"])
  /\ Moves(w, "sealing")
  /\ UNCHANGED <<used_delegations, pending, now, uuids, reply, backing,
                 sessions_lock, delegations_lock, todo, held>>

SealEnds(w) ==
  LET r    == pending[w].request
      next == Sealed(r.session_id, Found(w), r.idempotency_key)
  IN
  /\ At(w, "sealing")
  /\ Store(w, next)
  /\ Answer(w, IF next.status = "SETTLED" THEN "OK" ELSE "POLICY_VIOLATION",
            next.settlement_result)
  /\ Leaves(w)
  /\ UNCHANGED <<used_delegations, now, uuids, backing>>
-----------------------------------------------------------------------------
(* A worker gets a lock.                                                   *)
Acquires(w) == LockSessions(w) \/ LockDelegations(w)

(* It does something with the locks it has.                                *)
Works(w) ==
  \/ ProposeConsumes(w) \/ Returns(w)
  \/ AmendChecked(w) \/ AmendLoses(w) \/ AmendConsumes(w) \/ Suspend(w) \/ Resume(w)
  \/ CallAffordable(w) \/ DeductOne(w) \/ DeductFails(w) \/ Stage(w)
  \/ SealBegins(w) \/ SealEnds(w)

(* A request that passes the checks before any lock.  What fails them      *)
(* meets neither lock and is left to SessionManager; an unknown session or *)
(* the token of another one is found out under the RwLock.                 *)
Arrives(w) == Receive(w) /\ UNCHANGED lockVars

LockNext ==
  \/ Tick /\ UNCHANGED lockVars
  \/ \E w \in Workers : Arrives(w) \/ Acquires(w) \/ Works(w)

lockedVars == <<vars, lockVars>>

LockSpec == LockInit /\ [][LockNext]_lockedVars

(* parking_lot hands a lock over sooner or later to every thread that      *)
(* waits (eventual fairness), so acquisition is strongly fair; a thread    *)
(* that does not wait is scheduled.                                        *)
LockFairSpec ==
  LockSpec /\ \A w \in Workers : SF_lockedVars(Acquires(w)) /\ WF_lockedVars(Works(w))
-----------------------------------------------------------------------------
(* SessionManager, which runs the locked part of a handler in one step.    *)
(* That step is the return of the handler; for an amendment it is the      *)
(* insertion of the delegation, the last thing that can go wrong.          *)
Committed(w) == At(w, "suspending") \/ At(w, "resuming")

AtomicPending == [w \in Workers |-> IF Committed(w) THEN Idle ELSE pending[w]]

AtomicSessions ==
  IF sessions_lock = NoOwner THEN sessions
  ELSE IF Committed(sessions_lock)
  THEN LET r == pending[sessions_lock].request
       IN  [held EXCEPT ![r.session_id] =
              Amended(r.session_id, held[r.session_id], r.budget_additions)]
  ELSE held

Atomic == INSTANCE SessionManager WITH
  sessions <- AtomicSessions, pending <- AtomicPending

(* Locked handlers are atomic: nobody can tell the steps in between, and   *)
(* everything that holds of SessionManager holds here.                     *)
HandlersAreAtomic == Atomic!Spec

(* SUSPENDED and SEALING exist under the lock only: when it is free, every *)
(* session has a status from which it can still be used or replayed.       *)
NothingHalfDone ==
  sessions_lock = NoOwner => \A sid \in Live : sessions[sid].status \in Statuses

(* Who holds what, and the order of the locks: a worker that waits for the *)
(* sessions holds nothing, so waiting never goes round in a circle.        *)
LockOrder ==
  /\ step \in [Workers -> Steps]
  /\ \A w \in Workers :
       /\ sessions_lock = w <=> step[w] \notin {"start", "mutex"}
       /\ delegations_lock = w <=> step[w] \in {"mutex", "consuming"}
       /\ WantsSessions(w) => sessions_lock # w /\ delegations_lock # w
=============================================================================
