-------------------------- MODULE GuardLocksProofs --------------------------
(***************************************************************************)
(* The two locks of the session manager, for any number of workers: the    *)
(* discipline of the locks, and that a handler under them is one step of   *)
(* SessionManager.                                                         *)
(*                                                                         *)
(* LockOrder is inductive: what a worker holds is a function of where it   *)
(* stands, each step moves one worker, and a lock goes to one worker only  *)
(* and only when it is free.                                               *)
(*                                                                         *)
(* LockInv carries the refinement.  It says what the holder of the RwLock  *)
(* has made of the table since it took it (Begun): nothing, or a change of *)
(* the one session its request names, for which every check was passed.    *)
(* The table that the refinement mapping shows is therefore well formed at *)
(* every step, and it changes only in the step that is the return of the   *)
(* handler (for an amendment, the insertion of its delegation), where the  *)
(* handler of SessionManager is enabled and has the same effect.           *)
(***************************************************************************)
EXTENDS GuardLocks, SessionManagerProofs

(* What a worker holds, without the condition on what it wants.            *)
Holders ==
  /\ step \in [Workers -> Steps]
  /\ \A w \in Workers :
       /\ sessions_lock = w <=> step[w] \notin {"start", "mutex"}
       /\ delegations_lock = w <=> step[w] \in {"mutex", "consuming"}

(* A worker wants the sessions only where it holds nothing.                *)
LEMMA HoldersAreEnough ==
  Holders <=> LockOrder
  BY DEF Holders, LockOrder, WantsSessions, At

(* At the start nobody holds a lock.                                       *)
LEMMA InitHolders ==
  LockInit => Holders
  BY NoOwnerIsNoWorker DEF LockInit, Holders, Steps

(* A worker returns from a place where it holds the sessions only.         *)
LEMMA LeavingHolders ==
  ASSUME Holders, NEW w \in Workers, Leaves(w),
         step[w] \notin {"start", "mutex", "consuming"}
  PROVE  Holders'
  BY NoOwnerIsNoWorker DEF Holders, Leaves, Moves, Steps

(* A worker moves on and holds what it held.                               *)
LEMMA MovingHolders ==
  ASSUME Holders, NEW w \in Workers, NEW s, Moves(w, s),
         step[w] \notin {"start", "mutex", "consuming"},
         s \in Steps \ {"start", "mutex", "consuming"},
         UNCHANGED <<sessions_lock, delegations_lock>>
  PROVE  Holders'
  BY DEF Holders, Moves, Steps

(* A lock is taken.                                                        *)
LEMMA AcquiringHolders ==
  ASSUME Holders, NEW w \in Workers, Acquires(w)
  PROVE  Holders'
<1>1. CASE LockSessions(w)
  BY <1>1, NoOwnerIsNoWorker DEF LockSessions, WantsSessions, At, Holders, Moves, Steps
<1>2. CASE LockDelegations(w)
  BY <1>2, NoOwnerIsNoWorker
  DEF LockDelegations, WantsDelegations, At, Holders, Moves, Steps
<1> QED BY <1>1, <1>2 DEF Acquires

(* The Mutex is dropped where it was the last lock, or the inner one.      *)
LEMMA MutexHolders ==
  ASSUME Holders, NEW w \in Workers,
         ProposeConsumes(w) \/ AmendLoses(w) \/ AmendConsumes(w)
  PROVE  Holders'
<1>1. CASE ProposeConsumes(w)
  BY <1>1, NoOwnerIsNoWorker DEF ProposeConsumes, At, DropsMutex, Holders, Moves, Steps
<1>2. CASE AmendLoses(w)
  BY <1>2, NoOwnerIsNoWorker DEF AmendLoses, At, Holders, Moves, Steps
<1>3. CASE AmendConsumes(w)
  BY <1>3, NoOwnerIsNoWorker DEF AmendConsumes, At, DropsMutex, Holders, Moves, Steps
<1> QED BY <1>1, <1>2, <1>3

(* A holder does something with its locks.                                 *)
LEMMA WorkingHolders ==
  ASSUME Holders, NEW w \in Workers, Works(w)
  PROVE  Holders'
<1>1. CASE ProposeConsumes(w) \/ AmendLoses(w) \/ AmendConsumes(w)
  BY <1>1, MutexHolders
<1>2. CASE Returns(w)
  BY <1>2, LeavingHolders DEF Returns, At
<1>3. CASE Resume(w)
  BY <1>3, LeavingHolders DEF Resume, At
<1>4. CASE Stage(w)
  BY <1>4, LeavingHolders DEF Stage, At
<1>5. CASE SealEnds(w)
  BY <1>5, LeavingHolders DEF SealEnds, At
<1>6. CASE DeductFails(w)
  BY <1>6, NoOwnerIsNoWorker DEF DeductFails, At, Holders, Moves, Steps
<1>7. CASE AmendChecked(w)
  BY <1>7, MovingHolders DEF AmendChecked, At, Steps
<1>8. CASE Suspend(w)
  BY <1>8, MovingHolders DEF Suspend, At, Steps
<1>9. CASE CallAffordable(w)
  BY <1>9, MovingHolders DEF CallAffordable, At, Steps
<1>10. CASE SealBegins(w)
  BY <1>10, MovingHolders DEF SealBegins, At, Steps
<1>11. CASE DeductOne(w)
  BY <1>11 DEF DeductOne, Holders
<1> QED BY <1>1, <1>2, <1>3, <1>4, <1>5, <1>6, <1>7, <1>8, <1>9, <1>10, <1>11 DEF Works

(* No step breaks the discipline.                                          *)
LEMMA NextHolders ==
  Holders /\ [LockNext]_lockedVars => Holders'
<1> SUFFICES ASSUME Holders, [LockNext]_lockedVars PROVE Holders'
  OBVIOUS
<1>1. CASE UNCHANGED lockVars
  BY <1>1 DEF lockVars, Holders
<1>2. ASSUME NEW w \in Workers, Acquires(w) PROVE Holders'
  BY <1>2, AcquiringHolders
<1>3. ASSUME NEW w \in Workers, Works(w) PROVE Holders'
  BY <1>3, WorkingHolders
<1> QED BY <1>1, <1>2, <1>3 DEF LockNext, Arrives, lockedVars

(* Who holds a lock is who stands where the code holds it, and a worker    *)
(* that waits for the RwLock of the sessions holds neither lock (amend     *)
(* takes the Mutex under the RwLock, propose drops the Mutex first), so    *)
(* two workers never wait for each other.                                  *)
THEOREM LocksAreOrdered == LockSpec => []LockOrder
<1>1. LockSpec => []Holders
  BY InitHolders, NextHolders, PTL DEF LockSpec
<1> QED BY <1>1, HoldersAreEnough, PTL
-----------------------------------------------------------------------------
(* The operators of SessionManager that depend on no variable are the same *)
(* ones under the refinement mapping.                                      *)

(* Those of the budgets.                                                   *)
LEMMA SameBudgets ==
  /\ \A b, a : Atomic!AddOverflows(b, a) = AddOverflows(b, a)
  /\ \A b, a : Atomic!AddAssign(b, a) = AddAssign(b, a)
  /\ \A b, c : Atomic!Deductible(b, c) = Deductible(b, c)
  /\ \A b, c : Atomic!Affordable(b, c) = Affordable(b, c)
  /\ \A b, c, p : Atomic!Deduct(b, c, p) = Deduct(b, c, p)
  /\ \A b, d : Atomic!Present(b, d) = Present(b, d)
  BY DEF AddOverflows, AddAssign, Deductible, Affordable, Deduct, Present, Value, Dims,
         BuiltInDims,
     Atomic!AddOverflows, Atomic!AddAssign, Atomic!Deductible, Atomic!Affordable,
     Atomic!Deduct, Atomic!Present, Atomic!Value, Atomic!Dims, Atomic!BuiltInDims

(* What the adapters make of a call.                                       *)
LEMMA SameAdapters ==
  /\ \A a, b, c : Atomic!InScope(a, b, c) = InScope(a, b, c)
  /\ \A a, b : Atomic!MatchedResources(a, b) = MatchedResources(a, b)
  /\ \A a, b : Atomic!Charges(a, b) = Charges(a, b)
  /\ \A a, b : Atomic!Chargeable(a, b) = Chargeable(a, b)
  /\ \A a, b : Atomic!ChargesFault(a, b) = ChargesFault(a, b)
  /\ \A p : Atomic!SettlementPlan(p) = SettlementPlan(p)
  /\ \A p : Atomic!RollbackPlan(p) = RollbackPlan(p)
<1>1. \A a, b : Atomic!Charges(a, b) = Charges(a, b)
  BY DEF Charges, Amount, SumFunctionOnSet, FoldFunctionOnSet, MapThenFoldSet,
         Atomic!Charges, Atomic!Amount, Atomic!SumFunctionOnSet,
         Atomic!FoldFunctionOnSet, Atomic!MapThenFoldSet
<1>2. \A c, b : Atomic!HasAmount(c, b) = HasAmount(c, b)
  BY DEF HasAmount, U64, Json!HasType, Atomic!HasAmount, Atomic!U64, Atomic!Json!HasType
<1>3. \A a, b : Atomic!Chargeable(a, b) = Chargeable(a, b)
  BY <1>1, <1>2 DEF Chargeable, U64, Atomic!Chargeable, Atomic!U64
<1>4. \A a, b : Atomic!ChargesFault(a, b) = ChargesFault(a, b)
  BY DEF ChargesFault, HasAmount, Amount, U64, Json!HasType, Min, MapThenSumSet, MapThenFoldSet,
         Atomic!ChargesFault, Atomic!HasAmount, Atomic!Amount, Atomic!U64, Atomic!Json!HasType,
         Atomic!Min, Atomic!MapThenSumSet, Atomic!MapThenFoldSet
<1>5. /\ \A a, b, c : Atomic!InScope(a, b, c) = InScope(a, b, c)
      /\ \A a, b : Atomic!MatchedResources(a, b) = MatchedResources(a, b)
  BY DEF InScope, MatchedResources, Qualified, Unscoped, Json!HasType, Atomic!InScope,
         Atomic!MatchedResources, Atomic!Qualified, Atomic!Unscoped, Atomic!Json!HasType
<1>6. /\ \A p : Atomic!SettlementPlan(p) = SettlementPlan(p)
      /\ \A p : Atomic!RollbackPlan(p) = RollbackPlan(p)
  BY DEF SettlementPlan, RollbackPlan, StableSort, Source, Place, Cardinality,
         Atomic!SettlementPlan, Atomic!RollbackPlan, Atomic!StableSort, Atomic!Source,
         Atomic!Place, Atomic!Cardinality
<1> QED BY <1>1, <1>3, <1>4, <1>5, <1>6

(* The policy evaluation is the same.                                      *)
LEMMA SamePolicy ==
  \A s, c, r : Atomic!PolicyAllows(s, c, r) = PolicyAllows(s, c, r)
  BY DEF PolicyAllows, Policy!Allows, Policy!PolicyContext, Policy!ContextParses,
         Policy!PermitApplies, Policy!HighValueForbidApplies, Policy!DestructiveActions,
         Policy!MaxI64, Policy!AdaptedActions, Policy!HasType, Policy!HighValueActions,
         Policy!HighValueLimit,
         Atomic!PolicyAllows, Atomic!Policy!Allows, Atomic!Policy!PolicyContext,
         Atomic!Policy!ContextParses, Atomic!Policy!PermitApplies,
         Atomic!Policy!HighValueForbidApplies, Atomic!Policy!DestructiveActions,
         Atomic!Policy!MaxI64, Atomic!Policy!AdaptedActions, Atomic!Policy!HasType,
         Atomic!Policy!HighValueActions, Atomic!Policy!HighValueLimit

(* So are the constants, the tokens, the check of a delegation and the     *)
(* answers to a call.                                                      *)
LEMMA SameSmall ==
  /\ Atomic!Idle = Idle
  /\ Atomic!NoReply = NoReply
  /\ Atomic!Open = Open
  /\ \A s, i, g, e : Atomic!Token(s, i, g, e) = Token(s, i, g, e)
  /\ \A d, i, t : Atomic!DelegationValid(d, i, t) = DelegationValid(d, i, t)
  /\ \A c, u : Atomic!Response(c, u) = Response(c, u)
  BY DEF Idle, NoReply, Open, Token, DelegationValid, DelegationProof, Response, Atomic!Idle,
         Atomic!NoReply, Atomic!Open, Atomic!Token, Atomic!DelegationValid,
         Atomic!DelegationProof, Atomic!Response

(* So are the checks before the lock, and those under it that do not look  *)
(* at the consumed delegations.                                            *)
LEMMA SameChecks ==
  /\ \A r, t : Atomic!Precheck(r, t) = Precheck(r, t)
  /\ \A r, s, t : Atomic!AmendFault(r, s, t) = AmendFault(r, s, t)
  /\ \A r, s, t : Atomic!CallOutcome(r, s, t) = CallOutcome(r, s, t)
  /\ \A r, s, t : Atomic!SealOutcome(r, s, t) = SealOutcome(r, s, t)
  /\ \A r, s, t : Atomic!AbortOutcome(r, s, t) = AbortOutcome(r, s, t)
<1>1. \A r, t : Atomic!Precheck(r, t) = Precheck(r, t)
  <2>1. \A r, t : Atomic!ProposePrecheck(r, t) = ProposePrecheck(r, t)
    <3>1. \A tool, t : Atomic!ToolFault(tool, t) = ToolFault(tool, t)
      BY DEF ToolFault, Atomic!ToolFault
    <3>2. (\A S : Atomic!Min(S) = Min(S)) /\ Atomic!TtlRange = TtlRange
      BY DEF Min, TtlRange, Atomic!Min, Atomic!TtlRange
    <3> QED BY <3>1, <3>2, SameSmall DEF ProposePrecheck, Atomic!ProposePrecheck
  <2>2. \A r : /\ Atomic!AmendPrecheck(r) = AmendPrecheck(r)
               /\ Atomic!ClosePrecheck(r) = ClosePrecheck(r)
               /\ Atomic!CallPrecheck(r) = CallPrecheck(r)
    BY DEF AmendPrecheck, ClosePrecheck, CallPrecheck, Atomic!AmendPrecheck,
           Atomic!ClosePrecheck, Atomic!CallPrecheck
  <2> QED BY <2>1, <2>2 DEF Precheck, Atomic!Precheck
<1>2. \A sid, s, k, t : Atomic!CapabilityValid(sid, s, k, t) = CapabilityValid(sid, s, k, t)
  BY SameSmall DEF CapabilityValid, Atomic!CapabilityValid
<1>3. \A c, s : Atomic!FreshCallOutcome(c, s) = FreshCallOutcome(c, s)
  BY SameBudgets, SameAdapters, SamePolicy DEF FreshCallOutcome, Atomic!FreshCallOutcome
<1>4. \A k, u, r : Atomic!ReplayOutcome(k, u, r) = ReplayOutcome(k, u, r)
  BY DEF ReplayOutcome, Atomic!ReplayOutcome
<1>5. \A r, s, t : Atomic!AmendFault(r, s, t) = AmendFault(r, s, t)
  BY <1>2, SameSmall, SameBudgets DEF AmendFault, Atomic!AmendFault
<1>6. \A r, s, t : Atomic!CallOutcome(r, s, t) = CallOutcome(r, s, t)
  BY <1>2, <1>3, SameSmall DEF CallOutcome, Atomic!CallOutcome
<1>7. \A r, s, t : Atomic!SealOutcome(r, s, t) = SealOutcome(r, s, t)
  BY <1>2, <1>4, SameSmall DEF SealOutcome, Atomic!SealOutcome
<1>8. \A r, s, t : Atomic!AbortOutcome(r, s, t) = AbortOutcome(r, s, t)
  BY <1>2, <1>4, SameSmall DEF AbortOutcome, Atomic!AbortOutcome
<1> QED BY <1>1, <1>5, <1>6, <1>7, <1>8

(* And what the handlers make of a session.                                *)
LEMMA SameResults ==
  /\ \A sid, r, t : Atomic!NewSession(sid, r, t) = NewSession(sid, r, t)
  /\ \A sid, s, a : Atomic!Amended(sid, s, a) = Amended(sid, s, a)
  /\ \A s, k, c, u : Atomic!Staged(s, k, c, u) = Staged(s, k, c, u)
  /\ \A sid, s, k : Atomic!Sealed(sid, s, k) = Sealed(sid, s, k)
  /\ \A sid, s, k : Atomic!AbortedBy(sid, s, k) = AbortedBy(sid, s, k)
<1>1. \A sid, r, t : Atomic!NewSession(sid, r, t) = NewSession(sid, r, t)
  BY SameSmall DEF NewSession, Atomic!NewSession
<1>2. \A sid, s, a : Atomic!Amended(sid, s, a) = Amended(sid, s, a)
  BY SameSmall, SameBudgets DEF Amended, Atomic!Amended
<1>3. \A s, k, c, u : Atomic!Staged(s, k, c, u) = Staged(s, k, c, u)
  BY SameSmall, SameBudgets, SameAdapters DEF Staged, Atomic!Staged
<1>4. \A sid, s, k : Atomic!Sealed(sid, s, k) = Sealed(sid, s, k)
  BY SamePolicy, SameAdapters
  DEF Sealed, Revalidates, SealReceipt, Atomic!Sealed, Atomic!Revalidates, Atomic!SealReceipt
<1>5. \A sid, s, k : Atomic!AbortedBy(sid, s, k) = AbortedBy(sid, s, k)
  BY SameAdapters DEF AbortedBy, AbortReceipt, Atomic!AbortedBy, Atomic!AbortReceipt
<1> QED BY <1>1, <1>2, <1>3, <1>4, <1>5
-----------------------------------------------------------------------------
(* Handlers that look and return, or change a session in one assignment,   *)
(* where the table and what is served are what the mapping shows.          *)

(* The two tables agree before and after the step.                         *)
Agree ==
  /\ AtomicSessions = sessions /\ AtomicSessions' = sessions'
  /\ AtomicPending = pending /\ AtomicPending' = pending'

(* The insertion of a proposed session.                                    *)
LEMMA InsertAtomic ==
  ASSUME NEW w \in Workers, Agree, InsertSession(w)
  PROVE  Atomic!InsertSession(w)
<1>1. Atomic!Live = Live
  BY DEF Agree, Live, Atomic!Live
<1> QED BY <1>1, SameSmall, SameResults
     DEF Agree, InsertSession, Answer, Atomic!InsertSession, Atomic!Answer

(* Both find the same session, store it and answer alike.                  *)
LEMMA LooksAtomic ==
  ASSUME Agree
  PROVE  /\ \A w \in Workers : \A m : Atomic!Finds(w, m) <=> Finds(w, m)
         /\ \A w \in Workers : Atomic!Found(w) = Found(w)
         /\ \A w \in Workers : \A s : Atomic!Store(w, s) <=> Store(w, s)
         /\ \A w \in Workers : \A c, r : Atomic!Answer(w, c, r) <=> Answer(w, c, r)
         /\ \A w \in Workers : \A c : Atomic!Rejects(w, c) <=> Rejects(w, c)
  BY SameSmall DEF Agree, Finds, Checked, Found, Store, Answer, Rejects, Atomic!Finds,
     Atomic!Checked, Atomic!Found, Atomic!Store, Atomic!Answer, Atomic!Rejects

(* A session that does not exist.                                          *)
LEMMA UnknownAtomic ==
  ASSUME NEW w \in Workers, Agree, UnknownSession(w)
  PROVE  Atomic!UnknownSession(w)
  BY LooksAtomic DEF Agree, UnknownSession, Atomic!UnknownSession

(* Calls that stage nothing.                                               *)
LEMMA CallAtomic ==
  ASSUME NEW w \in Workers, Agree, CallRejected(w) \/ CallExpires(w) \/ CallReplayed(w)
  PROVE  Atomic!CallRejected(w) \/ Atomic!CallExpires(w) \/ Atomic!CallReplayed(w)
<1>1. CASE CallRejected(w)
  BY <1>1, LooksAtomic, SameChecks DEF Agree, CallRejected, Atomic!CallRejected
<1>2. CASE CallExpires(w)
  BY <1>2, LooksAtomic DEF Agree, CallExpires, Atomic!CallExpires
<1>3. CASE CallReplayed(w)
  BY <1>3, LooksAtomic, SameChecks
  DEF Agree, CallReplayed, CallAccepted, Atomic!CallReplayed, Atomic!CallAccepted
<1> QED BY <1>1, <1>2, <1>3

(* Seals that settle nothing, and aborts.                                  *)
LEMMA CloseAtomic ==
  ASSUME NEW w \in Workers, Agree,
         \/ SealRejected(w) \/ SealReplayed(w)
         \/ AbortRejected(w) \/ AbortReplayed(w) \/ Abort(w)
  PROVE  \/ Atomic!SealRejected(w) \/ Atomic!SealReplayed(w)
         \/ Atomic!AbortRejected(w) \/ Atomic!AbortReplayed(w) \/ Atomic!Abort(w)
<1>1. CASE SealRejected(w)
  BY <1>1, LooksAtomic, SameChecks DEF Agree, SealRejected, Atomic!SealRejected
<1>2. CASE SealReplayed(w)
  BY <1>2, LooksAtomic, SameChecks
  DEF Agree, SealReplayed, SealAccepted, Atomic!SealReplayed, Atomic!SealAccepted
<1>3. CASE AbortRejected(w)
  BY <1>3, LooksAtomic, SameChecks DEF Agree, AbortRejected, Atomic!AbortRejected
<1>4. CASE AbortReplayed(w)
  BY <1>4, LooksAtomic, SameChecks
  DEF Agree, AbortReplayed, AbortAccepted, Atomic!AbortReplayed, Atomic!AbortAccepted
<1>5. CASE Abort(w)
  BY <1>5, LooksAtomic, SameChecks, SameResults
  DEF Agree, Abort, AbortAccepted, Atomic!Abort, Atomic!AbortAccepted
<1> QED BY <1>1, <1>2, <1>3, <1>4, <1>5

(* A refused amendment.                                                    *)
LEMMA AmendRefusedAtomic ==
  ASSUME NEW w \in Workers, Agree, Finds(w, "intent/amend"),
         Rejects(w, AmendOutcome(pending[w].request, Found(w), pending[w].now_ms))
  PROVE  Atomic!AmendRejected(w)
<1>1. \A r, s, t : Atomic!AmendOutcome(r, s, t) = AmendOutcome(r, s, t)
  BY SameChecks DEF AmendOutcome, Atomic!AmendOutcome
<1> QED BY <1>1, LooksAtomic DEF Agree, Atomic!AmendRejected

(* All of them.                                                            *)
LEMMA ReturnsAtomic ==
  ASSUME NEW w \in Workers, Agree, Returns(w)
  PROVE  Atomic!Serve(w)
<1>1. CASE Finds(w, "intent/amend") /\
           Rejects(w, AmendFault(pending[w].request, Found(w), pending[w].now_ms))
  <2>1. AmendOutcome(pending[w].request, Found(w), pending[w].now_ms)
          = AmendFault(pending[w].request, Found(w), pending[w].now_ms)
    BY <1>1 DEF Rejects, AmendOutcome
  <2> QED BY <1>1, <2>1, AmendRefusedAtomic DEF Atomic!Serve
<1> QED BY <1>1, InsertAtomic, UnknownAtomic, CallAtomic, CloseAtomic DEF Returns, Atomic!Serve
-----------------------------------------------------------------------------
(* The invariant of the locked handlers.                                   *)

Tables == [SessionIds -> ActiveSessions \cup {None}]

HeldBy(w) == held[pending[w].request.session_id]

(* The table as it was taken, but for the session of the holder.           *)
HeldWith(w, session) == [held EXCEPT ![pending[w].request.session_id] = session]

(* Past its checks, amend can only lose its delegation.                    *)
Amends(w) ==
  /\ Checked(w, "intent/amend")
  /\ HeldBy(w) # None
  /\ AmendFault(pending[w].request, HeldBy(w), pending[w].now_ms) = "OK"

Suspended(w) ==
  [HeldBy(w) EXCEPT
     !.status            = "SUSPENDED",
     !.remaining_budgets = AddAssign(HeldBy(w).remaining_budgets,
                                     pending[w].request.budget_additions)]

Charged(w) == DOMAIN PendingCharges(w) \ todo

PartlyCharged(w) ==
  [HeldBy(w) EXCEPT
     !.remaining_budgets = Deduct(HeldBy(w).remaining_budgets, PendingCharges(w), Charged(w))]

(* A call that is being charged passed every check, and what it has paid   *)
(* so far the budget had.                                                  *)
Charging(w) ==
  /\ Checked(w, "tools/call")
  /\ HeldBy(w) # None
  /\ CallOutcome(pending[w].request, HeldBy(w), pending[w].now_ms) = "OK"
  /\ HeldBy(w).tool_results[pending[w].request.idempotency_key] = None
  /\ todo \subseteq DOMAIN PendingCharges(w)
  /\ \A d \in Charged(w) : Present(HeldBy(w).remaining_budgets, d)
  /\ sessions = HeldWith(w, PartlyCharged(w))

Sealing(w) ==
  /\ Checked(w, "intent/seal")
  /\ HeldBy(w) # None
  /\ SealOutcome(pending[w].request, HeldBy(w), pending[w].now_ms) = "OK"
  /\ HeldBy(w).status # "SETTLED"
  /\ sessions = HeldWith(w, [HeldBy(w) EXCEPT !.status = "SEALING"])

(* What the holder has made of the table so far.                           *)
Begun(w) ==
  /\ step[w] \in {"locked", "amending", "consuming", "suspending"} => sessions = held
  /\ step[w] \in {"amending", "consuming", "suspending", "resuming"} => Amends(w)
  /\ step[w] = "resuming" => sessions = HeldWith(w, Suspended(w))
  /\ step[w] = "charging" => Charging(w)
  /\ step[w] = "sealing" => Sealing(w)

RestTyped ==
  /\ used_delegations \subseteq Delegations
  /\ pending \in [Workers -> {Idle} \cup InService]
  /\ now \in Clock
  /\ uuids \in Nat
  /\ backing \in [Delegations -> Spendings \cup {None}]

LockInv ==
  /\ Holders
  /\ sessions_lock \in Workers \cup {NoOwner}
  /\ RestTyped
  /\ held \in Tables
  /\ sessions_lock = NoOwner => sessions \in Tables
  /\ \A w \in Workers : sessions_lock = w => Begun(w)
-----------------------------------------------------------------------------
(* What the refinement mapping shows, by who holds the RwLock.             *)

(* Committed is only who holds it, with an amendment that passed.          *)
LEMMA NotCommitted ==
  ASSUME LockInv, NEW w \in Workers,
         Committed(w)
  PROVE  sessions_lock = w /\ Amends(w) /\ pending[w] # Idle
  BY DEF LockInv, Holders, Committed, At, Begun, Amends, Checked, Idle

(* Until a handler is committed, its request is seen in service.           *)
LEMMA SeenPending ==
  ASSUME LockInv, \A w \in Workers : ~ Committed(w)
  PROVE  AtomicPending = pending
  BY DEF LockInv, RestTyped, AtomicPending

(* While the lock is free, everything is seen as it is.                    *)
LEMMA SeenFree ==
  ASSUME LockInv, sessions_lock = NoOwner
  PROVE  AtomicSessions = sessions /\ AtomicPending = pending
<1>1. \A w \in Workers : ~ Committed(w)
  BY NotCommitted, NoOwnerIsNoWorker
<1> QED BY <1>1, SeenPending DEF AtomicSessions

(* Under the lock the table is seen as it was taken, until the holder is   *)
(* committed.                                                              *)
LEMMA SeenHeld ==
  ASSUME LockInv, NEW w \in Workers, sessions_lock = w, ~ Committed(w)
  PROVE  AtomicSessions = held /\ AtomicPending = pending
<1>1. \A v \in Workers : ~ Committed(v)
  BY NotCommitted
<1> QED BY <1>1, SeenPending, NoOwnerIsNoWorker DEF AtomicSessions

(* From then on the table is seen amended, and the request as served.      *)
LEMMA SeenCommitted ==
  ASSUME LockInv, NEW w \in Workers, Committed(w)
  PROVE  /\ AtomicSessions = HeldWith(w, Amended(pending[w].request.session_id, HeldBy(w),
                                                 pending[w].request.budget_additions))
         /\ AtomicPending = [pending EXCEPT ![w] = Idle]
<1>1. sessions_lock = w
  BY NotCommitted
<1>2. \A v \in Workers : Committed(v) <=> v = w
  BY <1>1, NotCommitted
<1>3. AtomicPending = [pending EXCEPT ![w] = Idle]
  BY <1>2 DEF AtomicPending, LockInv, RestTyped
<1> QED BY <1>1, <1>3, NoOwnerIsNoWorker DEF AtomicSessions, HeldWith, HeldBy

(* What a handler that is half way through still shows of a session.       *)
LEMMA HolderIs ==
  ASSUME LockInv, NEW w \in Workers, pending[w].status = "checked",
         pending[w].request.method # "intent/propose", HeldBy(w) # None
  PROVE  /\ pending[w] \in InService
         /\ pending[w].request \in CheckedRequests
         /\ pending[w].request.session_id \in SessionIds
         /\ HeldBy(w) \in ActiveSessions
         /\ \A session : /\ DOMAIN HeldWith(w, session) = SessionIds
                         /\ HeldWith(w, session)[pending[w].request.session_id] = session
<1>1. pending[w] \in InService
  BY DEF LockInv, RestTyped, Idle
<1>2. pending[w].request \in CheckedRequests
  BY <1>1 DEF InService
<1>3. pending[w].request.session_id \in SessionIds
  BY <1>2 DEF CheckedRequests, ProposeRequests
<1>4. HeldBy(w) \in ActiveSessions
  BY <1>3 DEF LockInv, Tables, HeldBy
<1> QED BY <1>1, <1>2, <1>3, <1>4 DEF LockInv, Tables, HeldWith

(* What amend goes on with, once every check is passed, and what it makes  *)
(* of the session.                                                         *)
LEMMA AmendingIs ==
  ASSUME LockInv, NEW w \in Workers, Amends(w)
  PROVE  /\ pending[w].request.session_id \in SessionIds
         /\ HeldBy(w) \in ActiveSessions
         /\ pending[w].request.budget_additions \in Additions
         /\ pending[w].request.delegation \in Delegations
         /\ ~ AddOverflows(HeldBy(w).remaining_budgets, pending[w].request.budget_additions)
         /\ Suspended(w) \in SessionsWith({"SUSPENDED"})
         /\ Amended(pending[w].request.session_id, HeldBy(w), pending[w].request.budget_additions)
              \in ActiveSessions
<1> DEFINE r == pending[w].request
<1>1. /\ r \in CheckedRequests
      /\ r.session_id \in SessionIds
      /\ HeldBy(w) \in ActiveSessions
      /\ r.method = "intent/amend"
  BY HolderIs DEF Amends, Checked
<1>2. r.budget_additions \in Additions /\ r.delegation \in Delegations
  BY <1>1 DEF CheckedRequests, ProposeRequests
<1>3. ~ AddOverflows(HeldBy(w).remaining_budgets, r.budget_additions)
  BY DEF Amends, AmendFault
<1>4. AddAssign(HeldBy(w).remaining_budgets, r.budget_additions) \in Budgets
  BY <1>1, <1>2, <1>3, AddAssignType, InputAssumption DEF ActiveSessions, SessionsWith
<1>5. Suspended(w) \in SessionsWith({"SUSPENDED"})
  BY <1>1, <1>4 DEF Suspended, ActiveSessions, SessionsWith
<1>6. Amended(r.session_id, HeldBy(w), r.budget_additions) \in ActiveSessions
  BY <1>1, <1>2, <1>3, AmendedType
<1> QED BY <1>1, <1>2, <1>3, <1>5, <1>6

(* The session a resumed amendment stores is the one Amended makes.        *)
LEMMA ResumedIs ==
  ASSUME LockInv, NEW w \in Workers, Amends(w)
  PROVE  LET r == pending[w].request IN
         [Amended(r.session_id, Suspended(w), r.budget_additions) EXCEPT
            !.remaining_budgets = Suspended(w).remaining_budgets]
           = Amended(r.session_id, HeldBy(w), r.budget_additions)
<1>1. HeldBy(w) \in ActiveSessions
  BY AmendingIs
<1> QED BY <1>1 DEF Amended, Suspended, ActiveSessions, SessionsWith

(* What a call that is being charged goes on with.                         *)
LEMMA ChargingIs ==
  ASSUME LockInv, NEW w \in Workers, Charging(w)
  PROVE  /\ pending[w].request.session_id \in SessionIds
         /\ HeldBy(w) \in ActiveSessions
         /\ pending[w].request.call \in Calls
         /\ pending[w].request.call.name \in DOMAIN Adapters
         /\ pending[w].request.idempotency_key \in Keys
         /\ FreshCallOutcome(pending[w].request.call, HeldBy(w)) = "OK"
         /\ Affordable(HeldBy(w).remaining_budgets, PendingCharges(w))
         /\ \A d \in DOMAIN PendingCharges(w) : PendingCharges(w)[d] \in U64
         /\ PartlyCharged(w) \in ActiveSessions
<1> DEFINE r == pending[w].request
           charges == PendingCharges(w)
<1>1. /\ r \in CheckedRequests
      /\ r.session_id \in SessionIds
      /\ HeldBy(w) \in ActiveSessions
      /\ r.method = "tools/call"
  BY HolderIs DEF Charging, Checked
<1>2. r.call \in Calls /\ r.call.name \in DOMAIN Adapters /\ r.idempotency_key \in Keys
  BY <1>1 DEF CheckedRequests, ProposeRequests
<1>3. FreshCallOutcome(r.call, HeldBy(w)) = "OK"
  BY DEF Charging, CallOutcome
<1>4. /\ Affordable(HeldBy(w).remaining_budgets, charges)
      /\ \A d \in DOMAIN charges : charges[d] \in U64
  BY <1>3 DEF FreshCallOutcome, ChargesFault, Chargeable, PendingCharges
<1>5. /\ Charged(w) \subseteq DOMAIN charges
      /\ \A d \in Charged(w) : Present(HeldBy(w).remaining_budgets, d)
  BY DEF Charged, Charging
<1>6. HeldBy(w).remaining_budgets \in Budgets
  BY <1>1 DEF ActiveSessions, SessionsWith
<1> HIDE DEF charges
<1>7. Deduct(HeldBy(w).remaining_budgets, charges, Charged(w)) \in Budgets
  BY <1>4, <1>5, <1>6, DeductType
<1>8. PartlyCharged(w) \in ActiveSessions
  BY <1>1, <1>7, ChargedType DEF PartlyCharged, charges
<1> QED BY <1>1, <1>2, <1>3, <1>4, <1>8 DEF charges

(* What seal goes on with.                                                 *)
LEMMA SealingIs ==
  ASSUME LockInv, NEW w \in Workers, Sealing(w)
  PROVE  /\ pending[w].request.session_id \in SessionIds
         /\ HeldBy(w) \in ActiveSessions
         /\ pending[w].request.idempotency_key \in Keys
         /\ [HeldBy(w) EXCEPT !.status = "SEALING"] \in SessionsWith({"SEALING"})
<1> DEFINE r == pending[w].request
<1>1. /\ r \in CheckedRequests
      /\ r.session_id \in SessionIds
      /\ HeldBy(w) \in ActiveSessions
      /\ r.method = "intent/seal"
  BY HolderIs DEF Sealing, Checked
<1>2. r.idempotency_key \in Keys
  BY <1>1 DEF CheckedRequests, ProposeRequests
<1> QED BY <1>1, <1>2 DEF ActiveSessions, SessionsWith

(* Sealing a session that is SEALING comes to sealing the one that was     *)
(* found.                                                                  *)
LEMMA SealedIs ==
  ASSUME NEW sid, NEW session \in ActiveSessions, NEW key
  PROVE  Sealed(sid, [session EXCEPT !.status = "SEALING"], key) = Sealed(sid, session, key)
<1> DEFINE sealing == [session EXCEPT !.status = "SEALING"]
<1>1. /\ sealing.staged_actions = session.staged_actions
      /\ sealing.identity = session.identity
      /\ sealing.generation = session.generation
  BY DEF ActiveSessions, SessionsWith
<1>2. /\ Revalidates(sealing) <=> Revalidates(session)
      /\ SealReceipt(sid, sealing) = SealReceipt(sid, session)
  BY <1>1 DEF Revalidates, PolicyAllows, SealReceipt
<1>3. \A receipt :
        [sealing EXCEPT !.status = "SETTLED", !.seal_idempotency_key = key,
                        !.settlement_result = receipt]
          = [session EXCEPT !.status = "SETTLED", !.seal_idempotency_key = key,
                            !.settlement_result = receipt]
  BY DEF ActiveSessions, SessionsWith
<1>4. [sealing EXCEPT !.status = "ABORTED", !.staged_actions = << >>]
        = [session EXCEPT !.status = "ABORTED", !.staged_actions = << >>]
  BY DEF ActiveSessions, SessionsWith
<1> HIDE DEF sealing
<1>5. Sealed(sid, sealing, key) = Sealed(sid, session, key)
  BY <1>2, <1>3, <1>4 DEF Sealed
<1> QED BY <1>5 DEF sealing
-----------------------------------------------------------------------------
(* Charging one dimension after the other comes to charging them at once.  *)
LEMMA DeductsOneMore ==
  ASSUME NEW b, NEW charges, NEW paid, NEW d, d \notin paid
  PROVE  /\ Deduct(Deduct(b, charges, paid), charges, {d}) = Deduct(b, charges, paid \cup {d})
         /\ Present(Deduct(b, charges, paid), d) <=> Present(b, d)
  BY DEF Deduct, Present

(* Before the first charge the budget is the one that was found.           *)
LEMMA DeductsNothing ==
  ASSUME NEW b \in Budgets, NEW charges
  PROVE  Deduct(b, charges, {}) = b
  BY DEF Deduct, Budgets

PaidFor(session, call) ==
  LET charges == Charges(Adapters[call.name], call.arguments)
  IN  [session EXCEPT !.remaining_budgets =
         Deduct(session.remaining_budgets, charges, DOMAIN charges)]

(* The session `next`, but for its budgets, which are those of `session`.  *)
Repriced(next, session) == [next EXCEPT !.remaining_budgets = session.remaining_budgets]

(* Staging a session that has paid, without charging it again, comes to    *)
(* staging the one that was found.                                         *)
LEMMA StagedIs ==
  ASSUME NEW session \in ActiveSessions, NEW key, NEW call, NEW id
  PROVE  Repriced(Staged(PaidFor(session, call), key, call, id), PaidFor(session, call))
           = Staged(session, key, call, id)
<1> DEFINE charged == PaidFor(session, call)
           charges == Charges(Adapters[call.name], call.arguments)
           paid == Deduct(session.remaining_budgets, charges, DOMAIN charges)
           action  == [call             |-> call,
                       resource_ids     |-> MatchedResources(Adapters[call.name], call.arguments),
                       settlement_order |-> Adapters[call.name].settlement_order,
                       staged_id        |-> id]
           result  == [request_fingerprint |-> call, response |-> Response(call, id)]
           Recorded(results) == [results EXCEPT ![key] = result]
           Done(s, budget, staged, results) ==
             [s EXCEPT !.status = "ACTIVE", !.remaining_budgets = budget,
                       !.staged_actions = staged, !.tool_results = results]
           Paid(s) == [s EXCEPT !.remaining_budgets = paid]
<1>1. \A s : Staged(s, key, call, id) =
        Done(s, Deduct(s.remaining_budgets, charges, DOMAIN charges),
             Append(s.staged_actions, action), Recorded(s.tool_results))
  BY DEF Staged
<1>2. charged = Paid(session)
  BY DEF PaidFor
<1> HIDE DEF charged, charges, action, result, Recorded
<1>3. /\ charged.remaining_budgets = paid
      /\ charged.staged_actions = session.staged_actions
      /\ charged.tool_results = session.tool_results
  BY <1>2 DEF ActiveSessions, SessionsWith
<1>4. Deduct(session.remaining_budgets, charges, DOMAIN charges) = paid
  OBVIOUS
<1> HIDE DEF paid
<1>5. \A staged, results, twice :
        Paid(Done(charged, twice, staged, results)) = Done(session, paid, staged, results)
  BY <1>2 DEF ActiveSessions, SessionsWith
<1> HIDE DEF Done, Paid
<1>6. Paid(Staged(charged, key, call, id)) = Staged(session, key, call, id)
  BY <1>1, <1>3, <1>4, <1>5
<1> QED BY <1>3, <1>6 DEF charged, Paid, Repriced
-----------------------------------------------------------------------------
(* What others can see of a session while it is half done: that it exists, *)
(* whose it is and until when, and no later generation than it will have.  *)
Shows(session) ==
  /\ session.identity \in Identities
  /\ session.expires_at_ms \in Nat
  /\ session.generation \in Nat

(* Every session shows that much, half done or not.                        *)
LEMMA ShownIs ==
  ASSUME NEW S, NEW session \in SessionsWith(S)
  PROVE  Shows(session)
  BY DEF SessionsWith, Shows

(* A session that is half done is a session.                               *)
LEMMA HalfDoneIs ==
  ASSUME NEW session,
         session \in SessionsWith({"SUSPENDED"}) \/ session \in SessionsWith({"SEALING"})
  PROVE  session # None
  BY NoneIsNotHalfDone DEF SessionsWith

SeenAs(session, seen) ==
  /\ session = None <=> seen = None
  /\ session # None =>
       /\ Shows(session) /\ Shows(seen)
       /\ session.identity = seen.identity
       /\ session.expires_at_ms = seen.expires_at_ms
       /\ session.generation <= seen.generation

(* A session the holder has not touched.                                   *)
LEMMA SeenAsItself ==
  ASSUME NEW session \in ActiveSessions \cup {None}
  PROVE  SeenAs(session, session)
<1>1. CASE session \in ActiveSessions
  BY <1>1, ShownIs DEF SeenAs, ActiveSessions, Shows
<1> QED BY <1>1 DEF SeenAs

(* One that is being amended.                                              *)
LEMMA SeenAsAmended ==
  ASSUME LockInv, NEW w \in Workers, Amends(w),
         NEW session \in {HeldBy(w), Suspended(w)}
  PROVE  SeenAs(session, Amended(pending[w].request.session_id, HeldBy(w),
                                 pending[w].request.budget_additions))
<1> DEFINE next == Amended(pending[w].request.session_id, HeldBy(w),
                           pending[w].request.budget_additions)
<1>1. /\ HeldBy(w) \in ActiveSessions /\ next \in ActiveSessions
      /\ Suspended(w) \in SessionsWith({"SUSPENDED"})
  BY AmendingIs
<1>2. session # None /\ next # None
  BY <1>1, HalfDoneIs, NoneIsNoValue
<1>3. Shows(session) /\ Shows(next)
  BY <1>1, ShownIs DEF ActiveSessions
<1>4. /\ next.identity = HeldBy(w).identity
      /\ next.expires_at_ms = HeldBy(w).expires_at_ms
      /\ next.generation = HeldBy(w).generation + 1
  BY <1>1 DEF Amended, ActiveSessions, SessionsWith
<1>5. /\ session.identity = HeldBy(w).identity
      /\ session.expires_at_ms = HeldBy(w).expires_at_ms
      /\ session.generation = HeldBy(w).generation
  BY <1>1 DEF Suspended, ActiveSessions, SessionsWith
<1> QED BY <1>2, <1>3, <1>4, <1>5 DEF SeenAs, Shows

(* One that is being charged or sealed.                                    *)
LEMMA SeenAsHeld ==
  ASSUME LockInv, NEW w \in Workers
  PROVE  /\ Charging(w) => SeenAs(PartlyCharged(w), HeldBy(w))
         /\ Sealing(w) => SeenAs([HeldBy(w) EXCEPT !.status = "SEALING"], HeldBy(w))
<1>1. ASSUME Charging(w) PROVE SeenAs(PartlyCharged(w), HeldBy(w))
  <2>1. HeldBy(w) \in ActiveSessions /\ PartlyCharged(w) \in ActiveSessions
    BY <1>1, ChargingIs
  <2>2. Shows(HeldBy(w)) /\ Shows(PartlyCharged(w)) /\ HeldBy(w) # None /\ PartlyCharged(w) # None
    BY <2>1, ShownIs, NoneIsNoValue DEF ActiveSessions
  <2> QED BY <2>1, <2>2 DEF SeenAs, Shows, PartlyCharged, ActiveSessions, SessionsWith
<1>2. ASSUME Sealing(w)
      PROVE  SeenAs([HeldBy(w) EXCEPT !.status = "SEALING"], HeldBy(w))
  <2> DEFINE session == [HeldBy(w) EXCEPT !.status = "SEALING"]
  <2>1. HeldBy(w) \in ActiveSessions /\ session \in SessionsWith({"SEALING"})
    BY <1>2, SealingIs
  <2>2. Shows(HeldBy(w)) /\ Shows(session) /\ HeldBy(w) # None /\ session # None
    BY <2>1, ShownIs, HalfDoneIs, NoneIsNoValue DEF ActiveSessions
  <2> QED BY <2>1, <2>2 DEF SeenAs, Shows, ActiveSessions, SessionsWith
<1> QED BY <1>1, <1>2

(* So every session is seen as one with the same owner and deadline.       *)
LEMMA SeenAsAtomic ==
  ASSUME LockInv, NEW sid \in SessionIds
  PROVE  SeenAs(sessions[sid], AtomicSessions[sid])
<1>1. CASE sessions_lock = NoOwner
  <2>1. AtomicSessions = sessions /\ sessions \in Tables
    BY <1>1, SeenFree DEF LockInv
  <2> QED BY <2>1, SeenAsItself DEF Tables
<1>2. CASE sessions_lock # NoOwner
  <2>1. PICK w \in Workers : sessions_lock = w
    BY <1>2 DEF LockInv
  <2>2. /\ Begun(w) /\ held \in Tables
        /\ step[w] \in Steps \ {"start", "mutex"}
    BY <2>1 DEF LockInv, Holders
  <2>3. held[sid] \in ActiveSessions \cup {None}
    BY <2>2 DEF Tables
  <2>4. CASE step[w] \in {"locked", "amending", "consuming"}
    <3>1. AtomicSessions = held /\ sessions = held
      BY <2>1, <2>2, <2>4, SeenHeld DEF Committed, At, Begun
    <3> QED BY <2>3, <3>1, SeenAsItself
  <2>5. CASE step[w] \in {"suspending", "resuming"}
    <3> DEFINE r == pending[w].request
               next == Amended(r.session_id, HeldBy(w), r.budget_additions)
    <3>1. Committed(w) /\ Amends(w)
      BY <2>2, <2>5 DEF Committed, At, Begun
    <3>2. AtomicSessions = HeldWith(w, next)
      BY <3>1, SeenCommitted
    <3>3. r.session_id \in SessionIds
      BY <3>1, AmendingIs
    <3>4. sessions = HeldWith(w, HeldBy(w)) \/ sessions = HeldWith(w, Suspended(w))
      BY <2>2, <2>5 DEF Begun, HeldWith, HeldBy, Tables
    <3>5. \A session : HeldWith(w, session)[sid] = IF sid = r.session_id THEN session ELSE held[sid]
      BY <2>2, <3>3 DEF HeldWith, Tables
    <3>6. SeenAs(HeldBy(w), next) /\ SeenAs(Suspended(w), next) /\ SeenAs(held[sid], held[sid])
      BY <2>3, <3>1, SeenAsAmended, SeenAsItself
    <3> HIDE DEF next
    <3> QED BY <3>2, <3>4, <3>5, <3>6
  <2>6. CASE step[w] \in {"charging", "sealing"}
    <3> DEFINE session == IF step[w] = "charging" THEN PartlyCharged(w)
                          ELSE [HeldBy(w) EXCEPT !.status = "SEALING"]
    <3>1. AtomicSessions = held
      BY <2>1, <2>6, SeenHeld DEF Committed, At
    <3>2. /\ step[w] = "charging" => Charging(w)
          /\ step[w] = "sealing" => Sealing(w)
      BY <2>2 DEF Begun
    <3>3. sessions = HeldWith(w, session)
      BY <2>6, <3>2 DEF Charging, Sealing
    <3>4. pending[w].request.session_id \in SessionIds
      BY <2>6, <3>2, ChargingIs, SealingIs
    <3>5. sessions[sid] = IF sid = pending[w].request.session_id THEN session ELSE held[sid]
      BY <2>2, <3>3, <3>4 DEF HeldWith, Tables
    <3>6. SeenAs(session, HeldBy(w)) /\ SeenAs(held[sid], held[sid])
      BY <2>3, <2>6, <3>2, SeenAsHeld, SeenAsItself
    <3> HIDE DEF session
    <3> QED BY <3>1, <3>5, <3>6 DEF HeldBy
  <2> QED BY <2>2, <2>4, <2>5, <2>6 DEF Steps
<1> QED BY <1>1, <1>2

(* Every token a client can present under the locks could be presented to  *)
(* the atomic session manager too.                                         *)
LEMMA RequestsAtomic ==
  ASSUME LockInv
  PROVE  /\ Atomic!Live = Live
         /\ IssuedTokens \subseteq Tokens
         /\ Requests \subseteq Atomic!Requests
<1>1. Atomic!Live = Live
  BY SeenAsAtomic DEF SeenAs, Live, Atomic!Live
<1>2. ASSUME NEW sid \in Live, NEW g \in 1..sessions[sid].generation
      PROVE  /\ TokenOf(sid, g) \in Tokens
             /\ TokenOf(sid, g) = Atomic!TokenOf(sid, g)
             /\ g \in 1..AtomicSessions[sid].generation
  <2>1. SeenAs(sessions[sid], AtomicSessions[sid]) /\ sessions[sid] # None /\ sid \in SessionIds
    BY SeenAsAtomic DEF Live
  <2>2. /\ Shows(sessions[sid]) /\ Shows(AtomicSessions[sid])
        /\ sessions[sid].identity = AtomicSessions[sid].identity
        /\ sessions[sid].expires_at_ms = AtomicSessions[sid].expires_at_ms
        /\ sessions[sid].generation <= AtomicSessions[sid].generation
    BY <2>1 DEF SeenAs
  <2>3. g \in Nat
    BY <2>2 DEF Shows
  <2>4. TokenOf(sid, g) \in Tokens
    BY <2>1, <2>2, <2>3, TokenType DEF Shows, TokenOf
  <2>5. TokenOf(sid, g) = Atomic!TokenOf(sid, g)
    BY <2>2, SameSmall DEF TokenOf, Atomic!TokenOf
  <2> QED BY <2>2, <2>4, <2>5 DEF Shows
<1>3. IssuedTokens \subseteq Tokens
  BY <1>2 DEF IssuedTokens
<1>4. IssuedTokens \subseteq Atomic!IssuedTokens
  <2>1. ASSUME NEW t \in IssuedTokens PROVE t \in Atomic!IssuedTokens
    <3>1. PICK sid \in Live : \E g \in 1..sessions[sid].generation : t = TokenOf(sid, g)
      BY <2>1 DEF IssuedTokens
    <3>2. PICK g \in 1..sessions[sid].generation : t = TokenOf(sid, g)
      BY <3>1
    <3> QED BY <1>1, <1>2, <3>2 DEF Atomic!IssuedTokens
  <2> QED BY <2>1
<1>5. PresentedTokens \subseteq Atomic!PresentedTokens
  BY <1>4 DEF PresentedTokens, Atomic!PresentedTokens
<1>6. Requests \subseteq Atomic!Requests
  BY <1>5 DEF Requests, ProposeRequests, AmendRequests, CallRequests, CloseRequests,
     Atomic!Requests, Atomic!ProposeRequests, Atomic!AmendRequests, Atomic!CallRequests,
     Atomic!CloseRequests
<1> QED BY <1>1, <1>3, <1>6
-----------------------------------------------------------------------------
(* The steps, through the mapping.                                         *)

(* Nobody can tell a step that touches nothing but the half-done session.  *)
Unseen == UNCHANGED <<AtomicSessions, used_delegations, AtomicPending, now, uuids, reply, backing>>

(* Such a step stutters.                                                   *)
LEMMA UnseenIs ==
  ASSUME Unseen PROVE UNCHANGED Atomic!vars
  BY DEF Unseen, Atomic!vars

(* A step of w that leaves the table, and who is committed, as they were.  *)
LEMMA StaysSeen ==
  ASSUME LockInv, NEW w \in Workers, NEW s,
         Moves(w, s), UNCHANGED <<sessions_lock, held, pending>>,
         (s \in {"suspending", "resuming"}) <=> Committed(w),
         sessions_lock = NoOwner => UNCHANGED sessions
  PROVE  UNCHANGED <<AtomicSessions, AtomicPending>>
<1>1. \A v \in Workers : Committed(v)' <=> Committed(v)
  BY DEF LockInv, Holders, Moves, Committed, At
<1>2. AtomicPending' = AtomicPending
  BY <1>1 DEF AtomicPending
<1>3. sessions_lock # NoOwner => (Committed(sessions_lock)' <=> Committed(sessions_lock))
  BY <1>1 DEF LockInv
<1> QED BY <1>2, <1>3 DEF AtomicSessions

(* The holder returns: its table is what everybody sees.                   *)
LEMMA ReturnSeen ==
  ASSUME LockInv, NEW w \in Workers, sessions_lock = w, sessions_lock' = NoOwner,
         Moves(w, "start"), pending' = [pending EXCEPT ![w] = Idle]
  PROVE  AtomicSessions' = sessions' /\ AtomicPending' = pending'
<1>1. \A v \in Workers : ~ Committed(v)'
  <2>1. \A v \in Workers : v # w => ~ Committed(v)
    BY NotCommitted
  <2>2. step'[w] = "start" /\ \A v \in Workers : v # w => step'[v] = step[v]
    BY DEF Moves, LockInv, Holders
  <2> QED BY <2>1, <2>2 DEF Committed, At
<1>2. AtomicPending' = pending'
  BY <1>1 DEF AtomicPending, LockInv, RestTyped
<1> QED BY <1>2 DEF AtomicSessions

(* What the atomic handler finds when the locked one returns.              *)
LEMMA EndsAtomic ==
  ASSUME NEW w \in Workers, AtomicSessions = held, AtomicPending = pending,
         AtomicSessions' = sessions', AtomicPending' = pending'
  PROVE  /\ \A m : Atomic!Finds(w, m) <=> Checked(w, m) /\ HeldBy(w) # None
         /\ Atomic!Found(w) = HeldBy(w)
         /\ Atomic!PendingCharges(w) = PendingCharges(w)
         /\ \A s : Atomic!Store(w, s) <=> sessions' = HeldWith(w, s)
         /\ \A c, r : Atomic!Answer(w, c, r) <=> Answer(w, c, r)
  BY SameSmall, SameAdapters
  DEF Checked, HeldBy, HeldWith, Answer, PendingCharges, Atomic!Finds, Atomic!Checked,
      Atomic!Found, Atomic!Store, Atomic!Answer, Atomic!PendingCharges

(* A handler that returns at once.                                         *)
LEMMA ReturnsStep ==
  ASSUME LockInv, NEW w \in Workers, Returns(w)
  PROVE  Atomic!Serve(w)
<1>1. step[w] = "locked" /\ sessions_lock = w
  BY DEF Returns, At, LockInv, Holders
<1>2. ~ Committed(w) /\ sessions = held
  BY <1>1 DEF Committed, At, LockInv, Begun
<1>3. pending' = [pending EXCEPT ![w] = Idle]
  BY DEF Returns, InsertSession, UnknownSession, Rejects, Answer, CallRejected, CallExpires,
         CallReplayed, SealRejected, SealReplayed, AbortRejected, AbortReplayed, Abort
<1>4. AtomicSessions' = sessions' /\ AtomicPending' = pending'
  BY <1>1, <1>3, ReturnSeen DEF Returns, Leaves
<1>5. Agree
  BY <1>1, <1>2, <1>4, SeenHeld DEF Agree
<1> QED BY <1>5, ReturnsAtomic

(* The delegation of an amendment was consumed before.                     *)
LEMMA AmendLosesStep ==
  ASSUME LockInv, NEW w \in Workers, AmendLoses(w)
  PROVE  Atomic!Serve(w)
<1>1. step[w] = "consuming" /\ sessions_lock = w
  BY DEF AmendLoses, At, LockInv, Holders
<1>2. ~ Committed(w) /\ sessions = held /\ Amends(w)
  BY <1>1 DEF Committed, At, LockInv, Begun
<1>3. pending' = [pending EXCEPT ![w] = Idle]
  BY DEF AmendLoses, Rejects, Answer
<1>4. AtomicSessions' = sessions' /\ AtomicPending' = pending'
  BY <1>1, <1>3, ReturnSeen DEF AmendLoses
<1>5. Agree
  BY <1>1, <1>2, <1>4, SeenHeld DEF Agree
<1>6. Finds(w, "intent/amend")
  BY <1>2 DEF Amends, Finds, HeldBy
<1>7. AmendOutcome(pending[w].request, Found(w), pending[w].now_ms) = "INVALID_DELEGATION"
  BY <1>2 DEF AmendLoses, AmendOutcome, Amends, Found, HeldBy
<1> QED BY <1>5, <1>6, <1>7, AmendRefusedAtomic DEF AmendLoses, Atomic!Serve

(* The delegation is consumed, and the amendment cannot fail any more.     *)
LEMMA AmendConsumesStep ==
  ASSUME LockInv, NEW w \in Workers, AmendConsumes(w)
  PROVE  Atomic!Amend(w)
<1> DEFINE r    == pending[w].request
           next == Amended(r.session_id, HeldBy(w), r.budget_additions)
<1>1. step[w] = "consuming" /\ sessions_lock = w
  BY DEF AmendConsumes, At, LockInv, Holders
<1>2. ~ Committed(w) /\ sessions = held /\ Amends(w)
  BY <1>1 DEF Committed, At, LockInv, Begun
<1>3. AtomicSessions = held /\ AtomicPending = pending /\ Found(w) = HeldBy(w)
  BY <1>1, <1>2, SeenHeld DEF Found, HeldBy
<1>4. /\ UNCHANGED <<pending, held, sessions_lock>>
      /\ step' = [step EXCEPT ![w] = "suspending"]
  BY DEF AmendConsumes, DropsMutex, Moves
<1>5. \A v \in Workers : Committed(v)' <=> v = w
  BY <1>1, <1>4, NotCommitted DEF LockInv, Holders, Committed, At
<1>6. AtomicPending' = [pending EXCEPT ![w] = Idle]
  BY <1>4, <1>5 DEF AtomicPending, LockInv, RestTyped
<1>7. AtomicSessions' = HeldWith(w, next)
  BY <1>1, <1>4, <1>5, NoOwnerIsNoWorker DEF AtomicSessions, HeldWith, HeldBy
<1>8. /\ used_delegations' = used_delegations \cup {r.delegation}
      /\ r.delegation \notin used_delegations
      /\ backing' = [backing EXCEPT ![r.delegation] =
           [session_id |-> r.session_id, generation |-> next.generation,
            budget |-> r.budget_additions]]
      /\ reply' = [to |-> w, code |-> "OK", result |-> next.capability_token]
      /\ UNCHANGED <<now, uuids>>
  BY <1>3 DEF AmendConsumes
<1>9. Atomic!Finds(w, "intent/amend") /\ Atomic!Found(w) = HeldBy(w)
  BY <1>2, <1>3 DEF Amends, Checked, HeldBy, Atomic!Finds, Atomic!Checked, Atomic!Found
<1>10. Atomic!AmendOutcome(r, HeldBy(w), pending[w].now_ms) = "OK"
  BY <1>2, <1>8, SameChecks DEF Amends, Atomic!AmendOutcome
<1>11. \A s : Atomic!Store(w, s) <=> AtomicSessions' = HeldWith(w, s)
  BY <1>3 DEF HeldWith, Atomic!Store
<1>12. Atomic!Answer(w, "OK", next.capability_token)
  BY <1>3, <1>6, <1>8, SameSmall DEF Atomic!Answer
<1>13. Atomic!Amended(r.session_id, HeldBy(w), r.budget_additions) = next
  BY SameResults
<1> HIDE DEF next
<1> QED BY <1>3, <1>7, <1>8, <1>9, <1>10, <1>11, <1>12, <1>13 DEF Atomic!Amend

(* What was shown since is now in the table.                               *)
LEMMA ResumeStep ==
  ASSUME LockInv, NEW w \in Workers, Resume(w)
  PROVE  Unseen
<1> DEFINE r    == pending[w].request
           next == Amended(r.session_id, HeldBy(w), r.budget_additions)
<1>1. step[w] = "resuming" /\ sessions_lock = w
  BY DEF Resume, At, LockInv, Holders
<1>2. Committed(w) /\ Amends(w) /\ sessions = HeldWith(w, Suspended(w))
  BY <1>1 DEF Committed, At, LockInv, Begun
<1>3. AtomicSessions = HeldWith(w, next) /\ AtomicPending = [pending EXCEPT ![w] = Idle]
  BY <1>2, SeenCommitted
<1>4. pending' = [pending EXCEPT ![w] = Idle]
  BY DEF Resume
<1>5. AtomicSessions' = sessions' /\ AtomicPending' = pending'
  BY <1>1, <1>4, ReturnSeen DEF Resume, Leaves
<1>6. Found(w) = Suspended(w)
  BY <1>2, HolderIs DEF Amends, Checked, Found
<1>7. sessions' = [sessions EXCEPT ![r.session_id] = next]
  BY <1>2, <1>6, ResumedIs DEF Resume, Store
<1>8. sessions' = HeldWith(w, next)
  BY <1>2, <1>7 DEF HeldWith
<1> HIDE DEF next
<1> QED BY <1>3, <1>4, <1>5, <1>8 DEF Resume, Unseen

(* Steps that nobody can tell: checks, the Mutex, and the first change of  *)
(* a session.                                                              *)
LEMMA StutterStep ==
  ASSUME LockInv, NEW w \in Workers,
         \/ AmendChecked(w) \/ Suspend(w) \/ CallAffordable(w) \/ SealBegins(w)
         \/ LockDelegations(w)
  PROVE  Unseen
<1>1. PICK s : /\ Moves(w, s)
               /\ UNCHANGED <<sessions_lock, held, pending, used_delegations, now, uuids,
                               reply, backing>>
               /\ (s \in {"suspending", "resuming"}) <=> Committed(w)
               /\ sessions_lock = NoOwner => UNCHANGED sessions
  <2>1. CASE AmendChecked(w)
    BY <2>1 DEF AmendChecked, Committed, At, vars
  <2>2. CASE Suspend(w)
    BY <2>2, NoOwnerIsNoWorker DEF Suspend, Committed, At, LockInv, Holders
  <2>3. CASE CallAffordable(w)
    BY <2>3 DEF CallAffordable, Committed, At, vars
  <2>4. CASE SealBegins(w)
    BY <2>4, NoOwnerIsNoWorker DEF SealBegins, Committed, At, LockInv, Holders
  <2>5. CASE LockDelegations(w)
    BY <2>5 DEF LockDelegations, WantsDelegations, Committed, At, vars
  <2> QED BY <2>1, <2>2, <2>3, <2>4, <2>5
<1> QED BY <1>1, StaysSeen DEF Unseen

(* Nor can anybody tell one charge of several.                             *)
LEMMA DeductStep ==
  ASSUME LockInv, NEW w \in Workers, DeductOne(w)
  PROVE  Unseen
<1>1. sessions_lock = w /\ step[w] = "charging"
  BY DEF DeductOne, At, LockInv, Holders
<1>2. Moves(w, "charging")
  BY <1>1 DEF DeductOne, Moves, LockInv, Holders
<1>3. UNCHANGED <<AtomicSessions, AtomicPending>>
  BY <1>1, <1>2, StaysSeen, NoOwnerIsNoWorker DEF DeductOne, Committed, At
<1> QED BY <1>3 DEF DeductOne, Unseen

(* Nor that the table was taken.                                           *)
LEMMA LockStepUnseen ==
  ASSUME LockInv, NEW w \in Workers, LockSessions(w)
  PROVE  Unseen
<1>1. /\ sessions_lock = NoOwner /\ sessions_lock' = w
      /\ held' = sessions /\ step' = [step EXCEPT ![w] = "locked"]
      /\ UNCHANGED vars
  BY DEF LockSessions, Moves
<1>2. AtomicSessions = sessions /\ AtomicPending = pending
  BY <1>1, SeenFree
<1>3. \A v \in Workers : ~ Committed(v)'
  <2>1. \A v \in Workers : ~ Committed(v)
    BY <1>1, NotCommitted, NoOwnerIsNoWorker
  <2> QED BY <1>1, <2>1 DEF Committed, At, LockInv, Holders
<1>4. AtomicPending' = pending
  BY <1>1, <1>3 DEF AtomicPending, LockInv, RestTyped, vars
<1>5. AtomicSessions' = sessions
  BY <1>1, <1>3, NoOwnerIsNoWorker DEF AtomicSessions
<1> QED BY <1>1, <1>2, <1>4, <1>5 DEF Unseen, vars

(* The last steps of the handlers that change a session in place.          *)

(* A charge the budget has no dimension for: what was charged before stays *)
(* charged.                                                                *)
LEMMA DeductFailsStep ==
  ASSUME LockInv, NEW w \in Workers, DeductFails(w)
  PROVE  Atomic!CallHalfCharged(w)
<1> DEFINE budget  == HeldBy(w).remaining_budgets
           charges == PendingCharges(w)
<1>1. step[w] = "charging" /\ sessions_lock = w
  BY DEF DeductFails, At, LockInv, Holders
<1>2. ~ Committed(w) /\ Charging(w)
  BY <1>1 DEF Committed, At, LockInv, Begun
<1>3. AtomicSessions = held /\ AtomicPending = pending
  BY <1>1, <1>2, SeenHeld
<1>4. pending' = [pending EXCEPT ![w] = Idle]
  BY DEF DeductFails, Rejects, Answer
<1>5. AtomicSessions' = sessions' /\ AtomicPending' = pending'
  BY <1>1, <1>4, ReturnSeen DEF DeductFails
<1>6. Found(w) = PartlyCharged(w) /\ HeldBy(w) \in ActiveSessions
  BY <1>2, HolderIs, ChargingIs DEF Charging, Checked, Found
<1>7. Found(w).remaining_budgets = Deduct(budget, charges, Charged(w))
  BY <1>6 DEF PartlyCharged, ActiveSessions, SessionsWith
<1>8. ~ Deductible(budget, charges)
  <2>1. PICK d \in todo : ~ Present(Found(w).remaining_budgets, d)
    BY DEF DeductFails
  <2>2. d \in DOMAIN charges /\ d \notin Charged(w)
    BY <1>2, <2>1 DEF Charging, Charged
  <2>3. ~ Present(budget, d)
    BY <1>7, <2>1, <2>2, DeductsOneMore
  <2> QED BY <2>2, <2>3 DEF Deductible
<1>9. Charged(w) \in SUBSET {d \in DOMAIN charges : Present(budget, d)}
  BY <1>2 DEF Charging, Charged
<1>10. sessions' = HeldWith(w, PartlyCharged(w))
  BY <1>2 DEF Charging, DeductFails, Rejects
<1>11. Answer(w, "INSUFFICIENT_BUDGET", None) /\ UNCHANGED <<used_delegations, now, uuids, backing>>
  BY DEF DeductFails, Rejects
<1>12. Atomic!FreshCall(w)
  BY <1>2, <1>3, <1>5, EndsAtomic, SameChecks
  DEF Charging, Atomic!FreshCall, Atomic!CallAccepted
<1>13. Atomic!Store(w, [HeldBy(w) EXCEPT !.remaining_budgets = Deduct(budget, charges, Charged(w))])
  BY <1>3, <1>5, <1>10, EndsAtomic DEF PartlyCharged
<1>14. /\ Atomic!Found(w) = HeldBy(w)
       /\ Atomic!PendingCharges(w) = charges
       /\ Atomic!Answer(w, "INSUFFICIENT_BUDGET", None)
       /\ ~ Atomic!Deductible(budget, charges)
       /\ \A d : Atomic!Present(budget, d) = Present(budget, d)
       /\ \A paid : Atomic!Deduct(budget, charges, paid) = Deduct(budget, charges, paid)
  BY <1>3, <1>5, <1>8, <1>11, EndsAtomic, SameBudgets
<1> HIDE DEF charges
<1> QED BY <1>9, <1>11, <1>12, <1>13, <1>14 DEF Atomic!CallHalfCharged

(* Charged to the end, the session is the one Staged makes in one step.    *)
LEMMA StagedBy ==
  ASSUME LockInv, NEW w \in Workers, Stage(w)
  PROVE  /\ Charging(w) /\ sessions_lock = w /\ step[w] = "charging"
         /\ Deductible(HeldBy(w).remaining_budgets, PendingCharges(w))
         /\ sessions' = HeldWith(w, Staged(HeldBy(w), pending[w].request.idempotency_key,
                                           pending[w].request.call, uuids + 1))
<1> DEFINE r       == pending[w].request
           charges == PendingCharges(w)
<1>1. step[w] = "charging" /\ sessions_lock = w /\ todo = {}
  BY DEF Stage, At, LockInv, Holders
<1>2. Charging(w)
  BY <1>1 DEF LockInv, Begun
<1>3. Found(w) = PartlyCharged(w) /\ HeldBy(w) \in ActiveSessions
  BY <1>2, HolderIs, ChargingIs DEF Charging, Checked, Found
<1>4. Deductible(HeldBy(w).remaining_budgets, charges) /\ Charged(w) = DOMAIN charges
  BY <1>1, <1>2 DEF Charging, Charged, Deductible
<1>5. Repriced(Staged(Found(w), r.idempotency_key, r.call, uuids + 1), Found(w))
        = Staged(HeldBy(w), r.idempotency_key, r.call, uuids + 1)
  <2>1. Found(w) = PaidFor(HeldBy(w), r.call)
    BY <1>3, <1>4 DEF PartlyCharged, PendingCharges, PaidFor
  <2> QED BY <1>3, <2>1, StagedIs
<1>6. sessions' = [sessions EXCEPT ![r.session_id] =
                     Repriced(Staged(Found(w), r.idempotency_key, r.call, uuids + 1), Found(w))]
  BY DEF Stage, Store, Repriced
<1>7. sessions = HeldWith(w, PartlyCharged(w))
  BY <1>2 DEF Charging
<1>8. \A s, t : [HeldWith(w, s) EXCEPT ![r.session_id] = t] = HeldWith(w, t)
  BY DEF HeldWith
<1> QED BY <1>1, <1>2, <1>4, <1>5, <1>6, <1>7, <1>8

(* The call is charged and staged.                                         *)
LEMMA StageStep ==
  ASSUME LockInv, NEW w \in Workers, Stage(w)
  PROVE  Atomic!CallStaged(w)
<1> DEFINE r       == pending[w].request
           budget  == HeldBy(w).remaining_budgets
           charges == PendingCharges(w)
           next    == Staged(HeldBy(w), r.idempotency_key, r.call, uuids + 1)
<1>1. /\ Charging(w) /\ sessions_lock = w /\ ~ Committed(w)
      /\ Deductible(budget, charges) /\ sessions' = HeldWith(w, next)
  BY StagedBy DEF Committed, At
<1>2. AtomicSessions = held /\ AtomicPending = pending
  BY <1>1, SeenHeld
<1>3. pending' = [pending EXCEPT ![w] = Idle]
  BY DEF Stage, Answer
<1>4. AtomicSessions' = sessions' /\ AtomicPending' = pending'
  BY <1>1, <1>3, ReturnSeen DEF Stage, Leaves
<1>5. /\ uuids' = uuids + 1
      /\ Answer(w, "OK", Response(r.call, uuids + 1))
      /\ UNCHANGED <<used_delegations, now, backing>>
  BY DEF Stage
<1>6. Atomic!FreshCall(w)
  BY <1>1, <1>2, <1>4, EndsAtomic, SameChecks
  DEF Charging, Atomic!FreshCall, Atomic!CallAccepted
<1>7. /\ Atomic!Found(w) = HeldBy(w)
      /\ Atomic!PendingCharges(w) = charges
      /\ Atomic!Store(w, next)
      /\ Atomic!Answer(w, "OK", Response(r.call, uuids + 1))
      /\ Atomic!Deductible(budget, charges)
  BY <1>1, <1>2, <1>4, <1>5, EndsAtomic, SameBudgets
<1>8. /\ Atomic!Staged(HeldBy(w), r.idempotency_key, r.call, uuids + 1) = next
      /\ Atomic!Response(r.call, uuids + 1) = Response(r.call, uuids + 1)
  BY SameResults, SameSmall
<1> HIDE DEF charges
<1> QED BY <1>2, <1>5, <1>6, <1>7, <1>8 DEF Atomic!CallStaged

(* The session is settled, or aborted by the policy.                       *)
LEMMA SealEndsStep ==
  ASSUME LockInv, NEW w \in Workers, SealEnds(w)
  PROVE  Atomic!Seal(w)
<1> DEFINE r    == pending[w].request
           next == Sealed(r.session_id, HeldBy(w), r.idempotency_key)
<1>1. step[w] = "sealing" /\ sessions_lock = w
  BY DEF SealEnds, At, LockInv, Holders
<1>2. ~ Committed(w) /\ Sealing(w)
  BY <1>1 DEF Committed, At, LockInv, Begun
<1>3. AtomicSessions = held /\ AtomicPending = pending
  BY <1>1, <1>2, SeenHeld
<1>4. pending' = [pending EXCEPT ![w] = Idle]
  BY DEF SealEnds, Answer
<1>5. AtomicSessions' = sessions' /\ AtomicPending' = pending'
  BY <1>1, <1>4, ReturnSeen DEF SealEnds, Leaves
<1>6. Found(w) = [HeldBy(w) EXCEPT !.status = "SEALING"] /\ HeldBy(w) \in ActiveSessions
  BY <1>2, HolderIs, SealingIs DEF Sealing, Checked, Found
<1>7. Sealed(r.session_id, Found(w), r.idempotency_key) = next
  BY <1>6, SealedIs
<1>8. sessions' = HeldWith(w, next)
  <2>1. sessions' = [sessions EXCEPT ![r.session_id] = next]
    BY <1>7 DEF SealEnds, Store
  <2>2. sessions = HeldWith(w, [HeldBy(w) EXCEPT !.status = "SEALING"])
    BY <1>2 DEF Sealing
  <2> HIDE DEF next
  <2> QED BY <2>1, <2>2 DEF HeldWith
<1>9. /\ Answer(w, IF next.status = "SETTLED" THEN "OK" ELSE "POLICY_VIOLATION",
                next.settlement_result)
      /\ UNCHANGED <<used_delegations, now, uuids, backing>>
  BY <1>7 DEF SealEnds
<1>10. Atomic!Sealed(r.session_id, HeldBy(w), r.idempotency_key) = next
  BY SameResults
<1> HIDE DEF next
<1>11. Atomic!SealAccepted(w)
  BY <1>2, <1>3, <1>5, EndsAtomic, SameChecks DEF Sealing, Atomic!SealAccepted
<1>12. /\ Atomic!Found(w) = HeldBy(w)
       /\ HeldBy(w).status # "SETTLED"
       /\ Atomic!Store(w, next)
       /\ Atomic!Answer(w, IF next.status = "SETTLED" THEN "OK" ELSE "POLICY_VIOLATION",
                        next.settlement_result)
  BY <1>2, <1>3, <1>5, <1>8, <1>9, EndsAtomic DEF Sealing
<1> QED BY <1>3, <1>9, <1>10, <1>11, <1>12 DEF Atomic!Seal

(* A step of w, which is not committed, that changes what it is serving    *)
(* and nothing of the sessions.                                            *)
LEMMA ServesAlone ==
  ASSUME LockInv, NEW w \in Workers, ~ Committed(w), NEW x,
         pending' = [pending EXCEPT ![w] = x],
         sessions_lock # w \/ UNCHANGED step,
         UNCHANGED <<sessions, held, sessions_lock>>,
         \A v \in Workers : v # w => step'[v] = step[v],
         ~ Committed(w)'
  PROVE  /\ AtomicSessions' = AtomicSessions
         /\ AtomicPending' = [AtomicPending EXCEPT ![w] = x]
         /\ AtomicPending[w] = pending[w]
<1>1. \A v \in Workers : Committed(v)' <=> Committed(v)
  BY DEF Committed, At
<1>2. AtomicPending' = [AtomicPending EXCEPT ![w] = x] /\ AtomicPending[w] = pending[w]
  BY <1>1 DEF AtomicPending, LockInv, RestTyped
<1>3. CASE sessions_lock = NoOwner
  BY <1>2, <1>3 DEF AtomicSessions
<1>4. CASE sessions_lock # NoOwner
  <2>1. sessions_lock \in Workers
    BY <1>4 DEF LockInv
  <2>2. Committed(sessions_lock)' <=> Committed(sessions_lock)
    BY <1>1, <2>1
  <2>3. Committed(sessions_lock) => pending'[sessions_lock] = pending[sessions_lock]
    BY <2>1 DEF LockInv, RestTyped
  <2>4. CASE Committed(sessions_lock)
    <3>1. Committed(sessions_lock)' /\ sessions_lock' # NoOwner
      BY <1>4, <2>2, <2>4
    <3>2. pending'[sessions_lock'] = pending[sessions_lock]
      BY <2>3, <2>4
    <3> DEFINE Over(table, r) ==
                 [table EXCEPT ![r.session_id] =
                    Amended(r.session_id, table[r.session_id], r.budget_additions)]
    <3>3. AtomicSessions = Over(held, pending[sessions_lock].request)
      BY <1>4, <2>4 DEF AtomicSessions
    <3>4. AtomicSessions' = Over(held', pending'[sessions_lock'].request)
      BY <3>1 DEF AtomicSessions
    <3> HIDE DEF Over
    <3> QED BY <1>2, <3>2, <3>3, <3>4
  <2>5. CASE ~ Committed(sessions_lock)
    <3>1. ~ Committed(sessions_lock)' /\ sessions_lock' # NoOwner
      BY <1>4, <2>2, <2>5
    <3> QED BY <1>2, <1>4, <2>5, <3>1 DEF AtomicSessions
  <2> QED BY <2>4, <2>5
<1> QED BY <1>3, <1>4

(* A proposal consumes its delegation under the Mutex alone.               *)
LEMMA ProposeConsumesStep ==
  ASSUME LockInv, NEW w \in Workers, ProposeConsumes(w)
  PROVE  Atomic!Serve(w)
<1>1. /\ step[w] = "mutex" /\ sessions_lock # w /\ step' = [step EXCEPT ![w] = "start"]
      /\ UNCHANGED <<sessions, held, sessions_lock>>
  BY DEF ProposeConsumes, DropsMutex, ConsumeDelegation, DelegationConsumed, At, Moves,
         LockInv, Holders
<1>2. ~ Committed(w) /\ ~ Committed(w)' /\ \A v \in Workers : v # w => step'[v] = step[v]
  BY <1>1 DEF Committed, At, LockInv, Holders
<1>3. CASE ConsumeDelegation(w)
  <2>1. pending' = [pending EXCEPT ![w] = [pending[w] EXCEPT !.status = "consumed"]]
    BY <1>3 DEF ConsumeDelegation
  <2>2. /\ AtomicSessions' = AtomicSessions
        /\ AtomicPending' = [AtomicPending EXCEPT ![w] = [pending[w] EXCEPT !.status = "consumed"]]
        /\ AtomicPending[w] = pending[w]
    BY <1>1, <1>2, <2>1, ServesAlone
  <2>3. AtomicPending' = [AtomicPending EXCEPT ![w].status = "consumed"]
    BY <2>2
  <2>4. Atomic!ConsumeDelegation(w)
    BY <1>3, <2>2, <2>3, SameSmall
    DEF ConsumeDelegation, Checked, Atomic!ConsumeDelegation, Atomic!Checked
  <2> QED BY <2>4 DEF Atomic!Serve
<1>4. CASE DelegationConsumed(w)
  <2>1. pending' = [pending EXCEPT ![w] = Idle]
    BY <1>4 DEF DelegationConsumed, Answer
  <2>2. /\ AtomicSessions' = AtomicSessions
        /\ AtomicPending' = [AtomicPending EXCEPT ![w] = Idle]
        /\ AtomicPending[w] = pending[w]
    BY <1>1, <1>2, <2>1, ServesAlone
  <2>3. Atomic!DelegationConsumed(w)
    BY <1>4, <2>2, SameSmall
    DEF DelegationConsumed, Checked, Answer, Atomic!DelegationConsumed, Atomic!Checked,
        Atomic!Answer
  <2> QED BY <2>3 DEF Atomic!Serve
<1> QED BY <1>3, <1>4 DEF ProposeConsumes

(* A request comes in, while others are half way through.                  *)
LEMMA ArrivesStep ==
  ASSUME LockInv, NEW w \in Workers, Arrives(w)
  PROVE  Atomic!Receive(w) /\ \E r \in CheckedRequests :
           pending' = [pending EXCEPT ![w] =
             [status |-> "checked", request |-> r, now_ms |-> now]]
<1>1. PICK r \in Requests : Accept(w, r)
  BY DEF Arrives, Receive
<1>2. pending[w] = Idle /\ UNCHANGED lockVars
  BY DEF Arrives, Receive
<1>3. ~ Committed(w) /\ ~ Committed(w)'
  BY <1>2, NotCommitted DEF lockVars, Committed, At
<1> DEFINE x == [status |-> "checked", request |-> r, now_ms |-> now]
<1>4. pending' = [pending EXCEPT ![w] = x]
  BY <1>1 DEF Accept
<1>5. UNCHANGED <<sessions, held, sessions_lock, step>>
  BY <1>1, <1>2 DEF Accept, lockVars
<1> HIDE DEF x
<1>6. /\ AtomicSessions' = AtomicSessions
      /\ AtomicPending' = [AtomicPending EXCEPT ![w] = x]
      /\ AtomicPending[w] = pending[w]
  BY <1>3, <1>4, <1>5, ServesAlone
<1>7. Atomic!Proposing = Proposing
  <2>1. ASSUME NEW v \in Workers, Committed(v)
        PROVE  pending[v].request.method # "intent/propose" /\ AtomicPending[v] = Idle
    BY <2>1, NotCommitted DEF Amends, Checked, AtomicPending
  <2>2. ASSUME NEW v \in Workers, ~ Committed(v)
        PROVE  AtomicPending[v] = pending[v]
    BY <2>2 DEF AtomicPending
  <2> QED BY <2>1, <2>2, SameSmall DEF Proposing, Atomic!Proposing
<1>8. Atomic!RoomForSession <=> RoomForSession
  <2>1. \A S : Atomic!Cardinality(S) = Cardinality(S)
    BY DEF Cardinality, Atomic!Cardinality
  <2> QED BY <1>7, <2>1, RequestsAtomic DEF RoomForSession, Atomic!RoomForSession
<1>9. Atomic!Accept(w, r)
  BY <1>1, <1>2, <1>6, <1>8, SameSmall, SameChecks DEF Accept, x, Atomic!Accept
<1>10. r \in Atomic!Requests /\ Atomic!Idle = AtomicPending[w]
  BY <1>2, <1>6, RequestsAtomic, SameSmall
<1>11. r \in CheckedRequests
  BY <1>1, RequestsAtomic, CheckedType DEF Accept
<1> QED BY <1>4, <1>9, <1>10, <1>11 DEF Atomic!Receive, x
-----------------------------------------------------------------------------
(* The invariant, step by step.                                            *)

(* The invariant holds at the start, which is a start of SessionManager.   *)
LEMMA InitLocked ==
  ASSUME LockInit
  PROVE  LockInv /\ Atomic!Init
<1>1. Holders
  BY InitHolders
<1>2. sessions \in Tables /\ held \in Tables /\ RestTyped
  BY DEF LockInit, Init, Tables, RestTyped
<1>3. LockInv
  BY <1>1, <1>2, NoOwnerIsNoWorker DEF LockInit, LockInv
<1>4. AtomicSessions = sessions /\ AtomicPending = pending
  BY <1>3, SeenFree DEF LockInit
<1> QED BY <1>3, <1>4, SameSmall DEF LockInit, Init, Atomic!Init

(* What a worker has begun stands while it does not move.                  *)
LEMMA BegunStays ==
  ASSUME NEW w, Begun(w), UNCHANGED <<sessions, held, todo>>,
         pending'[w] = pending[w], step'[w] = step[w]
  PROVE  Begun(w)'
<1>1. HeldBy(w)' = HeldBy(w) /\ PendingCharges(w)' = PendingCharges(w)
  BY DEF HeldBy, PendingCharges
<1>2. Amends(w) => Amends(w)'
  BY DEF Amends, HeldBy, Checked
<1>3. Charging(w) => Charging(w)'
  BY <1>1 DEF Charging, HeldBy, Checked, Charged, PartlyCharged, HeldWith
<1>4. Sealing(w) => Sealing(w)'
  BY DEF Sealing, HeldBy, Checked, HeldWith
<1>5. sessions = HeldWith(w, Suspended(w)) => (sessions = HeldWith(w, Suspended(w)))'
  BY DEF Suspended, HeldBy, HeldWith
<1> QED BY <1>2, <1>3, <1>4, <1>5 DEF Begun
-----------------------------------------------------------------------------
(* Three kinds of steps: the holder returns, the holder goes on, and       *)
(* somebody else does something.                                           *)
LEMMA ReleasedInv ==
  ASSUME LockInv, Holders', RestTyped', UNCHANGED held,
         sessions_lock' = NoOwner, sessions' \in Tables
  PROVE  LockInv'
  BY NoOwnerIsNoWorker DEF LockInv

LEMMA HolderInv ==
  ASSUME LockInv, Holders', RestTyped', UNCHANGED held,
         NEW w \in Workers, sessions_lock' = w, Begun(w)'
  PROVE  LockInv'
  BY NoOwnerIsNoWorker DEF LockInv

LEMMA BystanderInv ==
  ASSUME LockInv, Holders', RestTyped',
         UNCHANGED <<sessions, held, todo, sessions_lock>>,
         \A w \in Workers :
           sessions_lock = w => pending'[w] = pending[w] /\ step'[w] = step[w]
  PROVE  LockInv'
<1>1. ASSUME NEW w \in Workers, sessions_lock' = w PROVE Begun(w)'
  BY <1>1, BegunStays DEF LockInv
<1> QED BY <1>1 DEF LockInv

(* What no step of a holder touches stays typed.                           *)
LEMMA RestStays ==
  ASSUME LockInv, UNCHANGED <<used_delegations, pending, now, uuids, backing>>
  PROVE  RestTyped'
  BY DEF LockInv, RestTyped

(* A worker that answered is idle.                                         *)
LEMMA AnswerRest ==
  ASSUME LockInv, NEW w, pending' = [pending EXCEPT ![w] = Idle]
  PROVE  pending' \in [Workers -> {Idle} \cup InService]
  BY DEF LockInv, RestTyped

(* What a worker sees that has just taken the table.                       *)
LEMMA LockedType ==
  ASSUME LockInv, NEW w \in Workers, At(w, "locked") \/ At(w, "consuming")
  PROVE  sessions_lock = w /\ sessions = held /\ TypeOK
<1>1. sessions_lock = w
  BY DEF At, LockInv, Holders
<1>2. sessions = held /\ sessions \in Tables
  BY <1>1 DEF At, LockInv, Begun
<1> QED BY <1>1, <1>2 DEF LockInv, RestTyped, Tables, TypeOK

(* What the types of SessionManager say of the rest.                       *)
LEMMA TypedRest ==
  ASSUME TypeOK'
  PROVE  RestTyped' /\ sessions' \in Tables
  BY DEF TypeOK, RestTyped, Tables
-----------------------------------------------------------------------------
(* The holder returns with one change of the table at most.                *)
LEMMA ReturnsInv ==
  ASSUME LockInv, Holders', NEW w \in Workers, Returns(w)
  PROVE  LockInv'
<1>1. TypeOK /\ sessions_lock' = NoOwner /\ UNCHANGED held
  BY LockedType DEF Returns, Leaves
<1>2. CASE Finds(w, "intent/amend") /\
           Rejects(w, AmendFault(pending[w].request, Found(w), pending[w].now_ms))
  <2>1. AmendRejected(w)
    BY <1>2 DEF AmendRejected, AmendOutcome, Rejects
  <2>2. TypeOK'
    BY <1>1, <2>1, QuietType DEF Quiet
  <2> QED BY <1>1, <2>2, TypedRest, ReleasedInv
<1>3. CASE \/ InsertSession(w) \/ UnknownSession(w)
           \/ CallRejected(w) \/ CallExpires(w) \/ CallReplayed(w)
           \/ SealRejected(w) \/ SealReplayed(w)
           \/ AbortRejected(w) \/ AbortReplayed(w) \/ Abort(w)
  <2>1. TypeOK'
    BY <1>1, <1>3, ProposeType, CallType, CloseType, QuietType DEF Quiet
  <2> QED BY <1>1, <2>1, TypedRest, ReleasedInv
<1> QED BY <1>2, <1>3 DEF Returns

(* It returns without its amendment.                                       *)
LEMMA AmendLosesInv ==
  ASSUME LockInv, Holders', NEW w \in Workers, AmendLoses(w)
  PROVE  LockInv'
<1>1. /\ TypeOK /\ sessions \in Tables /\ sessions_lock' = NoOwner
      /\ UNCHANGED <<sessions, used_delegations, now, uuids, backing, held>>
  BY LockedType DEF AmendLoses, Rejects, TypeOK, Tables
<1>2. pending' \in [Workers -> {Idle} \cup InService]
  BY AnswerRest DEF AmendLoses, Rejects, Answer
<1>3. RestTyped'
  BY <1>1, <1>2 DEF RestTyped, TypeOK
<1> QED BY <1>1, <1>3, ReleasedInv

(* It is committed to its amendment.                                       *)
LEMMA AmendConsumesInv ==
  ASSUME LockInv, Holders', NEW w \in Workers, AmendConsumes(w)
  PROVE  LockInv'
<1> DEFINE r    == pending[w].request
           next == Amended(r.session_id, HeldBy(w), r.budget_additions)
<1>1. sessions_lock = w /\ sessions = held /\ step[w] = "consuming"
  BY LockedType DEF AmendConsumes, At
<1>2. Amends(w)
  BY <1>1 DEF LockInv, Begun
<1>3. /\ r.session_id \in SessionIds /\ next \in ActiveSessions
      /\ r.delegation \in Delegations /\ r.budget_additions \in Additions
  BY <1>2, AmendingIs
<1>4. /\ used_delegations' = used_delegations \cup {r.delegation}
      /\ backing' = [backing EXCEPT ![r.delegation] =
           [session_id |-> r.session_id, generation |-> next.generation,
            budget |-> r.budget_additions]]
      /\ UNCHANGED <<sessions, pending, now, uuids, sessions_lock, held, todo>>
      /\ step' = [step EXCEPT ![w] = "suspending"]
  BY <1>1 DEF AmendConsumes, DropsMutex, Moves, Found, HeldBy
<1>5. [session_id |-> r.session_id, generation |-> next.generation,
       budget |-> r.budget_additions] \in Spendings
  BY <1>3, InputAssumption DEF Spendings, ActiveSessions, SessionsWith
<1> HIDE DEF next
<1>6. RestTyped'
  BY <1>3, <1>4, <1>5 DEF LockInv, RestTyped
<1>7. step'[w] = "suspending" /\ sessions_lock' = w
  BY <1>1, <1>4 DEF LockInv, Holders
<1>8. Begun(w)'
  BY <1>1, <1>2, <1>4, <1>7 DEF Begun, Amends, Checked, HeldBy
<1> QED BY <1>4, <1>6, <1>7, <1>8, HolderInv

(* It stores the amended session.                                          *)
LEMMA ResumeInv ==
  ASSUME LockInv, Holders', NEW w \in Workers, Resume(w)
  PROVE  LockInv'
<1> DEFINE next == Amended(pending[w].request.session_id, HeldBy(w),
                           pending[w].request.budget_additions)
<1>1. step[w] = "resuming" /\ sessions_lock = w
  BY DEF Resume, At, LockInv, Holders
<1>2. Committed(w) /\ Amends(w)
  BY <1>1 DEF Committed, At, LockInv, Begun
<1>3. next \in ActiveSessions
  BY <1>2, AmendingIs
<1>4. /\ pending' = [pending EXCEPT ![w] = Idle] /\ sessions_lock' = NoOwner
      /\ Moves(w, "start")
      /\ UNCHANGED <<used_delegations, now, uuids, backing, held>>
  BY DEF Resume, Leaves
<1>5. sessions' = AtomicSessions'
  BY <1>1, <1>4, ReturnSeen
<1>6. AtomicSessions' = HeldWith(w, next)
  BY <1>2, SeenCommitted, ResumeStep DEF Unseen
<1> HIDE DEF next
<1>7. sessions' \in Tables
  BY <1>3, <1>5, <1>6 DEF LockInv, Tables, HeldWith
<1>8. RestTyped'
  BY <1>4, AnswerRest DEF LockInv, RestTyped
<1> QED BY <1>4, <1>7, <1>8, ReleasedInv

(* A worker takes the table: it has changed nothing.                       *)
LEMMA LockSessionsInv ==
  ASSUME LockInv, Holders', NEW w \in Workers, LockSessions(w)
  PROVE  LockInv'
<1>1. /\ sessions_lock = NoOwner /\ sessions_lock' = w /\ held' = sessions
      /\ step' = [step EXCEPT ![w] = "locked"] /\ UNCHANGED vars
  BY DEF LockSessions, Moves
<1>2. RestTyped' /\ held' \in Tables
  BY <1>1, RestStays DEF vars, LockInv
<1>3. step'[w] = "locked" /\ sessions' = held'
  BY <1>1 DEF LockInv, Holders, vars
<1>4. Begun(w)'
  BY <1>3 DEF Begun
<1> QED BY <1>1, <1>2, <1>4, NoOwnerIsNoWorker DEF LockInv

(* One takes the Mutex, under the RwLock or not.                           *)
LEMMA LockDelegationsInv ==
  ASSUME LockInv, Holders', NEW w \in Workers, LockDelegations(w)
  PROVE  LockInv'
<1>1. RestTyped' /\ UNCHANGED <<vars, sessions_lock, todo, held>>
  BY RestStays DEF LockDelegations, vars
<1>2. CASE At(w, "amending")
  <2>1. sessions_lock = w /\ sessions = held /\ Amends(w)
    BY <1>2 DEF At, LockInv, Holders, Begun
  <2>2. step'[w] = "consuming"
    BY <1>2 DEF LockDelegations, Moves, LockInv, Holders
  <2>3. Begun(w)'
    BY <1>1, <2>1, <2>2 DEF Begun, Amends, Checked, HeldBy, vars
  <2> QED BY <1>1, <2>1, <2>3, HolderInv
<1>3. CASE ~ At(w, "amending")
  <2>1. sessions_lock # w
    BY <1>3 DEF LockDelegations, WantsDelegations, At, LockInv, Holders
  <2>2. \A v \in Workers : v # w => step'[v] = step[v]
    BY DEF LockDelegations, Moves, LockInv, Holders
  <2> QED BY <1>1, <2>1, <2>2, BystanderInv DEF vars
<1> QED BY <1>2, <1>3

(* A proposal consumes its delegation.                                     *)
LEMMA ProposeConsumesInv ==
  ASSUME LockInv, Holders', NEW w \in Workers, ProposeConsumes(w)
  PROVE  LockInv'
<1>1. step[w] = "mutex" /\ sessions_lock # w
  BY DEF ProposeConsumes, At, LockInv, Holders
<1>2. UNCHANGED <<sessions, held, todo, sessions_lock, now, uuids, backing>>
  BY DEF ProposeConsumes, DropsMutex, ConsumeDelegation, DelegationConsumed
<1>3. \A v \in Workers : v # w => step'[v] = step[v] /\ pending'[v] = pending[v]
  BY DEF ProposeConsumes, DropsMutex, Moves, ConsumeDelegation, DelegationConsumed, Answer,
         LockInv, Holders, RestTyped
<1>4. RestTyped'
  <2>1. CASE ConsumeDelegation(w)
    <3>1. pending[w] \in InService /\ pending[w].status = "checked"
      BY <2>1 DEF ConsumeDelegation, Checked, LockInv, RestTyped, Idle
    <3>2. pending[w].request \in CheckedRequests /\ pending[w].now_ms \in Clock
          /\ pending[w] = [status |-> "checked", request |-> pending[w].request,
                           now_ms |-> pending[w].now_ms]
      BY <3>1 DEF InService
    <3>3. pending[w].request \in ProposeRequests
      BY <2>1, <3>2 DEF ConsumeDelegation, Checked, CheckedRequests
    <3>4. [pending[w] EXCEPT !.status = "consumed"] \in InService
      BY <3>2, <3>3 DEF InService
    <3>5. pending[w].request.delegation \in Delegations
      BY <3>3 DEF ProposeRequests
    <3> QED BY <1>2, <2>1, <3>4, <3>5 DEF ConsumeDelegation, LockInv, RestTyped
  <2>2. CASE DelegationConsumed(w)
    BY <1>2, <2>2, AnswerRest DEF DelegationConsumed, Answer, LockInv, RestTyped
  <2> QED BY <2>1, <2>2 DEF ProposeConsumes
<1> QED BY <1>1, <1>2, <1>3, <1>4, BystanderInv

(* A request comes in.                                                     *)
LEMMA ArrivesInv ==
  ASSUME LockInv, Holders', NEW w \in Workers, Arrives(w)
  PROVE  LockInv'
<1>1. PICK r \in CheckedRequests :
        pending' = [pending EXCEPT ![w] =
          [status |-> "checked", request |-> r, now_ms |-> now]]
  BY ArrivesStep
<1>2. /\ UNCHANGED <<sessions, used_delegations, now, uuids, backing>>
      /\ UNCHANGED lockVars /\ pending[w] = Idle
  BY DEF Arrives, Receive, Accept
<1>3. [status |-> "checked", request |-> r, now_ms |-> now] \in InService
  BY DEF InService, LockInv, RestTyped
<1>4. RestTyped'
  BY <1>1, <1>2, <1>3 DEF LockInv, RestTyped
<1>5. CASE sessions_lock # w
  BY <1>1, <1>2, <1>4, <1>5, BystanderInv DEF lockVars, LockInv, RestTyped
<1>6. CASE sessions_lock = w
  <2>1. step'[w] = step[w] /\ sessions_lock' = w
    BY <1>2, <1>6 DEF lockVars
  <2>2. step[w] = "locked"
    <3>1. Begun(w) /\ ~ \E m : Checked(w, m)
      BY <1>2, <1>6 DEF LockInv, Checked, Idle
    <3>2. ~ Amends(w) /\ ~ Charging(w) /\ ~ Sealing(w)
      BY <3>1 DEF Amends, Charging, Sealing
    <3> QED BY <1>6, <3>1, <3>2 DEF LockInv, Holders, Begun, Steps
  <2>3. Begun(w)'
    BY <1>2, <1>6, <2>1, <2>2 DEF LockInv, Begun, lockVars
  <2> QED BY <1>2, <1>4, <2>1, <2>3, HolderInv DEF lockVars
<1> QED BY <1>5, <1>6
-----------------------------------------------------------------------------
(* The holder passed the checks of amend.                                  *)
LEMMA AmendCheckedInv ==
  ASSUME LockInv, Holders', NEW w \in Workers, AmendChecked(w)
  PROVE  LockInv'
<1>1. sessions_lock = w /\ sessions = held
  BY LockedType DEF AmendChecked
<1>2. UNCHANGED <<vars, sessions_lock, held>> /\ step'[w] = "amending"
  BY DEF AmendChecked, Moves, LockInv, Holders
<1>3. Amends(w)
  BY <1>1 DEF AmendChecked, Amends, Finds, Found, HeldBy
<1>4. Begun(w)'
  BY <1>1, <1>2, <1>3 DEF Begun, Amends, Checked, HeldBy, vars
<1> QED BY <1>1, <1>2, <1>4, HolderInv, RestStays DEF vars

(* It suspends the session.                                                *)
LEMMA SuspendInv ==
  ASSUME LockInv, Holders', NEW w \in Workers, Suspend(w)
  PROVE  LockInv'
<1>1. step[w] = "suspending" /\ sessions_lock = w
  BY DEF Suspend, At, LockInv, Holders
<1>2. sessions = held /\ Amends(w)
  BY <1>1 DEF LockInv, Begun
<1>3. /\ UNCHANGED <<used_delegations, pending, now, uuids, backing, sessions_lock, held>>
      /\ step'[w] = "resuming"
  BY DEF Suspend, Moves, LockInv, Holders
<1>4. sessions' = HeldWith(w, Suspended(w))
  BY <1>2 DEF Suspend, Store, Found, HeldBy, HeldWith, Suspended
<1>5. Begun(w)'
  <2>1. (sessions = HeldWith(w, Suspended(w)))'
    BY <1>3, <1>4 DEF HeldWith, Suspended, HeldBy
  <2>2. Amends(w)'
    BY <1>2, <1>3 DEF Amends, Checked, HeldBy
  <2> QED BY <1>3, <2>1, <2>2 DEF Begun
<1> QED BY <1>1, <1>3, <1>5, HolderInv, RestStays

(* It passed the checks of a call, and has charged nothing.                *)
LEMMA CallAffordableInv ==
  ASSUME LockInv, Holders', NEW w \in Workers, CallAffordable(w)
  PROVE  LockInv'
<1>1. sessions_lock = w /\ sessions = held /\ TypeOK
  BY LockedType DEF CallAffordable
<1>2. /\ UNCHANGED <<vars, sessions_lock, held>> /\ step'[w] = "charging"
      /\ todo' = DOMAIN PendingCharges(w)
  BY DEF CallAffordable, Moves, LockInv, Holders
<1>3. FreshCall(w) /\ Finds(w, "tools/call") /\ Found(w) = HeldBy(w)
  BY <1>1 DEF CallAffordable, FreshCall, CallAccepted, Found, HeldBy
<1>4. HeldBy(w) \in ActiveSessions /\ pending[w].request.session_id \in SessionIds
  BY <1>1, <1>3, FoundType
<1>5. PendingCharges(w)' = PendingCharges(w) /\ Charged(w)' = {}
  BY <1>2 DEF PendingCharges, Charged, vars
<1>6. PartlyCharged(w)' = HeldBy(w)
  <2>1. HeldBy(w).remaining_budgets \in Budgets
    BY <1>4 DEF ActiveSessions, SessionsWith
  <2>2. Deduct(HeldBy(w).remaining_budgets, PendingCharges(w), {}) = HeldBy(w).remaining_budgets
    BY <2>1, DeductsNothing
  <2>3. HeldBy(w)' = HeldBy(w)
    BY <1>2 DEF HeldBy, vars
  <2>4. PartlyCharged(w)' = [HeldBy(w) EXCEPT !.remaining_budgets =
          Deduct(HeldBy(w).remaining_budgets, PendingCharges(w), {})]
    BY <1>5, <2>3 DEF PartlyCharged
  <2> QED BY <1>4, <2>2, <2>4 DEF ActiveSessions, SessionsWith
<1>7. sessions' = (HeldWith(w, PartlyCharged(w)))'
  <2>1. [held EXCEPT ![pending[w].request.session_id] = HeldBy(w)] = held
    BY <1>1, <1>4 DEF HeldBy, TypeOK
  <2>2. (HeldWith(w, PartlyCharged(w)))' = [held EXCEPT ![pending[w].request.session_id] = HeldBy(w)]
    BY <1>2, <1>6 DEF HeldWith, vars
  <2> QED BY <1>1, <1>2, <2>1, <2>2 DEF vars
<1>8. Charging(w)'
  <2>1. /\ Checked(w, "tools/call") /\ HeldBy(w) # None
        /\ CallOutcome(pending[w].request, HeldBy(w), pending[w].now_ms) = "OK"
        /\ HeldBy(w).tool_results[pending[w].request.idempotency_key] = None
    BY <1>3, <1>4, NoneIsNoValue DEF FreshCall, CallAccepted, Finds
  <2>2. HeldBy(w)' = HeldBy(w) /\ UNCHANGED pending
    BY <1>2 DEF HeldBy, vars
  <2> QED BY <1>2, <1>5, <1>7, <2>1, <2>2 DEF Charging, Checked
<1>9. Begun(w)'
  BY <1>2, <1>8 DEF Begun
<1> QED BY <1>1, <1>2, <1>9, HolderInv, RestStays DEF vars

(* It has charged one more dimension.                                      *)
LEMMA DeductOneInv ==
  ASSUME LockInv, Holders', NEW w \in Workers, DeductOne(w)
  PROVE  LockInv'
<1> DEFINE charges == PendingCharges(w)
           budget  == HeldBy(w).remaining_budgets
<1>1. step[w] = "charging" /\ sessions_lock = w
  BY DEF DeductOne, At, LockInv, Holders
<1>2. Charging(w)
  BY <1>1 DEF LockInv, Begun
<1>3. PICK d \in todo :
        /\ Present(Found(w).remaining_budgets, d)
        /\ Store(w, [Found(w) EXCEPT
                       !.remaining_budgets = Deduct(Found(w).remaining_budgets, charges, {d})])
        /\ todo' = todo \ {d}
  BY DEF DeductOne
<1>4. UNCHANGED <<used_delegations, pending, now, uuids, backing, sessions_lock, step, held>>
  BY DEF DeductOne
<1>5. /\ HeldBy(w) \in ActiveSessions
      /\ Found(w) = PartlyCharged(w)
  BY <1>2, HolderIs, ChargingIs DEF Charging, Checked, Found
<1>6. Found(w).remaining_budgets = Deduct(budget, charges, Charged(w))
  BY <1>5 DEF PartlyCharged, ActiveSessions, SessionsWith
<1>7. d \in DOMAIN charges /\ d \notin Charged(w) /\ todo \subseteq DOMAIN charges
  BY <1>2 DEF Charging, Charged
<1>8. HeldBy(w)' = HeldBy(w) /\ PendingCharges(w)' = charges
  BY <1>4 DEF HeldBy, PendingCharges
<1>9. Charged(w)' = Charged(w) \cup {d}
  BY <1>3, <1>7, <1>8 DEF Charged
<1>10. PartlyCharged(w)' =
         [HeldBy(w) EXCEPT !.remaining_budgets = Deduct(budget, charges, Charged(w) \cup {d})]
  BY <1>8, <1>9 DEF PartlyCharged
<1> HIDE DEF charges, budget
<1>11. Present(budget, d)
  <2>1. Present(Deduct(budget, charges, Charged(w)), d)
    BY <1>3, <1>6
  <2>2. d \notin Charged(w)
    BY <1>7
  <2> QED BY <2>1, <2>2, DeductsOneMore
<1>12. [Found(w) EXCEPT !.remaining_budgets = Deduct(Found(w).remaining_budgets, charges, {d})]
         = PartlyCharged(w)'
  <2>1. Deduct(Found(w).remaining_budgets, charges, {d})
          = Deduct(budget, charges, Charged(w) \cup {d})
    BY <1>6, <1>7, DeductsOneMore
  <2>2. \A b, c : [[HeldBy(w) EXCEPT !.remaining_budgets = b] EXCEPT !.remaining_budgets = c]
                    = [HeldBy(w) EXCEPT !.remaining_budgets = c]
    BY <1>5 DEF ActiveSessions, SessionsWith
  <2> QED BY <1>5, <1>10, <2>1, <2>2 DEF PartlyCharged, charges, budget
<1>13. sessions' = HeldWith(w, PartlyCharged(w)')
  <2>1. \A s, t : [HeldWith(w, s) EXCEPT ![pending[w].request.session_id] = t] = HeldWith(w, t)
    BY DEF HeldWith
  <2>2. sessions = HeldWith(w, PartlyCharged(w))
    BY <1>2 DEF Charging
  <2> QED BY <1>3, <1>12, <2>1, <2>2 DEF Store
<1>14. sessions' = HeldWith(w, PartlyCharged(w))'
  BY <1>4, <1>13 DEF HeldWith
<1>15. \A e \in Charged(w)' : Present(budget, e)
  BY <1>2, <1>9, <1>11 DEF Charging, budget
<1>16. Charging(w)'
  <2>1. todo' \subseteq DOMAIN charges
    BY <1>3, <1>7
  <2> QED BY <1>2, <1>4, <1>8, <1>14, <1>15, <2>1 DEF Charging, Checked, charges, budget
<1>17. Begun(w)'
  BY <1>1, <1>4, <1>16 DEF Begun
<1> QED BY <1>1, <1>4, <1>17, HolderInv, RestStays

(* It returns with the session half charged.                               *)
LEMMA DeductFailsInv ==
  ASSUME LockInv, Holders', NEW w \in Workers, DeductFails(w)
  PROVE  LockInv'
<1>1. step[w] = "charging" /\ sessions_lock = w
  BY DEF DeductFails, At, LockInv, Holders
<1>2. Charging(w)
  BY <1>1 DEF LockInv, Begun
<1>3. PartlyCharged(w) \in ActiveSessions
  BY <1>2, ChargingIs
<1>4. sessions' = HeldWith(w, PartlyCharged(w))
  BY <1>2 DEF Charging, DeductFails, Rejects
<1>5. sessions' \in Tables
  BY <1>3, <1>4 DEF LockInv, Tables, HeldWith
<1>6. RestTyped'
  BY AnswerRest DEF DeductFails, Rejects, Answer, LockInv, RestTyped
<1> QED BY <1>5, <1>6, ReleasedInv DEF DeductFails

(* It returns with the call staged.                                        *)
LEMMA StageInv ==
  ASSUME LockInv, Holders', NEW w \in Workers, Stage(w)
  PROVE  LockInv'
<1> DEFINE r    == pending[w].request
           next == Staged(HeldBy(w), r.idempotency_key, r.call, uuids + 1)
<1>1. /\ Charging(w) /\ sessions' = HeldWith(w, next)
      /\ Deductible(HeldBy(w).remaining_budgets, Charges(Adapters[r.call.name], r.call.arguments))
  BY StagedBy DEF PendingCharges
<1>2. uuids + 1 \in Nat
  BY DEF LockInv, RestTyped
<1>3. next \in ActiveSessions
  BY <1>1, <1>2, ChargingIs, StagedType
<1> HIDE DEF next
<1>4. sessions' \in Tables
  BY <1>1, <1>3 DEF LockInv, Tables, HeldWith
<1>5. RestTyped'
  BY <1>2, AnswerRest DEF Stage, Answer, LockInv, RestTyped
<1> QED BY <1>4, <1>5, ReleasedInv DEF Stage, Leaves

(* It begins to seal.                                                      *)
LEMMA SealBeginsInv ==
  ASSUME LockInv, Holders', NEW w \in Workers, SealBegins(w)
  PROVE  LockInv'
<1>1. sessions_lock = w /\ sessions = held
  BY LockedType DEF SealBegins
<1>2. /\ UNCHANGED <<used_delegations, pending, now, uuids, backing, sessions_lock, held>>
      /\ step'[w] = "sealing"
  BY DEF SealBegins, Moves, LockInv, Holders
<1>3. sessions' = HeldWith(w, [HeldBy(w) EXCEPT !.status = "SEALING"])
  BY <1>1 DEF SealBegins, Store, Found, HeldBy, HeldWith
<1>4. (sessions = HeldWith(w, [HeldBy(w) EXCEPT !.status = "SEALING"]))'
  BY <1>2, <1>3 DEF HeldWith, HeldBy
<1>5. /\ Checked(w, "intent/seal") /\ HeldBy(w) # None
      /\ SealOutcome(pending[w].request, HeldBy(w), pending[w].now_ms) = "OK"
      /\ HeldBy(w).status # "SETTLED"
  BY <1>1 DEF SealBegins, SealAccepted, Finds, Found, HeldBy
<1>6. Sealing(w)'
  BY <1>2, <1>4, <1>5 DEF Sealing, Checked, HeldBy
<1>7. Begun(w)'
  BY <1>2, <1>6 DEF Begun
<1> QED BY <1>1, <1>2, <1>7, HolderInv, RestStays

(* It returns with the session settled or aborted.                         *)
LEMMA SealEndsInv ==
  ASSUME LockInv, Holders', NEW w \in Workers, SealEnds(w)
  PROVE  LockInv'
<1> DEFINE r    == pending[w].request
           next == Sealed(r.session_id, HeldBy(w), r.idempotency_key)
<1>1. step[w] = "sealing" /\ sessions_lock = w
  BY DEF SealEnds, At, LockInv, Holders
<1>2. Sealing(w)
  BY <1>1 DEF LockInv, Begun
<1>3. next \in ActiveSessions
  BY <1>2, SealingIs, SealedType
<1>4. Found(w) = [HeldBy(w) EXCEPT !.status = "SEALING"] /\ HeldBy(w) \in ActiveSessions
  BY <1>2, HolderIs, SealingIs DEF Sealing, Checked, Found
<1>5. Sealed(r.session_id, Found(w), r.idempotency_key) = next
  BY <1>4, SealedIs
<1>6. sessions' = [sessions EXCEPT ![r.session_id] = next]
  BY <1>5 DEF SealEnds, Store
<1>7. sessions = HeldWith(w, [HeldBy(w) EXCEPT !.status = "SEALING"])
  BY <1>2 DEF Sealing
<1> HIDE DEF next
<1>8. sessions' = HeldWith(w, next)
  BY <1>6, <1>7 DEF HeldWith
<1>9. sessions' \in Tables
  BY <1>3, <1>8 DEF LockInv, Tables, HeldWith
<1>10. RestTyped'
  BY AnswerRest DEF SealEnds, Answer, LockInv, RestTyped
<1> QED BY <1>9, <1>10, ReleasedInv DEF SealEnds, Leaves
-----------------------------------------------------------------------------
(* No step breaks the invariant.                                           *)
LEMMA LockInvStep ==
  LockInv /\ [LockNext]_lockedVars => LockInv'
<1> SUFFICES ASSUME LockInv, [LockNext]_lockedVars PROVE LockInv'
  OBVIOUS
<1>1. Holders'
  BY NextHolders DEF LockInv
<1>2. CASE Tick /\ UNCHANGED lockVars
  <2>1. /\ UNCHANGED <<sessions, used_delegations, pending, uuids, backing>> /\ UNCHANGED lockVars
        /\ now' \in Clock
    BY <1>2 DEF Tick
  <2>2. RestTyped'
    BY <2>1 DEF LockInv, RestTyped
  <2> QED BY <1>1, <2>1, <2>2, BystanderInv DEF lockVars
<1>3. CASE UNCHANGED lockedVars
  BY <1>1, <1>3, RestStays, BystanderInv DEF lockedVars, vars, lockVars
<1>4. ASSUME NEW w \in Workers, Arrives(w) \/ Acquires(w) PROVE LockInv'
  BY <1>1, <1>4, ArrivesInv, LockSessionsInv, LockDelegationsInv DEF Acquires
<1>5. ASSUME NEW w \in Workers, Works(w) PROVE LockInv'
  BY <1>1, <1>5, ProposeConsumesInv, ReturnsInv, AmendCheckedInv, AmendLosesInv,
     AmendConsumesInv, SuspendInv, ResumeInv, CallAffordableInv, DeductOneInv, DeductFailsInv,
     StageInv, SealBeginsInv, SealEndsInv
  DEF Works
<1> QED BY <1>2, <1>3, <1>4, <1>5 DEF LockNext

(* So it always holds.                                                     *)
LEMMA LockInvHolds == LockSpec => []LockInv
  BY InitLocked, LockInvStep, PTL DEF LockSpec

(* Every step is a step of SessionManager, or nobody can tell it.          *)
LEMMA AtomicStep ==
  LockInv /\ [LockNext]_lockedVars => [Atomic!Next]_Atomic!vars
<1> SUFFICES ASSUME LockInv, [LockNext]_lockedVars
             PROVE  Atomic!Next \/ UNCHANGED Atomic!vars
  OBVIOUS
<1>1. CASE Tick /\ UNCHANGED lockVars
  <2>1. UNCHANGED <<sessions, pending, step, sessions_lock, held>>
    BY <1>1 DEF Tick, lockVars
  <2>2. UNCHANGED <<AtomicSessions, AtomicPending>>
    BY <2>1 DEF AtomicSessions, AtomicPending, Committed, At
  <2>3. Atomic!Tick
    BY <1>1, <2>2, SameSmall DEF Tick, Atomic!Tick
  <2> QED BY <2>3 DEF Atomic!Next
<1>2. CASE UNCHANGED lockedVars
  <2>1. UNCHANGED <<AtomicSessions, AtomicPending>>
    BY <1>2 DEF lockedVars, vars, lockVars, AtomicSessions, AtomicPending, Committed, At
  <2> QED BY <1>2, <2>1 DEF lockedVars, vars, Atomic!vars
<1>3. ASSUME NEW w \in Workers, Arrives(w) PROVE Atomic!Next
  BY <1>3, ArrivesStep DEF Atomic!Next
<1>4. ASSUME NEW w \in Workers, Acquires(w) PROVE UNCHANGED Atomic!vars
  BY <1>4, LockStepUnseen, StutterStep, UnseenIs DEF Acquires
<1>5. ASSUME NEW w \in Workers, Works(w) PROVE Atomic!Serve(w) \/ UNCHANGED Atomic!vars
  <2>1. CASE \/ AmendChecked(w) \/ Suspend(w) \/ Resume(w) \/ CallAffordable(w) \/ DeductOne(w)
             \/ SealBegins(w)
    BY <2>1, StutterStep, ResumeStep, DeductStep, UnseenIs
  <2>2. CASE AmendConsumes(w) \/ DeductFails(w) \/ Stage(w) \/ SealEnds(w)
    BY <2>2, AmendConsumesStep, DeductFailsStep, StageStep, SealEndsStep DEF Atomic!Serve
  <2>3. CASE ProposeConsumes(w) \/ Returns(w) \/ AmendLoses(w)
    BY <2>3, ProposeConsumesStep, ReturnsStep, AmendLosesStep
  <2> QED BY <1>5, <2>1, <2>2, <2>3 DEF Works
<1>6. ASSUME NEW w \in Workers, Atomic!Serve(w) PROVE Atomic!Next
  BY <1>6 DEF Atomic!Next
<1> QED BY <1>1, <1>2, <1>3, <1>4, <1>5, <1>6 DEF LockNext

(* propose, amend, execute_tool, seal and abort are atomic: cut at every   *)
(* acquisition of a lock and wherever they change a session in place, and  *)
(* run by any number of workers in any order, they do what the handlers of *)
(* SessionManager do in one step, so that what is proved of SessionManager *)
(* holds of them.                                                          *)
THEOREM HandlersRunAtomically == LockSpec => HandlersAreAtomic
<1>1. LockInit => Atomic!Init
  BY InitLocked
<1> QED BY <1>1, LockInvHolds, AtomicStep, PTL DEF LockSpec, HandlersAreAtomic, Atomic!Spec

(* A session that amend has SUSPENDED or that is SEALING is seen by nobody *)
(* but the handler that made it so: when the RwLock is free, every session *)
(* is in one of the other states, from which it can still be used,         *)
(* replayed or expired.                                                    *)
THEOREM NothingIsHalfDone == LockSpec => []NothingHalfDone
<1>1. LockInv => NothingHalfDone
  <2> SUFFICES ASSUME LockInv, sessions_lock = NoOwner, NEW sid \in Live
               PROVE  sessions[sid].status \in Statuses
    BY DEF NothingHalfDone
  <2>1. sessions[sid] \in ActiveSessions
    BY DEF LockInv, Tables, Live
  <2> QED BY <2>1 DEF ActiveSessions, SessionsWith
<1> QED BY <1>1, LockInvHolds, PTL
=============================================================================
