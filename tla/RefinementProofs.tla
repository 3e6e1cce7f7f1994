-------------------------- MODULE RefinementProofs --------------------------
(***************************************************************************)
(* The session manager implements Envelope, proved for every set of        *)
(* workers, sessions, keys, calls, adapters and delegations: its steps are *)
(* those of the envelopes it shows, or leave them as they are.             *)
(***************************************************************************)
EXTENDS SessionRefinement, BudgetProofs

(* What a client sees, under the names of the mapping.                     *)
ShownIn(table) ==
  [sid \in SessionIds |-> IF table[sid] = None THEN None ELSE EnvelopeOf(table[sid])]

Shown == [sid \in SessionIds |->
            IF sessions[sid] = None THEN None ELSE EnvelopeOf(sessions[sid])]

Backing == {d \in Delegations : backing[d] # None}

Performable == {c \in Calls : c.name \in DOMAIN Adapters}

Grantable == {AmountOf(b) : b \in {p.budgets : p \in Proposals} \cup Additions}

RefinementInv == WorkInv /\ DelegationInv
-----------------------------------------------------------------------------
(* The steps of Envelope, in these words.                                  *)
LEMMA ShownNow == Shown = ShownIn(sessions) /\ Shown' = ShownIn(sessions')
BY DEF Shown, ShownIn, EnvelopeOf, AmountOf, Value, Present, DoneOf, OutcomeOf, ResultOf,
   StagedIds

LEMMA InitIsPromised == Init => Promise!Init
BY DEF Init, Promise!Init

LEMMA NothingShown ==
  ASSUME UNCHANGED <<Shown, Backing, uuids>>
  PROVE  UNCHANGED Promise!promised
BY DEF Promise!promised, Shown, Backing

LEMMA Admits ==
  ASSUME NEW e \in SessionIds, NEW d \in Delegations, NEW grant \in Grantable,
         d \notin Backing, Backing' = Backing \cup {d}, uuids' = uuids,
         Shown[e] = None,
         Shown' = [Shown EXCEPT ![e] =
           [owner |-> d.identity, generation |-> 1, left |-> grant,
            done |-> [k \in Keys |-> None], outcome |-> "open", result |-> {}]]
  PROVE  Promise!Next
<1>1. Promise!Admit(e, d, grant)
  BY DEF Promise!Admit, Promise!NewEnvelope, Shown, Backing
<1> QED BY <1>1 DEF Promise!Next, Grantable

LEMMA Widens ==
  ASSUME NEW e \in SessionIds, NEW d \in Delegations, NEW grant \in Grantable,
         d \notin Backing, Backing' = Backing \cup {d}, uuids' = uuids,
         Shown[e] # None, Shown[e].outcome = "open", d.identity = Shown[e].owner,
         Shown' = [Shown EXCEPT ![e] =
           [Shown[e] EXCEPT !.generation = Shown[e].generation + 1,
                            !.left = [dim \in Dims |-> Shown[e].left[dim] + grant[dim]]]]
  PROVE  Promise!Next
<1>1. Promise!Widen(e, d, grant)
  BY DEF Promise!Widen, Promise!IsOpen, Shown, Backing
<1> QED BY <1>1 DEF Promise!Next, Grantable

LEMMA Performs ==
  ASSUME NEW e \in SessionIds, NEW k \in Keys, NEW task \in Performable,
         uuids' = uuids + 1, Backing' = Backing,
         Shown[e] # None, Shown[e].outcome = "open", Shown[e].done[k] = None,
         \A dim \in Dims : ChargeOf(task, dim) <= Shown[e].left[dim],
         Shown' = [Shown EXCEPT ![e] =
           [Shown[e] EXCEPT
              !.done = [Shown[e].done EXCEPT ![k] = [task |-> task, number |-> uuids + 1]],
              !.left = [dim \in Dims |-> Shown[e].left[dim] - ChargeOf(task, dim)]]]
  PROVE  Promise!Next
<1>1. Promise!Perform(e, k, task)
  BY DEF Promise!Perform, Promise!IsOpen, Shown, Backing
<1> QED BY <1>1 DEF Promise!Next, Performable

LEMMA Forfeits ==
  ASSUME NEW e \in SessionIds, Backing' = Backing, uuids' = uuids,
         Shown[e] # None, Shown[e].outcome = "open",
         Shown'[e].left # Shown[e].left,
         \A dim \in Dims : Shown'[e].left[dim] <= Shown[e].left[dim],
         Shown' = [Shown EXCEPT ![e] = [Shown[e] EXCEPT !.left = Shown'[e].left]]
  PROVE  Promise!Next
<1>1. Promise!Forfeit(e)
  BY DEF Promise!Forfeit, Promise!IsOpen, Shown, Backing
<1> QED BY <1>1 DEF Promise!Next

NumbersOf(done) == {done[k].number : k \in {k \in Keys : done[k] # None}}

LEMMA Closes ==
  ASSUME NEW e \in SessionIds, NEW outcome \in {"settled", "reverted", "lapsed"},
         Backing' = Backing, uuids' = uuids,
         Shown[e] # None, Shown[e].outcome = "open", Shown'[e].outcome = outcome,
         Shown' = [Shown EXCEPT ![e] =
           [Shown[e] EXCEPT
              !.outcome = outcome,
              !.result  = IF outcome = "lapsed" THEN {} ELSE NumbersOf(Shown[e].done)]]
  PROVE  Promise!Next
<1>1. Promise!Close(e, outcome)
  BY DEF Promise!Close, Promise!IsOpen, Promise!Numbers, NumbersOf, Shown, Backing
<1> QED BY <1>1 DEF Promise!Next
-----------------------------------------------------------------------------
(* Envelopes of sessions.                                                  *)
LEMMA EnvelopeFields ==
  ASSUME NEW session
  PROVE  /\ EnvelopeOf(session).owner = session.identity
         /\ EnvelopeOf(session).generation = session.generation
         /\ EnvelopeOf(session).left = AmountOf(session.remaining_budgets)
         /\ EnvelopeOf(session).done = DoneOf(session)
         /\ EnvelopeOf(session).outcome = OutcomeOf(session)
         /\ EnvelopeOf(session).result = ResultOf(session)
BY DEF EnvelopeOf

LEMMA AmountType ==
  ASSUME NEW budget \in Budgets
  PROVE  AmountOf(budget) \in [Dims -> Nat]
BY ValueType DEF AmountOf

LEMMA DoneType ==
  ASSUME NEW session \in ActiveSessions
  PROVE  /\ DoneOf(session) \in [Keys -> DoneTasks \cup {None}]
         /\ \A k \in Keys : DoneOf(session)[k] # None <=> session.tool_results[k] # None
<1> SUFFICES ASSUME NEW k \in Keys
             PROVE  /\ DoneOf(session)[k] \in DoneTasks \cup {None}
                    /\ DoneOf(session)[k] # None <=> session.tool_results[k] # None
  BY DEF DoneOf
<1>1. CASE session.tool_results[k] = None
  BY <1>1 DEF DoneOf
<1>2. CASE session.tool_results[k] # None
  <2>1. session.tool_results[k] \in ToolResults
    BY <1>2 DEF ActiveSessions, SessionsWith
  <2>2. DoneOf(session)[k] =
          [task   |-> session.tool_results[k].request_fingerprint,
           number |-> session.tool_results[k].response.staged_id]
    BY <1>2 DEF DoneOf
  <2>3. DoneOf(session)[k] \in DoneTasks
    BY <2>1, <2>2 DEF DoneTasks, ToolResults
  <2> QED BY <1>2, <2>3, NoneIsNoEnvelope
<1> QED BY <1>1, <1>2

LEMMA StagedIdsType ==
  ASSUME NEW actions \in Seq(StagedActions)
  PROVE  StagedIds(actions) \in SUBSET Nat
<1>1. \A i \in DOMAIN actions : actions[i] \in StagedActions
  OBVIOUS
<1>2. \A i \in DOMAIN actions : actions[i].staged_id \in Nat
  BY <1>1 DEF StagedActions
<1> QED BY <1>2 DEF StagedIds

LEMMA EnvelopeType ==
  ASSUME NEW session \in ActiveSessions
  PROVE  EnvelopeOf(session) \in Envelopes /\ EnvelopeOf(session) # None
<1>1. /\ session.identity \in Identities /\ session.generation \in Nat \ {0}
      /\ session.remaining_budgets \in Budgets
      /\ session.settlement_result \in SealReceipts \cup {None}
      /\ session.abort_result \in AbortReceipts \cup {None}
  BY DEF ActiveSessions, SessionsWith
<1>2. OutcomeOf(session) \in {"open", "settled", "reverted", "lapsed"}
  BY DEF OutcomeOf
<1>3. ResultOf(session) \in SUBSET Nat
  <2>1. session.settlement_result # None =>
          StagedIds(session.settlement_result.settled_actions) \in SUBSET Nat
    BY <1>1, StagedIdsType DEF SealReceipts
  <2>2. session.abort_result # None =>
          StagedIds(session.abort_result.reverted_actions) \in SUBSET Nat
    BY <1>1, StagedIdsType DEF AbortReceipts
  <2> QED BY <2>1, <2>2 DEF ResultOf
<1>4. EnvelopeOf(session) \in Envelopes
  BY <1>1, <1>2, <1>3, AmountType, DoneType DEF EnvelopeOf, Envelopes
<1> QED BY <1>4, NoneIsNoEnvelope

LEMMA OpenOutcome ==
  ASSUME NEW session, Sound(session), session.status \in Open
  PROVE  /\ session.settlement_result = None /\ session.abort_result = None
         /\ OutcomeOf(session) = "open" /\ ResultOf(session) = {}
BY DEF Sound, Open, OutcomeOf, ResultOf

(* A step that stores one session shows in one envelope.                   *)
LEMMA OneShown ==
  ASSUME TypeOK, NEW sid \in SessionIds, NEW new \in ActiveSessions,
         sessions' = [sessions EXCEPT ![sid] = new]
  PROVE  /\ Shown[sid] = IF sessions[sid] = None THEN None ELSE EnvelopeOf(sessions[sid])
         /\ Shown'[sid] = EnvelopeOf(new)
         /\ Shown' = [Shown EXCEPT ![sid] = EnvelopeOf(new)]
<1>1. new # None
  BY NoneIsNoValue
<1>2. /\ sessions'[sid] = new
      /\ \A s \in SessionIds : s # sid => sessions'[s] = sessions[s]
  BY DEF TypeOK
<1>3. Shown' = ShownIn(sessions')
  BY ShownNow
<1>4. Shown = ShownIn(sessions)
  BY ShownNow
<1>5. ShownIn(sessions)[sid] = IF sessions[sid] = None THEN None ELSE EnvelopeOf(sessions[sid])
  BY DEF ShownIn
<1>6. ShownIn(sessions')[sid] = EnvelopeOf(new)
  BY <1>1, <1>2 DEF ShownIn
<1>7. ShownIn(sessions') = [ShownIn(sessions) EXCEPT ![sid] = EnvelopeOf(new)]
  <2> DEFINE next == [s \in SessionIds |->
                        IF s = sid THEN EnvelopeOf(new) ELSE ShownIn(sessions)[s]]
  <2>1. \A s \in SessionIds : ShownIn(sessions')[s] = next[s]
    BY <1>1, <1>2, <1>6 DEF ShownIn
  <2>2. ShownIn(sessions') = next
    BY <2>1 DEF ShownIn
  <2>3. DOMAIN ShownIn(sessions) = SessionIds
    BY DEF ShownIn
  <2>4. [ShownIn(sessions) EXCEPT ![sid] = EnvelopeOf(new)] = next
    BY <2>3
  <2> QED BY <2>2, <2>4
<1> QED BY <1>3, <1>4, <1>5, <1>6, <1>7

(* The sum of what is done is what is staged, once settled or reverted.    *)
LEMMA WorkIsDone ==
  ASSUME NEW session \in ActiveSessions, NEW drawn, DoneOnce(session, drawn),
         Work(session) \in Seq(StagedActions)
  PROVE  StagedIds(Work(session)) = NumbersOf(DoneOf(session))
<1> DEFINE work  == Work(session)
           used  == UsedKeys(session)
           id(k) == session.tool_results[k].response.staged_id
           ids   == {id(k) : k \in used}
           at    == [k \in used |-> CHOOSE i \in DOMAIN work : work[i].staged_id = id(k)]
<1>1. ASSUME NEW k \in used PROVE \E i \in DOMAIN work : work[i].staged_id = id(k)
  <2>1. PICK i \in DOMAIN work :
          Response(work[i].call, work[i].staged_id) = session.tool_results[k].response
    BY DEF DoneOnce
  <2>2. Response(work[i].call, work[i].staged_id).staged_id = work[i].staged_id
    BY DEF Response
  <2> QED BY <2>1, <2>2
<1>2. \A k \in used : at[k] \in DOMAIN work /\ work[at[k]].staged_id = id(k)
  BY <1>1
<1>3. \A k1, k2 \in used : at[k1] = at[k2] => k1 = k2
  <2>1. \A k1, k2 \in used : id(k1) = id(k2) => k1 = k2
    BY DEF DoneOnce
  <2> HIDE DEF at, id
  <2> QED BY <1>2, <2>1
<1>4. Len(work) = Cardinality(used)
  BY DEF DoneOnce
<1>5. DOMAIN work = 1..Len(work) /\ Len(work) \in Nat
  OBVIOUS
<1>6. IsFiniteSet(DOMAIN work) /\ Cardinality(DOMAIN work) = Len(work)
  BY <1>5, FS_Interval
<1>7. at \in Injection(used, DOMAIN work)
  BY <1>2, <1>3 DEF Injection, IsInjective
<1>8. \A i \in DOMAIN work : \E k \in used : at[k] = i
  <2> HIDE DEF at, work, used
  <2>1. at \in Surjection(used, DOMAIN work)
    BY <1>4, <1>6, <1>7, FS_Injection
  <2> QED BY <2>1 DEF Surjection
<1>9. StagedIds(work) = ids
  <2> HIDE DEF at, id, used
  <2> QED BY <1>2, <1>8 DEF StagedIds
<1>10. NumbersOf(DoneOf(session)) = ids
  <2>1. \A k \in Keys : k \in used <=> DoneOf(session)[k] # None
    BY DoneType DEF UsedKeys
  <2>2. \A k \in used : k \in Keys /\ DoneOf(session)[k].number = id(k)
    BY DEF DoneOf, UsedKeys
  <2> HIDE DEF id
  <2>3. NumbersOf(DoneOf(session)) = {DoneOf(session)[k].number : k \in used}
    BY <2>1, <2>2 DEF NumbersOf
  <2> HIDE DEF used
  <2> QED BY <2>2, <2>3
<1> QED BY <1>9, <1>10
-----------------------------------------------------------------------------
(* What the handlers make of the envelope of a session.                    *)
LEMMA NewEnvelope ==
  ASSUME NEW sid, NEW r, NEW t
  PROVE  EnvelopeOf(NewSession(sid, r, t)) =
           [owner |-> r.proposal.identity, generation |-> 1,
            left |-> AmountOf(r.proposal.budgets), done |-> [k \in Keys |-> None],
            outcome |-> "open", result |-> {}]
<1> DEFINE new == NewSession(sid, r, t)
<1>1. /\ new.identity = r.proposal.identity /\ new.generation = 1
      /\ new.remaining_budgets = r.proposal.budgets
      /\ new.tool_results = [k \in Keys |-> None]
      /\ new.settlement_result = None /\ new.abort_result = None /\ new.status = "ADMITTED"
  BY DEF NewSession
<1> HIDE DEF new
<1>2. DoneOf(new) = [k \in Keys |-> None]
  BY <1>1 DEF DoneOf
<1>3. OutcomeOf(new) = "open" /\ ResultOf(new) = {}
  BY <1>1 DEF OutcomeOf, ResultOf
<1>4. EnvelopeOf(new) = [owner |-> r.proposal.identity, generation |-> 1,
                         left |-> AmountOf(r.proposal.budgets),
                         done |-> [k \in Keys |-> None],
                         outcome |-> "open", result |-> {}]
  BY <1>1, <1>2, <1>3 DEF EnvelopeOf
<1> QED BY <1>4 DEF new

(* The same receipts and status, the same outcome; the same results, the   *)
(* same tasks.                                                             *)
LEMMA SameOutcome ==
  ASSUME NEW old, NEW new, new.settlement_result = old.settlement_result,
         new.abort_result = old.abort_result,
         new.status = "EXPIRED" <=> old.status = "EXPIRED"
  PROVE  OutcomeOf(new) = OutcomeOf(old) /\ ResultOf(new) = ResultOf(old)
<1>1. OutcomeOf(new) = OutcomeOf(old)
  BY DEF OutcomeOf
<1>2. ResultOf(new) = ResultOf(old)
  BY DEF ResultOf
<1> QED BY <1>1, <1>2

LEMMA SameDone ==
  ASSUME NEW old, NEW new, new.tool_results = old.tool_results
  PROVE  DoneOf(new) = DoneOf(old)
BY DEF DoneOf

(* The same session but for two fields of its envelope.                    *)
Shape(owner, generation, left, done, outcome, result) ==
  [owner |-> owner, generation |-> generation, left |-> left, done |-> done,
   outcome |-> outcome, result |-> result]

WidenedAs(e, generation, left) == [e EXCEPT !.generation = generation, !.left = left]
PaidAs(e, done, left)          == [e EXCEPT !.done = done, !.left = left]
ClosedAs(e, outcome, result)   == [e EXCEPT !.outcome = outcome, !.result = result]

LEMMA EnvelopeShape ==
  ASSUME NEW session
  PROVE  EnvelopeOf(session) =
           Shape(session.identity, session.generation, AmountOf(session.remaining_budgets),
                 DoneOf(session), OutcomeOf(session), ResultOf(session))
BY DEF EnvelopeOf, Shape

LEMMA WidenedShape ==
  ASSUME NEW e, NEW o, NEW g, NEW l, NEW d, NEW u, NEW r, NEW g2, NEW l2,
         e = Shape(o, g, l, d, u, r)
  PROVE  WidenedAs(e, g2, l2) = Shape(o, g2, l2, d, u, r)
<1>1. [e EXCEPT !.generation = g2] = Shape(o, g2, l, d, u, r)
  BY DEF Shape
<1>2. [Shape(o, g2, l, d, u, r) EXCEPT !.left = l2] = Shape(o, g2, l2, d, u, r)
  BY DEF Shape
<1> QED BY <1>1, <1>2 DEF WidenedAs

LEMMA PaidShape ==
  ASSUME NEW e, NEW o, NEW g, NEW l, NEW d, NEW u, NEW r, NEW d2, NEW l2,
         e = Shape(o, g, l, d, u, r)
  PROVE  PaidAs(e, d2, l2) = Shape(o, g, l2, d2, u, r)
<1>1. [e EXCEPT !.done = d2] = Shape(o, g, l, d2, u, r)
  BY DEF Shape
<1>2. [Shape(o, g, l, d2, u, r) EXCEPT !.left = l2] = Shape(o, g, l2, d2, u, r)
  BY DEF Shape
<1> QED BY <1>1, <1>2 DEF PaidAs

LEMMA ClosedShape ==
  ASSUME NEW e, NEW o, NEW g, NEW l, NEW d, NEW u, NEW r, NEW u2, NEW r2,
         e = Shape(o, g, l, d, u, r)
  PROVE  ClosedAs(e, u2, r2) = Shape(o, g, l, d, u2, r2)
<1>1. [e EXCEPT !.outcome = u2] = Shape(o, g, l, d, u2, r)
  BY DEF Shape
<1>2. [Shape(o, g, l, d, u2, r) EXCEPT !.result = r2] = Shape(o, g, l, d, u2, r2)
  BY DEF Shape
<1> QED BY <1>1, <1>2 DEF ClosedAs

LEMMA AmendedEnvelope ==
  ASSUME NEW old \in ActiveSessions, NEW additions \in Budgets, NEW sid,
         Sound(old), old.status \in Open
  PROVE  LET e == EnvelopeOf(old) IN
         EnvelopeOf(Amended(sid, old, additions)) =
           [e EXCEPT !.generation = e.generation + 1,
                     !.left = [d \in Dims |-> e.left[d] + AmountOf(additions)[d]]]
<1> DEFINE new == Amended(sid, old, additions)
<1>1. /\ new.identity = old.identity /\ new.generation = old.generation + 1
      /\ new.remaining_budgets = AddAssign(old.remaining_budgets, additions)
      /\ new.tool_results = old.tool_results /\ new.status = "ACTIVE"
      /\ new.settlement_result = old.settlement_result
      /\ new.abort_result = old.abort_result
      /\ old.remaining_budgets \in Budgets
  BY DEF Amended, ActiveSessions, SessionsWith
<1> HIDE DEF new
<1>2. DoneOf(new) = DoneOf(old)
  BY <1>1, SameDone
<1>3. OutcomeOf(new) = OutcomeOf(old) /\ ResultOf(new) = ResultOf(old)
  BY <1>1, SameOutcome DEF Open
<1>4. AmountOf(new.remaining_budgets) =
        [d \in Dims |-> AmountOf(old.remaining_budgets)[d] + AmountOf(additions)[d]]
  BY <1>1, AddedValue DEF AmountOf
<1>5. EnvelopeOf(new) =
        [EnvelopeOf(old) EXCEPT
           !.generation = EnvelopeOf(old).generation + 1,
           !.left = [d \in Dims |-> EnvelopeOf(old).left[d] + AmountOf(additions)[d]]]
  <2> DEFINE left == [d \in Dims |-> EnvelopeOf(old).left[d] + AmountOf(additions)[d]]
  <2>1. AmountOf(new.remaining_budgets) = left
    BY <1>4, EnvelopeFields
  <2> HIDE DEF left
  <2>2. EnvelopeOf(new) = Shape(old.identity, old.generation + 1, left, DoneOf(old),
                                OutcomeOf(old), ResultOf(old))
    BY <1>1, <1>2, <1>3, <2>1, EnvelopeShape
  <2>3. EnvelopeOf(new) = WidenedAs(EnvelopeOf(old), old.generation + 1, left)
    BY <2>2, EnvelopeShape, WidenedShape
  <2> QED BY <2>3, EnvelopeFields DEF left, WidenedAs
<1> QED BY <1>5 DEF new

StagedAs(e, key, call, id) ==
  [e EXCEPT !.done = [e.done EXCEPT ![key] = [task |-> call, number |-> id]],
            !.left = [d \in Dims |-> e.left[d] - ChargeOf(call, d)]]

LEMMA StagedEnvelope ==
  ASSUME NEW old \in ActiveSessions, NEW key \in Keys, NEW call \in Calls, NEW id \in Nat,
         call.name \in DOMAIN Adapters, old.tool_results[key] = None,
         FreshCallOutcome(call, old) = "OK",
         Deductible(old.remaining_budgets, Charges(Adapters[call.name], call.arguments)),
         Sound(old), old.status \in Open
  PROVE  LET e == EnvelopeOf(old) IN
         /\ e.done[key] = None
         /\ \A d \in Dims : ChargeOf(call, d) <= e.left[d]
         /\ EnvelopeOf(Staged(old, key, call, id)) = StagedAs(e, key, call, id)
<1> DEFINE new     == Staged(old, key, call, id)
           charges == Charges(Adapters[call.name], call.arguments)
           budget  == old.remaining_budgets
           record  == [request_fingerprint |-> call, response |-> Response(call, id)]
           task    == [task |-> call, number |-> id]
<1>1. /\ new.identity = old.identity /\ new.generation = old.generation
      /\ new.remaining_budgets = Deduct(budget, charges, DOMAIN charges)
      /\ new.tool_results = [old.tool_results EXCEPT ![key] = record]
      /\ new.status = "ACTIVE"
      /\ new.settlement_result = old.settlement_result
      /\ new.abort_result = old.abort_result
      /\ budget \in Budgets
      /\ old.tool_results \in [Keys -> ToolResults \cup {None}]
  BY DEF Staged, ActiveSessions, SessionsWith
<1>2. Chargeable(Adapters[call.name], call.arguments) /\ Affordable(budget, charges)
  BY DEF FreshCallOutcome, ChargesFault
<1>3. WellDeclared(Adapters[call.name])
  BY InputAssumption
<1>4. \A d \in DOMAIN charges : charges[d] \in Nat
  BY <1>2, <1>3, ChargesAreSums
<1>5. record \in ToolResults /\ record # None
      /\ record.request_fingerprint = call /\ record.response.staged_id = id
  <2>1. record \in ToolResults
    BY DEF ToolResults, Response
  <2> QED BY <2>1, NoneIsNoValue DEF Response
<1>6. OutcomeOf(new) = OutcomeOf(old) /\ ResultOf(new) = ResultOf(old)
  <2> HIDE DEF new
  <2> QED BY <1>1, SameOutcome DEF Open
<1>7. \A d : ChargeOf(call, d) = IF d \in DOMAIN charges THEN charges[d] ELSE 0
  BY <1>2 DEF ChargeOf
<1> HIDE DEF new, record
<1>8. DoneOf(new) = [DoneOf(old) EXCEPT ![key] = task] /\ DoneOf(old)[key] = None
  <2>1. new.tool_results[key] = record
        /\ \A k \in Keys : k # key => new.tool_results[k] = old.tool_results[k]
    BY <1>1
  <2>2. \A k \in Keys : DoneOf(new)[k] = IF k = key THEN task ELSE DoneOf(old)[k]
    BY <1>5, <2>1 DEF DoneOf
  <2> QED BY <2>2 DEF DoneOf
<1>9. ASSUME NEW d \in Dims
      PROVE  /\ AmountOf(new.remaining_budgets)[d] = AmountOf(budget)[d] - ChargeOf(call, d)
             /\ ChargeOf(call, d) <= AmountOf(budget)[d]
  <2>1. AmountOf(budget)[d] = Value(budget, d)
        /\ AmountOf(new.remaining_budgets)[d] = Value(new.remaining_budgets, d)
    BY DEF AmountOf
  <2>2. Value(budget, d) \in Nat
    BY <1>1, ValueType
  <2>3. \A e \in DOMAIN charges : Present(budget, e)
    BY DEF Deductible
  <2>4. d \in DOMAIN charges => charges[d] <= Value(budget, d)
    BY <1>2 DEF Affordable
  <2> HIDE DEF charges, budget
  <2>5. /\ d \in DOMAIN charges => Value(new.remaining_budgets, d) =
             Value(budget, d) - charges[d]
        /\ d \notin DOMAIN charges => Value(new.remaining_budgets, d) = Value(budget, d)
    BY <1>1, <1>2, <1>4, <2>3, DeductedValue
  <2> QED BY <1>4, <1>7, <2>1, <2>2, <2>4, <2>5
<1>10. AmountOf(new.remaining_budgets) =
         [d \in Dims |-> AmountOf(budget)[d] - ChargeOf(call, d)]
  BY <1>9 DEF AmountOf
<1> HIDE DEF task, budget, charges
<1>11. EnvelopeOf(new) =
         [EnvelopeOf(old) EXCEPT
            !.done = [EnvelopeOf(old).done EXCEPT ![key] = task],
            !.left = [d \in Dims |-> EnvelopeOf(old).left[d] - ChargeOf(call, d)]]
  <2> DEFINE done == [EnvelopeOf(old).done EXCEPT ![key] = task]
             left == [d \in Dims |-> EnvelopeOf(old).left[d] - ChargeOf(call, d)]
  <2>1. DoneOf(new) = done
    BY <1>8, EnvelopeFields
  <2>2. AmountOf(new.remaining_budgets) = left
    BY <1>10, EnvelopeFields DEF budget
  <2> HIDE DEF done, left
  <2>3. EnvelopeOf(new) = Shape(old.identity, old.generation, left, done,
                                OutcomeOf(old), ResultOf(old))
    BY <1>1, <1>6, <2>1, <2>2, EnvelopeShape
  <2>4. EnvelopeOf(new) = PaidAs(EnvelopeOf(old), done, left)
    BY <2>3, EnvelopeShape, PaidShape
  <2> QED BY <2>4 DEF done, left, PaidAs
<1> QED BY <1>8, <1>9, <1>11, EnvelopeFields DEF new, task, budget, StagedAs

LEMMA ChargedEnvelope ==
  ASSUME NEW old \in ActiveSessions, NEW budget
  PROVE  EnvelopeOf([old EXCEPT !.remaining_budgets = budget]) =
           [EnvelopeOf(old) EXCEPT !.left = AmountOf(budget)]
<1> DEFINE new == [old EXCEPT !.remaining_budgets = budget]
<1>1. /\ new.identity = old.identity /\ new.generation = old.generation
      /\ new.remaining_budgets = budget
      /\ new.tool_results = old.tool_results /\ new.status = old.status
      /\ new.settlement_result = old.settlement_result
      /\ new.abort_result = old.abort_result
  BY DEF ActiveSessions, SessionsWith
<1> HIDE DEF new
<1>2. DoneOf(new) = DoneOf(old) /\ OutcomeOf(new) = OutcomeOf(old) /\ ResultOf(new) = ResultOf(old)
  BY <1>1, SameDone, SameOutcome
<1>3. EnvelopeOf(new) = [EnvelopeOf(old) EXCEPT !.left = AmountOf(budget)]
  BY <1>1, <1>2 DEF EnvelopeOf
<1> QED BY <1>3 DEF new

LEMMA ExpiredEnvelope ==
  ASSUME NEW old \in ActiveSessions
  PROVE  EnvelopeOf([old EXCEPT !.status = "EXPIRED"]) =
           IF OutcomeOf(old) = "open"
           THEN [EnvelopeOf(old) EXCEPT !.outcome = "lapsed", !.result = {}]
           ELSE EnvelopeOf(old)
<1> DEFINE new == [old EXCEPT !.status = "EXPIRED"]
<1>1. /\ new.identity = old.identity /\ new.generation = old.generation
      /\ new.remaining_budgets = old.remaining_budgets
      /\ new.tool_results = old.tool_results /\ new.status = "EXPIRED"
      /\ new.settlement_result = old.settlement_result
      /\ new.abort_result = old.abort_result
  BY DEF ActiveSessions, SessionsWith
<1> HIDE DEF new
<1>2. DoneOf(new) = DoneOf(old)
  BY <1>1, SameDone
<1>3. CASE OutcomeOf(old) = "open"
  <2>1. old.settlement_result = None /\ old.abort_result = None
    BY <1>3 DEF OutcomeOf
  <2>2. OutcomeOf(new) = "lapsed" /\ ResultOf(new) = {}
    BY <1>1, <2>1 DEF OutcomeOf, ResultOf
  <2>3. EnvelopeOf(new) = [EnvelopeOf(old) EXCEPT !.outcome = "lapsed", !.result = {}]
    <3>1. EnvelopeOf(new) = Shape(old.identity, old.generation,
                                  AmountOf(old.remaining_budgets), DoneOf(old), "lapsed", {})
      BY <1>1, <1>2, <2>2, EnvelopeShape
    <3>2. EnvelopeOf(new) = ClosedAs(EnvelopeOf(old), "lapsed", {})
      BY <3>1, EnvelopeShape, ClosedShape
    <3> QED BY <3>2 DEF ClosedAs
  <2> QED BY <1>3, <2>3 DEF new
<1>4. CASE OutcomeOf(old) # "open"
  <2>1. OutcomeOf(new) = OutcomeOf(old) /\ ResultOf(new) = ResultOf(old)
    BY <1>1, <1>4 DEF OutcomeOf, ResultOf
  <2>2. EnvelopeOf(new) = EnvelopeOf(old)
    BY <1>1, <1>2, <2>1 DEF EnvelopeOf
  <2> QED BY <1>4, <2>2 DEF new
<1> QED BY <1>3, <1>4

(* Either way everything that was done is in the result, and nothing else. *)
LEMMA PlannedIds ==
  ASSUME NEW plan, NEW actions, Range(plan) = Range(actions)
  PROVE  StagedIds(plan) = StagedIds(actions)
<1>1. \A i \in DOMAIN plan : \E j \in DOMAIN actions : plan[i] = actions[j]
  BY DEF Range
<1>2. \A j \in DOMAIN actions : \E i \in DOMAIN plan : plan[i] = actions[j]
  BY DEF Range
<1> QED BY <1>1, <1>2 DEF StagedIds

LEMMA SealedEnvelope ==
  ASSUME NEW old \in ActiveSessions, NEW key \in Keys, NEW sid \in SessionIds, NEW drawn,
         Accounted(old, drawn), Sound(old), old.status \in Open
  PROVE  EnvelopeOf(Sealed(sid, old, key)) =
           [EnvelopeOf(old) EXCEPT !.outcome = "settled",
                                   !.result = NumbersOf(EnvelopeOf(old).done)]
<1> DEFINE new    == Sealed(sid, old, key)
           staged == old.staged_actions
           plan   == SettlementPlan(staged)
<1>1. Revalidates(old)
  BY DEF Sound
<1>2. /\ new.identity = old.identity /\ new.generation = old.generation
      /\ new.remaining_budgets = old.remaining_budgets
      /\ new.tool_results = old.tool_results
      /\ new.settlement_result = SealReceipt(sid, old)
  BY <1>1 DEF Sealed, ActiveSessions, SessionsWith
<1>3. staged \in Seq(StagedActions) /\ old.generation \in Nat
  BY DEF ActiveSessions, SessionsWith
<1>4. SealReceipt(sid, old) # None /\ SealReceipt(sid, old).settled_actions = plan
  BY <1>3, ReceiptType, NoneIsNoValue DEF SealReceipt
<1>5. Range(plan) = Range(staged)
  BY <1>3, PlansInOrder DEF Accounted, StagedInOrder
<1>6. Work(old) = staged
  BY OpenOutcome DEF Work
<1>7. StagedIds(staged) = NumbersOf(DoneOf(old))
  BY <1>3, <1>6, WorkIsDone DEF Accounted
<1> HIDE DEF new, plan, staged
<1>8. StagedIds(plan) = NumbersOf(DoneOf(old))
  BY <1>5, <1>7, PlannedIds
<1>9. OutcomeOf(new) = "settled" /\ ResultOf(new) = NumbersOf(DoneOf(old))
  <2>1. new.settlement_result # None /\ new.settlement_result.settled_actions = plan
    BY <1>2, <1>4
  <2>2. ResultOf(new) = StagedIds(new.settlement_result.settled_actions)
    BY <2>1 DEF ResultOf
  <2>3. OutcomeOf(new) = "settled"
    BY <2>1 DEF OutcomeOf
  <2> QED BY <2>1, <2>2, <2>3, <1>8
<1>10. DoneOf(new) = DoneOf(old)
  BY <1>2, SameDone
<1>11. EnvelopeOf(new) =
         [EnvelopeOf(old) EXCEPT !.outcome = "settled",
                                 !.result = NumbersOf(EnvelopeOf(old).done)]
  <2> DEFINE result == NumbersOf(EnvelopeOf(old).done)
  <2>1. ResultOf(new) = result
    BY <1>9, EnvelopeFields
  <2> HIDE DEF result
  <2>2. EnvelopeOf(new) = Shape(old.identity, old.generation,
                                AmountOf(old.remaining_budgets), DoneOf(old),
                                "settled", result)
    BY <1>2, <1>9, <1>10, <2>1, EnvelopeShape
  <2>3. EnvelopeOf(new) = ClosedAs(EnvelopeOf(old), "settled", result)
    BY <2>2, EnvelopeShape, ClosedShape
  <2> QED BY <2>3 DEF result, ClosedAs
<1> QED BY <1>11 DEF new

LEMMA AbortedEnvelope ==
  ASSUME NEW old \in ActiveSessions, NEW key \in Keys, NEW sid \in SessionIds, NEW drawn,
         Accounted(old, drawn), Sound(old), old.status \in Open
  PROVE  EnvelopeOf(AbortedBy(sid, old, key)) =
           [EnvelopeOf(old) EXCEPT !.outcome = "reverted",
                                   !.result = NumbersOf(EnvelopeOf(old).done)]
<1> DEFINE new    == AbortedBy(sid, old, key)
           staged == old.staged_actions
           plan   == RollbackPlan(staged)
<1>1. old.settlement_result = None /\ old.abort_result = None
  BY OpenOutcome
<1>2. /\ new.identity = old.identity /\ new.generation = old.generation
      /\ new.remaining_budgets = old.remaining_budgets
      /\ new.tool_results = old.tool_results
      /\ new.settlement_result = None
      /\ new.abort_result = AbortReceipt(sid, old)
  BY <1>1 DEF AbortedBy, ActiveSessions, SessionsWith
<1>3. staged \in Seq(StagedActions)
  BY DEF ActiveSessions, SessionsWith
<1>4. AbortReceipt(sid, old) # None /\ AbortReceipt(sid, old).reverted_actions = plan
  BY <1>3, ReceiptType, NoneIsNoValue DEF AbortReceipt
<1>5. Range(plan) = Range(staged)
  BY <1>3, PlansInOrder DEF Accounted, StagedInOrder
<1>6. Work(old) = staged
  BY <1>1 DEF Work
<1>7. StagedIds(staged) = NumbersOf(DoneOf(old))
  BY <1>3, <1>6, WorkIsDone DEF Accounted
<1> HIDE DEF new, plan, staged
<1>8. StagedIds(plan) = NumbersOf(DoneOf(old))
  BY <1>5, <1>7, PlannedIds
<1>9. OutcomeOf(new) = "reverted" /\ ResultOf(new) = NumbersOf(DoneOf(old))
  <2>1. new.settlement_result = None /\ new.abort_result # None
        /\ new.abort_result.reverted_actions = plan
    BY <1>2, <1>4
  <2>2. ResultOf(new) = StagedIds(new.abort_result.reverted_actions)
    BY <2>1 DEF ResultOf
  <2>3. OutcomeOf(new) = "reverted"
    BY <2>1 DEF OutcomeOf
  <2> QED BY <2>1, <2>2, <2>3, <1>8
<1>10. DoneOf(new) = DoneOf(old)
  BY <1>2, SameDone
<1>11. EnvelopeOf(new) =
         [EnvelopeOf(old) EXCEPT !.outcome = "reverted",
                                 !.result = NumbersOf(EnvelopeOf(old).done)]
  <2> DEFINE result == NumbersOf(EnvelopeOf(old).done)
  <2>1. ResultOf(new) = result
    BY <1>9, EnvelopeFields
  <2> HIDE DEF result
  <2>2. EnvelopeOf(new) = Shape(old.identity, old.generation,
                                AmountOf(old.remaining_budgets), DoneOf(old),
                                "reverted", result)
    BY <1>2, <1>9, <1>10, <2>1, EnvelopeShape
  <2>3. EnvelopeOf(new) = ClosedAs(EnvelopeOf(old), "reverted", result)
    BY <2>2, EnvelopeShape, ClosedShape
  <2> QED BY <2>3 DEF result, ClosedAs
<1> QED BY <1>11 DEF new
-----------------------------------------------------------------------------
(* The steps of the session manager.                                       *)
LEMMA QuietShows ==
  ASSUME UNCHANGED <<sessions, backing, uuids>>
  PROVE  UNCHANGED Promise!promised
<1>1. Shown' = Shown /\ Backing' = Backing
  BY ShownNow DEF Backing
<1> QED BY <1>1, NothingShown

(* A token that is spent joins those that back an envelope.                *)
LEMMA SpentShows ==
  ASSUME TypeOK, NEW d0 \in Delegations, NEW spending \in Spendings, backing[d0] = None,
         backing' = [backing EXCEPT ![d0] = spending]
  PROVE  d0 \notin Backing /\ Backing' = Backing \cup {d0}
<1>1. backing'[d0] = spending /\ \A d \in Delegations : d # d0 => backing'[d] = backing[d]
  BY DEF TypeOK
<1> QED BY <1>1, NoSpendingIsNone DEF Backing

LEMMA InsertShows ==
  ASSUME RefinementInv, NEW w \in Workers, InsertSession(w)
  PROVE  Promise!Next
<1> DEFINE r  == pending[w].request
           d0 == r.delegation
<1>1. PICK sid \in SessionIds \ Live :
        LET session == NewSession(sid, r, pending[w].now_ms) IN
        /\ sessions' = [sessions EXCEPT ![sid] = session]
        /\ backing' = [backing EXCEPT ![d0] =
             [session_id |-> sid, generation |-> 1, budget |-> r.proposal.budgets]]
        /\ Answer(w, "OK", session.capability_token)
  BY DEF InsertSession
<1> DEFINE new      == NewSession(sid, r, pending[w].now_ms)
           spending == [session_id |-> sid, generation |-> 1, budget |-> r.proposal.budgets]
           grant    == AmountOf(r.proposal.budgets)
<1>2. /\ TypeOK /\ OwnDelegation /\ UsedOnce
      /\ pending[w] \in InService /\ pending[w].status = "consumed" /\ pending[w] # Idle
      /\ uuids' = uuids
  BY DEF InsertSession, RefinementInv, DelegationInv, TypeOK, Idle
<1>3. r \in ProposeRequests /\ r.method = "intent/propose" /\ pending[w].now_ms \in Nat
  BY <1>2, InputAssumption DEF InService, ProposeRequests
<1>4. d0 \in Delegations /\ new \in ActiveSessions /\ spending \in Spendings
  BY <1>3, NewSessionType, InputAssumption DEF ProposeRequests, Spendings
<1>5. d0.identity = r.proposal.identity
  BY <1>2, <1>3 DEF OwnDelegation
<1>6. backing[d0] = None
  <2>1. w \in InFlight(d0)
    BY <1>2 DEF InFlight
  <2> QED BY <1>4, <1>2, <2>1 DEF UsedOnce, Unused, InHand, Invested
<1>7. grant \in Grantable
  BY <1>3 DEF Grantable, ProposeRequests
<1>8. EnvelopeOf(new) =
        [owner |-> d0.identity, generation |-> 1, left |-> grant,
         done |-> [k \in Keys |-> None], outcome |-> "open", result |-> {}]
  BY <1>5, NewEnvelope
<1>9. /\ sid \in SessionIds /\ sessions[sid] = None
      /\ sessions' = [sessions EXCEPT ![sid] = new]
      /\ backing' = [backing EXCEPT ![d0] = spending]
  BY <1>1 DEF Live
<1> HIDE DEF new, spending, grant, d0
<1>10. d0 \notin Backing /\ Backing' = Backing \cup {d0}
  BY <1>2, <1>4, <1>6, <1>9, SpentShows
<1>11. Shown[sid] = None /\ Shown' = [Shown EXCEPT ![sid] = EnvelopeOf(new)]
  BY <1>2, <1>4, <1>9, OneShown
<1>12. Shown' = [Shown EXCEPT ![sid] =
         [owner |-> d0.identity, generation |-> 1, left |-> grant,
          done |-> [k \in Keys |-> None], outcome |-> "open", result |-> {}]]
  BY <1>8, <1>11
<1> QED BY <1>2, <1>4, <1>7, <1>9, <1>10, <1>11, <1>12, Admits

(* What a handler that stores a session found, and what it shows.          *)
LEMMA StoreShows ==
  ASSUME RefinementInv, NEW w \in Workers,
         \/ Amend(w) \/ CallExpires(w) \/ CallHalfCharged(w) \/ CallStaged(w)
         \/ Seal(w) \/ Abort(w)
  PROVE  LET s == pending[w].request.session_id IN
         /\ s \in SessionIds /\ Found(w) = sessions[s]
         /\ Found(w) \in ActiveSessions /\ sessions'[s] \in ActiveSessions
         /\ Sound(Found(w)) /\ Accounted(Found(w), uuids)
         /\ Shown[s] = EnvelopeOf(Found(w)) /\ Shown[s] # None
         /\ Shown'[s] = EnvelopeOf(sessions'[s])
         /\ Shown' = [Shown EXCEPT ![s] = EnvelopeOf(sessions'[s])]
         /\ \A next : Store(w, next) => sessions'[s] = next
         /\ Found(w).status \in Open \/ OnlyExpires(s)
<1> DEFINE s == pending[w].request.session_id
<1>1. TypeOK /\ SessionsSound /\ WorkInv
  BY DEF RefinementInv, WorkInv, SessionsSound
<1>2. /\ s \in Live /\ sessions' = [sessions EXCEPT ![s] = sessions'[s]]
      /\ sessions'[s] \in ActiveSessions /\ Changes(w, s)
  BY <1>1, WorkerChanges
<1>3. s \in SessionIds /\ sessions[s] # None /\ sessions[s] \in ActiveSessions
  BY <1>1, <1>2 DEF TypeOK, Live
<1>4. Sound(sessions[s]) /\ Accounted(sessions[s], uuids)
  BY <1>1, <1>2 DEF SessionsSound, WorkInv
<1>5. /\ Shown[s] = EnvelopeOf(sessions[s])
      /\ Shown'[s] = EnvelopeOf(sessions'[s])
      /\ Shown' = [Shown EXCEPT ![s] = EnvelopeOf(sessions'[s])]
  <2> DEFINE new == sessions'[s]
  <2>1. new \in ActiveSessions /\ sessions' = [sessions EXCEPT ![s] = new]
    BY <1>2
  <2> HIDE DEF new
  <2>2. /\ Shown[s] = IF sessions[s] = None THEN None ELSE EnvelopeOf(sessions[s])
        /\ Shown'[s] = EnvelopeOf(new)
        /\ Shown' = [Shown EXCEPT ![s] = EnvelopeOf(new)]
    BY <1>1, <1>3, <2>1, OneShown
  <2> QED BY <1>3, <2>2 DEF new
<1>6. Shown[s] # None
  BY <1>3, <1>5, EnvelopeType
<1>7. \A next : Store(w, next) => sessions'[s] = next
  BY <1>1, <1>3 DEF Store, TypeOK
<1>8. sessions[s].status \in Open \/ OnlyExpires(s)
  BY <1>2 DEF Changes, ActsOn, Expires
<1> QED BY <1>2, <1>3, <1>4, <1>5, <1>6, <1>7, <1>8 DEF Found

LEMMA AmendShows ==
  ASSUME RefinementInv, NEW w \in Workers, Amend(w)
  PROVE  Promise!Next
<1> DEFINE r        == pending[w].request
           d0       == r.delegation
           s        == r.session_id
           old      == Found(w)
           new      == Amended(s, old, r.budget_additions)
           spending == [session_id |-> s, generation |-> new.generation,
                        budget |-> r.budget_additions]
           grant    == AmountOf(r.budget_additions)
<1>1. /\ Finds(w, "intent/amend") /\ AmendOutcome(r, old, pending[w].now_ms) = "OK"
      /\ Store(w, new) /\ backing' = [backing EXCEPT ![d0] = spending] /\ uuids' = uuids
  BY DEF Amend
<1>2. TypeOK /\ UsedOnce
  BY DEF RefinementInv, DelegationInv
<1>3. r \in CheckedRequests /\ r.method = "intent/amend"
  BY <1>1, <1>2, FoundType
<1>4. d0 \in Delegations /\ r.budget_additions \in Additions /\ r.budget_additions \in Budgets
  BY <1>3, InputAssumption DEF CheckedRequests, ProposeRequests
<1>5. d0.identity = old.identity /\ d0 \notin used_delegations /\ old.status \in Open
  BY <1>1 DEF AmendOutcome, AmendFault, DelegationValid, DelegationProof
<1>6. backing[d0] = None
  BY <1>2, <1>4, <1>5 DEF UsedOnce, Unused, InHand, Invested
<1>7. /\ s \in SessionIds /\ old \in ActiveSessions /\ Sound(old)
      /\ Shown[s] = EnvelopeOf(old) /\ Shown[s] # None
      /\ Shown' = [Shown EXCEPT ![s] = EnvelopeOf(new)]
  BY <1>1, StoreShows
<1>8. spending \in Spendings
  <2>1. new.generation \in Nat
    BY <1>7 DEF Amended, ActiveSessions, SessionsWith
  <2> QED BY <1>4, <1>7, <2>1 DEF Spendings
<1>9. grant \in Grantable
  BY <1>4 DEF Grantable
<1>10. EnvelopeOf(new) =
         [EnvelopeOf(old) EXCEPT
            !.generation = EnvelopeOf(old).generation + 1,
            !.left = [d \in Dims |-> EnvelopeOf(old).left[d] + grant[d]]]
  BY <1>4, <1>5, <1>7, AmendedEnvelope
<1>11. EnvelopeOf(old).outcome = "open" /\ EnvelopeOf(old).owner = d0.identity
  BY <1>5, <1>7, OpenOutcome, EnvelopeFields
<1> HIDE DEF new, spending, grant, d0, s, old
<1>12. d0 \notin Backing /\ Backing' = Backing \cup {d0}
  BY <1>1, <1>2, <1>4, <1>6, <1>8, SpentShows
<1>13. Shown' = [Shown EXCEPT ![s] =
         [Shown[s] EXCEPT !.generation = Shown[s].generation + 1,
                          !.left = [d \in Dims |-> Shown[s].left[d] + grant[d]]]]
  BY <1>7, <1>10
<1>14. Shown[s].outcome = "open" /\ d0.identity = Shown[s].owner
  BY <1>7, <1>11
<1> QED BY <1>1, <1>4, <1>7, <1>9, <1>12, <1>13, <1>14, Widens

(* What a call that was not served before has passed.                      *)
LEMMA FreshCallPassed ==
  ASSUME TypeOK, NEW w \in Workers, FreshCall(w)
  PROVE  LET r == pending[w].request IN
         /\ r.idempotency_key \in Keys /\ r.call \in Calls /\ r.call \in Performable
         /\ r.call.name \in DOMAIN Adapters
         /\ FreshCallOutcome(r.call, Found(w)) = "OK"
         /\ Found(w).tool_results[r.idempotency_key] = None
         /\ Found(w).status \in Open
<1> DEFINE r == pending[w].request
<1>1. /\ Finds(w, "tools/call") /\ CallOutcome(r, Found(w), pending[w].now_ms) = "OK"
      /\ Found(w).tool_results[r.idempotency_key] = None
  BY DEF FreshCall, CallAccepted
<1>2. r \in CheckedRequests /\ r.method = "tools/call"
  BY <1>1, FoundType
<1>3. r.idempotency_key \in Keys /\ r.call \in Calls /\ r.call.name \in DOMAIN Adapters
  BY <1>2 DEF CheckedRequests, ProposeRequests
<1>4. FreshCallOutcome(r.call, Found(w)) = "OK" /\ Found(w).status \in Open
  BY <1>1 DEF CallOutcome
<1> QED BY <1>1, <1>3, <1>4 DEF Performable

LEMMA StagedShows ==
  ASSUME RefinementInv, NEW w \in Workers, CallStaged(w)
  PROVE  Promise!Next
<1> DEFINE r   == pending[w].request
           s   == r.session_id
           k   == r.idempotency_key
           old == Found(w)
           new == Staged(old, k, r.call, uuids + 1)
<1>1. /\ FreshCall(w) /\ Deductible(old.remaining_budgets, PendingCharges(w))
      /\ uuids' = uuids + 1 /\ Store(w, new) /\ Backing' = Backing
  BY DEF CallStaged, Backing
<1>2. TypeOK /\ uuids + 1 \in Nat
  BY DEF RefinementInv, DelegationInv, TypeOK
<1>3. /\ k \in Keys /\ r.call \in Calls /\ r.call \in Performable
      /\ r.call.name \in DOMAIN Adapters
      /\ FreshCallOutcome(r.call, old) = "OK" /\ old.tool_results[k] = None
      /\ old.status \in Open
  BY <1>1, <1>2, FreshCallPassed
<1>4. /\ s \in SessionIds /\ old \in ActiveSessions /\ Sound(old)
      /\ Shown[s] = EnvelopeOf(old) /\ Shown[s] # None
      /\ Shown' = [Shown EXCEPT ![s] = EnvelopeOf(new)]
  BY <1>1, StoreShows
<1>5. Deductible(old.remaining_budgets, Charges(Adapters[r.call.name], r.call.arguments))
  BY <1>1 DEF PendingCharges
<1> DEFINE number == uuids + 1
           call   == r.call
           e      == EnvelopeOf(old)
<1>6. /\ e.done[k] = None
      /\ \A d \in Dims : ChargeOf(call, d) <= e.left[d]
      /\ EnvelopeOf(new) =
           [e EXCEPT !.done = [e.done EXCEPT ![k] = [task |-> call, number |-> number]],
                     !.left = [d \in Dims |-> e.left[d] - ChargeOf(call, d)]]
  <2>1. number \in Nat /\ new = Staged(old, k, call, number)
    BY <1>2
  <2>2. k \in Keys /\ call \in Calls /\ call.name \in DOMAIN Adapters
    BY <1>3
  <2>3. FreshCallOutcome(call, old) = "OK" /\ old.tool_results[k] = None
    BY <1>3
  <2>4. Deductible(old.remaining_budgets, Charges(Adapters[call.name], call.arguments))
    BY <1>5
  <2>5. old \in ActiveSessions /\ Sound(old) /\ old.status \in Open
    BY <1>3, <1>4
  <2> HIDE DEF new, old, number, k, call, r, s
  <2>6. /\ EnvelopeOf(old).done[k] = None
        /\ \A d \in Dims : ChargeOf(call, d) <= EnvelopeOf(old).left[d]
        /\ EnvelopeOf(Staged(old, k, call, number)) = StagedAs(EnvelopeOf(old), k, call, number)
    BY <2>1, <2>2, <2>3, <2>4, <2>5, StagedEnvelope
  <2> QED BY <2>1, <2>6 DEF StagedAs
<1>7. e.outcome = "open"
  BY <1>3, <1>4, OpenOutcome, EnvelopeFields
<1>8. Shown' = [Shown EXCEPT ![s] =
         [Shown[s] EXCEPT
            !.done = [Shown[s].done EXCEPT ![k] = [task |-> call, number |-> uuids + 1]],
            !.left = [d \in Dims |-> Shown[s].left[d] - ChargeOf(call, d)]]]
  <2> HIDE DEF new, s, call, k
  <2> QED BY <1>4, <1>6
<1> HIDE DEF s, k, call, old
<1>9. /\ Shown[s].outcome = "open" /\ Shown[s].done[k] = None
      /\ \A d \in Dims : ChargeOf(call, d) <= Shown[s].left[d]
  BY <1>4, <1>6, <1>7
<1>10. call \in Performable
  BY <1>3 DEF call
<1> QED BY <1>1, <1>3, <1>4, <1>8, <1>9, <1>10, Performs

(* A call that is half charged loses budget, if it was charged at all.     *)
LEMMA HalfChargedShows ==
  ASSUME RefinementInv, NEW w \in Workers, CallHalfCharged(w)
  PROVE  Promise!Next \/ UNCHANGED Promise!promised
<1> DEFINE r       == pending[w].request
           s       == r.session_id
           old     == Found(w)
           budget  == old.remaining_budgets
           charges == Charges(Adapters[r.call.name], r.call.arguments)
<1>1. FreshCall(w) /\ Backing' = Backing /\ uuids' = uuids
  BY DEF CallHalfCharged, Backing
<1>2. PICK paid \in SUBSET {d \in DOMAIN charges : Present(budget, d)} :
        Store(w, [old EXCEPT !.remaining_budgets = Deduct(budget, charges, paid)])
  BY DEF CallHalfCharged, PendingCharges
<1> DEFINE after == Deduct(budget, charges, paid)
           new   == [old EXCEPT !.remaining_budgets = after]
<1>3. TypeOK
  BY DEF RefinementInv, DelegationInv
<1>4. /\ r.call \in Calls /\ r.call.name \in DOMAIN Adapters
      /\ FreshCallOutcome(r.call, old) = "OK" /\ old.status \in Open
  BY <1>1, <1>3, FreshCallPassed
<1>5. /\ s \in SessionIds /\ old \in ActiveSessions /\ Sound(old)
      /\ Shown[s] = EnvelopeOf(old) /\ Shown[s] # None
      /\ Shown' = [Shown EXCEPT ![s] = EnvelopeOf(new)]
      /\ Shown'[s] = EnvelopeOf(new)
  BY <1>2, StoreShows
<1>6. Chargeable(Adapters[r.call.name], r.call.arguments) /\ Affordable(budget, charges)
  BY <1>4 DEF FreshCallOutcome, ChargesFault
<1>7. \A d \in DOMAIN charges : charges[d] \in Nat
  BY <1>4, <1>6, InputAssumption, ChargesAreSums
<1>8. budget \in Budgets
  BY <1>5 DEF ActiveSessions, SessionsWith
<1> HIDE DEF charges, budget, after, old, s
<1>9. ASSUME NEW d \in Dims
      PROVE  AmountOf(after)[d] <= AmountOf(budget)[d]
  <2>1. AmountOf(after)[d] = Value(after, d) /\ AmountOf(budget)[d] = Value(budget, d)
    BY DEF AmountOf
  <2>2. paid \subseteq DOMAIN charges /\ \A e \in paid : Present(budget, e)
    OBVIOUS
  <2>3. /\ d \in paid => Value(after, d) = Value(budget, d) - charges[d]
        /\ d \notin paid => Value(after, d) = Value(budget, d)
    BY <1>6, <1>7, <1>8, <2>2, DeductedValue DEF after
  <2>4. Value(budget, d) \in Nat
    BY <1>8, ValueType
  <2> QED BY <1>7, <2>1, <2>2, <2>3, <2>4
<1>10. EnvelopeOf(new) = [EnvelopeOf(old) EXCEPT !.left = AmountOf(after)]
  BY <1>5, ChargedEnvelope
<1>11. EnvelopeOf(old).left = AmountOf(budget) /\ EnvelopeOf(new).left = AmountOf(after)
  BY <1>10, EnvelopeFields DEF budget, EnvelopeOf
<1>12. EnvelopeOf(old).outcome = "open"
  BY <1>4, <1>5, OpenOutcome, EnvelopeFields
<1> HIDE DEF new
<1>13. CASE AmountOf(after) = AmountOf(budget)
  <2>1. EnvelopeOf(new) = EnvelopeOf(old)
    BY <1>10, <1>11, <1>13 DEF EnvelopeOf
  <2>2. Shown' = Shown
    BY <1>5, <2>1 DEF Shown
  <2> QED BY <1>1, <2>2, NothingShown
<1>14. CASE AmountOf(after) # AmountOf(budget)
  <2>1. Shown' = [Shown EXCEPT ![s] = [Shown[s] EXCEPT !.left = Shown'[s].left]]
    BY <1>5, <1>10, <1>11
  <2>2. /\ Shown'[s].left # Shown[s].left
        /\ \A d \in Dims : Shown'[s].left[d] <= Shown[s].left[d]
        /\ Shown[s].outcome = "open"
    BY <1>5, <1>9, <1>11, <1>12, <1>14
  <2> QED BY <1>1, <1>5, <2>1, <2>2, Forfeits
<1> QED BY <1>13, <1>14

(* A session that runs out of time lapses, unless it was closed before.    *)
LEMMA ExpiryShows ==
  ASSUME RefinementInv, NEW w \in Workers, CallExpires(w)
  PROVE  Promise!Next \/ UNCHANGED Promise!promised
<1> DEFINE s   == pending[w].request.session_id
           old == Found(w)
           new == [old EXCEPT !.status = "EXPIRED"]
<1>1. Store(w, new) /\ Backing' = Backing /\ uuids' = uuids
  BY DEF CallExpires, Backing
<1>2. /\ s \in SessionIds /\ old \in ActiveSessions
      /\ Shown[s] = EnvelopeOf(old) /\ Shown[s] # None
      /\ Shown' = [Shown EXCEPT ![s] = EnvelopeOf(new)]
      /\ Shown'[s] = EnvelopeOf(new)
  BY <1>1, StoreShows
<1>3. EnvelopeOf(new) =
        IF OutcomeOf(old) = "open"
        THEN [EnvelopeOf(old) EXCEPT !.outcome = "lapsed", !.result = {}]
        ELSE EnvelopeOf(old)
  BY <1>2, ExpiredEnvelope
<1> HIDE DEF s, old, new
<1>4. CASE OutcomeOf(old) = "open"
  <2> DEFINE outcome == "lapsed"
             result  == IF outcome = "lapsed" THEN {} ELSE NumbersOf(Shown[s].done)
  <2>1. result = {}
    OBVIOUS
  <2>2. EnvelopeOf(new) = [EnvelopeOf(old) EXCEPT !.outcome = outcome, !.result = {}]
    BY <1>3, <1>4
  <2>3. Shown[s].outcome = "open"
    BY <1>2, <1>4, EnvelopeFields
  <2>4. EnvelopeOf(new).outcome = outcome
    <3>1. EnvelopeOf(new) = ClosedAs(EnvelopeOf(old), "lapsed", {})
      BY <2>2 DEF ClosedAs
    <3>2. EnvelopeOf(new).outcome = "lapsed"
      BY <3>1, EnvelopeShape, ClosedShape DEF Shape
    <3> QED BY <3>2
  <2>5. Shown' = [Shown EXCEPT ![s] =
                    [Shown[s] EXCEPT !.outcome = outcome, !.result = result]]
    <3> HIDE DEF result, outcome
    <3> QED BY <1>2, <2>1, <2>2
  <2>6. outcome \in {"settled", "reverted", "lapsed"} /\ Shown'[s].outcome = outcome
    BY <1>2, <2>4
  <2> HIDE DEF outcome
  <2> QED BY <1>1, <1>2, <2>3, <2>5, <2>6, Closes DEF result
<1>5. CASE OutcomeOf(old) # "open"
  <2>1. Shown' = Shown
    BY <1>2, <1>3, <1>5 DEF Shown
  <2> QED BY <1>1, <2>1, NothingShown
<1> QED BY <1>4, <1>5

(* A session that is sealed or aborted hands over, or takes back, all that *)
(* was done under it.                                                      *)
LEMMA ClosingShows ==
  ASSUME RefinementInv, NEW w \in Workers, Seal(w) \/ Abort(w)
  PROVE  Promise!Next
<1> DEFINE r   == pending[w].request
           s   == r.session_id
           old == Found(w)
           new == sessions'[s]
<1>1. Backing' = Backing /\ uuids' = uuids
  BY DEF Seal, Abort, Backing
<1>2. /\ s \in SessionIds /\ old \in ActiveSessions /\ Sound(old)
      /\ Accounted(old, uuids)
      /\ Shown[s] = EnvelopeOf(old) /\ Shown[s] # None
      /\ Shown' = [Shown EXCEPT ![s] = EnvelopeOf(new)]
      /\ Shown'[s] = EnvelopeOf(new)
      /\ \A next : Store(w, next) => new = next
      /\ old.status \in Open \/ OnlyExpires(s)
  BY StoreShows
<1>3. r.idempotency_key \in Keys /\ old.status \in Open
  <2>1. TypeOK
    BY DEF RefinementInv, DelegationInv
  <2>2. PICK method \in {"intent/seal", "intent/abort"} : Finds(w, method)
    BY DEF Seal, SealAccepted, Abort, AbortAccepted
  <2>3. r \in CheckedRequests /\ r.method = method
    BY <2>1, <2>2, FoundType
  <2>4. r.idempotency_key \in Keys
    BY <2>3 DEF CheckedRequests, ProposeRequests
  <2>5. old.status \in Open
    <3>1. old.status \in Statuses
      BY <1>2 DEF ActiveSessions, SessionsWith
    <3> QED BY <3>1 DEF Seal, SealAccepted, SealOutcome, Abort, AbortAccepted, AbortOutcome,
               Statuses, Open
  <2> QED BY <2>4, <2>5
<1>4. PICK outcome \in {"settled", "reverted"} :
        EnvelopeOf(new) = [EnvelopeOf(old) EXCEPT !.outcome = outcome,
                                                  !.result = NumbersOf(EnvelopeOf(old).done)]
  <2>1. CASE Seal(w)
    <3>1. new = Sealed(s, old, r.idempotency_key)
      BY <1>2, <2>1 DEF Seal
    <3> HIDE DEF new, old, s
    <3> QED BY <1>2, <1>3, <3>1, SealedEnvelope
  <2>2. CASE Abort(w)
    <3>1. new = AbortedBy(s, old, r.idempotency_key)
      BY <1>2, <2>2 DEF Abort
    <3> HIDE DEF new, old, s
    <3> QED BY <1>2, <1>3, <3>1, AbortedEnvelope
  <2> QED BY <2>1, <2>2
<1> HIDE DEF s, old, new
<1> DEFINE result == IF outcome = "lapsed" THEN {} ELSE NumbersOf(Shown[s].done)
<1>5. EnvelopeOf(new) = ClosedAs(EnvelopeOf(old), outcome, result)
  BY <1>2, <1>4 DEF ClosedAs
<1>6. EnvelopeOf(new).outcome = outcome
  BY <1>5, EnvelopeShape, ClosedShape DEF Shape
<1>7. Shown[s].outcome = "open"
  BY <1>2, <1>3, OpenOutcome, EnvelopeFields
<1>8. Shown' = [Shown EXCEPT ![s] = [Shown[s] EXCEPT !.outcome = outcome, !.result = result]]
  <2> HIDE DEF result
  <2> QED BY <1>2, <1>5 DEF ClosedAs
<1> QED BY <1>1, <1>2, <1>6, <1>7, <1>8, Closes DEF result

LEMMA StepIsPromised ==
  RefinementInv /\ [Next]_vars => [Promise!Next]_(Promise!promised)
<1> SUFFICES ASSUME RefinementInv, [Next]_vars
             PROVE  Promise!Next \/ UNCHANGED Promise!promised
  OBVIOUS
<1>1. TypeOK
  BY DEF RefinementInv, DelegationInv
<1>2. CASE Tick \/ UNCHANGED vars
  BY <1>2, QuietShows DEF Tick, vars
<1>3. ASSUME NEW w \in Workers, Receive(w) \/ Quiet(w) \/ DelegationConsumed(w)
                                  \/ ConsumeDelegation(w)
      PROVE  UNCHANGED Promise!promised
  <2>1. UNCHANGED <<sessions, backing, uuids>>
    BY <1>1, <1>3, QuietType DEF Receive, Accept, DelegationConsumed, ConsumeDelegation
  <2> QED BY <2>1, QuietShows
<1>4. ASSUME NEW w \in Workers, Bookless(w)
      PROVE  \/ Receive(w) \/ Quiet(w) \/ DelegationConsumed(w)
             \/ CallExpires(w) \/ CallHalfCharged(w) \/ CallStaged(w) \/ Seal(w) \/ Abort(w)
  BY <1>4 DEF Bookless
<1> QED BY <1>2, <1>3, <1>4, EachStep, InsertShows, AmendShows, ExpiryShows,
           HalfChargedShows, StagedShows, ClosingShows

(* The session manager implements Envelope: whatever the workers do at the *)
(* same time, sessions are envelopes, each backed by delegation tokens of  *)
(* its own, no token as presented being accepted twice; that do every task *)
(* once and within their budget, and end by handing over all they did or   *)
(* by taking all of it back.                                               *)
THEOREM SessionsAreEnvelopes == Spec => ImplementsEnvelope
<1>1. WorkInv /\ DelegationInv => RefinementInv
  BY DEF RefinementInv
<1> QED BY <1>1, InitIsPromised, StepIsPromised, WorkHolds, DelegationHolds, PTL
        DEF Spec, ImplementsEnvelope, Promise!Spec
=============================================================================
