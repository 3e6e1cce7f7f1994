-------------------------- MODULE SessionWorkProofs --------------------------
(***************************************************************************)
(* What a session has to show for its work, proved for every set of        *)
(* workers, sessions, keys, calls, adapters and delegations: one action    *)
(* per key that was used, receipts that list exactly those actions in      *)
(* order, answers that are on record, and no trace of what was refused.    *)
(***************************************************************************)
EXTENDS SessionManagerProofs

(* Staged ids are drawn in increasing order and were all drawn already.    *)
StagedInOrder(session, drawn) ==
  LET staged == session.staged_actions IN
  /\ \A i \in DOMAIN staged : staged[i].staged_id <= drawn
  /\ \A i, j \in DOMAIN staged : i < j => staged[i].staged_id < staged[j].staged_id

(* ExactlyOnce for one session, and what keeps it so: the next id that is  *)
(* drawn is on record nowhere.                                             *)
DoneOnce(session, drawn) ==
  LET work == Work(session)
      used == UsedKeys(session)
  IN
  /\ IsFiniteSet(used)
  /\ Len(work) = Cardinality(used)
  /\ \A k \in used : session.tool_results[k].response.staged_id <= drawn
  /\ \A k \in used : \E i \in DOMAIN work :
       /\ work[i].call = session.tool_results[k].request_fingerprint
       /\ Response(work[i].call, work[i].staged_id) = session.tool_results[k].response
  /\ \A k1, k2 \in used :
       session.tool_results[k1].response.staged_id =
         session.tool_results[k2].response.staged_id => k1 = k2

(* ReceiptFaithful for one session.                                        *)
SettledFaithfully(session) ==
  session.settlement_result # None =>
    LET plan == session.settlement_result.settled_actions IN
    /\ Range(plan) = Range(session.staged_actions)
    /\ Len(plan) = Len(session.staged_actions)
    /\ Ordered(plan, LAMBDA a, b : a < b)
    /\ session.settlement_result.generation = session.generation

RevertedFaithfully(session) ==
  session.abort_result # None =>
    Ordered(session.abort_result.reverted_actions, LAMBDA a, b : a > b)

Accounted(session, drawn) ==
  /\ StagedInOrder(session, drawn)
  /\ DoneOnce(session, drawn)
  /\ SettledFaithfully(session)
  /\ RevertedFaithfully(session)

WorkInv ==
  /\ SessionsSound
  /\ \A sid \in Live : Accounted(sessions[sid], uuids)
-----------------------------------------------------------------------------
(* What a change makes of an accounted session is accounted.               *)
LEMMA NewAccounted ==
  ASSUME NEW sid, NEW r, NEW t, NEW drawn
  PROVE  Accounted(NewSession(sid, r, t), drawn)
<1> DEFINE new == NewSession(sid, r, t)
<1>1. /\ new.staged_actions = << >>
      /\ new.tool_results = [k \in Keys |-> None]
      /\ new.settlement_result = None
      /\ new.abort_result = None
  BY DEF NewSession
<1> HIDE DEF new
<1>2. UsedKeys(new) = {} /\ Work(new) = << >>
  BY <1>1 DEF UsedKeys, Work
<1>3. DoneOnce(new, drawn)
  BY <1>2, FS_EmptySet DEF DoneOnce
<1>4. Accounted(new, drawn)
  BY <1>1, <1>3 DEF Accounted, StagedInOrder, SettledFaithfully, RevertedFaithfully
<1> QED BY <1>4 DEF new

(* The budget, the token and the status are no part of it.                 *)
LEMMA SameWorkAccounted ==
  ASSUME NEW session, NEW new, NEW drawn, Accounted(session, drawn),
         new.staged_actions = session.staged_actions,
         new.tool_results = session.tool_results,
         new.settlement_result = session.settlement_result,
         new.abort_result = session.abort_result,
         session.settlement_result # None => new.generation = session.generation
  PROVE  Accounted(new, drawn)
<1>1. UsedKeys(new) = UsedKeys(session) /\ Work(new) = Work(session)
  BY DEF UsedKeys, Work
<1>2. StagedInOrder(new, drawn)
  BY DEF Accounted, StagedInOrder
<1>3. DoneOnce(new, drawn)
  BY <1>1 DEF Accounted, DoneOnce
<1>4. SettledFaithfully(new)
  BY DEF Accounted, SettledFaithfully
<1>5. RevertedFaithfully(new)
  BY DEF Accounted, RevertedFaithfully
<1> QED BY <1>2, <1>3, <1>4, <1>5 DEF Accounted

(* The ids on record are numbers.                                          *)
LEMMA IdsAreNumbers ==
  ASSUME NEW session \in ActiveSessions
  PROVE  /\ session.staged_actions \in Seq(StagedActions)
         /\ \A i \in DOMAIN session.staged_actions :
              session.staged_actions[i].staged_id \in Nat
         /\ \A k \in UsedKeys(session) :
              session.tool_results[k].response.staged_id \in Nat
<1>1. session.staged_actions \in Seq(StagedActions)
  BY DEF ActiveSessions, SessionsWith
<1>2. \A i \in DOMAIN session.staged_actions : session.staged_actions[i] \in StagedActions
  BY <1>1
<1>3. \A a \in StagedActions : a.staged_id \in Nat
  BY DEF StagedActions
<1>4. \A k \in UsedKeys(session) : session.tool_results[k] \in ToolResults
  BY DEF UsedKeys, ActiveSessions, SessionsWith
<1>5. \A t \in ToolResults : t.response.staged_id \in Nat
  BY DEF ToolResults
<1> QED BY <1>1, <1>2, <1>3, <1>4, <1>5

(* Ids that were drawn stay drawn.                                         *)
LEMMA LaterAccounted ==
  ASSUME NEW session \in ActiveSessions, NEW drawn \in Nat, NEW later \in Nat, drawn <= later,
         Accounted(session, drawn)
  PROVE  Accounted(session, later)
<1>1. \A i \in DOMAIN session.staged_actions : session.staged_actions[i].staged_id \in Nat
  BY IdsAreNumbers
<1>2. \A k \in UsedKeys(session) : session.tool_results[k].response.staged_id \in Nat
  BY IdsAreNumbers
<1>3. StagedInOrder(session, later)
  BY <1>1 DEF Accounted, StagedInOrder
<1>4. DoneOnce(session, later)
  BY <1>2 DEF Accounted, DoneOnce
<1> QED BY <1>3, <1>4 DEF Accounted

(* One more action for one more key.                                       *)
LEMMA StagedAccounted ==
  ASSUME NEW session \in ActiveSessions, NEW key \in Keys, NEW call \in Calls,
         NEW drawn \in Nat, Accounted(session, drawn),
         session.tool_results[key] = None,
         session.settlement_result = None, session.abort_result = None
  PROVE  Accounted(Staged(session, key, call, drawn + 1), drawn + 1)
<1> DEFINE new    == Staged(session, key, call, drawn + 1)
           staged == session.staged_actions
           n      == Len(staged)
           used   == UsedKeys(session)
           action == [call             |-> call,
                      resource_ids     |-> MatchedResources(Adapters[call.name], call.arguments),
                      settlement_order |-> Adapters[call.name].settlement_order,
                      staged_id        |-> drawn + 1]
           result == [request_fingerprint |-> call, response |-> Response(call, drawn + 1)]
<1>1. /\ new.staged_actions = Append(staged, action)
      /\ new.tool_results = [session.tool_results EXCEPT ![key] = result]
      /\ new.settlement_result = None
      /\ new.abort_result = None
  BY DEF Staged, ActiveSessions, SessionsWith
<1>2. /\ action.call = call /\ action.staged_id = drawn + 1
      /\ result.request_fingerprint = call
      /\ result.response = Response(call, drawn + 1)
      /\ result.response.staged_id = drawn + 1
  BY DEF Response
<1>3. result # None
  <2>1. result \in ToolResults
    BY DEF ToolResults, Response
  <2> QED BY <2>1, NoneIsNoValue
<1>4. staged \in Seq(StagedActions) /\ n \in Nat /\ DOMAIN staged = 1..n
  BY DEF ActiveSessions, SessionsWith
<1> HIDE DEF new, action, result, staged, n
<1>5. /\ DOMAIN new.staged_actions = 1..(n + 1) /\ Len(new.staged_actions) = n + 1
      /\ \A i \in 1..n : new.staged_actions[i] = staged[i]
      /\ new.staged_actions[n + 1] = action
  <2>1. Len(staged) = n
    BY DEF n
  <2> QED BY <1>1, <1>4, <2>1
<1>6. Work(new) = new.staged_actions /\ Work(session) = staged
  BY <1>1 DEF Work, staged
<1>7. /\ \A k \in Keys : new.tool_results[k] =
                           IF k = key THEN result ELSE session.tool_results[k]
      /\ UsedKeys(new) = used \cup {key}
      /\ key \notin used
  BY <1>1, <1>3 DEF UsedKeys, ActiveSessions, SessionsWith
<1>8. \A i \in 1..n : staged[i].staged_id \in Nat /\ staged[i].staged_id <= drawn
  BY <1>4, IdsAreNumbers DEF Accounted, StagedInOrder, staged
<1>9. StagedInOrder(new, drawn + 1)
  <2>1. \A i, j \in 1..n : i < j => staged[i].staged_id < staged[j].staged_id
    BY <1>4 DEF Accounted, StagedInOrder, staged
  <2>2. ASSUME NEW i \in 1..(n + 1)
        PROVE  /\ new.staged_actions[i].staged_id <= drawn + 1
               /\ i \in 1..n \/ i = n + 1
    BY <1>2, <1>4, <1>5, <1>8
  <2>3. ASSUME NEW i \in 1..(n + 1), NEW j \in 1..(n + 1), i < j
        PROVE  new.staged_actions[i].staged_id < new.staged_actions[j].staged_id
    <3>1. i \in 1..n /\ new.staged_actions[i] = staged[i]
      BY <1>4, <1>5, <2>3
    <3>2. CASE j \in 1..n
      <4>1. new.staged_actions[j] = staged[j]
        BY <1>5, <3>2
      <4> QED BY <2>1, <2>3, <3>1, <3>2, <4>1
    <3>3. CASE j = n + 1
      <4>1. new.staged_actions[j].staged_id = drawn + 1
        BY <1>2, <1>5, <3>3
      <4>2. staged[i].staged_id \in Nat /\ staged[i].staged_id <= drawn
        BY <1>8, <3>1
      <4> QED BY <3>1, <4>1, <4>2
    <3> QED BY <2>2, <3>2, <3>3
  <2> QED BY <1>5, <2>2, <2>3 DEF StagedInOrder
<1>10. /\ IsFiniteSet(used) /\ n = Cardinality(used)
       /\ \A k \in used :
            /\ session.tool_results[k].response.staged_id <= drawn
            /\ \E i \in 1..n :
                 /\ staged[i].call = session.tool_results[k].request_fingerprint
                 /\ Response(staged[i].call, staged[i].staged_id) =
                      session.tool_results[k].response
       /\ \A k1, k2 \in used :
            session.tool_results[k1].response.staged_id =
              session.tool_results[k2].response.staged_id => k1 = k2
  BY <1>4, <1>6 DEF Accounted, DoneOnce, n
<1>11. \A k \in used : session.tool_results[k].response.staged_id \in Nat
  BY IdsAreNumbers
<1>12. DoneOnce(new, drawn + 1)
  <2> HIDE DEF used
  <2>1. used \subseteq Keys
    BY DEF used, UsedKeys
  <2>2. /\ IsFiniteSet(UsedKeys(new))
        /\ Len(Work(new)) = Cardinality(UsedKeys(new))
    <3>1. IsFiniteSet(used \cup {key}) /\ Cardinality(used \cup {key}) = Cardinality(used) + 1
      BY <1>7, <1>10, FS_AddElement
    <3> QED BY <1>5, <1>6, <1>7, <1>10, <3>1
  <2>3. ASSUME NEW k \in UsedKeys(new)
        PROVE  /\ new.tool_results[k].response.staged_id <= drawn + 1
               /\ \E i \in DOMAIN Work(new) :
                    /\ Work(new)[i].call = new.tool_results[k].request_fingerprint
                    /\ Response(Work(new)[i].call, Work(new)[i].staged_id) =
                         new.tool_results[k].response
    <3>1. CASE k = key
      <4>1. n + 1 \in DOMAIN Work(new) /\ Work(new)[n + 1] = action
        BY <1>4, <1>5, <1>6
      <4>2. new.tool_results[k] = result
        BY <1>7, <3>1
      <4> QED BY <1>2, <4>1, <4>2
    <3>2. CASE k \in used
      <4>1. new.tool_results[k] = session.tool_results[k]
        BY <1>7, <2>1, <3>2
      <4>2. PICK i \in 1..n :
                 /\ staged[i].call = session.tool_results[k].request_fingerprint
                 /\ Response(staged[i].call, staged[i].staged_id) =
                      session.tool_results[k].response
        BY <1>10, <3>2
      <4>3. i \in DOMAIN Work(new) /\ Work(new)[i] = staged[i]
        BY <1>4, <1>5, <1>6
      <4> QED BY <1>10, <1>11, <3>2, <4>1, <4>2, <4>3
    <3> QED BY <1>7, <3>1, <3>2
  <2>4. ASSUME NEW k1 \in UsedKeys(new), NEW k2 \in UsedKeys(new),
               new.tool_results[k1].response.staged_id = new.tool_results[k2].response.staged_id
        PROVE  k1 = k2
    <3>1. new.tool_results[key].response.staged_id = drawn + 1
      BY <1>2, <1>7
    <3>2. \A k \in used : /\ new.tool_results[k] = session.tool_results[k]
                          /\ new.tool_results[k].response.staged_id < drawn + 1
      BY <1>7, <1>10, <1>11, <2>1
    <3> QED BY <1>7, <1>10, <2>4, <3>1, <3>2
  <2> QED BY <2>2, <2>3, <2>4 DEF DoneOnce
<1>13. SettledFaithfully(new) /\ RevertedFaithfully(new)
  BY <1>1 DEF SettledFaithfully, RevertedFaithfully
<1>14. Accounted(new, drawn + 1)
  BY <1>9, <1>12, <1>13 DEF Accounted
<1> QED BY <1>14 DEF new

(* The two plans hold what was staged, in their order, ties as staged.     *)
LEMMA PlansInOrder ==
  ASSUME NEW staged \in Seq(StagedActions),
         \A i, j \in DOMAIN staged : i < j => staged[i].staged_id < staged[j].staged_id
  PROVE  /\ Len(SettlementPlan(staged)) = Len(staged)
         /\ Len(RollbackPlan(staged)) = Len(staged)
         /\ Range(SettlementPlan(staged)) = Range(staged)
         /\ Range(RollbackPlan(staged)) = Range(staged)
         /\ Ordered(SettlementPlan(staged), LAMBDA a, b : a < b)
         /\ Ordered(RollbackPlan(staged), LAMBDA a, b : a > b)
<1> DEFINE n    == Len(staged)
           up   == [i \in 1..n |-> staged[i].settlement_order]
           down == [i \in 1..n |-> - staged[i].settlement_order]
<1>1. \A a \in StagedActions : a.settlement_order \in Nat
  BY DEF StagedActions
<1>2. /\ n \in Nat /\ DOMAIN staged = 1..n
      /\ \A i \in 1..n : staged[i].settlement_order \in Nat
  BY <1>1
<1>3. /\ SettlementPlan(staged) \in Seq(StagedActions) /\ Len(SettlementPlan(staged)) = n
      /\ RollbackPlan(staged) \in Seq(StagedActions) /\ Len(RollbackPlan(staged)) = n
      /\ StablySorts(SettlementPlan(staged), staged, up)
      /\ StablySorts(RollbackPlan(staged), staged, down)
  BY <1>1, PlansSort
<1>4. /\ \A i \in 1..n : up[i] = staged[i].settlement_order
      /\ \A i \in 1..n : down[i] = - staged[i].settlement_order
  OBVIOUS
<1> HIDE DEF n, up, down
<1>5. ASSUME NEW plan \in Seq(StagedActions), Len(plan) = n, NEW f, StablySorts(plan, staged, f)
      PROVE  /\ Range(plan) = Range(staged)
             /\ \A k, m \in DOMAIN plan : k < m =>
                  \E i, j \in 1..n :
                    /\ plan[k] = staged[i] /\ plan[m] = staged[j]
                    /\ \/ f[i] < f[j]
                       \/ f[i] = f[j] /\ staged[i].staged_id < staged[j].staged_id
  <2>1. PICK place \in [1..n -> 1..n] :
          /\ \A k \in 1..n : plan[k] = staged[place[k]]
          /\ \A i \in 1..n : \E k \in 1..n : place[k] = i
          /\ \A k, m \in 1..n : k < m =>
               f[place[k]] < f[place[m]] \/ (f[place[k]] = f[place[m]] /\ place[k] < place[m])
    BY <1>5 DEF StablySorts, n
  <2>2. DOMAIN plan = 1..n /\ DOMAIN staged = 1..n
    BY <1>2, <1>5
  <2>3. Range(plan) = Range(staged)
    BY <2>1, <2>2 DEF Range
  <2>4. ASSUME NEW k \in DOMAIN plan, NEW m \in DOMAIN plan, k < m
        PROVE  \E i, j \in 1..n :
                 /\ plan[k] = staged[i] /\ plan[m] = staged[j]
                 /\ \/ f[i] < f[j]
                    \/ f[i] = f[j] /\ staged[i].staged_id < staged[j].staged_id
    <3>1. PICK i \in 1..n : i = place[k]
      BY <2>1, <2>2
    <3>2. PICK j \in 1..n : j = place[m]
      BY <2>1, <2>2
    <3>3. /\ plan[k] = staged[i] /\ plan[m] = staged[j]
          /\ f[i] < f[j] \/ (f[i] = f[j] /\ i < j)
      BY <2>1, <2>2, <2>4, <3>1, <3>2
    <3>4. i < j => staged[i].staged_id < staged[j].staged_id
      BY <2>2
    <3> QED BY <3>3, <3>4
  <2> QED BY <2>3, <2>4
<1>6. Range(SettlementPlan(staged)) = Range(staged)
      /\ Range(RollbackPlan(staged)) = Range(staged)
  BY <1>3, <1>5
<1>7. Ordered(SettlementPlan(staged), LAMBDA a, b : a < b)
  <2> DEFINE plan == SettlementPlan(staged)
  <2>1. ASSUME NEW k \in DOMAIN plan, NEW m \in DOMAIN plan, k < m
        PROVE  \/ plan[k].settlement_order < plan[m].settlement_order
               \/ /\ plan[k].settlement_order = plan[m].settlement_order
                  /\ plan[k].staged_id < plan[m].staged_id
    <3>1. PICK i \in 1..n, j \in 1..n :
            /\ plan[k] = staged[i] /\ plan[m] = staged[j]
            /\ \/ up[i] < up[j]
               \/ up[i] = up[j] /\ staged[i].staged_id < staged[j].staged_id
      <4>1. plan \in Seq(StagedActions) /\ Len(plan) = n /\ StablySorts(plan, staged, up)
        BY <1>3
      <4> HIDE DEF plan
      <4> QED BY <1>5, <2>1, <4>1
    <3> QED BY <1>4, <3>1
  <2> QED BY <2>1 DEF Ordered
<1>8. Ordered(RollbackPlan(staged), LAMBDA a, b : a > b)
  <2> DEFINE plan == RollbackPlan(staged)
  <2>1. ASSUME NEW k \in DOMAIN plan, NEW m \in DOMAIN plan, k < m
        PROVE  \/ plan[k].settlement_order > plan[m].settlement_order
               \/ /\ plan[k].settlement_order = plan[m].settlement_order
                  /\ plan[k].staged_id < plan[m].staged_id
    <3>1. PICK i \in 1..n, j \in 1..n :
            /\ plan[k] = staged[i] /\ plan[m] = staged[j]
            /\ \/ down[i] < down[j]
               \/ down[i] = down[j] /\ staged[i].staged_id < staged[j].staged_id
      <4>1. plan \in Seq(StagedActions) /\ Len(plan) = n /\ StablySorts(plan, staged, down)
        BY <1>3
      <4> HIDE DEF plan
      <4> QED BY <1>5, <2>1, <4>1
    <3>2. /\ down[i] = - staged[i].settlement_order /\ staged[i].settlement_order \in Nat
          /\ down[j] = - staged[j].settlement_order /\ staged[j].settlement_order \in Nat
      BY <1>2, <1>4
    <3> QED BY <3>1, <3>2
  <2> QED BY <2>1 DEF Ordered
<1> QED BY <1>3, <1>6, <1>7, <1>8 DEF n

LEMMA SealedAccounted ==
  ASSUME NEW sid \in SessionIds, NEW session \in ActiveSessions, NEW key \in Keys, NEW drawn,
         Accounted(session, drawn), Revalidates(session), session.abort_result = None
  PROVE  Accounted(Sealed(sid, session, key), drawn)
<1> DEFINE new  == Sealed(sid, session, key)
           plan == SettlementPlan(session.staged_actions)
<1>1. /\ new.staged_actions = session.staged_actions
      /\ new.tool_results = session.tool_results
      /\ new.settlement_result = SealReceipt(sid, session)
      /\ new.abort_result = None
      /\ new.generation = session.generation
  BY DEF Sealed, ActiveSessions, SessionsWith
<1>2. SealReceipt(sid, session).settled_actions = plan
      /\ SealReceipt(sid, session).generation = session.generation
  BY DEF SealReceipt
<1>3. /\ Range(plan) = Range(session.staged_actions)
      /\ Len(plan) = Len(session.staged_actions)
      /\ Ordered(plan, LAMBDA a, b : a < b)
  <2>1. session.staged_actions \in Seq(StagedActions)
    BY DEF ActiveSessions, SessionsWith
  <2> QED BY <2>1, PlansInOrder DEF Accounted, StagedInOrder
<1> HIDE DEF new, plan
<1>4. SettledFaithfully(new)
  BY <1>1, <1>2, <1>3 DEF SettledFaithfully
<1>5. UsedKeys(new) = UsedKeys(session) /\ Work(new) = Work(session)
  BY <1>1 DEF UsedKeys, Work
<1>6. StagedInOrder(new, drawn) /\ DoneOnce(new, drawn)
  BY <1>1, <1>5 DEF Accounted, StagedInOrder, DoneOnce
<1>7. Accounted(new, drawn)
  BY <1>1, <1>4, <1>6 DEF Accounted, RevertedFaithfully
<1> QED BY <1>7 DEF new

(* The receipt of an abort is all that is left of the work, and enough.    *)
LEMMA AbortedAccounted ==
  ASSUME NEW sid \in SessionIds, NEW session \in ActiveSessions, NEW key \in Keys, NEW drawn,
         Accounted(session, drawn),
         session.settlement_result = None, session.abort_result = None
  PROVE  Accounted(AbortedBy(sid, session, key), drawn)
<1> DEFINE new    == AbortedBy(sid, session, key)
           staged == session.staged_actions
           plan   == RollbackPlan(staged)
<1>1. /\ new.staged_actions = << >>
      /\ new.tool_results = session.tool_results
      /\ new.settlement_result = None
      /\ new.abort_result = AbortReceipt(sid, session)
  BY DEF AbortedBy, ActiveSessions, SessionsWith
<1>2. AbortReceipt(sid, session).reverted_actions = plan
  BY DEF AbortReceipt
<1>3. AbortReceipt(sid, session) # None
  BY ReceiptType, NoneIsNoValue
<1>4. staged \in Seq(StagedActions)
  BY DEF ActiveSessions, SessionsWith
<1>5. /\ Range(plan) = Range(staged)
      /\ Len(plan) = Len(staged)
      /\ Ordered(plan, LAMBDA a, b : a > b)
  BY <1>4, PlansInOrder DEF Accounted, StagedInOrder
<1>6. \A i \in DOMAIN staged : \E k \in DOMAIN plan : plan[k] = staged[i]
  BY <1>5 DEF Range
<1> HIDE DEF new, plan, staged
<1>7. /\ Work(new) = plan
      /\ Work(session) = staged
      /\ UsedKeys(new) = UsedKeys(session)
  BY <1>1, <1>2, <1>3 DEF UsedKeys, Work, staged
<1>8. StagedInOrder(new, drawn)
  BY <1>1 DEF StagedInOrder
<1>9. DoneOnce(new, drawn)
  <2>1. ASSUME NEW k \in UsedKeys(session)
        PROVE  \E i \in DOMAIN plan :
                 /\ plan[i].call = new.tool_results[k].request_fingerprint
                 /\ Response(plan[i].call, plan[i].staged_id) = new.tool_results[k].response
    <3>1. PICK i \in DOMAIN staged :
            /\ staged[i].call = session.tool_results[k].request_fingerprint
            /\ Response(staged[i].call, staged[i].staged_id) = session.tool_results[k].response
      BY <1>7 DEF Accounted, DoneOnce
    <3>2. PICK m \in DOMAIN plan : plan[m] = staged[i]
      BY <1>6
    <3> QED BY <1>1, <3>1, <3>2
  <2>2. Len(plan) = Cardinality(UsedKeys(session))
    BY <1>5, <1>7 DEF Accounted, DoneOnce
  <2> QED BY <1>1, <1>7, <2>1, <2>2 DEF Accounted, DoneOnce
<1>10. SettledFaithfully(new) /\ RevertedFaithfully(new)
  BY <1>1, <1>2, <1>5 DEF SettledFaithfully, RevertedFaithfully
<1>11. Accounted(new, drawn)
  BY <1>8, <1>9, <1>10 DEF Accounted
<1> QED BY <1>11 DEF new

LEMMA ChangeAccounted ==
  ASSUME SessionsSound, NEW sid \in Live, NEW w \in Workers, Changes(w, sid),
         Accounted(sessions[sid], uuids), uuids' \in {uuids, uuids + 1}
  PROVE  Accounted(sessions'[sid], uuids')
<1> DEFINE r   == pending[w].request
           old == sessions[sid]
           new == sessions'[sid]
<1>1. sid \in SessionIds /\ old \in ActiveSessions /\ Sound(old) /\ uuids \in Nat
  BY DEF SessionsSound, TypeOK, Live
<1>2. Accounted(old, uuids')
  BY <1>1, LaterAccounted
<1>3. CASE Expires(w, sid)
  <2>1. new = [old EXCEPT !.status = "EXPIRED"]
    BY <1>3 DEF Expires, OnlyExpires
  <2>2. /\ new.staged_actions = old.staged_actions
        /\ new.tool_results = old.tool_results
        /\ new.settlement_result = old.settlement_result
        /\ new.abort_result = old.abort_result
        /\ new.generation = old.generation
    BY <1>1, <2>1 DEF ActiveSessions, SessionsWith
  <2> QED BY <1>2, <2>2, SameWorkAccounted
<1>4. CASE ActsOn(w, sid)
  <2>1. /\ old.settlement_result = None
        /\ old.abort_result = None
        /\ Revalidates(old)
    BY <1>1, <1>4 DEF ActsOn, Sound, Open
  <2>2. ASSUME \/ new = Amended(sid, old, r.budget_additions)
               \/ \E budget : new = [old EXCEPT !.remaining_budgets = budget]
        PROVE  Accounted(new, uuids')
    <3>1. /\ new.staged_actions = old.staged_actions
          /\ new.tool_results = old.tool_results
          /\ new.settlement_result = old.settlement_result
          /\ new.abort_result = old.abort_result
      BY <1>1, <2>2 DEF Amended, ActiveSessions, SessionsWith
    <3> QED BY <1>2, <2>1, <3>1, SameWorkAccounted
  <2>3. CASE /\ r.idempotency_key \in Keys
             /\ r.call \in Calls
             /\ old.tool_results[r.idempotency_key] = None
             /\ uuids' = uuids + 1
             /\ new = Staged(old, r.idempotency_key, r.call, uuids + 1)
    BY <1>1, <2>1, <2>3, StagedAccounted
  <2>4. CASE r.idempotency_key \in Keys /\ new = Sealed(sid, old, r.idempotency_key)
    BY <1>1, <1>2, <2>1, <2>4, SealedAccounted
  <2>5. CASE r.idempotency_key \in Keys /\ new = AbortedBy(sid, old, r.idempotency_key)
    BY <1>1, <1>2, <2>1, <2>5, AbortedAccounted
  <2> QED BY <1>4, <2>2, <2>3, <2>4, <2>5 DEF ActsOn
<1> QED BY <1>3, <1>4 DEF Changes

(* No step draws more than one id.                                         *)
LEMMA DrawsOne ==
  ASSUME TypeOK, [Next]_vars
  PROVE  uuids' \in {uuids, uuids + 1}
<1>1. CASE Tick \/ UNCHANGED vars
  BY <1>1 DEF Tick, vars
<1>2. ASSUME NEW w \in Workers, Receive(w) \/ Refuse(w) \/ Undispatched(w) \/ Serve(w)
      PROVE  uuids' \in {uuids, uuids + 1}
  <2>1. CASE Receive(w) \/ Quiet(w)
    BY <2>1, QuietType DEF Receive, Accept
  <2>2. CASE \/ ConsumeDelegation(w) \/ DelegationConsumed(w) \/ InsertSession(w)
             \/ Amend(w) \/ CallExpires(w) \/ CallHalfCharged(w) \/ CallStaged(w)
             \/ Seal(w) \/ Abort(w)
    BY <2>2 DEF ConsumeDelegation, DelegationConsumed, InsertSession, Amend, CallExpires,
       CallHalfCharged, CallStaged, Seal, Abort
  <2> QED BY <1>2, <2>1, <2>2 DEF Serve, Quiet
<1> QED BY <1>1, <1>2 DEF Next

LEMMA WorkInit == Init => WorkInv
<1> SUFFICES ASSUME Init PROVE WorkInv
  OBVIOUS
<1>1. Live = {}
  BY DEF Init, Live
<1> QED BY <1>1, LifecycleInit DEF WorkInv, LifecycleInv

LEMMA WorkStep == WorkInv /\ [Next]_vars => WorkInv'
<1> SUFFICES ASSUME WorkInv, [Next]_vars PROVE WorkInv'
  OBVIOUS
<1>1. SessionsSound /\ TypeOK
  BY DEF WorkInv, SessionsSound
<1>2. SessionsSound'
  BY <1>1, SoundStep
<1>3. uuids \in Nat /\ uuids' \in {uuids, uuids + 1}
  BY <1>1, DrawsOne DEF TypeOK
<1>4. ASSUME NEW sid \in SessionIds, sessions'[sid] # None
      PROVE  Accounted(sessions'[sid], uuids')
  <2>1. CASE sid \in Live
    <3>1. Accounted(sessions[sid], uuids)
      BY <2>1 DEF WorkInv
    <3>2. CASE sessions'[sid] = sessions[sid]
      <4>1. sessions[sid] \in ActiveSessions
        BY <1>1, <2>1 DEF TypeOK, Live
      <4> QED BY <1>3, <3>1, <3>2, <4>1, LaterAccounted
    <3>3. CASE \E w \in Workers : Changes(w, sid)
      BY <1>1, <1>3, <2>1, <3>1, <3>3, ChangeAccounted
    <3> QED BY <1>1, <2>1, <3>2, <3>3, SessionStep
  <2>2. CASE sid \notin Live
    <3>1. sessions[sid] = None
      BY <2>2 DEF Live
    <3>2. \E r, t : sessions'[sid] = NewSession(sid, r, t)
      BY <1>1, <1>4, <3>1, Inserted
    <3> QED BY <3>2, NewAccounted
  <2> QED BY <2>1, <2>2
<1>5. \A sid \in Live' : Accounted(sessions'[sid], uuids')
  BY <1>4 DEF Live
<1>6. (\A sid \in Live : Accounted(sessions[sid], uuids))'
  BY <1>5 DEF Accounted, StagedInOrder, DoneOnce, SettledFaithfully, RevertedFaithfully,
     Work, UsedKeys, Ordered, Range, Response
<1> QED BY <1>2, <1>6 DEF WorkInv

LEMMA WorkHolds == Spec => []WorkInv
  BY WorkInit, WorkStep, PTL DEF Spec

(* Retries stage nothing twice and nothing is staged without a record: the *)
(* actions of a session, settled or rolled back, are one for one the       *)
(* results recorded under its idempotency keys.                            *)
THEOREM StagedExactlyOnce == Spec => []ExactlyOnce
<1>1. WorkInv => ExactlyOnce
  BY DEF WorkInv, Accounted, DoneOnce, ExactlyOnce
<1> QED BY <1>1, WorkHolds, PTL

(* A settlement receipt lists all that was staged, in settlement order,    *)
(* under the generation that sealed; an abort receipt runs the other way.  *)
THEOREM ReceiptsAreFaithful == Spec => []ReceiptFaithful
<1>1. WorkInv => ReceiptFaithful
  BY DEF WorkInv, Accounted, SettledFaithfully, RevertedFaithfully, ReceiptFaithful
<1> QED BY <1>1, WorkHolds, PTL
-----------------------------------------------------------------------------
(* Answers.  A success comes from the handler of the one who asked.        *)
LEMMA OnlyServedSucceed ==
  ASSUME Next, reply'.code = "OK"
  PROVE  \E w \in Workers :
           /\ reply'.to = w
           /\ \/ InsertSession(w) \/ Amend(w) \/ CallReplayed(w) \/ CallStaged(w)
              \/ SealReplayed(w) \/ Seal(w) \/ AbortReplayed(w) \/ Abort(w)
<1>1. CASE Tick
  BY <1>1 DEF Tick, NoReply
<1>2. ASSUME NEW w \in Workers, Receive(w) \/ Refuse(w) \/ Undispatched(w)
      PROVE  FALSE
  BY <1>2 DEF Receive, Accept, NoReply, Refuse, Decline, Undispatched
<1>3. ASSUME NEW w \in Workers, NEW code, NEW result, Answer(w, code, result)
      PROVE  code = "OK" /\ reply'.to = w
  BY <1>3 DEF Answer
<1>4. ASSUME NEW w \in Workers, Serve(w)
      PROVE  /\ reply'.to = w
             /\ \/ InsertSession(w) \/ Amend(w) \/ CallReplayed(w) \/ CallStaged(w)
                \/ SealReplayed(w) \/ Seal(w) \/ AbortReplayed(w) \/ Abort(w)
  <2>1. CASE ConsumeDelegation(w)
    BY <2>1 DEF ConsumeDelegation, NoReply
  <2>2. CASE DelegationConsumed(w) \/ UnknownSession(w) \/ CallExpires(w) \/ CallHalfCharged(w)
    BY <1>3, <2>2 DEF DelegationConsumed, UnknownSession, CallExpires, CallHalfCharged
  <2>3. CASE AmendRejected(w) \/ CallRejected(w) \/ SealRejected(w) \/ AbortRejected(w)
    BY <1>3, <2>3 DEF AmendRejected, CallRejected, SealRejected, AbortRejected, Rejects
  <2>4. CASE \/ InsertSession(w) \/ Amend(w) \/ CallReplayed(w) \/ CallStaged(w)
             \/ SealReplayed(w) \/ Seal(w) \/ AbortReplayed(w) \/ Abort(w)
    <3>1. \E code, result : Answer(w, code, result)
      BY <2>4 DEF InsertSession, Amend, CallReplayed, CallStaged, SealReplayed, Seal,
         AbortReplayed, Abort
    <3> QED BY <1>3, <2>4, <3>1
  <2> QED BY <1>4, <2>1, <2>2, <2>3, <2>4 DEF Serve
<1> QED BY <1>1, <1>2, <1>4 DEF Next

(* What a success says is what the session has on record.                  *)
LEMMA CallsAreRecorded ==
  ASSUME TypeOK, NEW w \in Workers, CallReplayed(w) \/ CallStaged(w)
  PROVE  LET r == pending[w].request IN
         sessions'[r.session_id].tool_results[r.idempotency_key] =
           [request_fingerprint |-> r.call, response |-> reply'.result]
<1> DEFINE r == pending[w].request
<1>1. Finds(w, "tools/call") /\ CallOutcome(r, Found(w), pending[w].now_ms) = "OK"
  BY DEF CallReplayed, CallStaged, FreshCall, CallAccepted
<1>2. /\ r \in CheckedRequests /\ r.method = "tools/call"
      /\ r.session_id \in SessionIds
      /\ Found(w) \in ActiveSessions
  BY <1>1, FoundType
<1>3. r.idempotency_key \in Keys
  BY <1>2 DEF CheckedRequests, ProposeRequests
<1>4. CASE CallReplayed(w)
  <2> DEFINE cached == Found(w).tool_results[r.idempotency_key]
  <2>1. cached # None /\ cached \in ToolResults
    BY <1>2, <1>3, <1>4 DEF CallReplayed, ActiveSessions, SessionsWith
  <2>2. cached.request_fingerprint = r.call
    BY <1>1, <2>1 DEF CallOutcome
  <2>3. reply'.result = cached.response /\ sessions' = sessions
    BY <1>4 DEF CallReplayed, Answer
  <2>4. cached = [request_fingerprint |-> cached.request_fingerprint,
                  response |-> cached.response]
    BY <2>1 DEF ToolResults
  <2> QED BY <2>2, <2>3, <2>4 DEF Found
<1>5. CASE CallStaged(w)
  <2> DEFINE new == Staged(Found(w), r.idempotency_key, r.call, uuids + 1)
  <2>1. reply'.result = Response(r.call, uuids + 1)
    BY <1>5 DEF CallStaged, Answer
  <2>2. new.tool_results = [Found(w).tool_results EXCEPT ![r.idempotency_key] =
          [request_fingerprint |-> r.call, response |-> Response(r.call, uuids + 1)]]
    BY <1>2 DEF Staged, ActiveSessions, SessionsWith
  <2>3. sessions'[r.session_id] = new
    BY <1>2, <1>5 DEF CallStaged, Store, TypeOK
  <2>4. Found(w).tool_results \in [Keys -> ToolResults \cup {None}]
    BY <1>2 DEF ActiveSessions, SessionsWith
  <2> HIDE DEF new
  <2> QED BY <1>3, <2>1, <2>2, <2>3, <2>4
<1> QED BY <1>4, <1>5

LEMMA SealsAreRecorded ==
  ASSUME TypeOK, NEW w \in Workers, SealReplayed(w) \/ Seal(w), reply'.code = "OK"
  PROVE  LET r   == pending[w].request
             new == sessions'[r.session_id]
         IN  /\ new.seal_idempotency_key = r.idempotency_key
             /\ new.settlement_result = reply'.result
<1> DEFINE r == pending[w].request
<1>1. Finds(w, "intent/seal") /\ SealOutcome(r, Found(w), pending[w].now_ms) = "OK"
  BY DEF SealReplayed, Seal, SealAccepted
<1>2. r.session_id \in SessionIds /\ Found(w) \in ActiveSessions
  BY <1>1, FoundType
<1>3. CASE SealReplayed(w)
  <2>1. /\ Found(w).status = "SETTLED"
        /\ reply'.result = Found(w).settlement_result
        /\ sessions' = sessions
    BY <1>3 DEF SealReplayed, Answer
  <2>2. r.idempotency_key = Found(w).seal_idempotency_key
    BY <1>1, <2>1 DEF SealOutcome, ReplayOutcome
  <2> QED BY <2>1, <2>2 DEF Found
<1>4. CASE Seal(w)
  <2> DEFINE new == Sealed(r.session_id, Found(w), r.idempotency_key)
  <2>1. sessions'[r.session_id] = new
    BY <1>2, <1>4 DEF Seal, Store, TypeOK
  <2>2. new.status = "SETTLED" /\ reply'.result = new.settlement_result
    BY <1>4 DEF Seal, Answer
  <2>3. Revalidates(Found(w))
    BY <1>2, <2>2 DEF Sealed, ActiveSessions, SessionsWith
  <2>4. new.seal_idempotency_key = r.idempotency_key
    BY <1>2, <2>3 DEF Sealed, ActiveSessions, SessionsWith
  <2> HIDE DEF new
  <2> QED BY <2>1, <2>2, <2>4
<1> QED BY <1>3, <1>4

LEMMA AbortsAreRecorded ==
  ASSUME TypeOK, NEW w \in Workers, AbortReplayed(w) \/ Abort(w)
  PROVE  LET r   == pending[w].request
             new == sessions'[r.session_id]
         IN  /\ new.abort_idempotency_key = r.idempotency_key
             /\ new.abort_result = reply'.result
<1> DEFINE r == pending[w].request
<1>1. Finds(w, "intent/abort") /\ AbortOutcome(r, Found(w), pending[w].now_ms) = "OK"
  BY DEF AbortReplayed, Abort, AbortAccepted
<1>2. r.session_id \in SessionIds /\ Found(w) \in ActiveSessions
  BY <1>1, FoundType
<1>3. CASE AbortReplayed(w)
  <2>1. /\ Found(w).status = "ABORTED"
        /\ reply'.result = Found(w).abort_result
        /\ sessions' = sessions
    BY <1>3 DEF AbortReplayed, Answer
  <2>2. r.idempotency_key = Found(w).abort_idempotency_key
    BY <1>1, <2>1 DEF AbortOutcome, ReplayOutcome
  <2> QED BY <2>1, <2>2 DEF Found
<1>4. CASE Abort(w)
  <2> DEFINE new == AbortedBy(r.session_id, Found(w), r.idempotency_key)
  <2>1. sessions'[r.session_id] = new
    BY <1>2, <1>4 DEF Abort, Store, TypeOK
  <2>2. reply'.result = new.abort_result
    BY <1>4 DEF Abort, Answer
  <2>3. new.abort_idempotency_key = r.idempotency_key
    BY <1>2 DEF AbortedBy, ActiveSessions, SessionsWith
  <2> HIDE DEF new
  <2> QED BY <2>1, <2>2, <2>3
<1> QED BY <1>3, <1>4

(* Every success is on record, under the key of the request, exactly as it *)
(* was answered: whether the work was done in this step or long before.    *)
THEOREM AnswersAreOnRecord == Spec => RepliesAreRecorded
<1> DEFINE Recorded ==
      \A w \in Workers :
        LET r   == pending[w].request
            new == sessions'[r.session_id]
        IN  /\ Succeeds(w, "tools/call") =>
                 new.tool_results[r.idempotency_key] =
                   [request_fingerprint |-> r.call, response |-> reply'.result]
            /\ Succeeds(w, "intent/seal") =>
                 /\ new.seal_idempotency_key = r.idempotency_key
                 /\ new.settlement_result = reply'.result
            /\ Succeeds(w, "intent/abort") =>
                 /\ new.abort_idempotency_key = r.idempotency_key
                 /\ new.abort_result = reply'.result
<1>1. ASSUME TypeOK, Next
      PROVE  Recorded
  <2> SUFFICES ASSUME NEW w \in Workers, NEW method, Succeeds(w, method)
               PROVE  LET r   == pending[w].request
                          new == sessions'[r.session_id]
                      IN  /\ method = "tools/call" =>
                               new.tool_results[r.idempotency_key] =
                                 [request_fingerprint |-> r.call, response |-> reply'.result]
                          /\ method = "intent/seal" =>
                               /\ new.seal_idempotency_key = r.idempotency_key
                               /\ new.settlement_result = reply'.result
                          /\ method = "intent/abort" =>
                               /\ new.abort_idempotency_key = r.idempotency_key
                               /\ new.abort_result = reply'.result
    OBVIOUS
  <2>1. /\ pending[w].status = "checked"
        /\ pending[w].request.method = method
        /\ reply'.code = "OK" /\ reply'.to = w
    BY DEF Succeeds
  <2>2. \/ InsertSession(w) \/ Amend(w) \/ CallReplayed(w) \/ CallStaged(w)
        \/ SealReplayed(w) \/ Seal(w) \/ AbortReplayed(w) \/ Abort(w)
    BY <1>1, <2>1, OnlyServedSucceed
  <2>3. ~ InsertSession(w) /\ (Amend(w) => method = "intent/amend")
    BY <2>1 DEF InsertSession, Amend, Finds, Checked
  <2>4. /\ CallReplayed(w) \/ CallStaged(w) => method = "tools/call"
        /\ SealReplayed(w) \/ Seal(w) => method = "intent/seal"
        /\ AbortReplayed(w) \/ Abort(w) => method = "intent/abort"
    BY <2>1 DEF CallReplayed, CallStaged, FreshCall, CallAccepted, SealReplayed, Seal,
       SealAccepted, AbortReplayed, Abort, AbortAccepted, Finds, Checked
  <2> QED BY <1>1, <2>1, <2>2, <2>3, <2>4, CallsAreRecorded, SealsAreRecorded, AbortsAreRecorded
<1>2. TypeOK /\ [Next]_vars => [Recorded]_vars
  BY <1>1
<1> QED BY <1>2, TypeCorrect, PTL DEF Spec, RepliesAreRecorded
-----------------------------------------------------------------------------
(* Refusals.                                                               *)
AdaptersCovered == \A tool \in DOMAIN Adapters : Covered(Adapters[tool])

LEMMA NeverHalfCharged ==
  ASSUME TypeOK, AdaptersCovered, NEW w \in Workers
  PROVE  ~ CallHalfCharged(w)
<1> SUFFICES ASSUME CallHalfCharged(w) PROVE FALSE
  OBVIOUS
<1> DEFINE r      == pending[w].request
           budget == Found(w).remaining_budgets
<1>1. Finds(w, "tools/call") /\ FreshCall(w) /\ ~ Deductible(budget, PendingCharges(w))
  BY DEF CallHalfCharged, FreshCall, CallAccepted
<1>2. /\ r \in CheckedRequests /\ r.method = "tools/call"
      /\ Found(w) \in ActiveSessions
  BY <1>1, FoundType
<1>3. r.call.name \in DOMAIN Adapters /\ budget \in Budgets
  BY <1>2 DEF CheckedRequests, ProposeRequests, ActiveSessions, SessionsWith
<1>4. FreshCallOutcome(r.call, Found(w)) = "OK"
  BY <1>1 DEF FreshCall, CallAccepted, CallOutcome
<1>5. /\ Chargeable(Adapters[r.call.name], r.call.arguments)
      /\ Affordable(budget, Charges(Adapters[r.call.name], r.call.arguments))
  BY <1>4 DEF FreshCallOutcome, ChargesFault
<1>6. WellDeclared(Adapters[r.call.name]) /\ Covered(Adapters[r.call.name])
  BY <1>3, InputAssumption DEF AdaptersCovered
<1> HIDE DEF budget
<1>7. Deductible(budget, Charges(Adapters[r.call.name], r.call.arguments))
  BY <1>3, <1>5, <1>6, CoveredIsDeductible
<1> QED BY <1>1, <1>7 DEF PendingCharges

LEMMA SealSettles ==
  ASSUME SessionsSound, NEW w \in Workers, Seal(w)
  PROVE  reply'.code = "OK"
<1> DEFINE r == pending[w].request
<1>1. Finds(w, "intent/seal") /\ SealOutcome(r, Found(w), pending[w].now_ms) = "OK"
  BY DEF Seal, SealAccepted
<1>2. /\ r \in CheckedRequests /\ r.method = "intent/seal"
      /\ r.session_id \in SessionIds
      /\ Found(w) \in ActiveSessions
      /\ Found(w).status \in Open
  BY <1>1, FoundType DEF SessionsSound, SealOutcome, Seal
<1>3. r.idempotency_key \in Keys
  BY <1>2 DEF CheckedRequests, ProposeRequests
<1>4. Sound(Found(w))
  BY <1>1, <1>2 DEF SessionsSound, Live, Finds, Found
<1>5. Sealed(r.session_id, Found(w), r.idempotency_key).status = "SETTLED"
  BY <1>2, <1>3, <1>4, SealedSound
<1> QED BY <1>5 DEF Seal, Answer

(* With adapters whose charges are never zero on a dimension that an       *)
(* envelope may lack - the built-in ones are such, and CallHalfCharged is  *)
(* what happens with others - a request that is answered with an error     *)
(* consumes no delegation and changes no session, but for one that it      *)
(* finds past its deadline.                                                *)
THEOREM RefusalsLeaveNoTrace ==
  ASSUME AdaptersCovered
  PROVE  Spec => RejectionChangesNothing
<1> DEFINE Harmless ==
      reply'.code \notin {"OK", "none"} =>
        /\ used_delegations' = used_delegations
        /\ \A sid \in SessionIds :
             sessions'[sid] = sessions[sid] \/ (sid \in Live /\ OnlyExpires(sid))
<1>1. ASSUME SessionsSound, Next
      PROVE  Harmless
  <2> SUFFICES ASSUME reply'.code \notin {"OK", "none"}
               PROVE  /\ used_delegations' = used_delegations
                      /\ \A sid \in SessionIds :
                           sessions'[sid] = sessions[sid] \/ (sid \in Live /\ OnlyExpires(sid))
    OBVIOUS
  <2>1. TypeOK
    BY <1>1 DEF SessionsSound
  <2>2. PICK w \in Workers : Refuse(w) \/ Undispatched(w) \/ Serve(w)
    BY <1>1 DEF Next, Tick, Receive, Accept, NoReply
  <2>3. CASE Quiet(w) \/ DelegationConsumed(w)
    BY <2>1, <2>3, QuietType DEF DelegationConsumed
  <2>4. CASE ConsumeDelegation(w)
    BY <2>4 DEF ConsumeDelegation, NoReply
  <2>5. CASE InsertSession(w) \/ Amend(w) \/ CallStaged(w) \/ Abort(w)
    <3>1. \E result : Answer(w, "OK", result)
      BY <2>5 DEF InsertSession, Amend, CallStaged, Abort
    <3>2. reply'.code = "OK"
      BY <3>1 DEF Answer
    <3> QED BY <3>2
  <2>6. CASE CallHalfCharged(w)
    BY <2>1, <2>6, NeverHalfCharged
  <2>7. CASE Seal(w)
    BY <1>1, <2>7, SealSettles
  <2>8. CASE CallExpires(w)
    <3> DEFINE sid == pending[w].request.session_id
    <3>1. sid \in Live /\ sessions' = [sessions EXCEPT ![sid] = sessions'[sid]]
      BY <2>1, <2>8, WorkerChanges
    <3>2. sessions'[sid] = [Found(w) EXCEPT !.status = "EXPIRED"]
      BY <2>1, <2>8, <3>1 DEF CallExpires, Store, TypeOK, Live
    <3>3. OnlyExpires(sid)
      BY <3>2 DEF OnlyExpires, Found
    <3>4. \A s \in SessionIds : s # sid => sessions'[s] = sessions[s]
      BY <2>1, <3>1 DEF TypeOK
    <3>5. used_delegations' = used_delegations
      BY <2>8 DEF CallExpires
    <3> QED BY <3>1, <3>3, <3>4, <3>5
  <2> QED BY <2>2, <2>3, <2>4, <2>5, <2>6, <2>7, <2>8 DEF Serve, Quiet
<1>2. LifecycleInv /\ [Next]_vars => [Harmless]_vars
  BY <1>1 DEF LifecycleInv
<1> QED BY <1>2, LifecycleHolds, PTL DEF Spec, RejectionChangesNothing

COROLLARY BuiltInRefusalsLeaveNoTrace ==
  ASSUME Adapters = BuiltInAdapters
  PROVE  Spec => RejectionChangesNothing
<1>1. AdaptersCovered
  BY BuiltInsAreCovered DEF AdaptersCovered
<1> QED BY <1>1, RefusalsLeaveNoTrace
=============================================================================
