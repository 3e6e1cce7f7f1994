------------------------------ MODULE Envelope ------------------------------
(***************************************************************************)
(* What the guard promises about execution envelopes, without workers,     *)
(* locks, capabilities, statuses or clocks: an envelope is backed by       *)
(* delegation tokens, each of which is spent once, does each task once and *)
(* within its budget, and ends by handing over all it did, or by taking    *)
(* all of it back.  Tokens are told apart as they are presented, also when *)
(* they carry one proof.                                                   *)
(***************************************************************************)
EXTENDS Integers

CONSTANTS
  Ids,          \* names of envelopes
  Delegations,  \* tokens, told apart as presented; with the field identity
  Keys,         \* under which tasks are asked for
  Tasks,
  Dims,         \* the dimensions of a budget
  Grants,       \* what a token may bring: functions from Dims to Nat
  Cost(_, _),   \* what a task costs on a dimension
  None

VARIABLES
  envelopes,    \* id -> envelope, None before it is admitted
  spent,        \* the tokens that back an envelope, as they were presented
  drawn         \* how many tasks were done; every task gets a number

promised == <<envelopes, spent, drawn>>

NewEnvelope(owner, grant) ==
  [owner |-> owner, generation |-> 1, left |-> grant,
   done |-> [k \in Keys |-> None], outcome |-> "open", result |-> {}]

IsOpen(e) == envelopes[e] # None /\ envelopes[e].outcome = "open"

(* The numbers of the tasks an envelope did.                               *)
Numbers(e) ==
  {envelopes[e].done[k].number : k \in {k \in Keys : envelopes[e].done[k] # None}}

Init ==
  /\ envelopes = [e \in Ids |-> None]
  /\ spent = {}
  /\ drawn = 0

Admit(e, d, grant) ==
  /\ d \notin spent
  /\ spent' = spent \cup {d}
  /\ envelopes[e] = None
  /\ envelopes' = [envelopes EXCEPT ![e] = NewEnvelope(d.identity, grant)]
  /\ UNCHANGED drawn

(* One more token, of the same owner: the budget and the generation grow.  *)
Widen(e, d, grant) ==
  LET old == envelopes[e] IN
  /\ d \notin spent
  /\ spent' = spent \cup {d}
  /\ IsOpen(e)
  /\ d.identity = old.owner
  /\ envelopes' = [envelopes EXCEPT ![e] =
       [old EXCEPT !.generation = old.generation + 1,
                   !.left = [dim \in Dims |-> old.left[dim] + grant[dim]]]]
  /\ UNCHANGED drawn

(* A task is done once under its key, and paid for.                        *)
Perform(e, k, task) ==
  LET old == envelopes[e] IN
  /\ drawn' = drawn + 1
  /\ IsOpen(e)
  /\ old.done[k] = None
  /\ \A dim \in Dims : Cost(task, dim) <= old.left[dim]
  /\ envelopes' = [envelopes EXCEPT ![e] =
       [old EXCEPT !.done = [old.done EXCEPT ![k] =
                               [task |-> task, number |-> drawn + 1]],
                   !.left = [dim \in Dims |-> old.left[dim] - Cost(task, dim)]]]
  /\ UNCHANGED spent

(* Budget may get lost, but never appears from nowhere.                    *)
Forfeit(e) ==
  LET old  == envelopes[e]
      left == envelopes'[e].left
  IN
  /\ IsOpen(e)
  /\ left # old.left
  /\ \A dim \in Dims : left[dim] <= old.left[dim]
  /\ envelopes' = [envelopes EXCEPT ![e] = [old EXCEPT !.left = left]]
  /\ UNCHANGED <<spent, drawn>>

(* The end: what was done is handed over or taken back, all of it and      *)
(* nothing else; or time runs out and neither happens.                     *)
Close(e, outcome) ==
  LET old == envelopes[e] IN
  /\ IsOpen(e)
  /\ envelopes'[e].outcome = outcome
  /\ envelopes' = [envelopes EXCEPT ![e] =
       [old EXCEPT !.outcome = outcome,
                   !.result  = IF outcome = "lapsed" THEN {} ELSE Numbers(e)]]
  /\ UNCHANGED <<spent, drawn>>

Next ==
  \E e \in Ids :
    \/ \E d \in Delegations, grant \in Grants : Admit(e, d, grant) \/ Widen(e, d, grant)
    \/ \E k \in Keys, task \in Tasks : Perform(e, k, task)
    \/ Forfeit(e)
    \/ \E outcome \in {"settled", "reverted", "lapsed"} : Close(e, outcome)

Spec == Init /\ [][Next]_promised
=============================================================================
