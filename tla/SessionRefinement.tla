------------------------- MODULE SessionRefinement -------------------------
(***************************************************************************)
(* The session manager implements Envelope: the refinement mapping.        *)
(***************************************************************************)
EXTENDS SessionProperties

AmountOf(budget) == [d \in Dims |-> Value(budget, d)]

(* What a tool call is charged on a dimension.                             *)
ChargeOf(call, d) ==
  LET adapter == Adapters[call.name]
      charges == Charges(adapter, call.arguments)
  IN  IF Chargeable(adapter, call.arguments) /\ d \in DOMAIN charges THEN charges[d] ELSE 0

StagedIds(actions) == {actions[i].staged_id : i \in DOMAIN actions}

(* The outcome is what the receipts say; the status alone is not it.       *)
OutcomeOf(session) ==
  IF session.settlement_result # None THEN "settled"
  ELSE IF session.abort_result # None THEN "reverted"
  ELSE IF session.status = "EXPIRED"  THEN "lapsed"
  ELSE "open"

ResultOf(session) ==
  IF session.settlement_result # None THEN StagedIds(session.settlement_result.settled_actions)
  ELSE IF session.abort_result # None THEN StagedIds(session.abort_result.reverted_actions)
  ELSE {}

DoneOf(session) ==
  [k \in Keys |->
     IF session.tool_results[k] = None THEN None
     ELSE [task   |-> session.tool_results[k].request_fingerprint,
           number |-> session.tool_results[k].response.staged_id]]

EnvelopeOf(session) ==
  [owner      |-> session.identity,
   generation |-> session.generation,
   left       |-> AmountOf(session.remaining_budgets),
   done       |-> DoneOf(session),
   outcome    |-> OutcomeOf(session),
   result     |-> ResultOf(session)]

(* None stands for an envelope that is not there and a task not done.      *)
DoneTasks == [task : Calls, number : Nat]

Envelopes ==
  [owner : Identities, generation : Nat \ {0}, left : [Dims -> Nat],
   done : [Keys -> DoneTasks \cup {None}],
   outcome : {"open", "settled", "reverted", "lapsed"}, result : SUBSET Nat]

ASSUME NoneIsNoEnvelope == None \notin DoneTasks \cup Envelopes

Promise == INSTANCE Envelope WITH
  Ids       <- SessionIds,
  Tasks     <- {c \in Calls : c.name \in DOMAIN Adapters},
  Grants    <- {AmountOf(b) : b \in {p.budgets : p \in Proposals} \cup Additions},
  Cost      <- ChargeOf,
  envelopes <- [sid \in SessionIds |->
                  IF sessions[sid] = None THEN None ELSE EnvelopeOf(sessions[sid])],
  spent     <- {d \in Delegations : backing[d] # None},
  drawn     <- uuids

(* Whatever the workers do at the same time, a client that looks at        *)
(* receipts, recorded results, budgets and delegations sees an Envelope:   *)
(* every step of the session manager is one of its steps, or none.         *)
ImplementsEnvelope == Promise!Spec
=============================================================================
