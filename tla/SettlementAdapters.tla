------------------------- MODULE SettlementAdapters -------------------------
(***************************************************************************)
(* What a settlement adapter declares about a tool, and the three pure     *)
(* computations the session manager makes from the declaration: the        *)
(* resources a call touches, the charges it costs, and the order in which  *)
(* a set of staged actions is settled or rolled back.                      *)
(*                                                                         *)
(* A registered tool is a record                                           *)
(*   resource_arguments : set of [argument, scope_prefix]                  *)
(*   budget_charges     : sequence of [dimension, argument, constant],     *)
(*                        argument and constant being None when absent     *)
(*   settlement_order   : Nat                                              *)
(***************************************************************************)
EXTENDS TypedBudgets, Sequences, FiniteSets, FiniteSetsExt

(* A declaration that deserializes: a list of charges, its numbers u64.    *)
WellDeclared(tool) ==
  /\ tool.settlement_order \in Nat
  /\ IsFiniteSet(DOMAIN tool.budget_charges)
  /\ \A i \in DOMAIN tool.budget_charges : tool.budget_charges[i].constant \in Nat \cup {None}

Json == INSTANCE CedarPolicy WITH Malformed <- {}

(* The three declarations compiled into the binary (adapters/*.yaml).      *)
PostgresOrdersUpdate ==
  [resource_arguments |-> {[argument |-> "order_id", scope_prefix |-> "order"]},
   budget_charges     |-> <<[dimension |-> "database.mutations.count",
                             argument |-> None, constant |-> 1]>>,
   settlement_order   |-> 10]

StripePaymentIntentsCreate ==
  [resource_arguments |-> {[argument |-> "customer_id", scope_prefix |-> "customer"]},
   budget_charges     |-> <<[dimension |-> "money.minor.USD.hold",
                             argument |-> "amount_minor", constant |-> None],
                            [dimension |-> "money.minor.USD.capture",
                             argument |-> "amount_minor", constant |-> None]>>,
   settlement_order   |-> 20]

TwilioMessagesCreate ==
  [resource_arguments |-> {},
   budget_charges     |-> <<[dimension |-> "external_notifications.count",
                             argument |-> None, constant |-> 1]>>,
   settlement_order   |-> 100]

BuiltInAdapters ==
  [tool \in {"postgres.orders.update", "stripe.payment_intents.create",
             "twilio.messages.create"} |->
     CASE tool = "postgres.orders.update"        -> PostgresOrdersUpdate
       [] tool = "stripe.payment_intents.create" -> StripePaymentIntentsCreate
       [] tool = "twilio.messages.create"        -> TwilioMessagesCreate]
-----------------------------------------------------------------------------
(* validate_resource_scope.                                                *)
Unscoped == "unscoped"

Qualified(resource_argument, arguments) ==
  resource_argument.scope_prefix \o ":" \o arguments[resource_argument.argument].value

InScope(adapter, arguments, target_resources) ==
  \A ra \in adapter.resource_arguments :
    /\ Json!HasType(arguments, ra.argument, "string")
    /\ Qualified(ra, arguments) \in target_resources

MatchedResources(adapter, arguments) ==
  IF adapter.resource_arguments = {}
  THEN {Unscoped}
  ELSE {Qualified(ra, arguments) : ra \in adapter.resource_arguments}
-----------------------------------------------------------------------------
(* calculate_budget_charges.  A charge takes its amount from an argument,  *)
(* which must then be a u64, or from the declared constant.                *)
HasAmount(charge, arguments) ==
  IF charge.argument # None
  THEN /\ Json!HasType(arguments, charge.argument, "integer")
       /\ arguments[charge.argument].value \in U64
  ELSE charge.constant # None

Amount(charge, arguments) ==
  IF charge.argument # None THEN arguments[charge.argument].value
                            ELSE charge.constant

(* Mutant of Charges: the last charge on a dimension replaces the others.  *)
ChargesLastWins(adapter, arguments) ==
  LET charges == adapter.budget_charges
      On(d)   == {i \in DOMAIN charges : charges[i].dimension = d}
  IN  [d \in {charges[i].dimension : i \in DOMAIN charges} |->
         Amount(charges[Max(On(d))], arguments)]

(* Charges on one dimension add up before anything is deducted.            *)
Charges(adapter, arguments) ==
  LET charges == adapter.budget_charges
      On(d)   == {i \in DOMAIN charges : charges[i].dimension = d}
  IN  [d \in {charges[i].dimension : i \in DOMAIN charges} |->
         SumFunctionOnSet([i \in DOMAIN charges |-> Amount(charges[i], arguments)], On(d))]

(* Every charge has an amount and no sum leaves the u64 range.             *)
Chargeable(adapter, arguments) ==
  /\ \A i \in DOMAIN adapter.budget_charges :
       HasAmount(adapter.budget_charges[i], arguments)
  /\ \A d \in DOMAIN Charges(adapter, arguments) : Charges(adapter, arguments)[d] \in U64

(* The error otherwise: the charges are visited in order, and the first    *)
(* without an amount or whose running sum overflows decides.               *)
ChargesFault(adapter, arguments) ==
  LET charges  == adapter.budget_charges
      UpTo(i)  == {j \in 1..i : /\ charges[j].dimension = charges[i].dimension
                                /\ HasAmount(charges[j], arguments)}
      Sum(i)   == MapThenSumSet(LAMBDA j : Amount(charges[j], arguments), UpTo(i))
      first    == Min({i \in DOMAIN charges :
                         ~ HasAmount(charges[i], arguments) \/ Sum(i) \notin U64})
  IN  IF charges[first].argument # None /\ ~ HasAmount(charges[first], arguments)
      THEN "INVALID_PARAMS" ELSE "INTERNAL_ERROR"
-----------------------------------------------------------------------------
(* sort_by_key is a stable sort: a position goes after every position with *)
(* a smaller key and after the earlier ones with the same key.             *)
Place(key, i) ==
  {j \in DOMAIN key : key[j] < key[i] \/ (key[j] = key[i] /\ j <= i)}

Source(key, k) == CHOOSE i \in DOMAIN key : Cardinality(Place(key, i)) = k

StableSort(actions, key) == [k \in DOMAIN key |-> actions[Source(key, k)]]

SettlementPlan(actions) ==
  StableSort(actions, [i \in 1..Len(actions) |-> actions[i].settlement_order])

RollbackPlan(actions) ==
  StableSort(actions, [i \in 1..Len(actions) |-> - actions[i].settlement_order])
=============================================================================
