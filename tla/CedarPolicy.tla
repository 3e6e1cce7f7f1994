----------------------------- MODULE CedarPolicy -----------------------------
(***************************************************************************)
(* The policy decision of clared-core/src/policy.rs: the default policy    *)
(* set compiled by CedarEngine::new, decided the way the Cedar authorizer  *)
(* does.  A policy whose condition cannot be evaluated (an attribute is    *)
(* missing, or has another type) does not apply; a request is allowed when *)
(* some permit applies and no forbid does.                                 *)
(*                                                                         *)
(* JSON values are records [type, value]; a JSON object is a function from *)
(* argument names to values.                                               *)
(***************************************************************************)
EXTENDS Integers

CONSTANTS
  MaxU64,      \* the largest u64, as in TypedBudgets
  Malformed    \* identifiers that do not parse inside a Cedar EntityUid

HasType(object, name, type) ==
  /\ name \in DOMAIN object
  /\ object[name].type = type

(* A Cedar Long is an i64, so half of the u64 range does not fit.          *)
MaxI64 == MaxU64 \div 2

(* Context::from_json_value: Cedar has neither floats nor null.            *)
ContextParses(context) ==
  \A a \in DOMAIN context :
    /\ context[a].type \notin {"float", "null"}
    /\ context[a].type = "integer" => context[a].value <= MaxI64

AdaptedActions ==
  {"postgres.orders.update", "stripe.payment_intents.create",
   "twilio.messages.create"}

HighValueActions ==
  {"stripe.payment_intents.refund", "stripe.payment_intents.create",
   "stripe.charges.create"}

DestructiveActions == {"db.drop_table", "db.truncate", "postgres.drop_table"}

HighValueLimit == 50000

PermitApplies(action, context) ==
  /\ action \in AdaptedActions
  /\ HasType(context, "clared_envelope_admitted", "bool")
  /\ context["clared_envelope_admitted"].value

HighValueForbidApplies(action, context) ==
  /\ action \in HighValueActions
  /\ HasType(context, "amount_minor", "integer")
  /\ context["amount_minor"].value > HighValueLimit
  /\ HasType(context, "has_director_approval", "bool")
  /\ ~ context["has_director_approval"].value

(* CedarEngine::evaluate; TRUE stands for PolicyOutcome::Allow.            *)
Allows(principal, action, resource, context) ==
  /\ {principal, action, resource} \cap Malformed = {}
  /\ ContextParses(context)
  /\ PermitApplies(action, context)
  /\ ~ HighValueForbidApplies(action, context)
  /\ action \notin DestructiveActions

(* SessionManager::policy_context: the tool's own arguments, with the two  *)
(* reserved attributes written over whatever the caller supplied.          *)
PolicyContext(arguments) ==
  [a \in DOMAIN arguments \cup {"clared_envelope_admitted", "has_director_approval"} |->
     CASE a = "clared_envelope_admitted" -> [type |-> "bool", value |-> TRUE]
       [] a = "has_director_approval"    -> [type |-> "bool", value |-> FALSE]
       [] OTHER                          -> arguments[a]]
==============================================================================
