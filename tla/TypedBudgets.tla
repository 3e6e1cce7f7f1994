---------------------------- MODULE TypedBudgets ----------------------------
(***************************************************************************)
(* The integer, multi-dimensional budgets of an execution envelope         *)
(* (struct TypedBudgets, clared-core/src/protocol.rs).  Three dimensions   *)
(* are fields of the struct and are always there; every other dimension    *)
(* lives in the map `custom` and may be missing, which None stands for.    *)
(***************************************************************************)
EXTENDS Integers

CONSTANTS
  CustomDims,   \* names a budget may hold besides the built-in ones
  MaxU64,       \* the largest u64, scaled down for TLC
  None          \* Option::None

ASSUME MaxU64Assumption == MaxU64 \in Nat \ {0}

ASSUME NoneAssumption == None \notin Int

BuiltInDims ==
  {"money.minor.USD.hold", "money.minor.USD.capture", "database.mutations.count"}

Dims == BuiltInDims \cup CustomDims

U64 == 0..MaxU64

Budgets ==
  {b \in [Dims -> U64 \cup {None}] : \A d \in BuiltInDims : b[d] # None}

Present(budget, d) == d \in Dims /\ budget[d] # None

(* What `value(dimension).unwrap_or(0)` reads: a missing dimension is 0.   *)
Value(budget, d) == IF Present(budget, d) THEN budget[d] ELSE 0

(* add_assign: checked addition in every dimension of either operand.  The *)
(* caller adds to a clone, so an overflow anywhere leaves no trace.        *)
AddOverflows(budget, additions) ==
  \E d \in Dims : /\ Present(additions, d)
                  /\ Value(budget, d) + additions[d] > MaxU64

(* Mutant of AddAssign: an addition to a missing dimension is lost.        *)
AddAssignPresent(budget, additions) ==
  [d \in Dims |-> IF Present(budget, d) THEN budget[d] + Value(additions, d)
                                        ELSE budget[d]]

AddAssign(budget, additions) ==
  [d \in Dims |-> IF Present(additions, d) THEN Value(budget, d) + additions[d]
                                           ELSE budget[d]]

(* deduct works on one dimension and refuses one that is not present, even *)
(* for an amount of 0, which Affordable lets through.                      *)
Deductible(budget, charges) == \A d \in DOMAIN charges : Present(budget, d)

(* The check the caller makes over every charge before it deducts any.     *)
Affordable(budget, charges) ==
  \A d \in DOMAIN charges : charges[d] <= Value(budget, d)

(* The budget after the charges in the dimensions `paid` were deducted.    *)
Deduct(budget, charges, paid) ==
  [d \in Dims |-> IF d \in paid THEN budget[d] - charges[d] ELSE budget[d]]
=============================================================================
