----------------------------- MODULE MC_Startup -----------------------------
(* Up to three documents, each with up to two targets, with one fault or   *)
(* none in each.                                                           *)
EXTENDS Startup, SequencesExt

Scoped(argument, prefix) == <<[argument |-> argument, scope_prefix |-> prefix]>>

Tool(name, resource_arguments) ==
  [tool_name |-> name, resource_arguments |-> resource_arguments,
   budget_charges |-> << >>, settlement_order |-> 10]

SomeTargets ==
  {<< >>,
   <<Tool("update", Scoped("order_id", "order"))>>,
   <<Tool("create", << >>)>>,
   <<Tool("update", << >>), Tool("create", Scoped("customer_id", "customer"))>>,
   <<Tool("update", << >>), Tool("update", << >>)>>,
   <<Tool("send", << >>), Tool("create", Scoped("customer_id", Blank))>>,
   <<Tool("send", Scoped(Blank, "phone"))>>}

Well(targets) ==
  [parses |-> TRUE, version |-> Version, strategies |-> <<"S", "C", "R">>,
   targets |-> targets]

SomeDocuments ==
  {Well(targets) : targets \in SomeTargets} \cup
  {[Well(<<Tool("send", << >>)>>) EXCEPT !.parses = FALSE],
   [Well(<<Tool("send", << >>)>>) EXCEPT !.version = "v0alpha2"],
   [Well(<<Tool("send", << >>)>>) EXCEPT !.strategies = <<"S", "C", Blank>>]}

SomeRegistries == BoundedSeq(SomeDocuments, 3)
=============================================================================
