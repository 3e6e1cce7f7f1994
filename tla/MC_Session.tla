----------------------------- MODULE MC_Session -----------------------------
(* Small envelopes, calls and delegations for model checking.              *)
EXTENDS SessionRefinement, TLC

CONSTANTS s1, s2, w1, w2, k1, k2

Alice ==
  [tenant_id |-> "acme", principal |-> "alice", agent_role |-> "checkout",
   task_intent |-> "order"]
Bob == [Alice EXCEPT !.principal = "bob"]

Str(s) == [type |-> "string", value |-> s]
Int64(n) == [type |-> "integer", value |-> n]

UpdateA == [name |-> "postgres.orders.update", arguments |-> [order_id |-> Str("A")]]
UpdateB == [name |-> "postgres.orders.update", arguments |-> [order_id |-> Str("B")]]
Pay(n)  == [name |-> "stripe.payment_intents.create",
            arguments |-> [customer_id |-> Str("C"), amount_minor |-> Int64(n)]]
Notify  == [name |-> "twilio.messages.create", arguments |-> [to |-> Str("C")]]
Send(n) == [name |-> "twilio.messages.create", arguments |-> [segments |-> Int64(n)]]

Notifications == {"external_notifications.count"}

Budget(hold, capture, mutations, notifications) ==
  [d \in Dims |->
     CASE d = "money.minor.USD.hold"         -> hold
       [] d = "money.minor.USD.capture"      -> capture
       [] d = "database.mutations.count"     -> mutations
       [] d = "external_notifications.count" -> notifications
       [] OTHER                              -> None]

AllTools == <<"postgres.orders.update", "stripe.payment_intents.create",
              "twilio.messages.create">>

Proposal(identity, tools, scopes, budget, ttl_ms) ==
  [identity |-> identity, allowed_tools |-> tools, target_resources |-> scopes,
   budgets |-> budget, ttl_ms |-> ttl_ms]

Delegation(identity, expires_at_ms, nonce) ==
  [identity |-> identity, expires_at_ms |-> expires_at_ms, nonce |-> nonce,
   spelling |-> "canonical"]

(* The same proof, its expiry written in another way.                      *)
Respelled(delegation) == [delegation EXCEPT !.spelling = "padded"]

(* Clients that retry: one envelope, every kind of call under either key.  *)
RetryDelegations == {Delegation(Alice, 1000, 1)}

RetryProposals ==
  {Proposal(Alice, AllTools, {"order:A", "customer:C"}, Budget(60000, 60000, 2, 1), 1000)}

RetryCalls == {UpdateA, Pay(45000), Pay(55000), Notify}

RetryClock == {0, 1000}

WorkerKeySymmetry == Permutations(Workers) \cup Permutations(Keys)
-----------------------------------------------------------------------------
(* Amendments that race on one session, one of them with a delegation of   *)
(* somebody else, and one that would overflow the budget.  Two of the      *)
(* tokens carry one proof.                                                 *)
AmendDelegations ==
  {Delegation(Alice, 9000, 1), Delegation(Alice, 9000, 2),
   Respelled(Delegation(Alice, 9000, 2)), Delegation(Bob, 9000, 3)}

AmendProposals ==
  {Proposal(Alice, <<"stripe.payment_intents.create">>, {"customer:C"},
            Budget(45000, 45000, 0, None), 1000)}

AmendCalls == {Pay(45000)}

AmendAdditions == {Budget(45000, 45000, 1, 1), Budget(MaxU64, 0, 0, None)}

AmendClock == {0}

WorkerSymmetry == Permutations(Workers)
-----------------------------------------------------------------------------
(* Admission: proposals that share delegations, two sessions side by side, *)
(* and proposals that must be refused.  Two tokens carry one proof.        *)
AdmitDelegations ==
  {Delegation(Alice, 9000, 1), Respelled(Delegation(Alice, 9000, 1)),
   Delegation(Bob, 9000, 2)}

AdmitProposals ==
  {Proposal(Alice, <<"postgres.orders.update">>, {"order:A"}, Budget(0, 0, 1, None), 1000),
   Proposal(Bob, <<"twilio.messages.create">>, {}, Budget(0, 0, 0, 1), 1000)}

AdmitCalls == {UpdateB, Send(0)}

AdmitAdditions == {Budget(0, 0, 1, 1)}

SessionWorkerSymmetry == Permutations(Workers) \cup Permutations(SessionIds)
-----------------------------------------------------------------------------
(* Declarations a deployment could load in place of the built-in ones: two *)
(* charges on one dimension, a charge on a dimension that an envelope may  *)
(* lack, and a charge that says nothing of its amount.                     *)
CustomAdapters ==
  [tool \in {"twilio.messages.create", "postgres.orders.update"} |->
     IF tool = "twilio.messages.create"
     THEN [resource_arguments |-> {},
           budget_charges |-> <<[dimension |-> "external_notifications.count",
                                 argument |-> None, constant |-> 1],
                                [dimension |-> "external_notifications.count",
                                 argument |-> "segments", constant |-> None],
                                [dimension |-> "sms.segments",
                                 argument |-> "segments", constant |-> None]>>,
           settlement_order |-> 100]
     ELSE [resource_arguments |-> {},
           budget_charges |-> <<[dimension |-> "database.mutations.count",
                                 argument |-> None, constant |-> None]>>,
           settlement_order |-> 10]]

(* A deployment that replaces one of the built-in adapters only.           *)
MixedAdapters ==
  [BuiltInAdapters EXCEPT !["twilio.messages.create"] = CustomAdapters["twilio.messages.create"]]

CustomDelegations == {Delegation(Alice, 9000, n) : n \in 1..2}

CustomProposals ==
  {Proposal(Alice, <<"twilio.messages.create", "postgres.orders.update">>, {},
            Budget(0, 0, 1, 3), 1000)}

CustomCalls == {Send(0), Send(1), Notify, UpdateA}

CustomAdditions ==
  {[d \in Dims |-> IF d = "sms.segments" THEN 1 ELSE Budget(0, 0, 0, None)[d]]}

CustomDimensions == Notifications \cup {"sms.segments"}
=============================================================================
