----------------------------- MODULE MC_Harness -----------------------------
(* A block of the harness that asks for one notification.                  *)
EXTENDS HarnessProperties

CONSTANTS s1, w1, c1, k1, seal, abort

Alice ==
  [tenant_id |-> "acme", principal |-> "alice", agent_role |-> "checkout",
   task_intent |-> "order"]

Notifications == {"external_notifications.count"}

Budget(notifications) ==
  [d \in Dims |-> IF d \in BuiltInDims THEN 0 ELSE notifications]

Notify == [name |-> "twilio.messages.create",
           arguments |-> [to |-> [type |-> "string", value |-> "C"]]]

Ask == [identity |-> Alice, allowed_tools |-> <<"twilio.messages.create">>,
        target_resources |-> {}, budgets |-> Budget(1), ttl_ms |-> 1000]

OneAsk == [c \in Clients |-> Ask]
AllAsks == {Ask}
AllCalls == {Notify}
OneMore == {Budget(1)}

(* The delegations that create_delegation_token makes, at any time it runs. *)
Minted ==
  {Delegation(c, t, n) : t \in {1000, 2000, 60000, 61000}, c \in Clients, n \in 1..MaxRpcs}
=============================================================================
