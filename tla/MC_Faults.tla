------------------------------ MODULE MC_Faults ------------------------------
(* One envelope that is retried while the clock jumps and the guard is     *)
(* restarted.                                                              *)
EXTENDS GuardFaults, TLC

CONSTANTS s1, s2, w1, w2, k1, k2

Alice ==
  [tenant_id |-> "acme", principal |-> "alice", agent_role |-> "checkout",
   task_intent |-> "order"]

Notifications == {"external_notifications.count"}

Budget(notifications) ==
  [d \in Dims |-> IF d \in BuiltInDims THEN 0 ELSE notifications]

Notify == [name |-> "twilio.messages.create",
          arguments |-> [to |-> [type |-> "string", value |-> "C"]]]

OneDelegation ==
  {[identity |-> Alice, expires_at_ms |-> 9000, nonce |-> 1, spelling |-> "canonical"]}

OneProposal ==
  {[identity |-> Alice, allowed_tools |-> <<"twilio.messages.create">>,
    target_resources |-> {}, budgets |-> Budget(2), ttl_ms |-> 1000]}

OneCall == {Notify}

AllSymmetry == Permutations(Workers) \cup Permutations(Keys) \cup Permutations(SessionIds)
=============================================================================
