------------------------------ MODULE MC_Locks ------------------------------
(* Proposals, one amendment and a call that compete for the locks,         *)
(* the delegations and the budget.                                         *)
EXTENDS GuardLocks, TLC

CONSTANTS s1, s2, w1, w2, k1

Alice ==
  [tenant_id |-> "acme", principal |-> "alice", agent_role |-> "checkout",
   task_intent |-> "order"]

Names == {"sms.media", "external_notifications.count"}

Budget(media, notifications) ==
  [d \in Dims |-> CASE d = "external_notifications.count" -> notifications
                    [] d = "sms.media"                    -> media
                    [] OTHER                              -> 0]

(* An adapter with two charges on one dimension, and one on another, that  *)
(* the budget lacks until it is amended.                                   *)
SegmentedAdapter ==
  [tool \in {"twilio.messages.create"} |->
     [resource_arguments |-> {},
      budget_charges |-> <<[dimension |-> "external_notifications.count",
                            argument |-> None, constant |-> 1],
                           [dimension |-> "external_notifications.count",
                            argument |-> "segments", constant |-> None],
                           [dimension |-> "sms.media",
                            argument |-> "media", constant |-> None]>>,
      settlement_order |-> 100]]

Int64(n) == [type |-> "integer", value |-> n]

(* It takes the whole budget of notifications, and the budget has to have  *)
(* the other dimension although nothing is charged on it.                  *)
Send == [name |-> "twilio.messages.create",
         arguments |-> [segments |-> Int64(1), media |-> Int64(0)]]

Delegation(nonce) ==
  [identity |-> Alice, expires_at_ms |-> 9000, nonce |-> nonce, spelling |-> "canonical"]

TwoDelegations == {Delegation(1), Delegation(2)}
OneDelegation == {Delegation(1)}

OneProposal ==
  {[identity |-> Alice, allowed_tools |-> <<"twilio.messages.create">>,
    target_resources |-> {}, budgets |-> Budget(None, 2), ttl_ms |-> 1000]}

(* Where amendments cannot pass: a budget that has the dimension as well.  *)
TwoProposals == OneProposal \cup
  {[p EXCEPT !.budgets = Budget(0, 2)] : p \in OneProposal}

OneCall == {Send}
OneMore == {Budget(1, 0)}

IdSymmetry == Permutations(Workers) \cup Permutations(SessionIds)
=============================================================================
