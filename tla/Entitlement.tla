----------------------------- MODULE Entitlement -----------------------------
(***************************************************************************)
(* course-service's read model of who may play videos: one document per    *)
(* subscription, replaced by every status event that arrives, in whatever  *)
(* order they arrive.                                                      *)
(***************************************************************************)
EXTENDS Messaging

VARIABLE entitlement    \* [Subs -> "none" | "active" | "revoked"]

EntitlementTypeOK == entitlement \in [Subs -> {"none", "active", "revoked"}]

EntitlementInit == entitlement = [s \in Subs |-> "none"]

StatusQueue == "course.subscription-status"

Grant(s) ==
  /\ Take(StatusQueue, Ev("SubscriptionActivated", s))
  /\ entitlement' = [entitlement EXCEPT ![s] = "active"]
  /\ UNCHANGED <<outbox, emitted, dlq, faults>>

Revoke(s) ==
  /\ Take(StatusQueue, Ev("SubscriptionCancelled", s))
  /\ entitlement' = [entitlement EXCEPT ![s] = "revoked"]
  /\ UNCHANGED <<outbox, emitted, dlq, faults>>

EntitlementStep == \E s \in Subs : Grant(s) \/ Revoke(s)
=============================================================================
