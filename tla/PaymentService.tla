--------------------------- MODULE PaymentService ---------------------------
(***************************************************************************)
(* payment-service on its own: Billing, its messages, and as its           *)
(* environment the events subscription-service may send it.                *)
(***************************************************************************)
EXTENDS Billing

ServiceInit == MessagingInit /\ BillingInit

(* subscribe(): announces a new subscription.                              *)
Subscribe(s) ==
  /\ Created(s) \notin emitted
  /\ Emit({Created(s)})
  /\ UNCHANGED <<queue, dlq, faults, billing>>

(* cancel(): announces the end of one, paid for or not.                    *)
Unsubscribe(s) ==
  /\ Created(s) \in emitted
  /\ Cancelled(s) \notin emitted
  /\ Emit({Cancelled(s)})
  /\ UNCHANGED <<queue, dlq, faults, billing>>

ServiceNext ==
  \/ \E s \in Subs : Subscribe(s) \/ Unsubscribe(s)
  \/ MessagingStep /\ UNCHANGED billing
  \/ BillingStep

ServiceFairness ==
  /\ WF_billingVars(Relayed /\ UNCHANGED billing)
  /\ \A i \in Instances : ThreadFairness(i)

ServiceSpec == ServiceInit /\ [][ServiceNext]_billingVars /\ ServiceFairness

ServiceTypeOK == MessagingTypeOK /\ BillingTypeOK
=============================================================================
