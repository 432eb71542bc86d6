-------------------------------- MODULE Saga --------------------------------
(***************************************************************************)
(* The subscription saga: subscription-service, payment-service with its   *)
(* gateway, course-service's read model and member-service's withdrawals,  *)
(* joined by nothing but events.                                           *)
(***************************************************************************)
EXTENDS Billing, Subscriptions, Entitlement

(* Every consumer composed here has its queue (definitions.json).          *)
ASSUME QueuesAssumption ==
  {CreatedQueue, CancelledQueue, ResultQueue, WithdrawnQueue, StatusQueue} \subseteq Queues

vars == <<messaging, billing, subscriptions, entitlement>>

Init == MessagingInit /\ BillingInit /\ SubscriptionsInit /\ EntitlementInit

Next ==
  \/ MessagingStep /\ UNCHANGED <<billing, subscriptions, entitlement>>
  \/ BillingStep /\ UNCHANGED <<subscriptions, entitlement>>
  \/ SubscriptionsStep /\ UNCHANGED <<billing, entitlement>>
  \/ EntitlementStep /\ UNCHANGED <<billing, subscriptions>>

(* Relays, consumers and requests under way go on; nobody has to           *)
(* subscribe, cancel or withdraw, and the scheduler's polls, whose moment  *)
(* is left open, are owed nothing here.                                    *)
Fairness ==
  /\ WF_vars(Relayed /\ UNCHANGED <<billing, subscriptions, entitlement>>)
  /\ WF_vars(EntitlementStep /\ UNCHANGED <<billing, subscriptions>>)
  /\ \A i \in Instances :
       /\ WF_vars(InitialStep(i) /\ UNCHANGED <<subscriptions, entitlement>>)
       /\ WF_vars(RefundStep(i) /\ UNCHANGED <<subscriptions, entitlement>>)
       /\ WF_vars(WebStep(i) /\ UNCHANGED <<billing, entitlement>>)
       /\ WF_vars(ResultStep(i) /\ UNCHANGED <<billing, entitlement>>)
       /\ WF_vars(WithdrawalStep(i) /\ UNCHANGED <<billing, entitlement>>)

Spec == Init /\ [][Next]_vars /\ Fairness

TypeOK ==
  MessagingTypeOK /\ BillingTypeOK /\ SubscriptionsTypeOK /\ EntitlementTypeOK

-----------------------------------------------------------------------------
Paid(b) == payment[b] \in {"APPROVED", "REFUNDED"}

(* No subscription is active, and no member may play videos on it, unless  *)
(* its first payment was approved: three services agree on it through      *)
(* their events alone.                                                     *)
NoServiceWithoutPayment ==
  \A s \in Subs :
    status[s] = "ACTIVE" \/ entitlement[s] = "active" => Paid(FirstBill(s))

(* A subscription ends, and money is returned, only for a reason: the      *)
(* cancellation was announced, or a payment of it failed; refunds follow   *)
(* announced cancellations only.                                           *)
EndHasCause ==
  \A s \in Subs :
    /\ status[s] = "CANCELLED" =>
         Cancelled(s) \in emitted \/ \E c \in Cycles : payment[<<s, c>>] = "FAILED"
    /\ (\E b \in returned : b[1] = s) => Cancelled(s) \in emitted

(* A subscription does not stay PENDING: whatever crashes or comes twice,  *)
(* the first payment's verdict reaches it.                                 *)
PendingResolves == \A s \in Subs : status[s] = "PENDING" ~> status[s] # "PENDING"

(* Who has an active subscription may watch in the end, unless its         *)
(* cancellation is announced first.                                        *)
ActivationGrants ==
  \A s \in Subs :
    status[s] = "ACTIVE" ~> entitlement[s] = "active" \/ Cancelled(s) \in emitted

(* A payment result read before the cancellation is about to overwrite it: *)
(* the row has no version, so the later commit wins.                       *)
Overwriting(s) ==
  /\ status[s] = "CANCELLED"
  /\ \E i \in Instances :
       /\ result[i] # ResultIdle
       /\ result[i].type = "PaymentCompleted" /\ SubOf(result[i]) = s

(* A withdrawn member's subscriptions, those that exist when the           *)
(* withdrawal is announced, are cancelled and stay cancelled (D-31).  The  *)
(* code breaks this in one way only: an activation that had read the       *)
(* PENDING row commits after the cancellation, and the subscription of a   *)
(* member who is gone is ACTIVE for good.                                  *)
WithdrawalCancels ==
  \A s \in Subs :
    Ev("MemberWithdrawn", OwnerOf[s]) \in outbox /\ Alive(s)
      ~> [](status[s] = "CANCELLED") \/ Overwriting(s)

-----------------------------------------------------------------------------
(* Nothing about s is under way in any outbox, queue or thread.            *)
About(e) == CASE e \in SubscriptionEvent -> {e.of}
              [] e \in PaymentEvent -> {e.of[1]}
              [] e \in MemberEvent -> {s \in Subs : OwnerOf[s] = e.of}

Quiet(s) ==
  /\ \A e \in {x \in outbox : Routes(x) # {}} \cup UNION {queue[q] : q \in Queues} : s \notin About(e)
  /\ \A i \in Instances :
       /\ s \notin {initial[i].sub, refunding[i].sub, scheduler[i].sub, web[i].sub}
       /\ s \notin scheduler[i].todo
       /\ result[i] # ResultIdle => s \notin About(result[i])
       /\ withdrawal[i] # WithdrawalIdle => s \notin About(withdrawal[i].event)

(* SubscriptionService.java:80: a payment that completes after the         *)
(* cancellation is refunded, because the cancellation was announced.       *)
CancelledIsRefunded ==
  \A s \in Subs :
    Quiet(s) /\ dlq = {} /\ Cancelled(s) \in emitted
      => \A c \in Cycles : payment[<<s, c>>] # "APPROVED"
=============================================================================
