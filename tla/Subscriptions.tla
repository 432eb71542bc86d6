---------------------------- MODULE Subscriptions ----------------------------
(***************************************************************************)
(* subscription-service: the requests subscribe() and cancel(), and the    *)
(* consumers of payment results and of member withdrawals.                 *)
(*                                                                         *)
(* Each of them is a transaction that reads a subscription, decides, and   *)
(* writes.  Nothing locks the row and it has no version, so the read and   *)
(* the commit are separate steps: the commit writes what was decided on    *)
(* the value read.  A transaction whose read decides that nothing changes  *)
(* is a single step.                                                       *)
(***************************************************************************)
EXTENDS Messaging

CONSTANTS
  NoEvent,    \* stands for "no message in hand"
  OwnerOf     \* [Subs -> Members]

ASSUME OwnerAssumption == OwnerOf \in [Subs -> Members]

VARIABLES
  status,       \* the subscription table
  active,       \* the members member-service answers ACTIVE for
  web,          \* [Instances -> a request being served]
  result,       \* [Instances -> the message the payment-result consumer works on]
  withdrawal    \* [Instances -> the message the member-withdrawn consumer works on]

requests == <<web, result, withdrawal>>
subscriptions == <<status, active, web, result, withdrawal>>

Status == {"PENDING", "ACTIVE", "CANCELLED"}

WebIdle == [doing |-> "nothing", sub |-> NoSub]
ResultIdle == NoEvent
WithdrawalIdle == [event |-> NoEvent, alive |-> {}]

SubscriptionsTypeOK ==
  /\ status \in [Subs -> Status \cup {"none"}]
  /\ active \subseteq Members
  /\ web \in [Instances -> [doing : {"nothing", "subscribe", "cancel"}, sub : Subs \cup {NoSub}]]
  /\ result \in [Instances -> PaymentEvent \cup {NoEvent}]
  /\ withdrawal \in [Instances -> [event : MemberEvent \cup {NoEvent}, alive : SUBSET Subs]]

SubscriptionsInit ==
  /\ status = [s \in Subs |-> "none"]
  /\ active = Members
  /\ web = [i \in Instances |-> WebIdle]
  /\ result = [i \in Instances |-> ResultIdle]
  /\ withdrawal = [i \in Instances |-> WithdrawalIdle]

ResultQueue == "subscription.payment-result"
WithdrawnQueue == "subscription.member-withdrawn"

-----------------------------------------------------------------------------
(* member-service withdraws a member: from then on the gRPC query answers  *)
(* WITHDRAWN, and the event is in its outbox.                              *)
Withdraw(m) ==
  /\ m \in active
  /\ active' = active \ {m}
  /\ Emit({Ev("MemberWithdrawn", m)})
  /\ UNCHANGED <<queue, dlq, faults, status, requests>>

-----------------------------------------------------------------------------
(* subscribe(): the member is verified first, inside the transaction; ...  *)
VerifyMember(i, s) ==
  /\ web[i] = WebIdle
  /\ status[s] = "none"
  /\ \A j \in Instances : web[j].sub # s
  /\ OwnerOf[s] \in active
  /\ web' = [web EXCEPT ![i] = [doing |-> "subscribe", sub |-> s]]
  /\ UNCHANGED <<messaging, status, active, result, withdrawal>>

(* ... then the PENDING row and SubscriptionCreated commit.                *)
CommitSubscribe(i) ==
  LET s == web[i].sub
  IN
  /\ web[i].doing = "subscribe"
  /\ status' = [status EXCEPT ![s] = "PENDING"]
  /\ Emit({Ev("SubscriptionCreated", s)})
  /\ web' = [web EXCEPT ![i] = WebIdle]
  /\ UNCHANGED <<queue, dlq, faults, active, result, withdrawal>>

Alive(s) == status[s] \in {"PENDING", "ACTIVE"}

(* cancel() by the owner: findOwned reads a subscription not cancelled     *)
(* yet; ...                                                                *)
ReadForCancel(i, s) ==
  /\ web[i] = WebIdle
  /\ Alive(s)
  /\ web' = [web EXCEPT ![i] = [doing |-> "cancel", sub |-> s]]
  /\ UNCHANGED <<messaging, status, active, result, withdrawal>>

(* ... CANCELLED and SubscriptionCancelled commit.                         *)
CommitCancel(i) ==
  LET s == web[i].sub
  IN
  /\ web[i].doing = "cancel"
  /\ status' = [status EXCEPT ![s] = "CANCELLED"]
  /\ Emit({Ev("SubscriptionCancelled", s)})
  /\ web' = [web EXCEPT ![i] = WebIdle]
  /\ UNCHANGED <<queue, dlq, faults, active, result, withdrawal>>

-----------------------------------------------------------------------------
(* PaymentResultListener, onPaymentCompleted and onPaymentFailed.          *)

SubOf(e) == e.of[1]

(* Variant: failed payments are ignored.                                   *)
Changes_CompletedOnly(e) == e.type = "PaymentCompleted" /\ status[SubOf(e)] = "PENDING"

(* activate() changes a PENDING subscription only, cancel() one that is    *)
(* not CANCELLED.                                                          *)
Changes(e) ==
  \/ e.type = "PaymentCompleted" /\ status[SubOf(e)] = "PENDING"
  \/ e.type = "PaymentFailed" /\ status[SubOf(e)] # "CANCELLED"

IgnoreResult(i, e) ==
  /\ result[i] = ResultIdle
  /\ Take(ResultQueue, e)
  /\ ~Changes(e)
  /\ UNCHANGED <<outbox, emitted, dlq, faults, subscriptions>>

ReadForResult(i, e) ==
  /\ result[i] = ResultIdle
  /\ Take(ResultQueue, e)
  /\ Changes(e)
  /\ result' = [result EXCEPT ![i] = e]
  /\ UNCHANGED <<outbox, emitted, dlq, faults, status, active, web, withdrawal>>

(* Variant: the activation is not announced.                               *)
CommitActivate_Silent(i) ==
  /\ result[i] # ResultIdle
  /\ result[i].type = "PaymentCompleted"
  /\ status' = [status EXCEPT ![SubOf(result[i])] = "ACTIVE"]
  /\ result' = [result EXCEPT ![i] = ResultIdle]
  /\ UNCHANGED <<messaging, active, web, withdrawal>>

(* A completed payment activates and announces it.                         *)
CommitActivate(i) ==
  /\ result[i] # ResultIdle
  /\ result[i].type = "PaymentCompleted"
  /\ status' = [status EXCEPT ![SubOf(result[i])] = "ACTIVE"]
  /\ Emit({Ev("SubscriptionActivated", SubOf(result[i]))})
  /\ result' = [result EXCEPT ![i] = ResultIdle]
  /\ UNCHANGED <<queue, dlq, faults, active, web, withdrawal>>

(* A failed payment cancels, and announces nothing.                        *)
CommitCompensate(i) ==
  /\ result[i] # ResultIdle
  /\ result[i].type = "PaymentFailed"
  /\ status' = [status EXCEPT ![SubOf(result[i])] = "CANCELLED"]
  /\ result' = [result EXCEPT ![i] = ResultIdle]
  /\ UNCHANGED <<messaging, active, web, withdrawal>>

-----------------------------------------------------------------------------
(* Variant: only ACTIVE subscriptions are looked for.                      *)
ReadForWithdrawal_ActiveOnly(i, m) ==
  /\ withdrawal[i] = WithdrawalIdle
  /\ Take(WithdrawnQueue, Ev("MemberWithdrawn", m))
  /\ withdrawal' = [withdrawal EXCEPT ![i] =
       [event |-> Ev("MemberWithdrawn", m),
        alive |-> {s \in Subs : OwnerOf[s] = m /\ status[s] = "ACTIVE"}]]
  /\ UNCHANGED <<outbox, emitted, dlq, faults, status, active, web, result>>

(* MemberWithdrawnListener and onMemberWithdrawn: reads the member's       *)
(* subscriptions that are not cancelled; ...                               *)
ReadForWithdrawal(i, m) ==
  /\ withdrawal[i] = WithdrawalIdle
  /\ Take(WithdrawnQueue, Ev("MemberWithdrawn", m))
  /\ withdrawal' = [withdrawal EXCEPT ![i] =
       [event |-> Ev("MemberWithdrawn", m), alive |-> {s \in Subs : OwnerOf[s] = m /\ Alive(s)}]]
  /\ UNCHANGED <<outbox, emitted, dlq, faults, status, active, web, result>>

(* Variant: nothing is announced.                                          *)
CommitWithdrawal_Silent(i) ==
  /\ withdrawal[i] # WithdrawalIdle
  /\ status' = [s \in Subs |-> IF s \in withdrawal[i].alive THEN "CANCELLED" ELSE status[s]]
  /\ withdrawal' = [withdrawal EXCEPT ![i] = WithdrawalIdle]
  /\ UNCHANGED <<messaging, active, web, result>>

(* ... and cancels them all in one transaction.                            *)
CommitWithdrawal(i) ==
  LET cancelled == withdrawal[i].alive
  IN
  /\ withdrawal[i] # WithdrawalIdle
  /\ status' = [s \in Subs |-> IF s \in cancelled THEN "CANCELLED" ELSE status[s]]
  /\ Emit({Ev("SubscriptionCancelled", s) : s \in cancelled})
  /\ withdrawal' = [withdrawal EXCEPT ![i] = WithdrawalIdle]
  /\ UNCHANGED <<queue, dlq, faults, active, web, result>>

-----------------------------------------------------------------------------
(* An instance dies: requests are lost, messages go back.                  *)
CrashSubscriptions(i) ==
  /\ Fault("crash")
  /\ <<web[i], result[i], withdrawal[i]>> # <<WebIdle, ResultIdle, WithdrawalIdle>>
  /\ queue' = [q \in Queues |->
       queue[q] \cup (IF q = ResultQueue THEN {result[i]} \ {NoEvent} ELSE {})
                \cup (IF q = WithdrawnQueue THEN {withdrawal[i].event} \ {NoEvent} ELSE {})]
  /\ web' = [web EXCEPT ![i] = WebIdle]
  /\ result' = [result EXCEPT ![i] = ResultIdle]
  /\ withdrawal' = [withdrawal EXCEPT ![i] = WithdrawalIdle]
  /\ UNCHANGED <<outbox, emitted, dlq, status, active>>

WebStep(i) == CommitSubscribe(i) \/ CommitCancel(i)

ResultStep(i) ==
  \/ \E e \in emitted \cap PaymentEvent : IgnoreResult(i, e) \/ ReadForResult(i, e)
  \/ CommitActivate(i) \/ CommitCompensate(i)

WithdrawalStep(i) ==
  \/ \E m \in Members : ReadForWithdrawal(i, m)
  \/ CommitWithdrawal(i)

SubscriptionsStep ==
  \/ \E m \in Members : Withdraw(m)
  \/ \E i \in Instances, s \in Subs : VerifyMember(i, s) \/ ReadForCancel(i, s)
  \/ \E i \in Instances :
       WebStep(i) \/ ResultStep(i) \/ WithdrawalStep(i) \/ CrashSubscriptions(i)
=============================================================================
