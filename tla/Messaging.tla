------------------------------ MODULE Messaging ------------------------------
(***************************************************************************)
(* The communication layer of the saga: the outbox tables of the services  *)
(* as RelayContract describes them (an event is committed with the domain  *)
(* change and reaches the broker at least once), and the RabbitMQ queues   *)
(* of infrastructure/rabbitmq/definitions.json.                            *)
(*                                                                         *)
(* A queue is a set: several consumers drain it, a copy may come back      *)
(* after a crash or from a second relay, and the relay goes on after a     *)
(* nack, so no order is relied on.  A consumer holds the message it works  *)
(* on; an exception sends it to the dead-letter queue at once (the         *)
(* containers reject without requeue and have no retry).                   *)
(***************************************************************************)
EXTENDS Naturals

CONSTANTS
  Subs,       \* subscriptions
  Members,    \* their owners
  MaxCycle,   \* bound on the billing cycles considered
  Instances,  \* the instances every service runs
  NoSub,      \* stands for "no subscription in hand"
  Queues,     \* the queues that have a consumer in this composition
  Faults,     \* the kinds of failure that may happen ...
  MaxFaults   \* ... and how often, all kinds together

ASSUME CycleAssumption == MaxCycle \in Nat \ {0}
ASSUME NoSubAssumption == NoSub \notin Subs
ASSUME MaxFaultsAssumption == MaxFaults \in Nat

VARIABLES
  outbox,     \* committed event rows not yet at the broker
  emitted,    \* history: every event ever committed
  queue,      \* [Queues -> messages ready or requeued]
  dlq,        \* lxp.dead-letter, drained by nobody
  faults      \* failures so far

messaging == <<outbox, emitted, queue, dlq, faults>>

Cycles == 1..MaxCycle
Bills == Subs \X Cycles

SubscriptionEvent ==
  [type : {"SubscriptionCreated", "SubscriptionActivated", "SubscriptionCancelled"},
   of : Subs]
PaymentEvent ==
  [type : {"PaymentCompleted", "PaymentFailed", "PaymentRefunded"}, of : Bills]
MemberEvent == [type : {"MemberWithdrawn"}, of : Members]
Event == SubscriptionEvent \cup PaymentEvent \cup MemberEvent

Ev(type, of) == [type |-> type, of |-> of]

(* The bindings of the topic exchanges to the queues.  PaymentRefunded     *)
(* reaches subscription.payment-result too, where it is only logged; it is *)
(* not routed here.                                                        *)
Binding == [
  SubscriptionCreated   |-> {"payment.subscription-created"},
  SubscriptionCancelled |-> {"payment.subscription-cancelled", "course.subscription-status"},
  SubscriptionActivated |-> {"course.subscription-status"},
  PaymentCompleted      |-> {"subscription.payment-result"},
  PaymentFailed         |-> {"subscription.payment-result"},
  PaymentRefunded       |-> {},
  MemberWithdrawn       |-> {"subscription.member-withdrawn"}]

Routes(e) == Binding[e.type] \cap Queues

MessagingTypeOK ==
  /\ outbox \subseteq Event
  /\ emitted \subseteq Event
  /\ queue \in [Queues -> SUBSET Event]
  /\ dlq \subseteq Event
  /\ faults \in 0..MaxFaults

MessagingInit ==
  /\ outbox = {}
  /\ emitted = {}
  /\ queue = [q \in Queues |-> {}]
  /\ dlq = {}
  /\ faults = 0

-----------------------------------------------------------------------------
(* Steps of the transactions that use the layer (they say nothing of the   *)
(* variables they do not name).                                            *)

(* A domain transaction writes the event rows E as it commits.             *)
Emit(E) ==
  /\ outbox' = outbox \cup E
  /\ emitted' = emitted \cup E

(* A consumer is handed a message; ...                                     *)
Take(q, e) ==
  /\ e \in queue[q]
  /\ queue' = [queue EXCEPT ![q] = @ \ {e}]

(* ... gives it back unacknowledged when it dies; ...                      *)
GiveBack(q, e) == queue' = [queue EXCEPT ![q] = @ \cup {e}]

(* ... or throws, and the broker dead-letters it.                          *)
Reject(e) == dlq' = dlq \cup {e}

Fault(kind) ==
  /\ kind \in Faults
  /\ faults < MaxFaults
  /\ faults' = faults + 1

-----------------------------------------------------------------------------
(* Steps of the layer itself.                                              *)

(* The relay brings an event to the queues bound to it.                    *)
Publish(e) ==
  /\ e \in outbox
  /\ Routes(e) # {}
  /\ outbox' = outbox \ {e}
  /\ queue' = [q \in Queues |-> IF q \in Routes(e) THEN queue[q] \cup {e} ELSE queue[q]]
  /\ UNCHANGED <<emitted, dlq, faults>>

(* A queue gets a second copy: the relay sent the row again (a crash or a  *)
(* time-out before its marks committed, a second relay), or a consumer     *)
(* died after its commit and before its acknowledgement.                   *)
Redeliver(q, e) ==
  /\ e \in emitted \ outbox
  /\ q \in Routes(e)
  /\ e \notin queue[q]
  /\ Fault("redelivery")
  /\ queue' = [queue EXCEPT ![q] = @ \cup {e}]
  /\ UNCHANGED <<outbox, emitted, dlq>>

MessagingStep ==
  \/ \E e \in outbox : Publish(e)
  \/ \E q \in Queues : \E e \in emitted : Redeliver(q, e)

Relayed == \E e \in outbox : Publish(e)
=============================================================================
