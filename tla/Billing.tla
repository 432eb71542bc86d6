------------------------------- MODULE Billing -------------------------------
(***************************************************************************)
(* payment-service: the first payment (SubscriptionCreated), scheduled     *)
(* payments and dunning (BillingScheduler), cancellation and refund        *)
(* (SubscriptionCancelled), and the payment gateway at the other end of    *)
(* the network.                                                            *)
(*                                                                         *)
(* Every instance of the service runs three threads at once: one consumer  *)
(* per queue and the scheduler.  A transaction is split where the code     *)
(* waits for the gateway: what it read before the call is kept in the      *)
(* thread's state (the database gives it the snapshot of its first read)   *)
(* and what it writes takes effect when it commits.  Nothing locks a       *)
(* schedule: it has no version column, an UPDATE writes every column.      *)
(*                                                                         *)
(* Time is left out: an active schedule may fall due at any moment.  The   *)
(* database does not fail: a transaction rolls back when its instance      *)
(* dies, when the gateway call throws or on the unique constraint.         *)
(***************************************************************************)
EXTENDS Messaging, FiniteSets

CONSTANT MaxAttempts   \* billing.dunning.max-attempts

ASSUME AttemptsAssumption == MaxAttempts \in Nat \ {0}
ASSUME ConsumersAssumption ==
  {"payment.subscription-created", "payment.subscription-cancelled"} \subseteq Queues

VARIABLES
  payment,     \* the payment table: status of a cycle's row, "none" without one
  schedule,    \* the billing_schedule table
  charged,     \* the gateway's books: bills whose money was taken
  returned,    \* the gateway's books: bills whose money was given back
  initial,     \* [Instances -> the payment.subscription-created consumer]
  refunding,   \* [Instances -> the payment.subscription-cancelled consumer]
  scheduler    \* [Instances -> the billing scheduler's thread]

tables == <<payment, schedule>>
gateway == <<charged, returned>>
threads == <<initial, refunding, scheduler>>
billing == <<payment, schedule, charged, returned, initial, refunding, scheduler>>
billingVars == <<outbox, emitted, queue, dlq, faults, payment, schedule, charged, returned,
                 initial, refunding, scheduler>>

PaymentStatus == {"APPROVED", "FAILED", "REFUNDED"}
Answer == {"approved", "declined", "refused", "unreachable"}

(* cycle = 0: no schedule row.                                             *)
Schedule == [cycle : 0..(MaxCycle + 1), retry : 0..(MaxAttempts - 1), active : BOOLEAN]
NoSchedule == [cycle |-> 0, retry |-> 0, active |-> FALSE]

InitialThread ==
  [pc : {"idle", "charging", "answered"}, sub : Subs \cup {NoSub},
   answer : Answer \cup {"none"}]
RefundThread ==
  [pc : {"idle", "refunding"}, sub : Subs \cup {NoSub}, seen : Schedule,
   rows : SUBSET Cycles, todo : SUBSET Cycles]
SchedulerThread ==
  [pc : {"idle", "batch", "charging", "answered"}, sub : Subs \cup {NoSub},
   todo : SUBSET Subs, copy : [Subs -> Schedule], seen : Schedule,
   answer : Answer \cup {"none", "duplicate"}]

InitialIdle == [pc |-> "idle", sub |-> NoSub, answer |-> "none"]
RefundIdle == [pc |-> "idle", sub |-> NoSub, seen |-> NoSchedule, rows |-> {}, todo |-> {}]
SchedulerIdle ==
  [pc |-> "idle", sub |-> NoSub, todo |-> {}, copy |-> [s \in Subs |-> NoSchedule],
   seen |-> NoSchedule, answer |-> "none"]

BillingTypeOK ==
  /\ payment \in [Bills -> PaymentStatus \cup {"none"}]
  /\ schedule \in [Subs -> Schedule]
  /\ charged \subseteq Bills
  /\ returned \subseteq charged
  /\ initial \in [Instances -> InitialThread]
  /\ refunding \in [Instances -> RefundThread]
  /\ scheduler \in [Instances -> SchedulerThread]

BillingInit ==
  /\ payment = [b \in Bills |-> "none"]
  /\ schedule = [s \in Subs |-> NoSchedule]
  /\ charged = {}
  /\ returned = {}
  /\ initial = [i \in Instances |-> InitialIdle]
  /\ refunding = [i \in Instances |-> RefundIdle]
  /\ scheduler = [i \in Instances |-> SchedulerIdle]

Created(s) == Ev("SubscriptionCreated", s)
Cancelled(s) == Ev("SubscriptionCancelled", s)
Completed(b) == Ev("PaymentCompleted", b)
Failed(b) == Ev("PaymentFailed", b)
Refunded(b) == Ev("PaymentRefunded", b)

CreatedQueue == "payment.subscription-created"
CancelledQueue == "payment.subscription-cancelled"

-----------------------------------------------------------------------------
(* The payment gateway.                                                    *)

(* approve(): a new request is authorised, declined for now or declined    *)
(* for good.  Once the money is taken the answer may still be lost, or be  *)
(* an error reply, which counts as a decline whatever the gateway did.     *)
(*                                                                         *)
(* A bill is always asked for under one idempotency key, the id of the     *)
(* event for the first cycle and "billing-sub-cycle" for the others.  That *)
(* the gateway takes the money of a key once is its promise (see           *)
(* PaymentGateway.approve) and assumed: its books hold bills.              *)
Approve(b, answer) ==
  /\ UNCHANGED returned
  /\ \/ answer = "approved" /\ charged' = charged \cup {b} /\ UNCHANGED faults
     \/ /\ answer \in {"declined", "refused"}
        /\ b \notin charged
        /\ UNCHANGED <<charged, faults>>
     \/ /\ answer # "approved"
        /\ charged' \in {charged, charged \cup {b}}
        /\ Fault("lostAnswer")

Retryable(answer) == answer \in {"declined", "unreachable"}

-----------------------------------------------------------------------------
(* processInitialPayment: the consumer of SubscriptionCreated.             *)

FirstBill(s) == <<s, 1>>

(* The event was dealt with before, or the cycle has its row: skipped and  *)
(* acknowledged.                                                           *)
SkipInitial(i, s) ==
  /\ initial[i].pc = "idle"
  /\ Take(CreatedQueue, Created(s))
  /\ payment[FirstBill(s)] # "none"
  /\ UNCHANGED <<outbox, emitted, dlq, faults, billing>>

BeginInitial(i, s) ==
  /\ initial[i].pc = "idle"
  /\ Take(CreatedQueue, Created(s))
  /\ payment[FirstBill(s)] = "none"
  /\ initial' = [initial EXCEPT ![i] = [pc |-> "charging", sub |-> s, answer |-> "none"]]
  /\ UNCHANGED <<outbox, emitted, dlq, faults, tables, gateway, refunding, scheduler>>

AskInitial(i) ==
  /\ initial[i].pc = "charging"
  /\ \E answer \in Answer :
       /\ Approve(FirstBill(initial[i].sub), answer)
       /\ initial' = [initial EXCEPT ![i].pc = "answered", ![i].answer = answer]
  /\ UNCHANGED <<outbox, emitted, queue, dlq, tables, refunding, scheduler>>

(* Variant: a declined first payment announced as completed.               *)
CommitInitial_WrongEvent(i) ==
  LET s == initial[i].sub
      b == FirstBill(s)
  IN
  /\ initial[i].pc = "answered"
  /\ payment[b] = "none"
  /\ payment' = [payment EXCEPT ![b] =
        IF initial[i].answer = "approved" THEN "APPROVED" ELSE "FAILED"]
  /\ Emit({Completed(b)})
  /\ initial' = [initial EXCEPT ![i] = InitialIdle]
  /\ UNCHANGED <<queue, dlq, faults, schedule, gateway, refunding, scheduler>>

(* The first payment is never retried: a failure, whatever its kind, is    *)
(* recorded and announced.                                                 *)
CommitInitial(i) ==
  LET s == initial[i].sub
      b == FirstBill(s)
  IN
  /\ initial[i].pc = "answered"
  /\ payment[b] = "none"
  /\ \/ /\ initial[i].answer = "approved"
        /\ payment' = [payment EXCEPT ![b] = "APPROVED"]
        /\ schedule' = [schedule EXCEPT ![s] = [cycle |-> 2, retry |-> 0, active |-> TRUE]]
        /\ Emit({Completed(b)})
     \/ /\ initial[i].answer # "approved"
        /\ payment' = [payment EXCEPT ![b] = "FAILED"]
        /\ Emit({Failed(b)})
        /\ UNCHANGED schedule
  /\ initial' = [initial EXCEPT ![i] = InitialIdle]
  /\ UNCHANGED <<queue, dlq, faults, gateway, refunding, scheduler>>

(* Another consumer of a second copy was faster: the unique constraint     *)
(* throws, the transaction rolls back, the message is dead-lettered.       *)
ViolateInitial(i) ==
  /\ initial[i].pc = "answered"
  /\ payment[FirstBill(initial[i].sub)] # "none"
  /\ Reject(Created(initial[i].sub))
  /\ initial' = [initial EXCEPT ![i] = InitialIdle]
  /\ UNCHANGED <<outbox, emitted, queue, faults, tables, gateway, refunding, scheduler>>

InitialStep(i) ==
  \/ \E s \in Subs : SkipInitial(i, s) \/ BeginInitial(i, s)
  \/ AskInitial(i) \/ CommitInitial(i) \/ ViolateInitial(i)

-----------------------------------------------------------------------------
(* cancelBillingAndRefund: the consumer of SubscriptionCancelled.          *)

(* Variant: nothing is refunded once the schedule is off.                  *)
BeginRefund_ScheduledOnly(i, s) ==
  /\ refunding[i].pc = "idle"
  /\ Take(CancelledQueue, Cancelled(s))
  /\ LET rows == {c \in Cycles : schedule[s].active /\ payment[<<s, c>>] = "APPROVED"}
     IN refunding' = [refunding EXCEPT ![i] =
          [pc |-> "refunding", sub |-> s, seen |-> schedule[s], rows |-> rows, todo |-> rows]]
  /\ UNCHANGED <<outbox, emitted, dlq, faults, tables, gateway, initial, scheduler>>

(* The schedule and the payments are read; those APPROVED are to refund.   *)
BeginRefund(i, s) ==
  /\ refunding[i].pc = "idle"
  /\ Take(CancelledQueue, Cancelled(s))
  /\ LET rows == {c \in Cycles : payment[<<s, c>>] = "APPROVED"}
     IN refunding' = [refunding EXCEPT ![i] =
          [pc |-> "refunding", sub |-> s, seen |-> schedule[s], rows |-> rows, todo |-> rows]]
  /\ UNCHANGED <<outbox, emitted, dlq, faults, tables, gateway, initial, scheduler>>

(* cancel() gives the money of a payment back, the newest payment first.   *)
RefundNext(i) ==
  /\ refunding[i].pc = "refunding"
  /\ \E c \in refunding[i].todo :
       /\ \A d \in refunding[i].todo : d <= c
       /\ returned' = returned \cup {<<refunding[i].sub, c>>}
       /\ refunding' = [refunding EXCEPT ![i].todo = @ \ {c}]
  /\ UNCHANGED <<messaging, tables, charged, initial, scheduler>>

(* Variant: a failed cancel is swallowed, the refund goes on without it.   *)
RefundFails_Swallowed(i) ==
  /\ refunding[i].pc = "refunding"
  /\ Fault("cancelFails")
  /\ \E c \in refunding[i].todo : refunding' = [refunding EXCEPT ![i].todo = @ \ {c}]
  /\ UNCHANGED <<outbox, emitted, queue, dlq, tables, gateway, initial, scheduler>>

(* cancel() fails, the money perhaps returned all the same: the whole      *)
(* transaction rolls back and the message is dead-lettered.                *)
RefundFails(i) ==
  /\ refunding[i].pc = "refunding"
  /\ \E c \in refunding[i].todo :
       /\ \A d \in refunding[i].todo : d <= c
       /\ returned' \in {returned, returned \cup {<<refunding[i].sub, c>>}}
  /\ Fault("cancelFails")
  /\ Reject(Cancelled(refunding[i].sub))
  /\ refunding' = [refunding EXCEPT ![i] = RefundIdle]
  /\ UNCHANGED <<outbox, emitted, queue, tables, charged, initial, scheduler>>

(* The schedule read at the start is written back switched off, if it was  *)
(* on; the rows become REFUNDED and are announced.                         *)
CommitRefund(i) ==
  LET s == refunding[i].sub
      bills == {s} \X refunding[i].rows
  IN
  /\ refunding[i].pc = "refunding"
  /\ refunding[i].todo = {}
  /\ schedule' = IF refunding[i].seen.active
                   THEN [schedule EXCEPT ![s] = [refunding[i].seen EXCEPT !.active = FALSE]]
                   ELSE schedule
  /\ payment' = [b \in Bills |-> IF b \in bills THEN "REFUNDED" ELSE payment[b]]
  /\ Emit({Refunded(b) : b \in bills})
  /\ refunding' = [refunding EXCEPT ![i] = RefundIdle]
  /\ UNCHANGED <<queue, dlq, faults, gateway, initial, scheduler>>

RefundStep(i) ==
  \/ \E s \in Subs : BeginRefund(i, s)
  \/ RefundNext(i) \/ RefundFails(i) \/ CommitRefund(i)

-----------------------------------------------------------------------------
(* BillingScheduler.chargeDueSubscriptions and processScheduledPayment.    *)

(* The poll reads copies of due, active schedules, in no transaction.      *)
(* (MaxCycle bounds the cycles considered.)                                *)
Due == {s \in Subs : schedule[s].active /\ schedule[s].cycle <= MaxCycle}

Poll(i) ==
  /\ scheduler[i].pc = "idle"
  /\ \E batch \in (SUBSET Due) \ {{}} :
       scheduler' = [scheduler EXCEPT ![i] =
         [pc |-> "batch", sub |-> NoSub, todo |-> batch,
          copy |-> [s \in Subs |-> IF s \in batch THEN schedule[s] ELSE NoSchedule],
          seen |-> NoSchedule, answer |-> "none"]]
  /\ UNCHANGED <<messaging, tables, gateway, initial, refunding>>

(* One schedule of the batch: its transaction starts with the check for an *)
(* existing row of the copy's cycle.                                       *)
BeginScheduled(i, s) ==
  /\ scheduler[i].pc = "batch"
  /\ s \in scheduler[i].todo
  /\ LET duplicate == payment[<<s, scheduler[i].copy[s].cycle>>] # "none"
     IN scheduler' = [scheduler EXCEPT
          ![i].pc = IF duplicate THEN "answered" ELSE "charging",
          ![i].answer = IF duplicate THEN "duplicate" ELSE "none",
          ![i].sub = s, ![i].seen = schedule[s]]
  /\ UNCHANGED <<messaging, tables, gateway, initial, refunding>>

CopyInHand(i) == scheduler[i].copy[scheduler[i].sub]
BillInHand(i) == <<scheduler[i].sub, CopyInHand(i).cycle>>

AskScheduled(i) ==
  /\ scheduler[i].pc = "charging"
  /\ \E answer \in Answer :
       /\ Approve(BillInHand(i), answer)
       /\ scheduler' = [scheduler EXCEPT ![i].pc = "answered", ![i].answer = answer]
  /\ UNCHANGED <<outbox, emitted, queue, dlq, tables, initial, refunding>>

Advance(copy) == [cycle |-> copy.cycle + 1, retry |-> 0, active |-> copy.active]
Deactivate(copy) == [copy EXCEPT !.active = FALSE]

(* Variant: the retry is not counted.                                      *)
ScheduleRetry_NotCounted(copy) == copy

(* Variant: the retry date is taken for that of the next cycle.            *)
ScheduleRetry_NextCycle(copy) == [copy EXCEPT !.retry = @ + 1, !.cycle = @ + 1]

ScheduleRetry(copy) == [copy EXCEPT !.retry = @ + 1]

LastChance(copy) == copy.retry >= MaxAttempts - 1

(* save(): a merge.  The copy overwrites the row with all its columns;     *)
(* when it equals the snapshot no UPDATE need be issued (next_billing_at   *)
(* is left out, so it may differ there).                                   *)
Save(i, copy) ==
  \/ schedule' = [schedule EXCEPT ![scheduler[i].sub] = copy]
  \/ copy = scheduler[i].seen /\ UNCHANGED schedule

(* The thread goes on with the rest of its batch.                          *)
NextOfBatch(i) ==
  LET rest == scheduler[i].todo \ {scheduler[i].sub}
  IN scheduler' = [scheduler EXCEPT ![i] =
       IF rest = {} THEN SchedulerIdle
       ELSE [pc |-> "batch", sub |-> NoSub, todo |-> rest,
             copy |-> [scheduler[i].copy EXCEPT ![scheduler[i].sub] = NoSchedule],
             seen |-> NoSchedule, answer |-> "none"]]

(* Variant: no unique constraint on (subscription, cycle).                 *)
CommitApproved_Unconstrained(i) ==
  /\ scheduler[i].pc = "answered"
  /\ scheduler[i].answer = "approved"
  /\ payment' = [payment EXCEPT ![BillInHand(i)] = "APPROVED"]
  /\ Emit({Completed(BillInHand(i))})
  /\ Save(i, Advance(CopyInHand(i)))
  /\ NextOfBatch(i)
  /\ UNCHANGED <<queue, dlq, faults, gateway, initial, refunding>>

(* Approved: the row, the event and the next cycle.                        *)
CommitApproved(i) ==
  /\ scheduler[i].pc = "answered"
  /\ scheduler[i].answer = "approved"
  /\ payment[BillInHand(i)] = "none"
  /\ payment' = [payment EXCEPT ![BillInHand(i)] = "APPROVED"]
  /\ Emit({Completed(BillInHand(i))})
  /\ Save(i, Advance(CopyInHand(i)))
  /\ NextOfBatch(i)
  /\ UNCHANGED <<queue, dlq, faults, gateway, initial, refunding>>

(* The cycle had a row before: on to the next cycle, from the copy.        *)
CommitDuplicate(i) ==
  /\ scheduler[i].pc = "answered"
  /\ scheduler[i].answer = "duplicate"
  /\ Save(i, Advance(CopyInHand(i)))
  /\ NextOfBatch(i)
  /\ UNCHANGED <<messaging, payment, gateway, initial, refunding>>

GivesUp(i) == LastChance(CopyInHand(i)) \/ ~Retryable(scheduler[i].answer)

(* Declined for good, or for the last time: a FAILED row, the event, the   *)
(* schedule off.                                                           *)
CommitGiveUp(i) ==
  /\ scheduler[i].pc = "answered"
  /\ scheduler[i].answer \notin {"approved", "duplicate"}
  /\ GivesUp(i)
  /\ payment[BillInHand(i)] = "none"
  /\ payment' = [payment EXCEPT ![BillInHand(i)] = "FAILED"]
  /\ Emit({Failed(BillInHand(i))})
  /\ Save(i, Deactivate(CopyInHand(i)))
  /\ NextOfBatch(i)
  /\ UNCHANGED <<queue, dlq, faults, gateway, initial, refunding>>

(* Variant: the charge leaves no row because it is to be tried again, and  *)
(* the schedule is switched off because it was not approved.               *)
CommitRetry_Stops(i) ==
  /\ scheduler[i].pc = "answered"
  /\ scheduler[i].answer \notin {"approved", "duplicate"}
  /\ ~GivesUp(i)
  /\ Save(i, Deactivate(CopyInHand(i)))
  /\ NextOfBatch(i)
  /\ UNCHANGED <<messaging, payment, gateway, initial, refunding>>

(* Declined with retries left: no row, the retry is counted.               *)
CommitRetry(i) ==
  /\ scheduler[i].pc = "answered"
  /\ scheduler[i].answer \notin {"approved", "duplicate"}
  /\ ~GivesUp(i)
  /\ Save(i, ScheduleRetry(CopyInHand(i)))
  /\ NextOfBatch(i)
  /\ UNCHANGED <<messaging, payment, gateway, initial, refunding>>

(* Another instance inserted the row meanwhile: the unique constraint      *)
(* throws, everything rolls back, the next of the batch is tried.          *)
ViolateScheduled(i) ==
  /\ scheduler[i].pc = "answered"
  /\ \/ scheduler[i].answer = "approved"
     \/ scheduler[i].answer # "duplicate" /\ GivesUp(i)
  /\ payment[BillInHand(i)] # "none"
  /\ NextOfBatch(i)
  /\ UNCHANGED <<messaging, tables, gateway, initial, refunding>>

SchedulerStep(i) ==
  \/ Poll(i)
  \/ \E s \in Subs : BeginScheduled(i, s)
  \/ AskScheduled(i) \/ CommitApproved(i) \/ CommitDuplicate(i)
  \/ CommitGiveUp(i) \/ CommitRetry(i) \/ ViolateScheduled(i)

-----------------------------------------------------------------------------
(* Variant: messages acknowledged on receipt.                              *)
Crash_LosesMessages(i) ==
  /\ Fault("crash")
  /\ <<initial[i].pc, refunding[i].pc, scheduler[i].pc>> # <<"idle", "idle", "idle">>
  /\ initial' = [initial EXCEPT ![i] = InitialIdle]
  /\ refunding' = [refunding EXCEPT ![i] = RefundIdle]
  /\ scheduler' = [scheduler EXCEPT ![i] = SchedulerIdle]
  /\ UNCHANGED <<outbox, emitted, queue, dlq, tables, gateway>>

(* An instance dies: its transactions roll back, its messages go back to   *)
(* their queues, what the gateway did stays done.                          *)
Crash(i) ==
  /\ Fault("crash")
  /\ <<initial[i].pc, refunding[i].pc, scheduler[i].pc>> # <<"idle", "idle", "idle">>
  /\ queue' = [q \in Queues |->
       queue[q] \cup
         (IF q = CreatedQueue /\ initial[i].pc # "idle"
            THEN {Created(initial[i].sub)} ELSE {}) \cup
         (IF q = CancelledQueue /\ refunding[i].pc # "idle"
            THEN {Cancelled(refunding[i].sub)} ELSE {})]
  /\ initial' = [initial EXCEPT ![i] = InitialIdle]
  /\ refunding' = [refunding EXCEPT ![i] = RefundIdle]
  /\ scheduler' = [scheduler EXCEPT ![i] = SchedulerIdle]
  /\ UNCHANGED <<outbox, emitted, dlq, tables, gateway>>

BillingStep == \E i \in Instances : InitialStep(i) \/ RefundStep(i) \/ SchedulerStep(i) \/ Crash(i)

(* Every thread that can go on does so eventually.                         *)
ThreadFairness(i) ==
  WF_billingVars(InitialStep(i)) /\ WF_billingVars(RefundStep(i))
  /\ WF_billingVars(SchedulerStep(i))

-----------------------------------------------------------------------------
(* A bill recorded as approved was charged, and one recorded as refunded   *)
(* had all its money returned first (PaymentService.java:134-136), with    *)
(* every failure and interleaving of two instances.                        *)
BooksBacked ==
  \A b \in Bills :
    /\ payment[b] = "APPROVED" => b \in charged
    /\ payment[b] = "REFUNDED" => b \in returned

(* Money taken for a bill that has no row is not forgotten, whichever      *)
(* answer was lost, whoever crashed and whatever stale copy was saved: the *)
(* bill will be asked for again under the same key, for the first payment  *)
(* because its message is still in the queue or in a consumer's hands, for *)
(* the others because the schedule is on and not past the cycle            *)
(* (PgApproval.java:40-45: an unknown outcome is no failure, it is asked   *)
(* again).  Only a cancellation ends that: it looks at rows only.          *)
TakenIsPursued ==
  \A s \in Subs, c \in Cycles :
    <<s, c>> \in charged /\ payment[<<s, c>>] = "none" =>
      \/ c = 1 /\ \/ Created(s) \in queue[CreatedQueue]
                  \/ \E i \in Instances : initial[i].pc # "idle" /\ initial[i].sub = s
      \/ c > 1 /\ \/ schedule[s].active /\ schedule[s].cycle <= c
                  \/ Cancelled(s) \in emitted

(* The scheduler never skips a cycle: stale copies only move a schedule    *)
(* back, onto cycles that have their row (D-41).                           *)
NoCycleSkipped ==
  \A s \in Subs : \A c \in Cycles : c < schedule[s].cycle => payment[<<s, c>>] # "none"

(* The service implements its contract: per bill one verdict, announced as *)
(* recorded, backed by the gateway's books.                                *)
MoneyOf(b) ==
  IF b \notin charged THEN "none" ELSE IF b \in returned THEN "returned" ELSE "taken"
money == [b \in Bills |-> MoneyOf(b)]
told == {<<e.type, e.of>> : e \in emitted \cap PaymentEvent}

Contract == INSTANCE PaymentContract WITH row <- payment
ImplementsContract == Contract!Spec

(* The first payment of every subscription gets a verdict.                 *)
FirstPaymentSettles ==
  \A s \in Subs : Created(s) \in emitted ~> payment[FirstBill(s)] # "none"

(* What was paid before a cancellation is announced is refunded, unless    *)
(* the cancellation ends in the dead-letter queue (D-16).                  *)
RefundFollowsCancel ==
  \A b \in Bills :
    Cancelled(b[1]) \in outbox /\ payment[b] = "APPROVED"
      ~> payment[b] = "REFUNDED" \/ Cancelled(b[1]) \in dlq

(* An active schedule is not forgotten: its cycle gets a row, or billing   *)
(* stops (D-41: a schedule wrongly switched off is never billed again).    *)
DueIsBilled ==
  \A b \in Bills :
    schedule[b[1]].active /\ schedule[b[1]].cycle = b[2]
      ~> payment[b] # "none" \/ ~schedule[b[1]].active

(* BillingSchedule.java:88: a cancellation stops the billing at once (a    *)
(* schedule left behind would bill a cancelled subscription).              *)
RefundedIsNotScheduled ==
  \A b \in Bills : payment[b] = "REFUNDED" => ~schedule[b[1]].active
=============================================================================
