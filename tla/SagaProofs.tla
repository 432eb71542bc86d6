----------------------------- MODULE SagaProofs -----------------------------
(***************************************************************************)
(* Theorems about payment-service on its own and about the saga, for any   *)
(* subscriptions, members, instances of the services, cycles, dunning      *)
(* attempts, kinds of failure and bound on failures.                       *)
(*                                                                         *)
(* Payment-service: its safety invariants, and that it implements          *)
(* PaymentContract.  The invariants are about the tables and the gateway's *)
(* books; an inductive invariant must also say what the threads between    *)
(* their read and their commit may rely on.  All of it only ever becomes   *)
(* truer: rows stay, charges and returns stay.  So each step has to show   *)
(* the tables and the one instance that moved; the lemmas RowsBeforeGrows, *)
(* InitialKept, RefundKept and SchedulerKept do the rest.  The lemmas      *)
(* speak of the steps of Billing alone, so that they serve in both         *)
(* compositions.                                                           *)
(*                                                                         *)
(* The saga: no service sees another's tables, and what one of them        *)
(* concludes from an event must be true of the table it came from whenever *)
(* the event is read, however late.  So the inductive invariant traces     *)
(* every message in a queue or in a consumer's hands back to the events    *)
(* committed, and these to the rows of payment-service, which are never    *)
(* taken back.  BillingShows and SubscriptionsShows say what one service's *)
(* step can change as far as the others are concerned; each action is      *)
(* shown to stay within them, and the invariant to be kept by them.        *)
(***************************************************************************)
EXTENDS Saga, PaymentService, TLAPS

(* Payment-service on its own.                                             *)

PaidStatus == {"APPROVED", "REFUNDED"}

(* Every cycle of s before c has its row in the table pay.                 *)
RowsBefore(s, c, pay) == \A d \in Cycles : d < c => pay[<<s, d>>] # "none"

(* What the consumer of SubscriptionCreated knows between the gateway's    *)
(* answer and its commit.                                                  *)
InitialOK(t, ch) ==
  /\ t.pc # "idle" => t.sub \in Subs
  /\ t.pc = "answered" /\ t.answer = "approved" => FirstBill(t.sub) \in ch

(* What the consumer of SubscriptionCancelled knows: its rows are paid     *)
(* for, the money of those dealt with is returned, and the schedule it     *)
(* will write back was no further than the rows.                           *)
RefundOK(t, pay, ret) ==
  t.pc = "refunding" =>
    /\ t.sub \in Subs
    /\ t.todo \subseteq t.rows
    /\ \A c \in t.rows : pay[<<t.sub, c>>] \in PaidStatus
    /\ \A c \in t.rows \ t.todo : <<t.sub, c>> \in ret
    /\ RowsBefore(t.sub, t.seen.cycle, pay)

(* What the scheduler knows: its copies, however old, are no further than  *)
(* the rows; an approved bill was charged, a duplicate has its row.        *)
SchedulerOK(t, pay, ch) ==
  /\ \A s \in t.todo : t.copy[s].cycle \in Cycles /\ RowsBefore(s, t.copy[s].cycle, pay)
  /\ t.pc \in {"charging", "answered"} => t.sub \in t.todo
  /\ t.pc = "answered" /\ t.answer = "approved" =>
       <<t.sub, t.copy[t.sub].cycle>> \in ch
  /\ t.pc = "answered" /\ t.answer = "duplicate" =>
       pay[<<t.sub, t.copy[t.sub].cycle>>] # "none"

TableTypes ==
  /\ payment \in [Bills -> PaymentStatus \cup {"none"}]
  /\ schedule \in [Subs -> Schedule]
  /\ charged \subseteq Bills
  /\ returned \subseteq charged

ThreadTypes ==
  /\ initial \in [Instances -> InitialThread]
  /\ refunding \in [Instances -> RefundThread]
  /\ scheduler \in [Instances -> SchedulerThread]

(* The rows agree with the gateway's books.                                *)
RowsBacked ==
  \A b \in Bills :
    /\ payment[b] = "APPROVED" => b \in charged
    /\ payment[b] = "REFUNDED" => b \in returned
    /\ b \in returned => payment[b] \in PaidStatus

(* A schedule is no further than its rows, and billable when active.       *)
SchedulesFollow ==
  \A s \in Subs :
    /\ RowsBefore(s, schedule[s].cycle, payment)
    /\ schedule[s].active => schedule[s].cycle # 0

TablesOK == TableTypes /\ RowsBacked /\ SchedulesFollow

InstanceOK(i) ==
  /\ InitialOK(initial[i], charged)
  /\ RefundOK(refunding[i], payment, returned)
  /\ SchedulerOK(scheduler[i], payment, charged)

BillingInv == TablesOK /\ ThreadTypes /\ \A i \in Instances : InstanceOK(i)

(* Rows, payments, charges and returns are never taken back.               *)
Grows ==
  /\ \A b \in Bills : payment[b] # "none" => payment'[b] # "none"
  /\ \A b \in Bills : payment[b] \in PaidStatus => payment'[b] \in PaidStatus
  /\ charged \subseteq charged'
  /\ returned \subseteq returned'

-----------------------------------------------------------------------------
LEMMA RowsBeforeGrows ==
  ASSUME Grows, NEW s \in Subs, NEW c \in Nat, RowsBefore(s, c, payment)
  PROVE  RowsBefore(s, c, payment')
  BY DEF Grows, RowsBefore, Bills

LEMMA InitialKept ==
  ASSUME Grows, NEW t \in InitialThread, InitialOK(t, charged)
  PROVE  InitialOK(t, charged')
  BY DEF Grows, InitialOK

LEMMA RefundKept ==
  ASSUME Grows, NEW t \in RefundThread, RefundOK(t, payment, returned)
  PROVE  RefundOK(t, payment', returned')
<1>1. t.seen.cycle \in Nat
  BY CycleAssumption DEF RefundThread, Schedule
<1>2. ASSUME t.sub \in Subs, RowsBefore(t.sub, t.seen.cycle, payment)
      PROVE  RowsBefore(t.sub, t.seen.cycle, payment')
  BY <1>1, <1>2, RowsBeforeGrows
<1> QED
  BY <1>2 DEF Grows, RefundOK, RefundThread, Bills

LEMMA SchedulerKept ==
  ASSUME Grows, NEW t \in SchedulerThread, SchedulerOK(t, payment, charged)
  PROVE  SchedulerOK(t, payment', charged')
<1>1. ASSUME NEW s \in t.todo
      PROVE  t.copy[s].cycle \in Cycles /\ RowsBefore(s, t.copy[s].cycle, payment')
  <2>1. s \in Subs
    BY <1>1 DEF SchedulerThread
  <2>2. t.copy[s].cycle \in Cycles /\ RowsBefore(s, t.copy[s].cycle, payment)
    BY <1>1 DEF SchedulerOK
  <2>3. t.copy[s].cycle \in Nat
    BY <2>2, CycleAssumption DEF Cycles
  <2> QED
    BY <2>1, <2>2, <2>3, RowsBeforeGrows
<1>2. ASSUME t.pc = "answered"
      PROVE  <<t.sub, t.copy[t.sub].cycle>> \in Bills
  BY <1>1, <1>2 DEF SchedulerOK, SchedulerThread, Bills
<1> QED
  BY <1>1, <1>2 DEF Grows, SchedulerOK

(* One instance moves: the others are kept by growth.                      *)
LEMMA OneInstanceMoves ==
  ASSUME BillingInv, TablesOK', ThreadTypes', Grows, NEW i \in Instances,
         \A j \in Instances \ {i} :
           /\ initial'[j] = initial[j]
           /\ refunding'[j] = refunding[j]
           /\ scheduler'[j] = scheduler[j],
         InitialOK(initial'[i], charged'),
         RefundOK(refunding'[i], payment', returned'),
         SchedulerOK(scheduler'[i], payment', charged')
  PROVE  BillingInv'
<1> SUFFICES ASSUME NEW j \in Instances PROVE InstanceOK(j)'
  BY DEF BillingInv
<1>1. CASE j = i
  BY <1>1 DEF InstanceOK
<1>2. CASE j # i
  <2>1. /\ initial[j] \in InitialThread /\ refunding[j] \in RefundThread
        /\ scheduler[j] \in SchedulerThread /\ InstanceOK(j)
    BY DEF BillingInv, ThreadTypes
  <2> QED
    BY <1>2, <2>1, InitialKept, RefundKept, SchedulerKept DEF InstanceOK
<1> QED
  BY <1>1, <1>2

(* The threads of one instance whose own thread did not move.              *)
LEMMA ThreadsKept ==
  ASSUME BillingInv, Grows, NEW i \in Instances
  PROVE  /\ InitialOK(initial[i], charged')
         /\ RefundOK(refunding[i], payment', returned')
         /\ SchedulerOK(scheduler[i], payment', charged')
<1>1. /\ initial[i] \in InitialThread /\ refunding[i] \in RefundThread
      /\ scheduler[i] \in SchedulerThread /\ InstanceOK(i)
  BY DEF BillingInv, ThreadTypes
<1> QED
  BY <1>1, InitialKept, RefundKept, SchedulerKept DEF InstanceOK

LEMMA InitialMoves ==
  ASSUME BillingInv, TablesOK', Grows, NEW i \in Instances, NEW t \in InitialThread,
         initial' = [initial EXCEPT ![i] = t],
         UNCHANGED <<refunding, scheduler>>,
         InitialOK(t, charged')
  PROVE  BillingInv'
<1>1. initial'[i] = t /\ \A j \in Instances \ {i} : initial'[j] = initial[j]
  BY DEF BillingInv, ThreadTypes
<1>2. ThreadTypes'
  BY DEF BillingInv, ThreadTypes
<1> QED
  BY <1>1, <1>2, ThreadsKept, OneInstanceMoves

LEMMA RefundMoves ==
  ASSUME BillingInv, TablesOK', Grows, NEW i \in Instances, NEW t \in RefundThread,
         refunding' = [refunding EXCEPT ![i] = t],
         UNCHANGED <<initial, scheduler>>,
         RefundOK(t, payment', returned')
  PROVE  BillingInv'
<1>1. refunding'[i] = t /\ \A j \in Instances \ {i} : refunding'[j] = refunding[j]
  BY DEF BillingInv, ThreadTypes
<1>2. ThreadTypes'
  BY DEF BillingInv, ThreadTypes
<1> QED
  BY <1>1, <1>2, ThreadsKept, OneInstanceMoves

LEMMA SchedulerMoves ==
  ASSUME BillingInv, TablesOK', Grows, NEW i \in Instances, NEW t \in SchedulerThread,
         scheduler' = [scheduler EXCEPT ![i] = t],
         UNCHANGED <<initial, refunding>>,
         SchedulerOK(t, payment', charged')
  PROVE  BillingInv'
<1>1. scheduler'[i] = t /\ \A j \in Instances \ {i} : scheduler'[j] = scheduler[j]
  BY DEF BillingInv, ThreadTypes
<1>2. ThreadTypes'
  BY DEF BillingInv, ThreadTypes
<1> QED
  BY <1>1, <1>2, ThreadsKept, OneInstanceMoves

-----------------------------------------------------------------------------
(* What steps do to the tables and the books.                              *)

LEMMA TablesSame ==
  ASSUME TablesOK, UNCHANGED <<payment, schedule, charged, returned>>
  PROVE  TablesOK' /\ Grows
  BY DEF TablesOK, TableTypes, RowsBacked, SchedulesFollow, Grows, RowsBefore

(* The gateway is asked for b: it takes the money or does not.             *)
LEMMA GatewayAsked ==
  ASSUME TablesOK, NEW b \in Bills, NEW answer \in Answer, Approve(b, answer),
         UNCHANGED <<payment, schedule>>
  PROVE  TablesOK' /\ Grows /\ (answer = "approved" => b \in charged')
<1>1. charged' \in {charged, charged \cup {b}} /\ returned' = returned
  BY DEF Approve
<1>2. answer = "approved" => b \in charged'
  BY DEF Approve
<1>3. TableTypes'
  BY <1>1 DEF TablesOK, TableTypes
<1>4. RowsBacked' /\ Grows
  BY <1>1 DEF TablesOK, RowsBacked, Grows
<1>5. SchedulesFollow'
  BY DEF TablesOK, SchedulesFollow, RowsBefore
<1> QED
  BY <1>2, <1>3, <1>4, <1>5 DEF TablesOK

(* A schedule is written that is no further than the rows, or none is.     *)
ScheduleWritten ==
  \/ UNCHANGED schedule
  \/ \E s \in Subs, c \in Schedule :
       /\ schedule' = [schedule EXCEPT ![s] = c]
       /\ RowsBefore(s, c.cycle, payment')
       /\ c.active => c.cycle # 0

LEMMA WritesSchedule ==
  ASSUME NEW s \in Subs, NEW c \in Schedule, schedule' = [schedule EXCEPT ![s] = c],
         RowsBefore(s, c.cycle, payment'), c.active => c.cycle # 0
  PROVE  ScheduleWritten
  BY DEF ScheduleWritten

LEMMA SchedulesStillFollow ==
  ASSUME TablesOK, Grows, ScheduleWritten
  PROVE  schedule' \in [Subs -> Schedule] /\ SchedulesFollow'
<1>1. schedule' \in [Subs -> Schedule]
  BY DEF TablesOK, TableTypes, ScheduleWritten
<1>2. ASSUME NEW s \in Subs
      PROVE  /\ RowsBefore(s, schedule'[s].cycle, payment')
             /\ schedule'[s].active => schedule'[s].cycle # 0
  <2>1. CASE schedule'[s] = schedule[s]
    <3>1. schedule[s].cycle \in Nat /\ RowsBefore(s, schedule[s].cycle, payment)
      BY CycleAssumption DEF TablesOK, TableTypes, Schedule, SchedulesFollow
    <3> QED
      BY <2>1, <3>1, RowsBeforeGrows DEF TablesOK, SchedulesFollow
  <2>2. CASE schedule'[s] # schedule[s]
    <3>1. PICK r \in Subs, c \in Schedule :
            /\ schedule' = [schedule EXCEPT ![r] = c]
            /\ RowsBefore(r, c.cycle, payment')
            /\ c.active => c.cycle # 0
      BY <2>2 DEF ScheduleWritten
    <3>2. s = r /\ schedule'[s] = c
      BY <2>2, <3>1 DEF TablesOK, TableTypes
    <3> QED
      BY <3>1, <3>2
  <2> QED
    BY <2>1, <2>2
<1> QED
  BY <1>1, <1>2 DEF SchedulesFollow

(* Only a schedule is written.                                             *)
LEMMA ScheduleOnly ==
  ASSUME TablesOK, ScheduleWritten, UNCHANGED <<payment, charged, returned>>
  PROVE  TablesOK' /\ Grows
<1>1. Grows
  BY DEF Grows
<1> QED
  BY <1>1, SchedulesStillFollow DEF TablesOK, TableTypes, RowsBacked

(* A bill gets its row.                                                    *)
LEMMA RowInserted ==
  ASSUME TablesOK, NEW b \in Bills, NEW v \in {"APPROVED", "FAILED"},
         payment[b] = "none", v = "APPROVED" => b \in charged,
         payment' = [payment EXCEPT ![b] = v],
         UNCHANGED <<charged, returned>>, ScheduleWritten
  PROVE  TablesOK' /\ Grows
<1>1. Grows
  BY DEF Grows, TablesOK, TableTypes, PaidStatus
<1>2. payment' \in [Bills -> PaymentStatus \cup {"none"}]
  BY DEF TablesOK, TableTypes, PaymentStatus
<1>3. RowsBacked'
  BY DEF TablesOK, TableTypes, RowsBacked, PaidStatus
<1> QED
  BY <1>1, <1>2, <1>3, SchedulesStillFollow DEF TablesOK, TableTypes

(* Bills become REFUNDED once their money is back.                         *)
LEMMA RowsRefunded ==
  ASSUME TablesOK, NEW B \in SUBSET Bills, \A b \in B : b \in returned,
         payment' = [b \in Bills |-> IF b \in B THEN "REFUNDED" ELSE payment[b]],
         UNCHANGED <<charged, returned>>, ScheduleWritten
  PROVE  TablesOK' /\ Grows
<1>1. Grows
  BY DEF Grows, TablesOK, TableTypes, PaidStatus
<1>2. payment' \in [Bills -> PaymentStatus \cup {"none"}]
  BY DEF TablesOK, TableTypes, PaymentStatus
<1>3. RowsBacked'
  BY DEF TablesOK, TableTypes, RowsBacked, PaidStatus
<1> QED
  BY <1>1, <1>2, <1>3, SchedulesStillFollow DEF TablesOK, TableTypes

(* Money goes back.                                                        *)
LEMMA MoneyReturned ==
  ASSUME TablesOK, NEW b \in Bills, payment[b] \in PaidStatus, returned' \in {returned, returned \cup {b}},
         UNCHANGED <<payment, schedule, charged>>
  PROVE  TablesOK' /\ Grows
<1>1. returned' \subseteq charged /\ Grows
  BY DEF TablesOK, TableTypes, RowsBacked, PaidStatus, Grows
<1>2. TableTypes' /\ RowsBacked'
  BY <1>1 DEF TablesOK, TableTypes, RowsBacked, Grows, PaidStatus
<1>3. SchedulesFollow'
  BY DEF TablesOK, SchedulesFollow, RowsBefore
<1> QED
  BY <1>1, <1>2, <1>3 DEF TablesOK

-----------------------------------------------------------------------------
(* The steps of the service, thread by thread.                             *)

(* A step that shows in no table and no thread.                            *)
LEMMA NothingMoves ==
  ASSUME BillingInv, UNCHANGED billing
  PROVE  BillingInv'
<1>1. UNCHANGED <<payment, schedule, charged, returned, initial, refunding, scheduler>>
  BY DEF billing
<1>2. TablesOK' /\ ThreadTypes'
  BY <1>1, TablesSame DEF BillingInv, ThreadTypes
<1>3. \A i \in Instances : InstanceOK(i)'
  BY <1>1 DEF BillingInv, InstanceOK
<1> QED
  BY <1>2, <1>3 DEF BillingInv

LEMMA InitialIdleOK == InitialIdle \in InitialThread /\ \A ch : InitialOK(InitialIdle, ch)
  BY DEF InitialIdle, InitialThread, InitialOK

LEMMA InitialSteps ==
  ASSUME BillingInv, NEW i \in Instances, InitialStep(i)
  PROVE  BillingInv'
<1> DEFINE t == initial[i]
<1>t. TablesOK /\ t \in InitialThread /\ InitialOK(t, charged)
  BY DEF BillingInv, ThreadTypes, InstanceOK
<1>f. \A s \in Subs : FirstBill(s) \in Bills
  BY CycleAssumption DEF FirstBill, Bills, Cycles
<1>1. ASSUME NEW s \in Subs, SkipInitial(i, s) PROVE BillingInv'
  BY <1>1, NothingMoves DEF SkipInitial
<1>2. ASSUME NEW s \in Subs, BeginInitial(i, s) PROVE BillingInv'
  <2> DEFINE new == [pc |-> "charging", sub |-> s, answer |-> "none"]
  <2>1. new \in InitialThread /\ InitialOK(new, charged')
    BY DEF InitialThread, InitialOK
  <2>2. initial' = [initial EXCEPT ![i] = new]
    BY <1>2 DEF BeginInitial
  <2>3. UNCHANGED <<payment, schedule, charged, returned, refunding, scheduler>>
    BY <1>2 DEF BeginInitial, tables, gateway
  <2>4. TablesOK' /\ Grows
    BY <1>t, <2>3, TablesSame
  <2> QED
    BY <2>1, <2>2, <2>3, <2>4, InitialMoves
<1>3. CASE AskInitial(i)
  <2>1. PICK answer \in Answer :
          /\ Approve(FirstBill(t.sub), answer)
          /\ initial' = [initial EXCEPT ![i].pc = "answered", ![i].answer = answer]
    BY <1>3 DEF AskInitial
  <2> DEFINE b == FirstBill(t.sub)
             new == [t EXCEPT !.pc = "answered", !.answer = answer]
  <2>2. t.sub \in Subs /\ b \in Bills
    BY <1>3, <1>t, <1>f DEF AskInitial, InitialOK
  <2>3. UNCHANGED <<payment, schedule, refunding, scheduler>>
    BY <1>3 DEF AskInitial, tables
  <2>4. Approve(b, answer)
    BY <2>1
  <2>5. TablesOK' /\ Grows /\ (answer = "approved" => b \in charged')
    BY <1>t, <2>2, <2>3, <2>4, GatewayAsked
  <2>6. new \in InitialThread /\ initial' = [initial EXCEPT ![i] = new]
    BY <1>t, <2>1 DEF InitialThread, BillingInv, ThreadTypes
  <2>7. new.sub = t.sub /\ new.pc = "answered" /\ new.answer = answer
    BY <1>t DEF InitialThread
  <2>8. InitialOK(new, charged')
    BY <2>2, <2>5, <2>7 DEF InitialOK
  <2> QED
    BY <2>3, <2>5, <2>6, <2>8, InitialMoves
<1>4. CASE CommitInitial(i)
  <2> DEFINE s == t.sub
             b == FirstBill(s)
             new == [cycle |-> 2, retry |-> 0, active |-> TRUE]
  <2>1. s \in Subs /\ b \in Bills /\ payment[b] = "none"
    BY <1>4, <1>t, <1>f DEF CommitInitial, InitialOK
  <2>2. UNCHANGED <<charged, returned, refunding, scheduler>>
    BY <1>4 DEF CommitInitial, gateway
  <2>3. new \in Schedule
    BY CycleAssumption, AttemptsAssumption DEF Schedule
  <2>4. TablesOK' /\ Grows
    <3>1. CASE t.answer = "approved"
      <4>1. payment' = [payment EXCEPT ![b] = "APPROVED"] /\ schedule' = [schedule EXCEPT ![s] = new]
        BY <1>4, <3>1 DEF CommitInitial
      <4>2. b \in charged
        BY <1>4, <1>t, <3>1 DEF CommitInitial, InitialOK
      <4>3. RowsBefore(s, new.cycle, payment')
        <5> SUFFICES ASSUME NEW d \in Cycles, d < 2 PROVE payment'[<<s, d>>] # "none"
          BY DEF RowsBefore
        <5>1. d = 1
          BY CycleAssumption DEF Cycles
        <5> QED
          BY <1>t, <2>1, <4>1, <5>1 DEF FirstBill, TablesOK, TableTypes
      <4>4. new.active => new.cycle # 0
        OBVIOUS
      <4>5. ScheduleWritten
        BY <2>1, <2>3, <4>1, <4>3, <4>4, WritesSchedule
      <4> QED
        BY <1>t, <2>1, <2>2, <4>1, <4>2, <4>5, RowInserted
    <3>2. CASE t.answer # "approved"
      <4>1. payment' = [payment EXCEPT ![b] = "FAILED"] /\ ScheduleWritten
        BY <1>4, <3>2 DEF CommitInitial, ScheduleWritten
      <4> QED
        BY <1>t, <2>1, <2>2, <4>1, RowInserted
    <3> QED
      BY <3>1, <3>2
  <2>5. initial' = [initial EXCEPT ![i] = InitialIdle]
    BY <1>4 DEF CommitInitial
  <2> QED
    BY <2>2, <2>4, <2>5, InitialIdleOK, InitialMoves
<1>5. CASE ViolateInitial(i)
  <2>1. /\ initial' = [initial EXCEPT ![i] = InitialIdle]
        /\ UNCHANGED <<payment, schedule, charged, returned, refunding, scheduler>>
    BY <1>5 DEF ViolateInitial, tables, gateway
  <2>2. TablesOK' /\ Grows
    BY <1>t, <2>1, TablesSame
  <2> QED
    BY <2>1, <2>2, InitialIdleOK, InitialMoves
<1> QED
  BY <1>1, <1>2, <1>3, <1>4, <1>5 DEF InitialStep

LEMMA RefundIdleOK ==
  RefundIdle \in RefundThread /\ \A pay, ret : RefundOK(RefundIdle, pay, ret)
<1>1. NoSchedule \in Schedule
  BY CycleAssumption, AttemptsAssumption DEF NoSchedule, Schedule
<1> QED
  BY <1>1 DEF RefundIdle, RefundThread, RefundOK

LEMMA RefundSteps ==
  ASSUME BillingInv, NEW i \in Instances, RefundStep(i)
  PROVE  BillingInv'
<1> DEFINE t == refunding[i]
<1>t. TablesOK /\ t \in RefundThread /\ RefundOK(t, payment, returned)
  BY DEF BillingInv, ThreadTypes, InstanceOK
<1>1. ASSUME NEW s \in Subs, BeginRefund(i, s) PROVE BillingInv'
  <2> DEFINE rows == {c \in Cycles : payment[<<s, c>>] = "APPROVED"}
             new == [pc |-> "refunding", sub |-> s, seen |-> schedule[s],
                     rows |-> rows, todo |-> rows]
  <2>1. new \in RefundThread
    BY <1>t DEF RefundThread, TablesOK, TableTypes
  <2>2. refunding' = [refunding EXCEPT ![i] = new]
    BY <1>1 DEF BeginRefund
  <2>3. UNCHANGED <<payment, schedule, charged, returned, initial, scheduler>>
    BY <1>1 DEF BeginRefund, tables, gateway
  <2>4. TablesOK' /\ Grows
    BY <1>t, <2>3, TablesSame
  <2>5. \A c \in rows : <<s, c>> \in charged
    BY <1>t DEF TablesOK, RowsBacked, Bills
  <2>6. RowsBefore(s, schedule[s].cycle, payment)
    BY <1>t DEF TablesOK, SchedulesFollow
  <2>7. RefundOK(new, payment', returned')
    BY <2>3, <2>5, <2>6 DEF RefundOK, PaidStatus
  <2> QED
    BY <2>1, <2>2, <2>3, <2>4, <2>7, RefundMoves
<1>2. CASE RefundNext(i)
  <2>1. PICK c \in t.todo :
          /\ returned' = returned \cup {<<t.sub, c>>}
          /\ refunding' = [refunding EXCEPT ![i].todo = @ \ {c}]
    BY <1>2 DEF RefundNext
  <2> DEFINE new == [t EXCEPT !.todo = @ \ {c}]
  <2>2. /\ t.pc = "refunding"
        /\ UNCHANGED <<payment, schedule, charged, initial, scheduler>>
    BY <1>2 DEF RefundNext, tables
  <2>3. <<t.sub, c>> \in Bills /\ payment[<<t.sub, c>>] \in PaidStatus
    BY <1>t, <2>1, <2>2 DEF RefundOK, RefundThread, Bills
  <2>4. TablesOK' /\ Grows
    BY <1>t, <2>1, <2>2, <2>3, MoneyReturned
  <2>5. new \in RefundThread /\ refunding' = [refunding EXCEPT ![i] = new]
    BY <1>t, <2>1 DEF RefundThread, BillingInv, ThreadTypes
  <2>6. /\ new.pc = t.pc /\ new.sub = t.sub /\ new.seen = t.seen
        /\ new.rows = t.rows /\ new.todo = t.todo \ {c}
    BY <1>t DEF RefundThread
  <2>7. RefundOK(t, payment', returned')
    BY <1>t, <2>4, RefundKept
  <2>8. <<t.sub, c>> \in returned'
    BY <2>1
  <2>9. RefundOK(new, payment', returned')
    BY <2>2, <2>6, <2>7, <2>8 DEF RefundOK
  <2> QED
    BY <2>2, <2>4, <2>5, <2>9, RefundMoves
<1>3. CASE RefundFails(i)
  <2>1. PICK c \in t.todo : returned' \in {returned, returned \cup {<<t.sub, c>>}}
    BY <1>3 DEF RefundFails
  <2>2. /\ t.pc = "refunding"
        /\ refunding' = [refunding EXCEPT ![i] = RefundIdle]
        /\ UNCHANGED <<payment, schedule, charged, initial, scheduler>>
    BY <1>3 DEF RefundFails, tables
  <2>3. <<t.sub, c>> \in Bills /\ payment[<<t.sub, c>>] \in PaidStatus
    BY <1>t, <2>1, <2>2 DEF RefundOK, RefundThread, Bills
  <2>4. TablesOK' /\ Grows
    BY <1>t, <2>1, <2>2, <2>3, MoneyReturned
  <2> QED
    BY <2>2, <2>4, RefundIdleOK, RefundMoves
<1>4. CASE CommitRefund(i)
  <2> DEFINE s == t.sub
             B == {s} \X t.rows
             c == [t.seen EXCEPT !.active = FALSE]
  <2>1. /\ t.pc = "refunding" /\ t.todo = {}
        /\ schedule' = IF t.seen.active THEN [schedule EXCEPT ![s] = c] ELSE schedule
        /\ payment' = [b \in Bills |-> IF b \in B THEN "REFUNDED" ELSE payment[b]]
        /\ refunding' = [refunding EXCEPT ![i] = RefundIdle]
        /\ UNCHANGED <<charged, returned, initial, scheduler>>
    BY <1>4 DEF CommitRefund, gateway
  <2>2. s \in Subs /\ B \in SUBSET Bills /\ \A b \in B : b \in returned
    BY <1>t, <2>1 DEF RefundOK, RefundThread, Bills
  <2>3. Grows
    BY <1>t, <2>1 DEF Grows, PaidStatus
  <2>4. RowsBefore(s, t.seen.cycle, payment')
    BY <1>t, <2>1, <2>3, RefundKept DEF RefundOK
  <2>5. c \in Schedule /\ c.cycle = t.seen.cycle /\ c.active = FALSE
    BY <1>t DEF RefundThread, Schedule
  <2>6. ScheduleWritten
    <3>1. CASE t.seen.active
      <4> HIDE DEF c, s
      <4> QED
        BY <2>1, <2>2, <2>4, <2>5, <3>1, WritesSchedule
    <3>2. CASE ~t.seen.active
      BY <2>1, <3>2 DEF ScheduleWritten
    <3> QED
      BY <3>1, <3>2
  <2>7. TablesOK' /\ Grows
    <3> HIDE DEF B
    <3> QED
      BY <1>t, <2>1, <2>2, <2>6, RowsRefunded
  <2> QED
    BY <2>1, <2>7, RefundIdleOK, RefundMoves
<1> QED
  BY <1>1, <1>2, <1>3, <1>4 DEF RefundStep

LEMMA SchedulerIdleOK ==
  SchedulerIdle \in SchedulerThread /\ \A pay, ch : SchedulerOK(SchedulerIdle, pay, ch)
<1>1. NoSchedule \in Schedule
  BY CycleAssumption, AttemptsAssumption DEF NoSchedule, Schedule
<1> QED
  BY <1>1 DEF SchedulerIdle, SchedulerThread, SchedulerOK

(* Whatever a scheduled payment comes to, the thread goes on with a batch  *)
(* whose copies are no further than the rows.                              *)
LEMMA BatchGoesOn ==
  ASSUME BillingInv, TablesOK', Grows, NEW i \in Instances, NextOfBatch(i),
         UNCHANGED <<initial, refunding>>
  PROVE  BillingInv'
<1> DEFINE t == scheduler[i]
           rest == t.todo \ {t.sub}
           new == [pc |-> "batch", sub |-> NoSub, todo |-> rest,
                   copy |-> [t.copy EXCEPT ![t.sub] = NoSchedule],
                   seen |-> NoSchedule, answer |-> "none"]
<1>1. t \in SchedulerThread /\ SchedulerOK(t, payment', charged')
  BY SchedulerKept DEF BillingInv, ThreadTypes, InstanceOK
<1>2. CASE rest = {}
  <2>1. scheduler' = [scheduler EXCEPT ![i] = SchedulerIdle]
    BY <1>2 DEF NextOfBatch
  <2> QED
    BY <2>1, SchedulerIdleOK, SchedulerMoves
<1>3. CASE rest # {}
  <2>1. scheduler' = [scheduler EXCEPT ![i] = new]
    BY <1>3 DEF NextOfBatch
  <2>2. NoSchedule \in Schedule
    BY CycleAssumption, AttemptsAssumption DEF NoSchedule, Schedule
  <2>3. new \in SchedulerThread
    BY <1>1, <2>2 DEF SchedulerThread
  <2>4. \A s \in rest : s \in t.todo /\ new.copy[s] = t.copy[s]
    BY <1>1 DEF SchedulerThread
  <2>5. new.todo = rest /\ new.pc = "batch"
    OBVIOUS
  <2>6. SchedulerOK(new, payment', charged')
    <3> HIDE DEF new, rest, t
    <3> QED
      BY <1>1, <2>4, <2>5 DEF SchedulerOK
  <2> QED
    BY <2>1, <2>3, <2>6, SchedulerMoves
<1> QED
  BY <1>2, <1>3

(* What the thread with a payment in hand knows of it.                     *)
LEMMA InHand ==
  ASSUME BillingInv, NEW i \in Instances, scheduler[i].pc \in {"charging", "answered"}
  PROVE  /\ scheduler[i].sub \in Subs
         /\ CopyInHand(i) \in Schedule
         /\ CopyInHand(i).cycle \in Cycles
         /\ BillInHand(i) \in Bills
         /\ RowsBefore(scheduler[i].sub, CopyInHand(i).cycle, payment)
<1>1. scheduler[i] \in SchedulerThread /\ SchedulerOK(scheduler[i], payment, charged)
  BY DEF BillingInv, ThreadTypes, InstanceOK
<1> QED
  BY <1>1 DEF SchedulerThread, SchedulerOK, CopyInHand, BillInHand, Bills

(* Saving a copy that is no further than the rows.                         *)
LEMMA SavesBehind ==
  ASSUME NEW i \in Instances, scheduler[i].sub \in Subs, NEW c \in Schedule, Save(i, c),
         RowsBefore(scheduler[i].sub, c.cycle, payment'), c.active => c.cycle # 0
  PROVE  ScheduleWritten
<1>1. CASE UNCHANGED schedule
  BY <1>1 DEF ScheduleWritten
<1>2. CASE schedule' = [schedule EXCEPT ![scheduler[i].sub] = c]
  BY <1>2, WritesSchedule
<1> QED
  BY <1>1, <1>2 DEF Save

(* Going on to the next cycle once this one has its row.                   *)
LEMMA AdvanceBehind ==
  ASSUME BillingInv, Grows, NEW i \in Instances, scheduler[i].pc = "answered",
         payment'[BillInHand(i)] # "none", Save(i, Advance(CopyInHand(i)))
  PROVE  ScheduleWritten
<1> DEFINE s == scheduler[i].sub
           c == CopyInHand(i)
           new == Advance(c)
<1>1. /\ s \in Subs /\ c \in Schedule /\ c.cycle \in Cycles
      /\ RowsBefore(s, c.cycle, payment)
  BY InHand
<1>2. /\ new \in Schedule /\ new.cycle = c.cycle + 1 /\ c.cycle \in Nat
      /\ new.cycle # 0
  <2> HIDE DEF c
  <2>1. c.cycle \in Nat /\ c.cycle + 1 \in 0..(MaxCycle + 1) /\ c.cycle + 1 # 0
    BY <1>1, CycleAssumption DEF Cycles
  <2>2. 0 \in 0..(MaxAttempts - 1)
    BY AttemptsAssumption
  <2> QED
    BY <1>1, <2>1, <2>2 DEF Advance, Schedule
<1>3. RowsBefore(s, c.cycle, payment')
  BY <1>1, <1>2, RowsBeforeGrows
<1>4. RowsBefore(s, new.cycle, payment')
  <2> SUFFICES ASSUME NEW d \in Cycles, d < new.cycle PROVE payment'[<<s, d>>] # "none"
    BY DEF RowsBefore
  <2>1. d < c.cycle \/ d = c.cycle
    BY <1>2, CycleAssumption DEF Cycles
  <2> QED
    BY <1>3, <2>1 DEF RowsBefore, BillInHand
<1> HIDE DEF new
<1>5. Save(i, new)
  BY DEF new
<1> QED
  BY <1>1, <1>2, <1>4, <1>5, SavesBehind

LEMMA SchedulerSteps ==
  ASSUME BillingInv, NEW i \in Instances, SchedulerStep(i)
  PROVE  BillingInv'
<1> DEFINE t == scheduler[i]
           s == t.sub
           b == BillInHand(i)
           c == CopyInHand(i)
<1>t. TablesOK /\ t \in SchedulerThread /\ SchedulerOK(t, payment, charged)
  BY DEF BillingInv, ThreadTypes, InstanceOK
<1>h. t.pc \in {"charging", "answered"} =>
        /\ s \in Subs /\ c \in Schedule /\ c.cycle \in Cycles /\ b \in Bills
        /\ RowsBefore(s, c.cycle, payment)
  BY InHand
<1>a. t.pc = "answered" =>
        /\ t.answer = "approved" => b \in charged
        /\ t.answer = "duplicate" => payment[b] # "none"
  BY <1>t DEF SchedulerOK, BillInHand, CopyInHand
<1>z. NoSchedule \in Schedule
  BY CycleAssumption, AttemptsAssumption DEF NoSchedule, Schedule
<1>1. CASE Poll(i)
  <2>1. PICK batch \in (SUBSET Due) \ {{}} :
          scheduler' = [scheduler EXCEPT ![i] =
            [pc |-> "batch", sub |-> NoSub, todo |-> batch,
             copy |-> [r \in Subs |-> IF r \in batch THEN schedule[r] ELSE NoSchedule],
             seen |-> NoSchedule, answer |-> "none"]]
    BY <1>1 DEF Poll
  <2> DEFINE copy == [r \in Subs |-> IF r \in batch THEN schedule[r] ELSE NoSchedule]
             new == [pc |-> "batch", sub |-> NoSub, todo |-> batch, copy |-> copy,
                     seen |-> NoSchedule, answer |-> "none"]
  <2>2. UNCHANGED <<payment, schedule, charged, returned, initial, refunding>>
    BY <1>1 DEF Poll, tables, gateway
  <2>3. TablesOK' /\ Grows
    BY <1>t, <2>2, TablesSame
  <2>4. batch \subseteq Subs /\ copy \in [Subs -> Schedule]
    BY <1>t, <1>z DEF Due, TablesOK, TableTypes
  <2>5. ASSUME NEW r \in batch
        PROVE  copy[r].cycle \in Cycles /\ RowsBefore(r, copy[r].cycle, payment)
    <3>1. r \in Subs /\ copy[r] = schedule[r] /\ schedule[r].active
          /\ schedule[r].cycle <= MaxCycle
      BY <2>4, <2>5 DEF Due
    <3>2. schedule[r].cycle \in 0..(MaxCycle + 1) /\ schedule[r].cycle # 0
          /\ RowsBefore(r, schedule[r].cycle, payment)
      BY <1>t, <3>1 DEF TablesOK, TableTypes, Schedule, SchedulesFollow
    <3> QED
      BY <3>1, <3>2, CycleAssumption DEF Cycles
  <2>6. new \in SchedulerThread /\ SchedulerOK(new, payment', charged')
    <3> HIDE DEF copy
    <3> QED
      BY <1>z, <2>2, <2>4, <2>5 DEF SchedulerThread, SchedulerOK
  <2> QED
    BY <2>1, <2>2, <2>3, <2>6, SchedulerMoves
<1>2. ASSUME NEW r \in Subs, BeginScheduled(i, r) PROVE BillingInv'
  <2> DEFINE duplicate == payment[<<r, t.copy[r].cycle>>] # "none"
             new == [t EXCEPT !.pc = IF duplicate THEN "answered" ELSE "charging",
                              !.answer = IF duplicate THEN "duplicate" ELSE "none",
                              !.sub = r, !.seen = schedule[r]]
  <2>1. UNCHANGED <<payment, schedule, charged, returned, initial, refunding>>
    BY <1>2 DEF BeginScheduled, tables, gateway
  <2>2. TablesOK' /\ Grows
    BY <1>t, <2>1, TablesSame
  <2>3. r \in t.todo /\ schedule[r] \in Schedule
    BY <1>2, <1>t DEF BeginScheduled, TablesOK, TableTypes
  <2>4. scheduler' = [scheduler EXCEPT ![i] = new]
    BY <1>2, <1>t DEF BeginScheduled, SchedulerThread, BillingInv, ThreadTypes
  <2>5. new \in SchedulerThread
    BY <1>t, <2>3 DEF SchedulerThread
  <2>6. /\ new.pc = IF duplicate THEN "answered" ELSE "charging"
        /\ new.answer = IF duplicate THEN "duplicate" ELSE "none"
        /\ new.sub = r /\ new.todo = t.todo /\ new.copy = t.copy
    BY <1>t DEF SchedulerThread
  <2>7. SchedulerOK(new, payment', charged')
    <3> HIDE DEF new
    <3> QED
      BY <1>t, <2>1, <2>3, <2>6 DEF SchedulerOK
  <2> QED
    BY <2>1, <2>2, <2>4, <2>5, <2>7, SchedulerMoves
<1>3. CASE AskScheduled(i)
  <2>1. PICK answer \in Answer :
          /\ Approve(BillInHand(i), answer)
          /\ scheduler' = [scheduler EXCEPT ![i].pc = "answered", ![i].answer = answer]
    BY <1>3 DEF AskScheduled
  <2> DEFINE new == [t EXCEPT !.pc = "answered", !.answer = answer]
  <2>2. t.pc = "charging" /\ UNCHANGED <<payment, schedule, initial, refunding>>
    BY <1>3 DEF AskScheduled, tables
  <2>3. Approve(b, answer) /\ b \in Bills
    BY <1>h, <2>1, <2>2
  <2>4. TablesOK' /\ Grows /\ (answer = "approved" => b \in charged')
    BY <1>t, <2>2, <2>3, GatewayAsked
  <2>5. scheduler' = [scheduler EXCEPT ![i] = new]
    BY <1>t, <2>1 DEF SchedulerThread, BillingInv, ThreadTypes
  <2>6. new \in SchedulerThread
    BY <1>t, <2>1 DEF SchedulerThread
  <2>7. SchedulerOK(t, payment', charged')
    BY <1>t, <2>4, SchedulerKept
  <2>8. <<t.sub, t.copy[t.sub].cycle>> = b
    BY DEF BillInHand, CopyInHand
  <2>9. /\ new.pc = "answered" /\ new.answer = answer /\ new.sub = t.sub
        /\ new.todo = t.todo /\ new.copy = t.copy
    BY <1>t DEF SchedulerThread
  <2>10. SchedulerOK(new, payment', charged')
    <3> HIDE DEF new
    <3> QED
      BY <2>1, <2>2, <2>4, <2>7, <2>8, <2>9 DEF SchedulerOK, Answer
  <2> QED
    BY <2>2, <2>4, <2>5, <2>6, <2>10, SchedulerMoves
<1>4. CASE CommitApproved(i)
  <2>1. /\ t.pc = "answered" /\ t.answer = "approved" /\ payment[b] = "none"
        /\ payment' = [payment EXCEPT ![b] = "APPROVED"]
        /\ Save(i, Advance(c)) /\ NextOfBatch(i)
        /\ UNCHANGED <<charged, returned, initial, refunding>>
    BY <1>4 DEF CommitApproved, gateway
  <2>2. payment'[b] # "none" /\ Grows
    BY <1>t, <1>h, <2>1 DEF TablesOK, TableTypes, Grows, PaidStatus
  <2>3. ScheduleWritten
    BY <2>1, <2>2, AdvanceBehind
  <2>4. TablesOK'
    BY <1>t, <1>h, <1>a, <2>1, <2>3, RowInserted
  <2> QED
    BY <2>1, <2>2, <2>4, BatchGoesOn
<1>5. CASE CommitDuplicate(i)
  <2>1. /\ t.pc = "answered" /\ t.answer = "duplicate"
        /\ Save(i, Advance(c)) /\ NextOfBatch(i)
        /\ UNCHANGED <<payment, charged, returned, initial, refunding>>
    BY <1>5 DEF CommitDuplicate, gateway
  <2>2. payment'[b] # "none" /\ Grows
    BY <1>a, <2>1 DEF Grows
  <2>3. ScheduleWritten
    BY <2>1, <2>2, AdvanceBehind
  <2>4. TablesOK'
    BY <1>t, <2>1, <2>3, ScheduleOnly
  <2> QED
    BY <2>1, <2>2, <2>4, BatchGoesOn
<1>6. CASE CommitGiveUp(i)
  <2> DEFINE new == Deactivate(c)
  <2>1. /\ t.pc = "answered" /\ payment[b] = "none"
        /\ payment' = [payment EXCEPT ![b] = "FAILED"]
        /\ Save(i, new) /\ NextOfBatch(i)
        /\ UNCHANGED <<charged, returned, initial, refunding>>
    BY <1>6 DEF CommitGiveUp, gateway
  <2>2. Grows
    BY <1>t, <1>h, <2>1 DEF TablesOK, TableTypes, Grows, PaidStatus
  <2>3. new \in Schedule /\ new.cycle = c.cycle /\ new.active = FALSE
    BY <1>h, <2>1 DEF Deactivate, Schedule
  <2>4. c.cycle \in Nat
    BY <1>h, <2>1, CycleAssumption DEF Cycles
  <2>5. RowsBefore(s, c.cycle, payment')
    BY <1>h, <2>1, <2>2, <2>4, RowsBeforeGrows
  <2>6. ScheduleWritten
    <3> HIDE DEF new
    <3> QED
      BY <1>h, <2>1, <2>3, <2>5, SavesBehind
  <2>7. TablesOK'
    BY <1>t, <1>h, <2>1, <2>6, RowInserted
  <2> QED
    BY <2>1, <2>2, <2>7, BatchGoesOn
<1>7. CASE CommitRetry(i)
  <2> DEFINE new == ScheduleRetry(c)
  <2>1. /\ t.pc = "answered" /\ ~LastChance(c)
        /\ Save(i, new) /\ NextOfBatch(i)
        /\ UNCHANGED <<payment, charged, returned, initial, refunding>>
    BY <1>7 DEF CommitRetry, gateway, GivesUp
  <2>2. new \in Schedule /\ new.cycle = c.cycle
    BY <1>h, <2>1, AttemptsAssumption DEF ScheduleRetry, LastChance, Schedule
  <2>3. RowsBefore(s, c.cycle, payment') /\ c.cycle # 0
    BY <1>h, <2>1, CycleAssumption DEF Cycles, RowsBefore
  <2>4. ScheduleWritten
    <3> HIDE DEF new
    <3> QED
      BY <1>h, <2>1, <2>2, <2>3, SavesBehind
  <2>5. TablesOK' /\ Grows
    BY <1>t, <2>1, <2>4, ScheduleOnly
  <2> QED
    BY <2>1, <2>5, BatchGoesOn
<1>8. CASE ViolateScheduled(i)
  <2>1. /\ NextOfBatch(i)
        /\ UNCHANGED <<payment, schedule, charged, returned, initial, refunding>>
    BY <1>8 DEF ViolateScheduled, tables, gateway
  <2>2. TablesOK' /\ Grows
    BY <1>t, <2>1, TablesSame
  <2> QED
    BY <2>1, <2>2, BatchGoesOn
<1> QED
  BY <1>1, <1>2, <1>3, <1>4, <1>5, <1>6, <1>7, <1>8 DEF SchedulerStep

(* An instance dies: idle threads know nothing.                            *)
LEMMA CrashStep ==
  ASSUME BillingInv, NEW i \in Instances, Crash(i)
  PROVE  BillingInv'
<1>1. /\ initial' = [initial EXCEPT ![i] = InitialIdle]
      /\ refunding' = [refunding EXCEPT ![i] = RefundIdle]
      /\ scheduler' = [scheduler EXCEPT ![i] = SchedulerIdle]
      /\ UNCHANGED <<payment, schedule, charged, returned>>
  BY DEF Crash, tables, gateway
<1>2. TablesOK' /\ Grows
  BY <1>1, TablesSame DEF BillingInv
<1>3. ThreadTypes'
  BY <1>1, InitialIdleOK, RefundIdleOK, SchedulerIdleOK DEF BillingInv, ThreadTypes
<1>4. /\ initial'[i] = InitialIdle /\ refunding'[i] = RefundIdle
      /\ scheduler'[i] = SchedulerIdle
      /\ \A j \in Instances \ {i} :
           /\ initial'[j] = initial[j] /\ refunding'[j] = refunding[j]
           /\ scheduler'[j] = scheduler[j]
  BY <1>1 DEF BillingInv, ThreadTypes
<1> QED
  BY <1>2, <1>3, <1>4, InitialIdleOK, RefundIdleOK, SchedulerIdleOK, OneInstanceMoves

LEMMA InitBilling == BillingInit => BillingInv
<1> SUFFICES ASSUME BillingInit PROVE BillingInv
  OBVIOUS
<1>1. NoSchedule \in Schedule /\ NoSchedule.cycle = 0 /\ NoSchedule.active = FALSE
  BY CycleAssumption, AttemptsAssumption DEF NoSchedule, Schedule
<1>2. TableTypes
  BY <1>1 DEF BillingInit, TableTypes
<1>3. RowsBacked /\ SchedulesFollow
  BY <1>1, CycleAssumption DEF BillingInit, RowsBacked, SchedulesFollow, RowsBefore, Cycles
<1>4. ThreadTypes /\ \A i \in Instances : InstanceOK(i)
  BY InitialIdleOK, RefundIdleOK, SchedulerIdleOK DEF BillingInit, ThreadTypes, InstanceOK
<1> QED
  BY <1>2, <1>3, <1>4 DEF BillingInv, TablesOK

LEMMA BillingStepKeeps ==
  ASSUME BillingInv, BillingStep
  PROVE  BillingInv'
  BY InitialSteps, RefundSteps, SchedulerSteps, CrashStep DEF BillingStep

-----------------------------------------------------------------------------
(* Types of the event layer: what the threads send about is what they      *)
(* hold, so the invariant above is needed for these too.                   *)

LEMMA EventsTyped ==
  /\ \A s \in Subs : Created(s) \in Event /\ Cancelled(s) \in Event
  /\ \A b \in Bills : Completed(b) \in Event /\ Failed(b) \in Event /\ Refunded(b) \in Event
  BY DEF Created, Cancelled, Completed, Failed, Refunded, Ev, Event, SubscriptionEvent,
         PaymentEvent

LEMMA EmitTyped ==
  ASSUME MessagingTypeOK, NEW E \in SUBSET Event, Emit(E)
  PROVE  outbox' \subseteq Event /\ emitted' \subseteq Event
  BY DEF MessagingTypeOK, Emit

LEMMA TakeTyped ==
  ASSUME MessagingTypeOK, NEW q, NEW e, Take(q, e)
  PROVE  queue' \in [Queues -> SUBSET Event]
  BY DEF MessagingTypeOK, Take

LEMMA FaultTyped ==
  ASSUME MessagingTypeOK, NEW kind, Fault(kind)
  PROVE  faults' \in 0..MaxFaults
  BY MaxFaultsAssumption DEF MessagingTypeOK, Fault

LEMMA MessagingStepTyped ==
  ASSUME MessagingTypeOK, MessagingStep
  PROVE  MessagingTypeOK'
<1>1. ASSUME NEW e \in outbox, Publish(e) PROVE MessagingTypeOK'
  BY <1>1 DEF Publish, MessagingTypeOK
<1>2. ASSUME NEW q \in Queues, NEW e \in emitted, Redeliver(q, e) PROVE MessagingTypeOK'
  BY <1>2, FaultTyped DEF Redeliver, MessagingTypeOK
<1> QED
  BY <1>1, <1>2 DEF MessagingStep

LEMMA InitialStepTyped ==
  ASSUME MessagingTypeOK, BillingInv, NEW i \in Instances, InitialStep(i)
  PROVE  MessagingTypeOK'
<1> DEFINE s == initial[i].sub
<1>s. initial[i].pc # "idle" => s \in Subs /\ FirstBill(s) \in Bills
  BY CycleAssumption
     DEF BillingInv, InstanceOK, InitialOK, FirstBill, Bills, Cycles
<1>1. ASSUME NEW r \in Subs, SkipInitial(i, r) \/ BeginInitial(i, r) PROVE MessagingTypeOK'
  BY <1>1, TakeTyped DEF SkipInitial, BeginInitial, MessagingTypeOK
<1>2. CASE AskInitial(i)
  <2>1. faults' \in 0..MaxFaults
    BY <1>2, FaultTyped DEF AskInitial, Approve, MessagingTypeOK
  <2> QED
    BY <1>2, <2>1 DEF AskInitial, MessagingTypeOK
<1>3. CASE CommitInitial(i)
  <2>1. outbox' \subseteq Event /\ emitted' \subseteq Event
    BY <1>3, <1>s, EventsTyped, EmitTyped DEF CommitInitial
  <2> QED
    BY <1>3, <2>1 DEF CommitInitial, MessagingTypeOK
<1>4. CASE ViolateInitial(i)
  BY <1>4, <1>s, EventsTyped DEF ViolateInitial, Reject, MessagingTypeOK
<1> QED
  BY <1>1, <1>2, <1>3, <1>4 DEF InitialStep

LEMMA RefundStepTyped ==
  ASSUME MessagingTypeOK, BillingInv, NEW i \in Instances, RefundStep(i)
  PROVE  MessagingTypeOK'
<1> DEFINE s == refunding[i].sub
           bills == {s} \X refunding[i].rows
<1>s. refunding[i].pc = "refunding" => s \in Subs /\ bills \subseteq Bills
  BY DEF BillingInv, ThreadTypes, RefundThread, InstanceOK, RefundOK, Bills
<1>1. ASSUME NEW r \in Subs, BeginRefund(i, r) PROVE MessagingTypeOK'
  BY <1>1, TakeTyped DEF BeginRefund, MessagingTypeOK
<1>2. CASE RefundNext(i)
  BY <1>2 DEF RefundNext, messaging, MessagingTypeOK
<1>3. CASE RefundFails(i)
  <2>1. faults' \in 0..MaxFaults
    BY <1>3, FaultTyped DEF RefundFails
  <2>2. dlq' \subseteq Event
    BY <1>3, <1>s, EventsTyped DEF RefundFails, Reject, MessagingTypeOK
  <2> QED
    BY <1>3, <2>1, <2>2 DEF RefundFails, MessagingTypeOK
<1>4. CASE CommitRefund(i)
  <2>1. {Refunded(b) : b \in bills} \in SUBSET Event
    BY <1>4, <1>s, EventsTyped DEF CommitRefund
  <2>2. outbox' \subseteq Event /\ emitted' \subseteq Event
    BY <1>4, <2>1, EmitTyped DEF CommitRefund
  <2> QED
    BY <1>4, <2>2 DEF CommitRefund, MessagingTypeOK
<1> QED
  BY <1>1, <1>2, <1>3, <1>4 DEF RefundStep

LEMMA SchedulerStepTyped ==
  ASSUME MessagingTypeOK, BillingInv, NEW i \in Instances, SchedulerStep(i)
  PROVE  MessagingTypeOK'
<1>b. scheduler[i].pc = "answered" => BillInHand(i) \in Bills
  BY InHand
<1>1. CASE AskScheduled(i)
  <2>1. faults' \in 0..MaxFaults
    BY <1>1, FaultTyped DEF AskScheduled, Approve, MessagingTypeOK
  <2> QED
    BY <1>1, <2>1 DEF AskScheduled, MessagingTypeOK
<1>2. CASE CommitApproved(i)
  <2>1. outbox' \subseteq Event /\ emitted' \subseteq Event
    BY <1>2, <1>b, EventsTyped, EmitTyped DEF CommitApproved
  <2> QED
    BY <1>2, <2>1 DEF CommitApproved, MessagingTypeOK
<1>3. CASE CommitGiveUp(i)
  <2>1. outbox' \subseteq Event /\ emitted' \subseteq Event
    BY SMTT(30), <1>3, <1>b, EventsTyped, EmitTyped DEF CommitGiveUp
  <2> QED
    BY <1>3, <2>1 DEF CommitGiveUp, MessagingTypeOK
<1>4. ASSUME \/ Poll(i) \/ \E s \in Subs : BeginScheduled(i, s)
             \/ CommitDuplicate(i) \/ CommitRetry(i) \/ ViolateScheduled(i)
      PROVE  MessagingTypeOK'
  BY <1>4 DEF Poll, BeginScheduled, CommitDuplicate, CommitRetry, ViolateScheduled,
              messaging, MessagingTypeOK
<1> QED
  BY <1>1, <1>2, <1>3, <1>4 DEF SchedulerStep

LEMMA CrashTyped ==
  ASSUME MessagingTypeOK, BillingInv, NEW i \in Instances, Crash(i)
  PROVE  MessagingTypeOK'
<1>1. initial[i].pc # "idle" => Created(initial[i].sub) \in Event
  BY EventsTyped DEF BillingInv, InstanceOK, InitialOK
<1>2. refunding[i].pc # "idle" => Cancelled(refunding[i].sub) \in Event
  BY EventsTyped DEF BillingInv, ThreadTypes, RefundThread, InstanceOK, RefundOK
<1>3. queue' \in [Queues -> SUBSET Event]
  BY <1>1, <1>2 DEF Crash, MessagingTypeOK
<1>4. faults' \in 0..MaxFaults
  BY FaultTyped DEF Crash
<1> QED
  BY <1>3, <1>4 DEF Crash, MessagingTypeOK

LEMMA BillingStepTyped ==
  ASSUME MessagingTypeOK, BillingInv, BillingStep
  PROVE  MessagingTypeOK'
  BY InitialStepTyped, RefundStepTyped, SchedulerStepTyped, CrashTyped DEF BillingStep

LEMMA InitTyped == MessagingInit => MessagingTypeOK
  BY MaxFaultsAssumption DEF MessagingInit, MessagingTypeOK

LEMMA BillingTyped == BillingInv => BillingTypeOK
  BY DEF BillingInv, TablesOK, TableTypes, ThreadTypes, BillingTypeOK

-----------------------------------------------------------------------------
(* payment-service on its own.                                             *)

LEMMA NextBilling == BillingInv /\ [ServiceNext]_billingVars => BillingInv'
<1> SUFFICES ASSUME BillingInv, [ServiceNext]_billingVars PROVE BillingInv'
  OBVIOUS
<1>1. ASSUME NEW s \in Subs, Subscribe(s) \/ Unsubscribe(s) PROVE BillingInv'
  BY <1>1, NothingMoves DEF Subscribe, Unsubscribe
<1>2. CASE MessagingStep /\ UNCHANGED billing
  BY <1>2, NothingMoves
<1>3. CASE BillingStep
  BY <1>3, BillingStepKeeps
<1>4. CASE UNCHANGED billingVars
  BY <1>4, NothingMoves DEF billingVars, billing
<1> QED
  BY <1>1, <1>2, <1>3, <1>4 DEF ServiceNext

-----------------------------------------------------------------------------
(* The inductive invariant of payment-service.                             *)
THEOREM BillingInvariant == ServiceSpec => []BillingInv
  <1>1. ServiceInit => BillingInv
  BY InitBilling DEF ServiceInit
<1> QED
  BY <1>1, NextBilling, PTL DEF ServiceSpec

(* An approved row was charged, a refunded row's money is back             *)
(* (cancelBillingAndRefund), for any number of instances and failures.     *)
THEOREM BooksAgree == ServiceSpec => []BooksBacked
<1>1. BillingInv => BooksBacked
  BY DEF BillingInv, TablesOK, RowsBacked, BooksBacked
<1> QED
  BY <1>1, BillingInvariant, PTL

(* The scheduler leaves no cycle without its row behind                    *)
(* (processScheduledPayment), however old the copies it writes back.       *)
THEOREM NoCycleLost == ServiceSpec => []NoCycleSkipped
<1>1. BillingInv => NoCycleSkipped
  BY DEF BillingInv, TablesOK, SchedulesFollow, RowsBefore, NoCycleSkipped
<1> QED
  BY <1>1, BillingInvariant, PTL

LEMMA NextTyped == MessagingTypeOK /\ BillingInv /\ [ServiceNext]_billingVars => MessagingTypeOK'
<1> SUFFICES ASSUME MessagingTypeOK, BillingInv, [ServiceNext]_billingVars PROVE MessagingTypeOK'
  OBVIOUS
<1>1. ASSUME NEW s \in Subs, Subscribe(s) \/ Unsubscribe(s) PROVE MessagingTypeOK'
  <2>1. outbox' \subseteq Event /\ emitted' \subseteq Event
    BY <1>1, EventsTyped, EmitTyped DEF Subscribe, Unsubscribe
  <2> QED
    BY <1>1, <2>1 DEF Subscribe, Unsubscribe, MessagingTypeOK
<1>2. CASE UNCHANGED billingVars
  BY <1>2 DEF billingVars, MessagingTypeOK
<1> QED
  BY <1>1, <1>2, MessagingStepTyped, BillingStepTyped DEF ServiceNext

(* Type correctness of payment-service and of the event layer under it.    *)
THEOREM TypeCorrect == ServiceSpec => []ServiceTypeOK
<1>1. ServiceInit => MessagingTypeOK
  BY InitTyped DEF ServiceInit
<1>2. ServiceSpec => []MessagingTypeOK
  BY <1>1, NextTyped, BillingInvariant, PTL DEF ServiceSpec
<1> QED
  BY <1>2, BillingTyped, BillingInvariant, PTL DEF ServiceTypeOK

-----------------------------------------------------------------------------
(* Money that was taken for a bill without a row.  The first payment is    *)
(* asked for again because its message is not gone; the others because     *)
(* a schedule is switched off only with the row of the one bill that can   *)
(* be open at that moment: whatever was asked for has all rows before it   *)
(* (so have the copies), and there is only one such bill without a row.    *)

LEMMA FirstBillsAreBills == \A s \in Subs : FirstBill(s) \in Bills /\ FirstBill(s)[2] = 1
  BY CycleAssumption DEF FirstBill, Bills, Cycles

(* Messages come from events.                                              *)
HandedOut ==
  /\ outbox \subseteq emitted
  /\ \A q \in Queues : queue[q] \subseteq emitted
  /\ \A i \in Instances :
       /\ initial[i].pc # "idle" => Created(initial[i].sub) \in emitted
       /\ refunding[i].pc # "idle" => Cancelled(refunding[i].sub) \in emitted

StillBilled(s) == schedule[s].active \/ Cancelled(s) \in emitted

AtIt(s) ==
  \/ Created(s) \in queue[CreatedQueue]
  \/ \E i \in Instances : initial[i].pc # "idle" /\ initial[i].sub = s

(* The scheduled bills that were paid or may be asked for with a copy.     *)
Asked(s, c) ==
  \/ c # 1 /\ <<s, c>> \in charged
  \/ \E i \in Instances : s \in scheduler[i].todo /\ scheduler[i].copy[s].cycle = c

FirstPursued ==
  \A s \in Subs : FirstBill(s) \in charged /\ payment[FirstBill(s)] = "none" => AtIt(s)

OthersPursued ==
  \A s \in Subs, c \in Cycles : Asked(s, c) =>
    c # 1 /\ RowsBefore(s, c, payment) /\ (payment[<<s, c>>] = "none" => StillBilled(s))

SchedulesActive ==
  /\ \A s \in Subs : schedule[s].active => schedule[s].cycle # 1
  /\ \A i \in Instances : \A s \in scheduler[i].todo : scheduler[i].copy[s].active

PursuitInv == HandedOut /\ FirstPursued /\ OthersPursued /\ SchedulesActive

RowsKept == \A b \in Bills : payment[b] # "none" => payment'[b] # "none"

(* A schedule that is switched off without a cancellation leaves no bill   *)
(* open.                                                                   *)
StopsSettled ==
  \A s \in Subs, c \in Cycles :
    /\ schedule[s].active /\ ~schedule'[s].active
    /\ Cancelled(s) \notin emitted'
    /\ RowsBefore(s, c, payment)
    => payment'[<<s, c>>] # "none"

LEMMA OthersKept ==
  ASSUME OthersPursued, BillingInv, RowsKept, emitted \subseteq emitted', StopsSettled,
         \A s \in Subs, c \in Cycles : Asked(s, c)' =>
           \/ Asked(s, c)
           \/ schedule[s].active /\ schedule[s].cycle = c /\ c # 1 /\ UNCHANGED schedule
  PROVE  OthersPursued'
<1> SUFFICES ASSUME NEW s \in Subs, NEW c \in Cycles, Asked(s, c)'
             PROVE  /\ c # 1 /\ RowsBefore(s, c, payment')
                    /\ payment'[<<s, c>>] = "none" => StillBilled(s)'
  BY DEF OthersPursued
<1>1. RowsBefore(s, c, payment) => RowsBefore(s, c, payment')
  BY DEF RowsKept, RowsBefore, Bills
<1>2. CASE Asked(s, c)
  <2>1. c # 1 /\ RowsBefore(s, c, payment) /\ (payment[<<s, c>>] = "none" => StillBilled(s))
    BY <1>2 DEF OthersPursued
  <2>2. ASSUME payment'[<<s, c>>] = "none" PROVE StillBilled(s)'
    <3>1. payment[<<s, c>>] = "none"
      BY <2>2 DEF RowsKept, Bills
    <3>2. StillBilled(s)
      BY <2>1, <3>1
    <3> QED
      BY <2>1, <2>2, <3>2 DEF StillBilled, StopsSettled
  <2> QED
    BY <1>1, <2>1, <2>2
<1>3. CASE schedule[s].active /\ schedule[s].cycle = c /\ c # 1 /\ UNCHANGED schedule
  <2>1. RowsBefore(s, c, payment)
    BY <1>3 DEF BillingInv, TablesOK, SchedulesFollow
  <2> QED
    BY <1>1, <1>3, <2>1 DEF StillBilled
<1> QED
  BY <1>2, <1>3

LEMMA FirstKept ==
  ASSUME FirstPursued, RowsKept,
         \A s \in Subs : FirstBill(s) \in charged' => FirstBill(s) \in charged \/ AtIt(s)',
         \A s \in Subs : AtIt(s) => AtIt(s)' \/ payment'[FirstBill(s)] # "none"
  PROVE  FirstPursued'
  BY FirstBillsAreBills DEF FirstPursued, RowsKept

(* What a step has to keep, one part for each part of the invariant.       *)
Pursues ==
  /\ HandedOut' /\ emitted \subseteq emitted' /\ RowsKept
  /\ StopsSettled
  /\ \A s \in Subs, c \in Cycles : Asked(s, c)' =>
       \/ Asked(s, c)
       \/ schedule[s].active /\ schedule[s].cycle = c /\ c # 1 /\ UNCHANGED schedule
  /\ \A s \in Subs : FirstBill(s) \in charged' => FirstBill(s) \in charged \/ AtIt(s)'
  /\ \A s \in Subs : AtIt(s) => AtIt(s)' \/ payment'[FirstBill(s)] # "none"
  /\ SchedulesActive'

LEMMA PursuitGoesOn ==
  ASSUME BillingInv, PursuitInv, Pursues
  PROVE  PursuitInv'
<1>1. OthersPursued'
  BY OthersKept DEF Pursues, PursuitInv
<1>2. FirstPursued'
  BY FirstKept DEF Pursues, PursuitInv
<1> QED
  BY <1>1, <1>2 DEF Pursues, PursuitInv

(* Nothing but messages moves.                                             *)
LEMMA MessagesPursue ==
  ASSUME PursuitInv, UNCHANGED billing, HandedOut', emitted \subseteq emitted',
         \A s \in Subs : Created(s) \in queue[CreatedQueue] => Created(s) \in queue'[CreatedQueue]
  PROVE  Pursues
<1>1. UNCHANGED <<payment, schedule, charged, initial, scheduler>>
  BY DEF billing
<1>2. RowsKept /\ StopsSettled
  BY <1>1 DEF RowsKept, StopsSettled
<1>3. \A s \in Subs, c \in Cycles : Asked(s, c)' => Asked(s, c)
  BY <1>1 DEF Asked
<1>4. \A s \in Subs : AtIt(s) => AtIt(s)'
  BY <1>1 DEF AtIt
<1>5. SchedulesActive'
  BY <1>1 DEF PursuitInv, SchedulesActive
<1> QED
  BY <1>1, <1>2, <1>3, <1>4, <1>5 DEF Pursues

(* The consumer of SubscriptionCreated: it holds the message until the row *)
(* is there.                                                               *)
LEMMA InitialPursues ==
  ASSUME BillingInv, PursuitInv, NEW i \in Instances, InitialStep(i)
  PROVE  Pursues
<1> DEFINE t == initial[i]
<1>t. /\ initial \in [Instances -> InitialThread] /\ (t.pc # "idle" => t.sub \in Subs)
      /\ payment \in [Bills -> PaymentStatus \cup {"none"}] /\ schedule \in [Subs -> Schedule]
      /\ CreatedQueue \in Queues
  BY ConsumersAssumption DEF BillingInv, ThreadTypes, InstanceOK, InitialOK, TablesOK, TableTypes,
     CreatedQueue
<1>h. HandedOut /\ SchedulesActive
  BY DEF PursuitInv
<1>a. ASSUME UNCHANGED <<charged, scheduler>>
      PROVE  \A s \in Subs, c \in Cycles : Asked(s, c)' => Asked(s, c)
  BY <1>a DEF Asked
<1>b. ASSUME UNCHANGED <<payment, schedule>> PROVE RowsKept /\ StopsSettled
  BY <1>b DEF RowsKept, StopsSettled
<1>c. ASSUME UNCHANGED <<schedule, scheduler>> PROVE SchedulesActive'
  BY <1>c, <1>h DEF SchedulesActive
<1>1. ASSUME NEW s \in Subs, SkipInitial(i, s) PROVE Pursues
  <2>1. /\ Take(CreatedQueue, Created(s)) /\ payment'[FirstBill(s)] # "none"
        /\ UNCHANGED <<outbox, emitted, payment, schedule, charged, initial, refunding, scheduler>>
    BY <1>1 DEF SkipInitial, billing
  <2>2. HandedOut'
    BY <1>h, <2>1 DEF HandedOut, Take
  <2>3. \A r \in Subs : AtIt(r) => AtIt(r)' \/ payment'[FirstBill(r)] # "none"
    <3>1. \A r \in Subs : r # s => Created(r) # Created(s)
      BY DEF Created, Ev
    <3> QED
      BY <2>1, <3>1 DEF AtIt, Take
  <2> QED
    BY <1>a, <1>b, <1>c, <2>1, <2>2, <2>3 DEF Pursues
<1>2. ASSUME NEW s \in Subs, BeginInitial(i, s) PROVE Pursues
  <2> DEFINE new == [pc |-> "charging", sub |-> s, answer |-> "none"]
  <2>1. /\ Take(CreatedQueue, Created(s)) /\ initial' = [initial EXCEPT ![i] = new] /\ t.pc = "idle"
        /\ UNCHANGED <<outbox, emitted, payment, schedule, charged, refunding, scheduler>>
    BY <1>2 DEF BeginInitial, tables, gateway
  <2>2. HandedOut'
    BY <1>t, <1>h, <2>1 DEF HandedOut, Take
  <2>3. \A r \in Subs : AtIt(r) => AtIt(r)'
    <3>1. \A r \in Subs : r # s => Created(r) # Created(s)
      BY DEF Created, Ev
    <3>2. initial'[i] = new /\ \A j \in Instances : j # i => initial'[j] = initial[j]
      BY <1>t, <2>1
    <3> QED
      BY <2>1, <3>1, <3>2 DEF AtIt, Take
  <2> QED
    BY <1>a, <1>b, <1>c, <2>1, <2>2, <2>3 DEF Pursues
<1>3. CASE AskInitial(i)
  <2>1. PICK answer \in Answer :
          /\ Approve(FirstBill(t.sub), answer)
          /\ initial' = [initial EXCEPT ![i].pc = "answered", ![i].answer = answer]
    BY <1>3 DEF AskInitial
  <2>2. t.pc = "charging" /\ UNCHANGED <<outbox, emitted, queue, payment, schedule, refunding, scheduler>>
    BY <1>3 DEF AskInitial, tables
  <2>3. charged' \in {charged, charged \cup {FirstBill(t.sub)}}
    BY <2>1 DEF Approve
  <2>4. /\ initial'[i].pc = "answered" /\ initial'[i].sub = t.sub
        /\ \A j \in Instances : j # i => initial'[j] = initial[j]
    BY <1>t, <2>1 DEF InitialThread
  <2>5. HandedOut'
    BY <1>h, <2>2, <2>4 DEF HandedOut
  <2>6. \A r \in Subs : AtIt(r) => AtIt(r)'
    BY <2>2, <2>4 DEF AtIt
  <2>7. \A r \in Subs : FirstBill(r) \in charged' => FirstBill(r) \in charged \/ AtIt(r)'
    BY <2>3, <2>4 DEF AtIt, FirstBill
  <2>8. \A r \in Subs, c \in Cycles : Asked(r, c)' => Asked(r, c)
    BY <2>2, <2>3 DEF Asked, FirstBill
  <2> QED
    BY <1>b, <1>c, <2>2, <2>5, <2>6, <2>7, <2>8 DEF Pursues
<1>i. ASSUME t.pc # "idle", initial' = [initial EXCEPT ![i] = InitialIdle], UNCHANGED queue,
             payment'[FirstBill(t.sub)] # "none"
      PROVE  \A r \in Subs : AtIt(r) => AtIt(r)' \/ payment'[FirstBill(r)] # "none"
  <2>1. \A j \in Instances : j # i => initial'[j] = initial[j]
    BY <1>t, <1>i
  <2> QED
    BY <1>i, <2>1 DEF AtIt
<1>j. ASSUME initial' = [initial EXCEPT ![i] = InitialIdle], UNCHANGED <<queue, refunding>>,
             emitted \subseteq emitted', outbox' \subseteq emitted'
      PROVE  HandedOut'
  <2>1. initial'[i].pc = "idle" /\ \A j \in Instances : j # i => initial'[j] = initial[j]
    BY <1>t, <1>j DEF InitialIdle
  <2> QED
    BY <1>h, <1>j, <2>1 DEF HandedOut
<1>4. CASE CommitInitial(i)
  <2> DEFINE s == t.sub
             b == FirstBill(s)
             new == [cycle |-> 2, retry |-> 0, active |-> TRUE]
  <2>1. /\ t.pc = "answered" /\ initial' = [initial EXCEPT ![i] = InitialIdle]
        /\ UNCHANGED <<queue, charged, refunding, scheduler>>
        /\ schedule' \in {schedule, [schedule EXCEPT ![s] = new]}
        /\ payment' \in {[payment EXCEPT ![b] = "APPROVED"], [payment EXCEPT ![b] = "FAILED"]}
        /\ emitted \subseteq emitted' /\ outbox' \subseteq outbox \cup emitted'
    BY <1>4 DEF CommitInitial, gateway, Emit
  <2>2. s \in Subs /\ b \in Bills
    BY <1>t, <2>1, FirstBillsAreBills
  <2>3. payment'[b] # "none" /\ RowsKept
    BY <1>t, <2>1, <2>2 DEF RowsKept
  <2>4. \A r \in Subs : schedule'[r] = schedule[r] \/ schedule'[r] = new
    BY <1>t, <2>1
  <2>5. StopsSettled /\ SchedulesActive'
    BY <1>h, <2>1, <2>4 DEF StopsSettled, SchedulesActive
  <2>6. outbox' \subseteq emitted'
    BY <1>h, <2>1 DEF HandedOut
  <2> QED
    BY <1>a, <1>i, <1>j, <2>1, <2>3, <2>5, <2>6 DEF Pursues
<1>5. CASE ViolateInitial(i)
  <2>1. /\ t.pc = "answered" /\ initial' = [initial EXCEPT ![i] = InitialIdle]
        /\ payment'[FirstBill(t.sub)] # "none"
        /\ UNCHANGED <<outbox, emitted, queue, payment, schedule, charged, refunding, scheduler>>
    BY <1>5 DEF ViolateInitial, tables, gateway
  <2>2. outbox' \subseteq emitted'
    BY <1>h, <2>1 DEF HandedOut
  <2> QED
    BY <1>a, <1>b, <1>c, <1>i, <1>j, <2>1, <2>2 DEF Pursues
<1> QED
  BY <1>1, <1>2, <1>3, <1>4, <1>5 DEF InitialStep

(* The consumer of SubscriptionCancelled: what it stops was cancelled.     *)
LEMMA RefundPursues ==
  ASSUME BillingInv, PursuitInv, NEW i \in Instances, RefundStep(i)
  PROVE  Pursues
<1> DEFINE t == refunding[i]
<1>t. /\ refunding \in [Instances -> RefundThread] /\ (t.pc # "idle" => t.sub \in Subs)
      /\ payment \in [Bills -> PaymentStatus \cup {"none"}] /\ schedule \in [Subs -> Schedule]
      /\ CancelledQueue \in Queues
  BY ConsumersAssumption DEF BillingInv, ThreadTypes, InstanceOK, RefundOK, RefundThread, TablesOK,
     TableTypes, CancelledQueue
<1>h. HandedOut /\ SchedulesActive
  BY DEF PursuitInv
<1>a. ASSUME UNCHANGED <<charged, initial, scheduler>>, queue'[CreatedQueue] = queue[CreatedQueue]
      PROVE  /\ \A s \in Subs, c \in Cycles : Asked(s, c)' => Asked(s, c)
             /\ \A s \in Subs : AtIt(s) => AtIt(s)'
  BY <1>a DEF Asked, AtIt
<1>b. ASSUME UNCHANGED <<payment, schedule, scheduler>>
      PROVE  RowsKept /\ StopsSettled /\ SchedulesActive'
  BY <1>b, <1>h DEF RowsKept, StopsSettled, SchedulesActive
<1>1. ASSUME NEW s \in Subs, BeginRefund(i, s) PROVE Pursues
  <2>1. /\ Take(CancelledQueue, Cancelled(s))
        /\ UNCHANGED <<outbox, emitted, payment, schedule, charged, initial, scheduler>>
    BY <1>1 DEF BeginRefund, tables, gateway
  <2>2. Cancelled(s) \in emitted /\ queue'[CreatedQueue] = queue[CreatedQueue]
    BY <1>t, <1>h, <2>1 DEF HandedOut, Take, CancelledQueue, CreatedQueue
  <2>3. refunding'[i].sub = s /\ \A j \in Instances : j # i => refunding'[j] = refunding[j]
    BY <1>t, <1>1 DEF BeginRefund
  <2>4. HandedOut'
    BY <1>t, <1>h, <2>1, <2>2, <2>3 DEF HandedOut, Take
  <2> QED
    BY <1>a, <1>b, <2>1, <2>2, <2>4 DEF Pursues
<1>2. CASE RefundNext(i)
  <2>1. PICK c \in t.todo : refunding' = [refunding EXCEPT ![i].todo = @ \ {c}]
    BY <1>2 DEF RefundNext
  <2>2. t.pc = "refunding" /\ UNCHANGED <<outbox, emitted, queue, payment, schedule, charged, initial, scheduler>>
    BY <1>2 DEF RefundNext, messaging, tables
  <2>3. HandedOut'
    BY <1>t, <1>h, <2>1, <2>2 DEF HandedOut, RefundThread
  <2> QED
    BY <1>a, <1>b, <2>2, <2>3 DEF Pursues
<1>j. ASSUME refunding' = [refunding EXCEPT ![i] = RefundIdle], UNCHANGED <<queue, initial>>,
             emitted \subseteq emitted', outbox' \subseteq outbox \cup emitted'
      PROVE  HandedOut'
  <2>1. refunding'[i].pc = "idle" /\ \A j \in Instances : j # i => refunding'[j] = refunding[j]
    BY <1>t, <1>j DEF RefundIdle
  <2> QED
    BY <1>h, <1>j, <2>1 DEF HandedOut
<1>3. CASE RefundFails(i)
  <2>1. /\ refunding' = [refunding EXCEPT ![i] = RefundIdle]
        /\ UNCHANGED <<outbox, emitted, queue, payment, schedule, charged, initial, scheduler>>
    BY <1>3 DEF RefundFails, tables
  <2> QED
    BY <1>a, <1>b, <1>j, <2>1 DEF Pursues
<1>4. CASE CommitRefund(i)
  <2> DEFINE s == t.sub
             B == {s} \X t.rows
             off == [t.seen EXCEPT !.active = FALSE]
  <2>1. /\ t.pc = "refunding" /\ refunding' = [refunding EXCEPT ![i] = RefundIdle]
        /\ schedule' \in {schedule, [schedule EXCEPT ![s] = off]}
        /\ payment' = [b \in Bills |-> IF b \in B THEN "REFUNDED" ELSE payment[b]]
        /\ UNCHANGED <<queue, charged, initial, scheduler>>
        /\ emitted \subseteq emitted' /\ outbox' \subseteq outbox \cup emitted'
    BY <1>4 DEF CommitRefund, gateway, Emit
  <2>2. RowsKept
    BY <2>1 DEF RowsKept
  <2>3. Cancelled(s) \in emitted'
    BY <1>h, <2>1 DEF HandedOut
  <2>4. \A r \in Subs : schedule'[r] = schedule[r] \/ (r = s /\ schedule'[r].active = FALSE)
    BY <1>t, <2>1 DEF RefundThread, Schedule
  <2>5. StopsSettled
    BY <2>3, <2>4 DEF StopsSettled
  <2>6. SchedulesActive'
    BY <1>h, <2>1, <2>4 DEF SchedulesActive
  <2> QED
    BY <1>a, <1>j, <2>1, <2>2, <2>5, <2>6 DEF Pursues
<1> QED
  BY <1>1, <1>2, <1>3, <1>4 DEF RefundStep

(* Going on with the batch leaves no copy that was not there.              *)
LEMMA BatchPursues ==
  ASSUME BillingInv, PursuitInv, NEW i \in Instances, NextOfBatch(i),
         UNCHANGED <<queue, charged, initial, refunding>>,
         emitted \subseteq emitted', outbox' \subseteq outbox \cup emitted',
         RowsKept, StopsSettled,
         \A s \in Subs : schedule'[s].active => schedule'[s].cycle # 1
  PROVE  Pursues
<1> DEFINE t == scheduler[i]
<1>1. scheduler \in [Instances -> SchedulerThread] /\ HandedOut /\ SchedulesActive
  BY DEF BillingInv, ThreadTypes, PursuitInv
<1>2. /\ scheduler'[i].todo \subseteq t.todo
      /\ \A s \in scheduler'[i].todo : scheduler'[i].copy[s] = t.copy[s]
  <2>1. CASE t.todo \ {t.sub} = {}
    <3>1. scheduler'[i].todo = {}
      BY <1>1, <2>1 DEF NextOfBatch, SchedulerIdle
    <3> QED
      BY <3>1
  <2>2. CASE t.todo \ {t.sub} # {}
    <3>1. /\ scheduler'[i].todo = t.todo \ {t.sub}
          /\ scheduler'[i].copy = [t.copy EXCEPT ![t.sub] = NoSchedule]
      BY <1>1, <2>2 DEF NextOfBatch
    <3> QED
      BY <1>1, <3>1 DEF SchedulerThread
  <2> QED
    BY <2>1, <2>2
<1>3. \A j \in Instances : j # i => scheduler'[j] = scheduler[j]
  BY <1>1 DEF NextOfBatch
<1>4. \A s \in Subs, c \in Cycles : Asked(s, c)' => Asked(s, c)
  BY <1>2, <1>3 DEF Asked
<1>5. SchedulesActive'
  BY <1>1, <1>2, <1>3 DEF SchedulesActive
<1>6. HandedOut' /\ \A s \in Subs : AtIt(s) => AtIt(s)'
  BY <1>1 DEF HandedOut, AtIt
<1> QED
  BY <1>4, <1>5, <1>6 DEF Pursues

LEMMA SchedulerPursues ==
  ASSUME BillingInv, PursuitInv, NEW i \in Instances, SchedulerStep(i)
  PROVE  Pursues
<1> DEFINE t == scheduler[i]
           s == t.sub
           b == BillInHand(i)
           c == CopyInHand(i)
<1>t. /\ scheduler \in [Instances -> SchedulerThread] /\ SchedulerOK(t, payment, charged)
      /\ payment \in [Bills -> PaymentStatus \cup {"none"}] /\ schedule \in [Subs -> Schedule]
  BY DEF BillingInv, ThreadTypes, InstanceOK, TablesOK, TableTypes
<1>h. HandedOut /\ SchedulesActive /\ OthersPursued
  BY DEF PursuitInv
<1>c. t.pc \in {"charging", "answered"} =>
        /\ s \in Subs /\ c \in Schedule /\ c.cycle \in Cycles /\ b \in Bills
        /\ RowsBefore(s, c.cycle, payment)
        /\ s \in t.todo /\ c.active /\ Asked(s, c.cycle) /\ c.cycle # 1
  <2> SUFFICES ASSUME t.pc \in {"charging", "answered"}
               PROVE  s \in t.todo /\ c.active /\ Asked(s, c.cycle) /\ c.cycle # 1
    BY InHand
  <2>1. s \in t.todo /\ s \in Subs /\ c.cycle \in Cycles
    BY <1>t, InHand DEF SchedulerOK
  <2>2. c.active /\ Asked(s, c.cycle)
    BY <1>h, <2>1 DEF SchedulesActive, CopyInHand, Asked
  <2> QED
    BY <1>h, <2>1, <2>2 DEF OthersPursued
<1>b. ASSUME UNCHANGED <<payment, schedule>> PROVE RowsKept /\ StopsSettled
  BY <1>b DEF RowsKept, StopsSettled
<1>e. ASSUME UNCHANGED <<outbox, emitted, queue, initial, refunding>>
      PROVE  HandedOut' /\ \A r \in Subs : AtIt(r) => AtIt(r)'
  BY <1>h, <1>e DEF HandedOut, AtIt
<1>w. ASSUME NEW new \in Schedule, s \in Subs, Save(i, new), new.cycle # 1
      PROVE  /\ \A r \in Subs : schedule'[r].active => schedule'[r].cycle # 1
             /\ \A r \in Subs : schedule'[r] = schedule[r] \/ (r = s /\ schedule'[r] = new)
  <2>1. \A r \in Subs : schedule'[r] = schedule[r] \/ (r = s /\ schedule'[r] = new)
    BY <1>t, <1>w DEF Save
  <2>2. \A r \in Subs : schedule[r].active => schedule[r].cycle # 1
    BY <1>h DEF SchedulesActive
  <2> QED
    BY <1>w, <2>1, <2>2
<1>1. CASE Poll(i)
  <2>1. PICK batch \in (SUBSET Due) \ {{}} :
          scheduler' = [scheduler EXCEPT ![i] =
            [pc |-> "batch", sub |-> NoSub, todo |-> batch,
             copy |-> [r \in Subs |-> IF r \in batch THEN schedule[r] ELSE NoSchedule],
             seen |-> NoSchedule, answer |-> "none"]]
    BY <1>1 DEF Poll
  <2>2. UNCHANGED <<outbox, emitted, queue, payment, schedule, charged, initial, refunding>>
    BY <1>1 DEF Poll, messaging, tables, gateway
  <2>3. /\ scheduler'[i].todo = batch
        /\ \A r \in batch : scheduler'[i].copy[r] = schedule[r] /\ schedule[r].active
        /\ \A j \in Instances : j # i => scheduler'[j] = scheduler[j]
    BY <1>t, <2>1 DEF Due
  <2>4. SchedulesActive'
    BY <1>h, <2>2, <2>3 DEF SchedulesActive
  <2>5. \A r \in Subs, d \in Cycles : Asked(r, d)' =>
          Asked(r, d) \/ (schedule[r].active /\ schedule[r].cycle = d /\ d # 1)
    <3> SUFFICES ASSUME NEW r \in Subs, NEW d \in Cycles, Asked(r, d)'
                 PROVE  Asked(r, d) \/ (schedule[r].active /\ schedule[r].cycle = d /\ d # 1)
      OBVIOUS
    <3>1. CASE d # 1 /\ <<r, d>> \in charged'
      BY <2>2, <3>1 DEF Asked
    <3>2. ASSUME NEW j \in Instances, r \in scheduler'[j].todo, scheduler'[j].copy[r].cycle = d
          PROVE  Asked(r, d) \/ (schedule[r].active /\ schedule[r].cycle = d /\ d # 1)
      <4>1. CASE j = i
        BY <1>h, <2>3, <3>2, <4>1 DEF SchedulesActive
      <4>2. CASE j # i
        BY <2>3, <3>2, <4>2 DEF Asked
      <4> QED
        BY <4>1, <4>2
    <3> QED
      BY <3>1, <3>2 DEF Asked
  <2> QED
    BY <1>b, <1>e, <2>2, <2>4, <2>5 DEF Pursues
<1>2. ASSUME NEW r \in Subs, BeginScheduled(i, r) PROVE Pursues
  <2>1. UNCHANGED <<outbox, emitted, queue, payment, schedule, charged, initial, refunding>>
    BY <1>2 DEF BeginScheduled, messaging, tables, gateway
  <2>2. /\ scheduler'[i].todo = t.todo /\ scheduler'[i].copy = t.copy
        /\ \A j \in Instances : j # i => scheduler'[j] = scheduler[j]
    BY <1>t, <1>2 DEF BeginScheduled, SchedulerThread
  <2>3. SchedulesActive' /\ \A q \in Subs, d \in Cycles : Asked(q, d)' => Asked(q, d)
    BY <1>h, <2>1, <2>2 DEF SchedulesActive, Asked
  <2> QED
    BY <1>b, <1>e, <2>1, <2>3 DEF Pursues
<1>3. CASE AskScheduled(i)
  <2>1. PICK answer \in Answer :
          /\ Approve(b, answer)
          /\ scheduler' = [scheduler EXCEPT ![i].pc = "answered", ![i].answer = answer]
    BY <1>3 DEF AskScheduled
  <2>2. t.pc = "charging" /\ UNCHANGED <<outbox, emitted, queue, payment, schedule, initial, refunding>>
    BY <1>3 DEF AskScheduled, tables
  <2>3. charged' \in {charged, charged \cup {b}} /\ b = <<s, c.cycle>>
    BY <2>1 DEF Approve, BillInHand
  <2>4. /\ scheduler'[i].todo = t.todo /\ scheduler'[i].copy = t.copy
        /\ \A j \in Instances : j # i => scheduler'[j] = scheduler[j]
    BY <1>t, <2>1 DEF SchedulerThread
  <2>5. SchedulesActive'
    BY <1>h, <2>2, <2>4 DEF SchedulesActive
  <2>6. \A r \in Subs, d \in Cycles : Asked(r, d)' => Asked(r, d)
    <3> SUFFICES ASSUME NEW r \in Subs, NEW d \in Cycles, Asked(r, d)' PROVE Asked(r, d)
      OBVIOUS
    <3>1. CASE <<r, d>> = b
      BY <1>c, <2>2, <2>3, <3>1
    <3>2. CASE <<r, d>> # b
      BY <2>3, <2>4, <3>2 DEF Asked
    <3> QED
      BY <3>1, <3>2
  <2>7. \A r \in Subs : FirstBill(r) \in charged' => FirstBill(r) \in charged
    BY <1>c, <2>2, <2>3 DEF FirstBill
  <2> QED
    BY <1>b, <1>e, <2>2, <2>5, <2>6, <2>7 DEF Pursues
<1>4. CASE CommitApproved(i) \/ CommitDuplicate(i)
  <2> DEFINE new == Advance(c)
  <2>1. /\ t.pc = "answered" /\ Save(i, new) /\ NextOfBatch(i)
        /\ UNCHANGED <<queue, charged, initial, refunding>>
        /\ payment' \in {payment, [payment EXCEPT ![b] = "APPROVED"]}
        /\ emitted \subseteq emitted' /\ outbox' \subseteq outbox \cup emitted'
    BY <1>4 DEF CommitApproved, CommitDuplicate, gateway, messaging, Emit
  <2>2. RowsKept
    BY <1>t, <2>1 DEF RowsKept
  <2>3. new \in Schedule /\ new.active /\ new.cycle # 1
    <3>1. c.cycle + 1 \in 0..(MaxCycle + 1) /\ c.cycle + 1 # 1 /\ 0 \in 0..(MaxAttempts - 1)
      BY <1>c, <2>1, CycleAssumption, AttemptsAssumption DEF Cycles
    <3>2. new = [cycle |-> c.cycle + 1, retry |-> 0, active |-> c.active]
      BY DEF Advance
    <3> HIDE DEF c, new
    <3> QED
      BY <1>c, <2>1, <3>1, <3>2 DEF Schedule
  <2> HIDE DEF new
  <2>4. StopsSettled /\ \A r \in Subs : schedule'[r].active => schedule'[r].cycle # 1
    BY <1>c, <1>w, <2>1, <2>3 DEF StopsSettled
  <2> QED
    BY <2>1, <2>2, <2>4, BatchPursues
<1>5. CASE CommitGiveUp(i)
  <2> DEFINE new == Deactivate(c)
  <2>1. /\ t.pc = "answered" /\ Save(i, new) /\ NextOfBatch(i)
        /\ UNCHANGED <<queue, charged, initial, refunding>>
        /\ payment' = [payment EXCEPT ![b] = "FAILED"]
        /\ emitted \subseteq emitted' /\ outbox' \subseteq outbox \cup emitted'
    BY <1>5 DEF CommitGiveUp, gateway, Emit
  <2>2. RowsKept /\ payment'[b] # "none"
    BY <1>t, <1>c, <2>1 DEF RowsKept
  <2>3. new \in Schedule /\ new.cycle # 1
    BY <1>c, <2>1 DEF Deactivate, Schedule
  <2> HIDE DEF new
  <2>4. StopsSettled
    <3> SUFFICES ASSUME NEW r \in Subs, NEW d \in Cycles, schedule[r].active, ~schedule'[r].active,
                        RowsBefore(r, d, payment)
                 PROVE  payment'[<<r, d>>] # "none"
      BY DEF StopsSettled
    <3>1. r = s
      BY <1>c, <1>w, <2>1, <2>3
    <3>2. payment[b] = "none" /\ b = <<s, c.cycle>>
      BY <1>5 DEF CommitGiveUp, BillInHand
    <3>3. ~(c.cycle < d)
      BY <1>c, <2>1, <3>1, <3>2 DEF RowsBefore
    <3>4. CASE d = c.cycle
      BY <2>2, <3>1, <3>2, <3>4
    <3>5. CASE d < c.cycle
      BY <1>c, <2>1, <2>2, <3>1, <3>5 DEF RowsBefore, RowsKept, Bills
    <3> QED
      BY <1>c, <2>1, <3>3, <3>4, <3>5, CycleAssumption DEF Cycles
  <2>5. \A r \in Subs : schedule'[r].active => schedule'[r].cycle # 1
    BY <1>c, <1>w, <2>1, <2>3
  <2> QED
    BY <2>1, <2>2, <2>4, <2>5, BatchPursues
<1>6. CASE CommitRetry(i)
  <2> DEFINE new == ScheduleRetry(c)
  <2>1. /\ t.pc = "answered" /\ ~LastChance(c) /\ Save(i, new) /\ NextOfBatch(i)
        /\ UNCHANGED <<outbox, emitted, queue, payment, charged, initial, refunding>>
    BY <1>6 DEF CommitRetry, gateway, messaging, GivesUp
  <2>2. new \in Schedule /\ new.active /\ new.cycle # 1
    BY <1>c, <2>1, AttemptsAssumption DEF ScheduleRetry, LastChance, Schedule
  <2> HIDE DEF new
  <2>3. StopsSettled /\ \A r \in Subs : schedule'[r].active => schedule'[r].cycle # 1
    BY <1>c, <1>w, <2>1, <2>2 DEF StopsSettled
  <2>4. RowsKept
    BY <2>1 DEF RowsKept
  <2> QED
    BY <2>1, <2>3, <2>4, BatchPursues
<1>7. CASE ViolateScheduled(i)
  <2>1. /\ NextOfBatch(i)
        /\ UNCHANGED <<outbox, emitted, queue, payment, schedule, charged, initial, refunding>>
    BY <1>7 DEF ViolateScheduled, messaging, tables, gateway
  <2>2. \A r \in Subs : schedule'[r].active => schedule'[r].cycle # 1
    BY <1>h, <2>1 DEF SchedulesActive
  <2> QED
    BY <1>b, <2>1, <2>2, BatchPursues
<1> QED
  BY <1>1, <1>2, <1>3, <1>4, <1>5, <1>6, <1>7 DEF SchedulerStep

(* An instance dies: its messages are in their queues again.               *)
LEMMA CrashPursues ==
  ASSUME BillingInv, PursuitInv, NEW i \in Instances, Crash(i)
  PROVE  Pursues
<1>1. /\ initial' = [initial EXCEPT ![i] = InitialIdle]
      /\ refunding' = [refunding EXCEPT ![i] = RefundIdle]
      /\ scheduler' = [scheduler EXCEPT ![i] = SchedulerIdle]
      /\ UNCHANGED <<outbox, emitted, payment, schedule, charged>>
  BY DEF Crash, tables, gateway
<1>2. /\ initial'[i].pc = "idle" /\ refunding'[i].pc = "idle" /\ scheduler'[i].todo = {}
      /\ \A j \in Instances : j # i =>
           /\ initial'[j] = initial[j] /\ refunding'[j] = refunding[j]
           /\ scheduler'[j] = scheduler[j]
  BY <1>1 DEF BillingInv, ThreadTypes, InitialIdle, RefundIdle, SchedulerIdle
<1>3. HandedOut'
  <2>1. \A q \in Queues : queue'[q] \subseteq emitted
    BY DEF PursuitInv, HandedOut, Crash
  <2> QED
    BY <1>1, <1>2, <2>1 DEF PursuitInv, HandedOut
<1>4. RowsKept /\ StopsSettled
  BY <1>1 DEF RowsKept, StopsSettled
<1>5. SchedulesActive' /\ \A s \in Subs, c \in Cycles : Asked(s, c)' => Asked(s, c)
  BY <1>1, <1>2 DEF PursuitInv, SchedulesActive, Asked
<1>6. \A s \in Subs : AtIt(s) => AtIt(s)'
  <2>1. CreatedQueue \in Queues
    BY ConsumersAssumption DEF CreatedQueue
  <2>2. /\ queue[CreatedQueue] \subseteq queue'[CreatedQueue]
        /\ initial[i].pc # "idle" => Created(initial[i].sub) \in queue'[CreatedQueue]
    BY <2>1 DEF Crash
  <2> QED
    BY <1>2, <2>2 DEF AtIt
<1> QED
  BY <1>1, <1>3, <1>4, <1>5, <1>6 DEF Pursues

LEMMA EnvironmentPursues ==
  ASSUME PursuitInv, UNCHANGED billing,
         MessagingStep \/ \E s \in Subs : Subscribe(s) \/ Unsubscribe(s)
  PROVE  Pursues
<1>1. UNCHANGED <<initial, refunding>> /\ HandedOut
  BY DEF billing, PursuitInv
<1>2. ASSUME NEW e \in outbox, Publish(e) PROVE Pursues
  <2>1. HandedOut'
    BY <1>1, <1>2 DEF HandedOut, Publish
  <2> QED
    BY <1>2, <2>1, ConsumersAssumption, MessagesPursue DEF Publish, CreatedQueue
<1>3. ASSUME NEW q \in Queues, NEW e \in emitted, Redeliver(q, e) PROVE Pursues
  <2>1. HandedOut'
    BY <1>1, <1>3 DEF HandedOut, Redeliver
  <2> QED
    BY <1>3, <2>1, ConsumersAssumption, MessagesPursue DEF Redeliver, CreatedQueue
<1>4. ASSUME NEW s \in Subs, Subscribe(s) \/ Unsubscribe(s) PROVE Pursues
  <2>1. /\ UNCHANGED queue /\ emitted \subseteq emitted'
        /\ outbox' \subseteq outbox \cup emitted'
    BY <1>4 DEF Subscribe, Unsubscribe, Emit
  <2>2. HandedOut'
    BY <1>1, <2>1 DEF HandedOut
  <2> QED
    BY <2>1, <2>2, MessagesPursue
<1> QED
  BY <1>2, <1>3, <1>4 DEF MessagingStep

LEMMA NextPursues == BillingInv /\ PursuitInv /\ [ServiceNext]_billingVars => PursuitInv'
<1> SUFFICES ASSUME BillingInv, PursuitInv, [ServiceNext]_billingVars PROVE PursuitInv'
  OBVIOUS
<1>1. CASE BillingStep
  BY <1>1, InitialPursues, RefundPursues, SchedulerPursues, CrashPursues, PursuitGoesOn
     DEF BillingStep
<1>2. CASE MessagingStep /\ UNCHANGED billing
  BY <1>2, EnvironmentPursues, PursuitGoesOn
<1>3. ASSUME NEW s \in Subs, Subscribe(s) \/ Unsubscribe(s) PROVE PursuitInv'
  <2>1. UNCHANGED billing
    BY <1>3 DEF Subscribe, Unsubscribe
  <2> QED
    BY <1>3, <2>1, EnvironmentPursues, PursuitGoesOn
<1>4. CASE UNCHANGED billingVars
  <2>1. UNCHANGED <<outbox, emitted, queue, billing, initial, refunding>>
    BY <1>4 DEF billingVars, billing
  <2>2. HandedOut'
    BY <2>1 DEF PursuitInv, HandedOut
  <2> QED
    BY <2>1, <2>2, MessagesPursue, PursuitGoesOn
<1> QED
  BY <1>1, <1>2, <1>3, <1>4 DEF ServiceNext

LEMMA InitPursues == ServiceInit => PursuitInv
<1> SUFFICES ASSUME ServiceInit PROVE PursuitInv
  OBVIOUS
<1>1. NoSchedule.active = FALSE /\ InitialIdle.pc = "idle" /\ RefundIdle.pc = "idle"
      /\ SchedulerIdle.todo = {}
  BY DEF NoSchedule, InitialIdle, RefundIdle, SchedulerIdle
<1>2. HandedOut /\ SchedulesActive
  BY <1>1 DEF ServiceInit, MessagingInit, BillingInit, HandedOut, SchedulesActive
<1>3. FirstPursued /\ OthersPursued
  BY <1>1 DEF ServiceInit, BillingInit, FirstPursued, OthersPursued, Asked
<1> QED
  BY <1>2, <1>3 DEF PursuitInv

(* Money taken without a row is asked for again, unless a cancellation     *)
(* came (PgApproval: an unknown outcome is not a failure), for any number  *)
(* of instances, crashes, lost answers and stale copies.                   *)
THEOREM MoneyIsPursued == ServiceSpec => []TakenIsPursued
<1>1. BillingInv /\ PursuitInv => TakenIsPursued
  <2> SUFFICES ASSUME BillingInv, PursuitInv, NEW s \in Subs, NEW c \in Cycles,
                      <<s, c>> \in charged, payment[<<s, c>>] = "none"
               PROVE  \/ c = 1 /\ AtIt(s)
                      \/ c > 1 /\ \/ schedule[s].active /\ schedule[s].cycle <= c
                                  \/ Cancelled(s) \in emitted
    BY DEF TakenIsPursued, AtIt
  <2>1. CASE c = 1
    BY <2>1 DEF PursuitInv, FirstPursued, FirstBill
  <2>2. CASE c # 1
    <3>1. c > 1 /\ Asked(s, c)
      BY <2>2, CycleAssumption DEF Asked, Cycles
    <3>2. StillBilled(s)
      BY <3>1 DEF PursuitInv, OthersPursued
    <3>3. RowsBefore(s, schedule[s].cycle, payment) /\ schedule[s].cycle \in Nat /\ c \in Nat
      BY CycleAssumption DEF BillingInv, TablesOK, TableTypes, SchedulesFollow, Schedule, Cycles
    <3>4. schedule[s].cycle <= c
      BY <3>3 DEF RowsBefore
    <3> QED
      BY <3>1, <3>2, <3>4 DEF StillBilled
  <2> QED
    BY <2>1, <2>2
<1>2. ServiceSpec => []PursuitInv
  BY InitPursues, NextPursues, BillingInvariant, PTL DEF ServiceSpec
<1> QED
  BY <1>1, <1>2, BillingInvariant, PTL

-----------------------------------------------------------------------------
(* The refinement.                                                         *)

Shows == [Contract!Next]_Contract!contract

(* The contract's money, from the books.                                   *)
MoneyIn(ch, ret) ==
  [b \in Bills |-> IF b \notin ch THEN "none" ELSE IF b \in ret THEN "returned" ELSE "taken"]

LEMMA MoneyNow == money = MoneyIn(charged, returned) /\ money' = MoneyIn(charged', returned')
  BY DEF money, MoneyOf, MoneyIn

(* What is announced about payments adds to what was told.                 *)
LEMMA ToldGrows ==
  ASSUME NEW E \in SUBSET PaymentEvent, emitted' = emitted \cup E
  PROVE  told' = told \cup {<<e.type, e.of>> : e \in E}
  BY DEF told

LEMMA PaymentEvents ==
  ASSUME NEW b \in Bills
  PROVE  /\ {Completed(b), Failed(b), Refunded(b)} \subseteq PaymentEvent
         /\ Completed(b).type = "PaymentCompleted" /\ Completed(b).of = b
         /\ Failed(b).type = "PaymentFailed" /\ Failed(b).of = b
         /\ Refunded(b).type = "PaymentRefunded" /\ Refunded(b).of = b
  BY DEF Completed, Failed, Refunded, Ev, PaymentEvent

(* Nothing the contract speaks of changes.                                 *)
LEMMA ShowsNothing ==
  ASSUME UNCHANGED <<payment, charged, returned, emitted>>
  PROVE  Shows
  BY DEF Shows, Contract!contract, money, MoneyOf, told

(* The first authorisation of a bill is a Charge.                          *)
LEMMA GatewayAskedMaps ==
  ASSUME TablesOK, TablesOK', NEW b \in Bills, NEW answer, Approve(b, answer),
         UNCHANGED <<payment, emitted>>
  PROVE  Shows
<1>1. returned' = returned /\ charged' \in {charged, charged \cup {b}}
  BY DEF Approve
<1>2. CASE charged' = charged
  BY <1>1, <1>2, ShowsNothing
<1>3. CASE charged' # charged
  <2>1. charged' = charged \cup {b} /\ b \notin charged /\ b \notin returned
    BY <1>1, <1>3 DEF TablesOK, TableTypes
  <2>2. money[b] = "none"
    BY <2>1, MoneyNow DEF MoneyIn
  <2>3. \A c \in Bills : c # b => (c \in charged' <=> c \in charged)
    BY <2>1
  <2>4. money' = [money EXCEPT ![b] = "taken"]
    BY <1>1, <2>1, <2>3, MoneyNow DEF MoneyIn
  <2>5. told' = told
    BY DEF told
  <2>6. Contract!Charge(b)
    BY <2>2, <2>4, <2>5 DEF Contract!Charge
  <2> QED
    BY <2>6 DEF Contract!Next, Shows
<1> QED
  BY <1>2, <1>3

(* The first return of a bill's money is a Return.                         *)
LEMMA MoneyReturnedMaps ==
  ASSUME TablesOK, TablesOK', NEW b \in Bills, payment[b] \in PaidStatus,
         returned' \in {returned, returned \cup {b}},
         UNCHANGED <<payment, charged, emitted>>
  PROVE  Shows
<1>1. CASE returned' = returned
  BY <1>1, ShowsNothing
<1>2. CASE returned' # returned
  <2>1. b \in charged /\ b \notin returned /\ returned' = returned \cup {b}
    BY <1>2 DEF TablesOK, TableTypes, RowsBacked, PaidStatus
  <2>2. payment[b] = "APPROVED"
    BY <2>1 DEF TablesOK, RowsBacked, PaidStatus
  <2>3. money[b] = "taken"
    BY <2>1, MoneyNow DEF MoneyIn
  <2>4. \A c \in Bills : c # b => (c \in returned' <=> c \in returned)
    BY <2>1
  <2>5. money' = [money EXCEPT ![b] = "returned"]
    BY <2>1, <2>4, MoneyNow DEF MoneyIn
  <2>6. told' = told
    BY DEF told
  <2>7. Contract!Return(b)
    BY <2>2, <2>3, <2>5, <2>6 DEF Contract!Return
  <2> QED
    BY <2>7 DEF Contract!Next, Shows
<1> QED
  BY <1>1, <1>2

(* A row with its event is a verdict, approved ...                         *)
LEMMA ApprovedMaps ==
  ASSUME TablesOK, TablesOK', NEW b \in Bills, payment[b] = "none", b \in charged,
         payment' = [payment EXCEPT ![b] = "APPROVED"], Emit({Completed(b)}),
         UNCHANGED <<charged, returned>>
  PROVE  Shows
<1>1. b \notin returned
  BY DEF TablesOK, RowsBacked, PaidStatus
<1>2. money[b] = "taken" /\ money' = money
  BY <1>1, MoneyNow DEF MoneyIn
<1>3. told' = told \cup {<<"PaymentCompleted", b>>}
  <2>1. {Completed(b)} \in SUBSET PaymentEvent /\ emitted' = emitted \cup {Completed(b)}
    BY PaymentEvents DEF Emit
  <2>2. {<<e.type, e.of>> : e \in {Completed(b)}} = {<<"PaymentCompleted", b>>}
    BY PaymentEvents
  <2> QED
    BY <2>1, <2>2, ToldGrows
<1>4. Contract!RecordApproved(b)
  BY <1>2, <1>3 DEF Contract!RecordApproved
<1> QED
  BY <1>4 DEF Contract!Next, Shows

(* ... or failed.                                                          *)
LEMMA FailedMaps ==
  ASSUME TablesOK, TablesOK', NEW b \in Bills, payment[b] = "none",
         payment' = [payment EXCEPT ![b] = "FAILED"], Emit({Failed(b)}),
         UNCHANGED <<charged, returned>>
  PROVE  Shows
<1>1. money' = money
  BY MoneyNow
<1>2. told' = told \cup {<<"PaymentFailed", b>>}
  <2>1. {Failed(b)} \in SUBSET PaymentEvent /\ emitted' = emitted \cup {Failed(b)}
    BY PaymentEvents DEF Emit
  <2>2. {<<e.type, e.of>> : e \in {Failed(b)}} = {<<"PaymentFailed", b>>}
    BY PaymentEvents
  <2> QED
    BY <2>1, <2>2, ToldGrows
<1>3. Contract!RecordFailed(b)
  BY <1>1, <1>2 DEF Contract!RecordFailed
<1> QED
  BY <1>3 DEF Contract!Next, Shows

(* A cancellation's commit is a Refund of its bills.                       *)
LEMMA RefundedMaps ==
  ASSUME TablesOK, TablesOK', NEW B \in SUBSET Bills,
         \A b \in B : payment[b] \in PaidStatus /\ b \in returned,
         payment' = [b \in Bills |-> IF b \in B THEN "REFUNDED" ELSE payment[b]],
         Emit({Refunded(b) : b \in B}), UNCHANGED <<charged, returned>>
  PROVE  Shows
<1>1. \A b \in B : money[b] = "returned"
  BY MoneyNow DEF MoneyIn, TablesOK, TableTypes
<1>2. money' = money
  BY MoneyNow
<1> DEFINE E == {Refunded(b) : b \in B}
<1>3. E \in SUBSET PaymentEvent
  BY PaymentEvents
<1>4. {<<e.type, e.of>> : e \in E} = {<<"PaymentRefunded", b>> : b \in B}
  BY PaymentEvents
<1>5. told' = told \cup {<<"PaymentRefunded", b>> : b \in B}
  <2>1. emitted' = emitted \cup E
    BY DEF Emit
  <2> HIDE DEF E
  <2> QED
    BY <1>3, <1>4, <2>1, ToldGrows
<1>6. Contract!Refund(B)
  BY <1>1, <1>2, <1>5 DEF Contract!Refund, PaidStatus
<1> QED
  BY <1>6 DEF Contract!Next, Shows

-----------------------------------------------------------------------------
(* The steps, thread by thread.                                            *)

LEMMA InitMaps == ServiceInit => Contract!Init
<1> SUFFICES ASSUME ServiceInit PROVE Contract!Init
  OBVIOUS
<1>1. charged = {} /\ emitted = {} /\ payment = [b \in Bills |-> "none"]
  BY DEF ServiceInit, BillingInit, MessagingInit
<1>2. money = [b \in Bills |-> "none"]
  BY <1>1 DEF money, MoneyOf
<1>3. told = {}
  BY <1>1 DEF told
<1> QED
  BY <1>1, <1>2, <1>3 DEF Contract!Init

LEMMA InitialStepMaps ==
  ASSUME BillingInv, BillingInv', NEW i \in Instances, InitialStep(i)
  PROVE  Shows
<1> DEFINE t == initial[i]
           b == FirstBill(t.sub)
<1>t. TablesOK /\ TablesOK' /\ InitialOK(t, charged)
  BY DEF BillingInv, InstanceOK
<1>b. t.pc # "idle" => b \in Bills
  BY <1>t, CycleAssumption DEF InitialOK, FirstBill, Bills, Cycles
<1>1. ASSUME \/ \E s \in Subs : SkipInitial(i, s) \/ BeginInitial(i, s)
             \/ ViolateInitial(i)
      PROVE  Shows
  BY <1>1, ShowsNothing DEF SkipInitial, BeginInitial, ViolateInitial, tables, gateway, billing
<1>2. CASE AskInitial(i)
  <2>1. PICK answer \in Answer : Approve(b, answer)
    BY <1>2 DEF AskInitial
  <2>2. b \in Bills /\ UNCHANGED <<payment, emitted>>
    BY <1>2, <1>b DEF AskInitial, tables
  <2> QED
    BY <1>t, <2>1, <2>2, GatewayAskedMaps
<1>3. CASE CommitInitial(i)
  <2>1. /\ t.pc = "answered" /\ b \in Bills /\ payment[b] = "none"
        /\ UNCHANGED <<charged, returned>>
    BY <1>3, <1>b DEF CommitInitial, gateway
  <2>2. CASE t.answer = "approved"
    <3>1. payment' = [payment EXCEPT ![b] = "APPROVED"] /\ Emit({Completed(b)})
      BY <1>3, <2>2 DEF CommitInitial
    <3>2. b \in charged
      BY <1>t, <2>1, <2>2 DEF InitialOK
    <3> QED
      BY <1>t, <2>1, <3>1, <3>2, ApprovedMaps
  <2>3. CASE t.answer # "approved"
    <3>1. payment' = [payment EXCEPT ![b] = "FAILED"] /\ Emit({Failed(b)})
      BY <1>3, <2>3 DEF CommitInitial
    <3> QED
      BY <1>t, <2>1, <3>1, FailedMaps
  <2> QED
    BY <2>2, <2>3
<1> QED
  BY <1>1, <1>2, <1>3 DEF InitialStep

LEMMA RefundStepMaps ==
  ASSUME BillingInv, BillingInv', NEW i \in Instances, RefundStep(i)
  PROVE  Shows
<1> DEFINE t == refunding[i]
<1>t. TablesOK /\ TablesOK' /\ t \in RefundThread /\ RefundOK(t, payment, returned)
  BY DEF BillingInv, ThreadTypes, InstanceOK
<1>1. ASSUME NEW s \in Subs, BeginRefund(i, s) PROVE Shows
  BY <1>1, ShowsNothing DEF BeginRefund, tables, gateway
<1>2. CASE RefundNext(i) \/ RefundFails(i)
  <2>1. PICK c \in t.todo : returned' \in {returned, returned \cup {<<t.sub, c>>}}
    BY <1>2 DEF RefundNext, RefundFails
  <2>2. t.pc = "refunding" /\ UNCHANGED <<payment, charged, emitted>>
    BY <1>2 DEF RefundNext, RefundFails, tables, messaging
  <2>3. <<t.sub, c>> \in Bills /\ payment[<<t.sub, c>>] \in PaidStatus
    BY <1>t, <2>1, <2>2 DEF RefundOK, RefundThread, Bills
  <2> QED
    BY <1>t, <2>1, <2>2, <2>3, MoneyReturnedMaps
<1>3. CASE CommitRefund(i)
  <2> DEFINE B == {t.sub} \X t.rows
  <2>1. /\ t.pc = "refunding" /\ t.todo = {}
        /\ payment' = [b \in Bills |-> IF b \in B THEN "REFUNDED" ELSE payment[b]]
        /\ Emit({Refunded(b) : b \in B})
        /\ UNCHANGED <<charged, returned>>
    BY <1>3 DEF CommitRefund, gateway
  <2>2. B \in SUBSET Bills /\ \A b \in B : payment[b] \in PaidStatus /\ b \in returned
    BY <1>t, <2>1 DEF RefundOK, RefundThread, Bills
  <2> HIDE DEF B
  <2> QED
    BY <1>t, <2>1, <2>2, RefundedMaps
<1> QED
  BY <1>1, <1>2, <1>3 DEF RefundStep

LEMMA SchedulerStepMaps ==
  ASSUME BillingInv, BillingInv', NEW i \in Instances, SchedulerStep(i)
  PROVE  Shows
<1> DEFINE t == scheduler[i]
           b == BillInHand(i)
<1>t. TablesOK /\ TablesOK' /\ SchedulerOK(t, payment, charged)
  BY DEF BillingInv, InstanceOK
<1>b. t.pc \in {"charging", "answered"} => b \in Bills
  BY SMTT(30), InHand
<1>1. ASSUME \/ Poll(i) \/ \E s \in Subs : BeginScheduled(i, s)
             \/ CommitDuplicate(i) \/ CommitRetry(i) \/ ViolateScheduled(i)
      PROVE  Shows
  BY <1>1, ShowsNothing DEF Poll, BeginScheduled, CommitDuplicate, CommitRetry,
     ViolateScheduled, tables, gateway, messaging
<1>2. CASE AskScheduled(i)
  <2>1. PICK answer \in Answer : Approve(b, answer)
    BY <1>2 DEF AskScheduled
  <2>2. b \in Bills /\ UNCHANGED <<payment, emitted>>
    BY <1>2, <1>b DEF AskScheduled, tables
  <2> QED
    BY <1>t, <2>1, <2>2, GatewayAskedMaps
<1>3. CASE CommitApproved(i)
  <2>1. /\ t.pc = "answered" /\ t.answer = "approved" /\ b \in Bills /\ payment[b] = "none"
        /\ payment' = [payment EXCEPT ![b] = "APPROVED"] /\ Emit({Completed(b)})
        /\ UNCHANGED <<charged, returned>>
    BY <1>3, <1>b DEF CommitApproved, gateway
  <2>2. b \in charged
    BY <1>t, <2>1 DEF SchedulerOK, BillInHand, CopyInHand
  <2> QED
    BY <1>t, <2>1, <2>2, ApprovedMaps
<1>4. CASE CommitGiveUp(i)
  <2>1. /\ b \in Bills /\ payment[b] = "none"
        /\ payment' = [payment EXCEPT ![b] = "FAILED"] /\ Emit({Failed(b)})
        /\ UNCHANGED <<charged, returned>>
    BY <1>4, <1>b DEF CommitGiveUp, gateway
  <2> QED
    BY <1>t, <2>1, FailedMaps
<1> QED
  BY <1>1, <1>2, <1>3, <1>4 DEF SchedulerStep

LEMMA OtherStepsMap ==
  ASSUME \/ \E s \in Subs : Subscribe(s) \/ Unsubscribe(s)
         \/ MessagingStep /\ UNCHANGED billing
         \/ \E i \in Instances : Crash(i)
         \/ UNCHANGED billingVars
  PROVE  Shows
<1>1. ASSUME NEW s \in Subs, Subscribe(s) \/ Unsubscribe(s) PROVE Shows
  <2>1. PICK e \in {Created(s), Cancelled(s)} : emitted' = emitted \cup {e}
    BY <1>1 DEF Subscribe, Unsubscribe, Emit
  <2>2. e \notin PaymentEvent
    BY DEF Created, Cancelled, Ev, PaymentEvent
  <2>3. told' = told
    BY <2>1, <2>2 DEF told
  <2>4. UNCHANGED <<payment, charged, returned>>
    BY <1>1 DEF Subscribe, Unsubscribe, billing
  <2>5. money' = money
    BY <2>4 DEF money, MoneyOf
  <2> QED
    BY <2>3, <2>4, <2>5 DEF Shows, Contract!contract
<1>2. CASE MessagingStep /\ UNCHANGED billing
  BY <1>2, ShowsNothing DEF MessagingStep, Publish, Redeliver, billing
<1>3. ASSUME NEW i \in Instances, Crash(i) PROVE Shows
  BY <1>3, ShowsNothing DEF Crash, tables, gateway
<1>4. CASE UNCHANGED billingVars
  BY <1>4, ShowsNothing DEF billingVars
<1> QED
  BY <1>1, <1>2, <1>3, <1>4

(* payment-service implements its contract: per bill one verdict, told as  *)
(* recorded; money taken at most once, recorded as approved only when      *)
(* taken, as refunded only when returned, and returned only from an        *)
(* approved bill (PaymentService with the gateway behind it).              *)
THEOREM ServiceImplementsContract == ServiceSpec => ImplementsContract
<1>1. BillingInv /\ BillingInv' /\ [ServiceNext]_billingVars => Shows
  <2> SUFFICES ASSUME BillingInv, BillingInv', [ServiceNext]_billingVars PROVE Shows
    OBVIOUS
  <2> QED
    BY InitialStepMaps, RefundStepMaps, SchedulerStepMaps, OtherStepsMap DEF ServiceNext, BillingStep
<1> QED
  BY <1>1, InitMaps, BillingInvariant, PTL
     DEF ServiceSpec, ImplementsContract, Contract!Spec, Shows

-----------------------------------------------------------------------------
(* The four services together.                                             *)

Activated(s) == Ev("SubscriptionActivated", s)
FirstPaid(s) == payment[FirstBill(s)] \in PaidStatus

SagaTypes ==
  /\ MessagingTypeOK /\ SubscriptionsTypeOK /\ EntitlementTypeOK
  /\ \A i \in Instances : web[i].doing # "nothing" => web[i].sub \in Subs

(* What is under way was committed.                                        *)
HeldBy(i) ==
  /\ initial[i].pc # "idle" => Created(initial[i].sub) \in emitted
  /\ refunding[i].pc # "idle" => Cancelled(refunding[i].sub) \in emitted
  /\ result[i] # NoEvent => result[i] \in emitted
  /\ withdrawal[i].event # NoEvent => withdrawal[i].event \in emitted

UnderWay ==
  /\ outbox \subseteq emitted
  /\ \A q \in Queues : queue[q] \subseteq emitted
  /\ \A i \in Instances : HeldBy(i)

(* What was announced about a payment is still true of its row, ...        *)
VerdictsTrue ==
  \A b \in Bills :
    /\ Completed(b) \in emitted => payment[b] \in PaidStatus
    /\ Failed(b) \in emitted => payment[b] = "FAILED"

(* ... nothing is billed before the first payment was approved, ...        *)
FirstPaidFirst ==
  /\ \A s \in Subs : schedule[s].active => FirstPaid(s)
  /\ \A b \in Bills : b[2] # 1 /\ payment[b] # "none" => FirstPaid(b[1])
  /\ \A i \in Instances : \A s \in scheduler[i].todo : FirstPaid(s)

(* ... and nothing is announced as active either.                          *)
ActivatedPaid == \A s \in Subs : Activated(s) \in emitted => FirstPaid(s)

Causes == VerdictsTrue /\ FirstPaidFirst /\ ActivatedPaid

SagaInv ==
  /\ BillingInv /\ SagaTypes /\ UnderWay /\ Causes
  /\ NoServiceWithoutPayment /\ EndHasCause

-----------------------------------------------------------------------------
(* Events of different kinds, or about different things, are different.    *)

LEMMA EventParts ==
  ASSUME NEW t1, NEW o1, NEW t2, NEW o2, Ev(t1, o1) = Ev(t2, o2)
  PROVE  t1 = t2 /\ o1 = o2
<1>1. Ev(t1, o1).type = t1 /\ Ev(t1, o1).of = o1 /\ Ev(t2, o2).type = t2 /\ Ev(t2, o2).of = o2
  BY DEF Ev
<1> QED
  BY <1>1

LEMMA EventsApart ==
  /\ \A x, y : /\ Completed(x) = Completed(y) => x = y
               /\ Failed(x) = Failed(y) => x = y
               /\ Completed(x) # Failed(y) /\ Completed(x) # Refunded(y)
               /\ Failed(x) # Refunded(y)
               /\ Activated(x) # Completed(y) /\ Activated(x) # Failed(y)
               /\ Activated(x) # Refunded(y)
  /\ \A x, y : /\ Activated(x) = Activated(y) => x = y
               /\ Created(x) # Completed(y) /\ Created(x) # Failed(y)
               /\ Created(x) # Activated(y)
               /\ Cancelled(x) # Completed(y) /\ Cancelled(x) # Failed(y)
               /\ Cancelled(x) # Activated(y)
               /\ Ev("MemberWithdrawn", x) # Completed(y)
               /\ Ev("MemberWithdrawn", x) # Failed(y)
               /\ Ev("MemberWithdrawn", x) # Activated(y)
  BY EventParts DEF Completed, Failed, Refunded, Activated, Created, Cancelled

-----------------------------------------------------------------------------
(* What a step of payment-service may change in its payments, and          *)
(* announce: nothing, one verdict on a bill that had none, or refunds.     *)
NoRowMoves == UNCHANGED <<payment, outbox, emitted>>

RowDecided ==
  \E b \in Bills, v \in {"APPROVED", "FAILED"} :
    /\ payment[b] = "none"
    /\ b[2] # 1 => FirstPaid(b[1])
    /\ payment' = [payment EXCEPT ![b] = v]
    /\ Emit({IF v = "APPROVED" THEN Completed(b) ELSE Failed(b)})

RowsReturned ==
  \E B \in SUBSET Bills :
    /\ \A b \in B : payment[b] \in PaidStatus
    /\ payment' = [b \in Bills |-> IF b \in B THEN "REFUNDED" ELSE payment[b]]
    /\ Emit({Refunded(b) : b \in B})

ThreadsHold ==
  \A i \in Instances :
    /\ initial'[i].pc # "idle" => Created(initial'[i].sub) \in emitted
    /\ refunding'[i].pc # "idle" => Cancelled(refunding'[i].sub) \in emitted
    /\ \A s \in scheduler'[i].todo : FirstPaid(s)

SchedulesOfPaid ==
  \A s \in Subs : schedule'[s].active => schedule[s].active \/ payment'[FirstBill(s)] \in PaidStatus

QueuesFed == \A q \in Queues : queue'[q] \subseteq queue[q] \cup emitted

ReturnsCaused ==
  \A k \in returned' : k \in returned \/ Cancelled(k[1]) \in emitted

BillingShows ==
  /\ NoRowMoves \/ RowDecided \/ RowsReturned
  /\ ThreadsHold /\ SchedulesOfPaid /\ QueuesFed /\ ReturnsCaused

-----------------------------------------------------------------------------
(* The steps of payment-service.                                           *)

LEMMA TakenWasEmitted ==
  ASSUME UnderWay, MessagingTypeOK, NEW q \in Queues, NEW e, Take(q, e)
  PROVE  e \in emitted /\ QueuesFed
  BY DEF UnderWay, Take, MessagingTypeOK, QueuesFed

LEMMA BillHasSub == \A b \in Bills : b[1] \in Subs /\ b = <<b[1], b[2]>>
  BY DEF Bills

(* One thread moves.                                                       *)
LEMMA InitialHolds ==
  ASSUME SagaInv, NEW i \in Instances, NEW t,
         initial' = [initial EXCEPT ![i] = t], UNCHANGED <<refunding, scheduler>>,
         t.pc # "idle" => Created(t.sub) \in emitted
  PROVE  ThreadsHold
  BY DEF SagaInv, BillingInv, ThreadTypes, UnderWay, HeldBy, Causes, FirstPaidFirst, ThreadsHold

LEMMA RefundHolds ==
  ASSUME SagaInv, NEW i \in Instances, NEW t,
         refunding' = [refunding EXCEPT ![i] = t], UNCHANGED <<initial, scheduler>>,
         t.pc # "idle" => Cancelled(t.sub) \in emitted
  PROVE  ThreadsHold
  BY DEF SagaInv, BillingInv, ThreadTypes, UnderWay, HeldBy, Causes, FirstPaidFirst, ThreadsHold

LEMMA SchedulerHolds ==
  ASSUME SagaInv, NEW i \in Instances, NEW t,
         scheduler' = [scheduler EXCEPT ![i] = t], UNCHANGED <<initial, refunding>>,
         \A s \in t.todo : FirstPaid(s)
  PROVE  ThreadsHold
  BY DEF SagaInv, BillingInv, ThreadTypes, UnderWay, HeldBy, Causes, FirstPaidFirst, ThreadsHold

LEMMA InitialShows ==
  ASSUME SagaInv, NEW i \in Instances, InitialStep(i)
  PROVE  BillingShows
<1> DEFINE s == initial[i].sub
           b == FirstBill(s)
<1>t. /\ initial[i] \in InitialThread
      /\ initial[i].pc # "idle" => s \in Subs /\ Created(s) \in emitted
      /\ payment \in [Bills -> PaymentStatus \cup {"none"}]
      /\ schedule \in [Subs -> Schedule]
  BY DEF SagaInv, BillingInv, TablesOK, TableTypes, ThreadTypes, InstanceOK, InitialOK,
         UnderWay, HeldBy
<1>q. CreatedQueue \in Queues
  BY QueuesAssumption
<1>i. InitialIdle.pc = "idle"
  BY DEF InitialIdle
<1>1. ASSUME NEW r \in Subs, SkipInitial(i, r) PROVE BillingShows
  <2>1. UNCHANGED <<payment, schedule, returned, initial, refunding, scheduler, outbox, emitted>>
    BY <1>1 DEF SkipInitial, billing
  <2>2. QueuesFed
    BY <1>1, <1>q, TakenWasEmitted DEF SkipInitial, SagaInv, SagaTypes
  <2>3. ThreadsHold
    BY <2>1 DEF SagaInv, UnderWay, HeldBy, Causes, FirstPaidFirst, ThreadsHold
  <2> QED
    BY <2>1, <2>2, <2>3 DEF BillingShows, NoRowMoves, SchedulesOfPaid, ReturnsCaused
<1>2. ASSUME NEW r \in Subs, BeginInitial(i, r) PROVE BillingShows
  <2> DEFINE new == [pc |-> "charging", sub |-> r, answer |-> "none"]
  <2>1. /\ UNCHANGED <<payment, schedule, returned, refunding, scheduler, outbox, emitted>>
        /\ initial' = [initial EXCEPT ![i] = new]
    BY <1>2 DEF BeginInitial, tables, gateway
  <2>2. QueuesFed /\ Created(r) \in emitted
    BY <1>2, <1>q, TakenWasEmitted DEF BeginInitial, SagaInv, SagaTypes
  <2>3. ThreadsHold
    BY <2>1, <2>2, InitialHolds
  <2> QED
    BY <2>1, <2>2, <2>3 DEF BillingShows, NoRowMoves, SchedulesOfPaid, ReturnsCaused
<1>3. CASE AskInitial(i)
  <2>1. PICK answer : initial' = [initial EXCEPT ![i].pc = "answered", ![i].answer = answer]
    BY <1>3 DEF AskInitial
  <2>2. /\ UNCHANGED <<payment, schedule, returned, refunding, scheduler, outbox, emitted, queue>>
        /\ initial[i].pc = "charging"
    BY <1>3 DEF AskInitial, Approve, tables
  <2> DEFINE new == [initial[i] EXCEPT !.pc = "answered", !.answer = answer]
  <2>3. initial' = [initial EXCEPT ![i] = new] /\ new.sub = s
    BY <2>1, <1>t DEF InitialThread, SagaInv, BillingInv, ThreadTypes
  <2>4. ThreadsHold
    <3> HIDE DEF new
    <3> QED
      BY <1>t, <2>2, <2>3, InitialHolds
  <2> QED
    BY <2>2, <2>4 DEF BillingShows, NoRowMoves, SchedulesOfPaid, ReturnsCaused, QueuesFed
<1>4. CASE CommitInitial(i)
  <2>1. /\ initial[i].pc = "answered" /\ payment[b] = "none"
        /\ initial' = [initial EXCEPT ![i] = InitialIdle]
        /\ UNCHANGED <<queue, returned, refunding, scheduler>>
    BY <1>4 DEF CommitInitial, gateway
  <2>2. b \in Bills /\ b[2] = 1 /\ s \in Subs
    BY <1>t, <2>1, FirstBillsAreBills
  <2>3. ThreadsHold
    BY <2>1, <1>i, InitialHolds
  <2>4. CASE /\ payment' = [payment EXCEPT ![b] = "APPROVED"]
             /\ schedule' = [schedule EXCEPT ![s] = [cycle |-> 2, retry |-> 0, active |-> TRUE]]
             /\ Emit({Completed(b)})
    <3>1. RowDecided
      BY <2>1, <2>2, <2>4 DEF RowDecided
    <3>2. payment'[b] \in PaidStatus
      BY <1>t, <2>2, <2>4 DEF PaidStatus
    <3>3. \A r \in Subs : r = s \/ schedule'[r] = schedule[r]
      BY <1>t, <2>2, <2>4
    <3> QED
      BY <2>1, <2>3, <3>1, <3>2, <3>3 DEF BillingShows, SchedulesOfPaid, ReturnsCaused, QueuesFed
  <2>5. CASE /\ payment' = [payment EXCEPT ![b] = "FAILED"]
             /\ Emit({Failed(b)})
             /\ UNCHANGED schedule
    <3>1. RowDecided
      BY <2>1, <2>2, <2>5 DEF RowDecided
    <3> QED
      BY <2>1, <2>3, <2>5, <3>1 DEF BillingShows, SchedulesOfPaid, ReturnsCaused, QueuesFed
  <2> QED
    BY <1>4, <2>4, <2>5 DEF CommitInitial
<1>5. CASE ViolateInitial(i)
  <2>1. /\ initial' = [initial EXCEPT ![i] = InitialIdle]
        /\ UNCHANGED <<payment, schedule, returned, refunding, scheduler, outbox, emitted, queue>>
    BY <1>5 DEF ViolateInitial, tables, gateway
  <2>2. ThreadsHold
    BY <2>1, <1>i, InitialHolds
  <2> QED
    BY <2>1, <2>2 DEF BillingShows, NoRowMoves, SchedulesOfPaid, ReturnsCaused, QueuesFed
<1> QED
  BY <1>1, <1>2, <1>3, <1>4, <1>5 DEF InitialStep

LEMMA RefundShows ==
  ASSUME SagaInv, NEW i \in Instances, RefundStep(i)
  PROVE  BillingShows
<1> DEFINE t == refunding[i]
           s == refunding[i].sub
<1>t. /\ t \in RefundThread /\ RefundOK(t, payment, returned)
      /\ t.pc # "idle" => Cancelled(s) \in emitted
      /\ payment \in [Bills -> PaymentStatus \cup {"none"}]
      /\ schedule \in [Subs -> Schedule]
  BY DEF SagaInv, BillingInv, TablesOK, TableTypes, ThreadTypes, InstanceOK, UnderWay, HeldBy
<1>i. RefundIdle.pc = "idle"
  BY DEF RefundIdle
<1>k. \A c, k : k \in {<<s, c>>} => k[1] = s
  OBVIOUS
<1>1. ASSUME NEW r \in Subs, BeginRefund(i, r) PROVE BillingShows
  <2>1. /\ UNCHANGED <<payment, schedule, returned, initial, scheduler, outbox, emitted>>
        /\ Take(CancelledQueue, Cancelled(r))
    BY <1>1 DEF BeginRefund, tables, gateway
  <2> DEFINE rows == {c \in Cycles : payment[<<r, c>>] = "APPROVED"}
             new == [pc |-> "refunding", sub |-> r, seen |-> schedule[r], rows |-> rows, todo |-> rows]
  <2>2. refunding' = [refunding EXCEPT ![i] = new] /\ new.sub = r
    BY <1>1 DEF BeginRefund
  <2>3. QueuesFed /\ Cancelled(r) \in emitted
    BY <2>1, QueuesAssumption, TakenWasEmitted DEF SagaInv, SagaTypes
  <2>4. ThreadsHold
    <3> HIDE DEF new
    <3> QED
      BY <2>1, <2>2, <2>3, RefundHolds
  <2> QED
    BY <2>1, <2>3, <2>4 DEF BillingShows, NoRowMoves, SchedulesOfPaid, ReturnsCaused
<1>2. CASE RefundNext(i)
  <2>1. PICK c : /\ returned' = returned \cup {<<s, c>>}
                 /\ refunding' = [refunding EXCEPT ![i].todo = @ \ {c}]
    BY <1>2 DEF RefundNext
  <2>2. /\ t.pc = "refunding"
        /\ UNCHANGED <<payment, schedule, initial, scheduler, outbox, emitted, queue>>
    BY <1>2 DEF RefundNext, tables, messaging
  <2> DEFINE new == [t EXCEPT !.todo = @ \ {c}]
  <2>3. refunding' = [refunding EXCEPT ![i] = new] /\ new.sub = s
    BY <1>t, <2>1 DEF RefundThread
  <2>4. ThreadsHold
    <3> HIDE DEF new
    <3> QED
      BY <1>t, <2>2, <2>3, RefundHolds
  <2>5. ReturnsCaused
    BY <1>t, <1>k, <2>1, <2>2 DEF ReturnsCaused
  <2> QED
    BY <2>2, <2>4, <2>5 DEF BillingShows, NoRowMoves, SchedulesOfPaid, QueuesFed
<1>3. CASE RefundFails(i)
  <2>1. /\ t.pc = "refunding"
        /\ refunding' = [refunding EXCEPT ![i] = RefundIdle]
        /\ UNCHANGED <<payment, schedule, initial, scheduler, outbox, emitted, queue>>
        /\ \E c : returned' \in {returned, returned \cup {<<s, c>>}}
    BY <1>3 DEF RefundFails, tables
  <2>2. ThreadsHold
    BY <1>i, <2>1, RefundHolds
  <2>3. ReturnsCaused
    BY <1>t, <1>k, <2>1 DEF ReturnsCaused
  <2> QED
    BY <2>1, <2>2, <2>3 DEF BillingShows, NoRowMoves, SchedulesOfPaid, QueuesFed
<1>4. CASE CommitRefund(i)
  <2> DEFINE bills == {s} \X t.rows
  <2>1. /\ t.pc = "refunding"
        /\ payment' = [b \in Bills |-> IF b \in bills THEN "REFUNDED" ELSE payment[b]]
        /\ Emit({Refunded(b) : b \in bills})
        /\ refunding' = [refunding EXCEPT ![i] = RefundIdle]
        /\ UNCHANGED <<returned, initial, scheduler, queue>>
    BY <1>4 DEF CommitRefund, gateway
  <2>2. bills \in SUBSET Bills /\ \A b \in bills : payment[b] \in PaidStatus
    BY <1>t, <2>1 DEF RefundOK, RefundThread, Bills
  <2>3. RowsReturned
    <3> HIDE DEF bills
    <3> QED
      BY <2>1, <2>2 DEF RowsReturned
  <2>4. ThreadsHold
    BY <1>i, <2>1, RefundHolds
  <2>5. SchedulesOfPaid
    <3>1. PICK off \in BOOLEAN : off = FALSE
      OBVIOUS
    <3>2. schedule' = IF t.seen.active
                        THEN [schedule EXCEPT ![s] = [t.seen EXCEPT !.active = off]]
                        ELSE schedule
      BY <1>4, <3>1 DEF CommitRefund
    <3>3. [t.seen EXCEPT !.active = off].active = off
      BY <1>t DEF RefundThread, Schedule
    <3> QED
      BY <1>t, <3>1, <3>2, <3>3 DEF SchedulesOfPaid
  <2> QED
    BY <2>1, <2>3, <2>4, <2>5 DEF BillingShows, ReturnsCaused, QueuesFed
<1> QED
  BY <1>1, <1>2, <1>3, <1>4 DEF RefundStep

(* The scheduler writes the schedules of its batch only, ...               *)
LEMMA SavesOfPaid ==
  ASSUME schedule \in [Subs -> Schedule], NEW i \in Instances, NEW c, Save(i, c),
         scheduler[i].sub \in Subs, payment'[FirstBill(scheduler[i].sub)] \in PaidStatus
  PROVE  SchedulesOfPaid
  BY DEF Save, SchedulesOfPaid

(* ... and goes on with fewer of it.                                       *)
LEMMA BatchHolds ==
  ASSUME SagaInv, NEW i \in Instances, NextOfBatch(i), UNCHANGED <<initial, refunding>>
  PROVE  ThreadsHold
<1> DEFINE t == scheduler[i]
           rest == t.todo \ {t.sub}
           new == IF rest = {} THEN SchedulerIdle
                  ELSE [pc |-> "batch", sub |-> NoSub, todo |-> rest,
                        copy |-> [t.copy EXCEPT ![t.sub] = NoSchedule],
                        seen |-> NoSchedule, answer |-> "none"]
<1>1. scheduler' = [scheduler EXCEPT ![i] = new]
  BY DEF NextOfBatch
<1>2. new.todo \subseteq t.todo
  BY DEF SchedulerIdle
<1>3. \A s \in new.todo : FirstPaid(s)
  <2> HIDE DEF new
  <2> QED
    BY <1>2 DEF SagaInv, Causes, FirstPaidFirst
<1> HIDE DEF new
<1> QED
  BY <1>1, <1>3, SchedulerHolds

LEMMA SchedulerShows ==
  ASSUME SagaInv, NEW i \in Instances, SchedulerStep(i)
  PROVE  BillingShows
<1> DEFINE t == scheduler[i]
           b == BillInHand(i)
<1>t. /\ t \in SchedulerThread /\ SchedulerOK(t, payment, charged)
      /\ \A r \in t.todo : FirstPaid(r)
      /\ payment \in [Bills -> PaymentStatus \cup {"none"}]
      /\ schedule \in [Subs -> Schedule]
  BY DEF SagaInv, BillingInv, TablesOK, TableTypes, ThreadTypes, InstanceOK, Causes,
         FirstPaidFirst
<1>h. t.pc \in {"charging", "answered"} =>
        /\ t.sub \in Subs /\ t.sub \in t.todo /\ FirstPaid(t.sub)
        /\ b \in Bills /\ b[1] = t.sub
  BY <1>t, InHand DEF SchedulerOK, BillInHand, SagaInv
<1>1. CASE Poll(i)
  <2>1. PICK batch \in (SUBSET Due) \ {{}} :
       scheduler' = [scheduler EXCEPT ![i] =
         [pc |-> "batch", sub |-> NoSub, todo |-> batch,
          copy |-> [r \in Subs |-> IF r \in batch THEN schedule[r] ELSE NoSchedule],
          seen |-> NoSchedule, answer |-> "none"]]
    BY <1>1 DEF Poll
  <2>2. UNCHANGED <<payment, schedule, returned, initial, refunding, outbox, emitted, queue>>
    BY <1>1 DEF Poll, tables, gateway, messaging
  <2>3. \A r \in batch : FirstPaid(r)
    BY DEF Due, SagaInv, Causes, FirstPaidFirst
  <2> DEFINE new == [pc |-> "batch", sub |-> NoSub, todo |-> batch,
                     copy |-> [r \in Subs |-> IF r \in batch THEN schedule[r] ELSE NoSchedule],
                     seen |-> NoSchedule, answer |-> "none"]
  <2>4. ThreadsHold
    <3>1. scheduler' = [scheduler EXCEPT ![i] = new] /\ new.todo = batch
      BY <2>1
    <3> HIDE DEF new
    <3> QED
      BY <2>2, <2>3, <3>1, SchedulerHolds
  <2> QED
    BY <2>2, <2>4 DEF BillingShows, NoRowMoves, SchedulesOfPaid, QueuesFed, ReturnsCaused
<1>2. ASSUME NEW r \in Subs, BeginScheduled(i, r) PROVE BillingShows
  <2> DEFINE duplicate == payment[<<r, t.copy[r].cycle>>] # "none"
             new == [t EXCEPT !.pc = IF duplicate THEN "answered" ELSE "charging",
                              !.answer = IF duplicate THEN "duplicate" ELSE "none",
                              !.sub = r, !.seen = schedule[r]]
  <2>1. UNCHANGED <<payment, schedule, returned, initial, refunding, outbox, emitted, queue>>
    BY <1>2 DEF BeginScheduled, tables, gateway, messaging
  <2>2. scheduler' = [scheduler EXCEPT ![i] = new]
    BY <1>2, <1>t DEF BeginScheduled, SchedulerThread, SagaInv, BillingInv, ThreadTypes
  <2>3. new.todo = t.todo
    BY <1>t DEF SchedulerThread
  <2>4. ThreadsHold
    <3> HIDE DEF new
    <3> QED
      BY <1>t, <2>1, <2>2, <2>3, SchedulerHolds
  <2> QED
    BY <2>1, <2>4 DEF BillingShows, NoRowMoves, SchedulesOfPaid, QueuesFed, ReturnsCaused
<1>3. CASE AskScheduled(i)
  <2>1. PICK answer : scheduler' = [scheduler EXCEPT ![i].pc = "answered", ![i].answer = answer]
    BY <1>3 DEF AskScheduled
  <2> DEFINE new == [t EXCEPT !.pc = "answered", !.answer = answer]
  <2>2. UNCHANGED <<payment, schedule, returned, initial, refunding, outbox, emitted, queue>>
    BY <1>3 DEF AskScheduled, Approve, tables
  <2>3. scheduler' = [scheduler EXCEPT ![i] = new] /\ new.todo = t.todo
    BY <1>t, <2>1 DEF SchedulerThread, SagaInv, BillingInv, ThreadTypes
  <2>4. ThreadsHold
    <3> HIDE DEF new
    <3> QED
      BY <1>t, <2>2, <2>3, SchedulerHolds
  <2> QED
    BY <2>2, <2>4 DEF BillingShows, NoRowMoves, SchedulesOfPaid, QueuesFed, ReturnsCaused
<1>4. CASE CommitApproved(i)
  <2>1. /\ t.pc = "answered" /\ payment[b] = "none"
        /\ payment' = [payment EXCEPT ![b] = "APPROVED"]
        /\ Emit({Completed(b)})
        /\ Save(i, Advance(CopyInHand(i))) /\ NextOfBatch(i)
        /\ UNCHANGED <<returned, initial, refunding, queue>>
    BY <1>4 DEF CommitApproved, gateway
  <2>2. RowDecided
    BY <1>h, <2>1 DEF RowDecided
  <2>3. payment'[FirstBill(t.sub)] \in PaidStatus
    BY <1>t, <1>h, <2>1, FirstBillsAreBills DEF FirstPaid, PaidStatus
  <2> QED
    BY <1>t, <1>h, <2>1, <2>2, <2>3, SavesOfPaid, BatchHolds
       DEF BillingShows, QueuesFed, ReturnsCaused
<1>5. CASE CommitGiveUp(i)
  <2>1. /\ t.pc = "answered" /\ payment[b] = "none"
        /\ payment' = [payment EXCEPT ![b] = "FAILED"]
        /\ Emit({Failed(b)})
        /\ Save(i, Deactivate(CopyInHand(i))) /\ NextOfBatch(i)
        /\ UNCHANGED <<returned, initial, refunding, queue>>
    BY <1>5 DEF CommitGiveUp, gateway
  <2>2. RowDecided
    BY <1>h, <2>1 DEF RowDecided
  <2>3. payment'[FirstBill(t.sub)] \in PaidStatus
    BY <1>t, <1>h, <2>1, FirstBillsAreBills DEF FirstPaid, PaidStatus
  <2> QED
    BY <1>t, <1>h, <2>1, <2>2, <2>3, SavesOfPaid, BatchHolds
       DEF BillingShows, QueuesFed, ReturnsCaused
<1>6. ASSUME NEW c, Save(i, c), NextOfBatch(i), t.pc = "answered",
             UNCHANGED <<payment, returned, initial, refunding, outbox, emitted, queue>>
      PROVE  BillingShows
  <2>1. payment'[FirstBill(t.sub)] \in PaidStatus
    BY <1>h, <1>6 DEF FirstPaid
  <2> QED
    BY <1>t, <1>h, <1>6, <2>1, SavesOfPaid, BatchHolds
       DEF BillingShows, NoRowMoves, QueuesFed, ReturnsCaused
<1>7. CASE CommitDuplicate(i)
  BY <1>6, <1>7 DEF CommitDuplicate, messaging, gateway
<1>8. CASE CommitRetry(i)
  BY <1>6, <1>8 DEF CommitRetry, messaging, gateway
<1>9. CASE ViolateScheduled(i)
  <2>1. /\ NextOfBatch(i)
        /\ UNCHANGED <<payment, schedule, returned, initial, refunding, outbox, emitted, queue>>
    BY <1>9 DEF ViolateScheduled, tables, gateway, messaging
  <2> QED
    BY <2>1, BatchHolds DEF BillingShows, NoRowMoves, SchedulesOfPaid, QueuesFed, ReturnsCaused
<1> QED
  BY <1>1, <1>2, <1>3, <1>4, <1>5, <1>7, <1>8, <1>9 DEF SchedulerStep

LEMMA CrashShows ==
  ASSUME SagaInv, NEW i \in Instances, Crash(i)
  PROVE  BillingShows
<1>1. /\ initial' = [initial EXCEPT ![i] = InitialIdle]
      /\ refunding' = [refunding EXCEPT ![i] = RefundIdle]
      /\ scheduler' = [scheduler EXCEPT ![i] = SchedulerIdle]
      /\ UNCHANGED <<payment, schedule, returned, outbox, emitted>>
  BY DEF Crash, tables, gateway
<1>2. InitialIdle.pc = "idle" /\ RefundIdle.pc = "idle" /\ SchedulerIdle.todo = {}
  BY DEF InitialIdle, RefundIdle, SchedulerIdle
<1>3. ThreadsHold
  BY <1>1, <1>2 DEF SagaInv, BillingInv, ThreadTypes, UnderWay, HeldBy, Causes, FirstPaidFirst,
                    ThreadsHold
<1>4. QueuesFed
  BY DEF Crash, SagaInv, UnderWay, HeldBy, QueuesFed
<1> QED
  BY <1>1, <1>3, <1>4 DEF BillingShows, NoRowMoves, SchedulesOfPaid, ReturnsCaused

LEMMA BillingStepShows ==
  ASSUME SagaInv, BillingStep
  PROVE  BillingShows
  BY InitialShows, RefundShows, SchedulerShows, CrashShows DEF BillingStep

-----------------------------------------------------------------------------
(* The invariant through a step of payment-service.                        *)

(* Rows and events are never taken back.                                   *)
RowsStay ==
  /\ \A b \in Bills : payment[b] \in PaidStatus => payment'[b] \in PaidStatus
  /\ \A b \in Bills : payment[b] = "FAILED" => payment'[b] = "FAILED"
  /\ emitted \subseteq emitted' /\ outbox' \subseteq outbox \cup emitted'

LEMMA BillingRowsStay ==
  ASSUME SagaInv, BillingShows
  PROVE  RowsStay
<1>t. payment \in [Bills -> PaymentStatus \cup {"none"}]
  BY DEF SagaInv, BillingInv, TablesOK, TableTypes
<1>1. CASE NoRowMoves
  BY <1>1 DEF NoRowMoves, RowsStay
<1>2. CASE RowDecided
  BY <1>t, <1>2 DEF RowDecided, RowsStay, PaidStatus, Emit
<1>3. CASE RowsReturned
  BY <1>t, <1>3 DEF RowsReturned, RowsStay, PaidStatus, Emit
<1> QED
  BY <1>1, <1>2, <1>3 DEF BillingShows

LEMMA FirstPaidStays ==
  ASSUME RowsStay, NEW s \in Subs, FirstPaid(s)
  PROVE  FirstPaid(s)'
  BY FirstBillsAreBills DEF RowsStay, FirstPaid, FirstBill

(* Events of payments are announced with the row they tell of.             *)
LEMMA VerdictsStayTrue ==
  ASSUME SagaInv, BillingShows
  PROVE  VerdictsTrue' /\ \A s \in Subs : Activated(s) \in emitted' => Activated(s) \in emitted
<1>t. payment \in [Bills -> PaymentStatus \cup {"none"}]
  BY DEF SagaInv, BillingInv, TablesOK, TableTypes
<1>s. RowsStay
  BY BillingRowsStay
<1>v. VerdictsTrue
  BY DEF SagaInv, Causes
<1>1. CASE NoRowMoves
  BY <1>1, <1>v, <1>s DEF NoRowMoves, RowsStay, VerdictsTrue
<1>2. CASE RowDecided
  <2>1. PICK b \in Bills, v \in {"APPROVED", "FAILED"} :
          /\ payment' = [payment EXCEPT ![b] = v]
          /\ emitted' = emitted \cup {IF v = "APPROVED" THEN Completed(b) ELSE Failed(b)}
    BY <1>2 DEF RowDecided, Emit
  <2>2. payment'[b] = v
    BY <1>t, <2>1
  <2>e. \/ v = "APPROVED" /\ emitted' = emitted \cup {Completed(b)}
        \/ v = "FAILED" /\ emitted' = emitted \cup {Failed(b)}
    BY <2>1
  <2>3. ASSUME NEW c \in Bills, Completed(c) \in emitted' PROVE payment'[c] \in PaidStatus
    <3>e. (Completed(c) = Completed(b) => c = b) /\ Completed(c) # Failed(b)
      BY EventsApart
    <3>1. Completed(c) \in emitted \/ (c = b /\ v = "APPROVED")
      BY <2>e, <2>3, <3>e
    <3> QED
      BY <1>v, <1>s, <2>2, <3>1 DEF VerdictsTrue, RowsStay, PaidStatus
  <2>4. ASSUME NEW c \in Bills, Failed(c) \in emitted' PROVE payment'[c] = "FAILED"
    <3>e. (Failed(c) = Failed(b) => c = b) /\ Completed(b) # Failed(c)
      BY EventsApart
    <3>1. Failed(c) \in emitted \/ (c = b /\ v = "FAILED")
      BY <2>e, <2>4, <3>e
    <3> QED
      BY <1>v, <1>s, <2>2, <3>1 DEF VerdictsTrue, RowsStay
  <2>5. ASSUME NEW s \in Subs, Activated(s) \in emitted' PROVE Activated(s) \in emitted
    BY <2>1, <2>5, EventsApart
  <2> QED
    BY <2>3, <2>4, <2>5 DEF VerdictsTrue
<1>3. CASE RowsReturned
  <2>1. PICK B \in SUBSET Bills : emitted' = emitted \cup {Refunded(b) : b \in B}
    BY <1>3 DEF RowsReturned, Emit
  <2>2. /\ \A c \in Bills :
             /\ Completed(c) \in emitted' => Completed(c) \in emitted
             /\ Failed(c) \in emitted' => Failed(c) \in emitted
        /\ \A s \in Subs : Activated(s) \in emitted' => Activated(s) \in emitted
    BY <2>1, EventsApart
  <2>3. ASSUME NEW c \in Bills
        PROVE  /\ Completed(c) \in emitted' => payment'[c] \in PaidStatus
               /\ Failed(c) \in emitted' => payment'[c] = "FAILED"
    BY <1>v, <1>s, <2>2 DEF VerdictsTrue, RowsStay
  <2> QED
    BY <2>2, <2>3 DEF VerdictsTrue
<1> QED
  BY <1>1, <1>2, <1>3 DEF BillingShows

LEMMA FirstPaidStaysFirst ==
  ASSUME SagaInv, BillingShows, BillingInv'
  PROVE  FirstPaidFirst'
<1>t. payment \in [Bills -> PaymentStatus \cup {"none"}]
  BY DEF SagaInv, BillingInv, TablesOK, TableTypes
<1>s. RowsStay
  BY BillingRowsStay
<1>f. FirstPaidFirst
  BY DEF SagaInv, Causes
<1>1. ASSUME NEW s \in Subs, schedule'[s].active PROVE FirstPaid(s)'
  <2>1. schedule[s].active \/ payment'[FirstBill(s)] \in PaidStatus
    BY <1>1 DEF BillingShows, SchedulesOfPaid
  <2> QED
    BY <1>s, <1>f, <2>1, FirstPaidStays DEF FirstPaidFirst, FirstPaid, FirstBill
<1>2. ASSUME NEW b \in Bills, b[2] # 1, payment'[b] # "none" PROVE FirstPaid(b[1])'
  <2>1. b[1] \in Subs
    BY BillHasSub
  <2>2. FirstPaid(b[1])
    <3>1. CASE payment[b] # "none"
      BY <1>2, <1>f, <3>1 DEF FirstPaidFirst
    <3>2. CASE payment[b] = "none"
      <4>1. ~NoRowMoves /\ ~RowsReturned
        BY <1>2, <3>2 DEF NoRowMoves, RowsReturned, PaidStatus
      <4> QED
        BY <1>t, <1>2, <3>2, <4>1 DEF BillingShows, RowDecided
    <3> QED
      BY <3>1, <3>2
  <2> QED
    BY <1>s, <2>1, <2>2, FirstPaidStays
<1>3. ASSUME NEW i \in Instances, NEW s \in scheduler'[i].todo PROVE FirstPaid(s)'
  <2>1. FirstPaid(s)
    BY DEF BillingShows, ThreadsHold
  <2>2. s \in Subs
    BY DEF BillingInv, ThreadTypes, SchedulerThread
  <2> QED
    BY <1>s, <2>1, <2>2, FirstPaidStays
<1> QED
  BY <1>1, <1>2, <1>3 DEF FirstPaidFirst

(* The status of a subscription, and who may play its videos, given rows   *)
(* and events that stay.                                                   *)
LEMMA ServiceStaysPaid ==
  ASSUME SagaInv, RowsStay,
         \A s \in Subs : status'[s] = "ACTIVE" => status[s] = "ACTIVE" \/ FirstPaid(s),
         \A s \in Subs : entitlement'[s] = "active" => entitlement[s] = "active" \/ FirstPaid(s)
  PROVE  NoServiceWithoutPayment'
<1> SUFFICES ASSUME NEW s \in Subs, status'[s] = "ACTIVE" \/ entitlement'[s] = "active"
             PROVE  Paid(FirstBill(s))'
  BY DEF NoServiceWithoutPayment
<1>1. status[s] = "ACTIVE" \/ entitlement[s] = "active" \/ FirstPaid(s)
  OBVIOUS
<1>2. FirstPaid(s)
  BY <1>1 DEF SagaInv, NoServiceWithoutPayment, Paid, FirstPaid, PaidStatus
<1> QED
  BY <1>2, FirstPaidStays DEF Paid, FirstPaid, PaidStatus

FailedBill(s) == \E c \in Cycles : payment[<<s, c>>] = "FAILED"

LEMMA EndsStayCaused ==
  ASSUME SagaInv, RowsStay,
         \A s \in Subs : status'[s] = "CANCELLED" =>
           status[s] = "CANCELLED" \/ Cancelled(s) \in emitted' \/ FailedBill(s),
         \A k \in returned' : k \in returned \/ Cancelled(k[1]) \in emitted
  PROVE  EndHasCause'
<1>1. ASSUME NEW s \in Subs, status'[s] = "CANCELLED"
      PROVE  Cancelled(s) \in emitted' \/ \E c \in Cycles : payment'[<<s, c>>] = "FAILED"
  <2>1. CASE Cancelled(s) \in emitted'
    BY <2>1
  <2>2. CASE Cancelled(s) \notin emitted'
    <3>1. Cancelled(s) \notin emitted
      BY <2>2 DEF RowsStay
    <3>2. FailedBill(s)
      BY <1>1, <2>2, <3>1 DEF SagaInv, EndHasCause, FailedBill
    <3>3. PICK c \in Cycles : payment[<<s, c>>] = "FAILED"
      BY <3>2 DEF FailedBill
    <3>4. <<s, c>> \in Bills
      BY DEF Bills
    <3>5. payment'[<<s, c>>] = "FAILED"
      BY <3>3, <3>4 DEF RowsStay
    <3> QED
      BY <3>5
  <2> QED
    BY <2>1, <2>2
<1>2. ASSUME NEW s \in Subs, NEW k \in returned', k[1] = s
      PROVE  Cancelled(s) \in emitted'
  BY <1>2 DEF SagaInv, EndHasCause, RowsStay
<1> QED
  BY <1>1, <1>2 DEF EndHasCause

LEMMA BillingStepKeepsSaga ==
  ASSUME SagaInv, BillingStep, UNCHANGED <<subscriptions, entitlement>>
  PROVE  SagaInv'
<1>1. BillingInv'
  BY BillingStepKeeps DEF SagaInv
<1>2. UNCHANGED <<status, active, web, result, withdrawal, entitlement>>
  BY DEF subscriptions
<1>3. SagaTypes'
  <2>1. MessagingTypeOK'
    BY BillingStepTyped DEF SagaInv, SagaTypes
  <2> QED
    BY <1>2, <2>1 DEF SagaInv, SagaTypes, SubscriptionsTypeOK, EntitlementTypeOK
<1>4. BillingShows
  BY BillingStepShows
<1>5. RowsStay
  BY <1>4, BillingRowsStay
<1>6. UnderWay'
  <2>1. outbox' \subseteq emitted'
    BY <1>5 DEF RowsStay, SagaInv, UnderWay
  <2>2. \A q \in Queues : queue'[q] \subseteq emitted'
    BY <1>4, <1>5 DEF BillingShows, QueuesFed, RowsStay, SagaInv, UnderWay
  <2>3. \A i \in Instances : HeldBy(i)'
    BY <1>2, <1>4, <1>5 DEF BillingShows, ThreadsHold, RowsStay, SagaInv, UnderWay, HeldBy
  <2> QED
    BY <2>1, <2>2, <2>3 DEF UnderWay
<1>7. Causes'
  <2>1. ASSUME NEW s \in Subs, Activated(s) \in emitted' PROVE FirstPaid(s)'
    <3>1. FirstPaid(s)
      BY <1>4, <2>1, VerdictsStayTrue DEF SagaInv, Causes, ActivatedPaid
    <3> QED
      BY <1>5, <3>1, FirstPaidStays
  <2>2. ActivatedPaid'
    BY <2>1 DEF ActivatedPaid
  <2> QED
    BY <1>1, <1>4, <2>2, VerdictsStayTrue, FirstPaidStaysFirst DEF Causes
<1>8. NoServiceWithoutPayment'
  BY <1>2, <1>5, ServiceStaysPaid
<1>9. EndHasCause'
  BY <1>2, <1>4, <1>5, EndsStayCaused DEF BillingShows, ReturnsCaused
<1> QED
  BY <1>1, <1>3, <1>6, <1>7, <1>8, <1>9 DEF SagaInv

-----------------------------------------------------------------------------
(* The invariant through a step of the others: the rows do not move.       *)
VerdictsNotMade ==
  /\ emitted \subseteq emitted' /\ outbox' \subseteq outbox \cup emitted'
  /\ \A b \in Bills :
       /\ Completed(b) \in emitted' => Completed(b) \in emitted
       /\ Failed(b) \in emitted' => Failed(b) \in emitted
  /\ \A s \in Subs : Activated(s) \in emitted' => Activated(s) \in emitted \/ FirstPaid(s)

ConsumersHold ==
  \A i \in Instances :
    /\ result'[i] # NoEvent => result'[i] \in emitted
    /\ withdrawal'[i].event # NoEvent => withdrawal'[i].event \in emitted

StatusCaused ==
  \A s \in Subs :
    /\ status'[s] = "ACTIVE" => status[s] = "ACTIVE" \/ FirstPaid(s)
    /\ status'[s] = "CANCELLED" =>
         status[s] = "CANCELLED" \/ Cancelled(s) \in emitted' \/ FailedBill(s)

SubscriptionsShows == VerdictsNotMade /\ ConsumersHold /\ StatusCaused /\ QueuesFed

LEMMA OthersKeepSaga ==
  ASSUME SagaInv, SagaTypes', SubscriptionsShows, UNCHANGED billing,
         \A s \in Subs : entitlement'[s] = "active" => entitlement[s] = "active" \/ FirstPaid(s)
  PROVE  SagaInv'
<1>1. BillingInv'
  BY NothingMoves DEF SagaInv
<1>2. UNCHANGED <<payment, schedule, charged, returned, initial, refunding, scheduler>>
  BY DEF billing
<1>5. RowsStay
  BY <1>2 DEF RowsStay, SubscriptionsShows, VerdictsNotMade
<1>6. UnderWay'
  <2>1. outbox' \subseteq emitted'
    BY <1>5 DEF RowsStay, SagaInv, UnderWay
  <2>2. \A q \in Queues : queue'[q] \subseteq emitted'
    BY <1>5 DEF SubscriptionsShows, QueuesFed, RowsStay, SagaInv, UnderWay
  <2>3. \A i \in Instances : HeldBy(i)'
    BY <1>2, <1>5 DEF SubscriptionsShows, ConsumersHold, RowsStay, SagaInv, UnderWay, HeldBy
  <2> QED
    BY <2>1, <2>2, <2>3 DEF UnderWay
<1>7. Causes'
  <2>1. \A s \in Subs : FirstPaid(s)' <=> FirstPaid(s)
    BY <1>2 DEF FirstPaid, FirstBill
  <2>2. \A b \in Bills : b[1] \in Subs
    BY BillHasSub
  <2>3. \A i \in Instances : scheduler[i].todo \subseteq Subs
    BY DEF SagaInv, BillingInv, ThreadTypes, SchedulerThread
  <2>4. VerdictsTrue'
    <3>1. ASSUME NEW b \in Bills
          PROVE  /\ Completed(b) \in emitted' => payment'[b] \in PaidStatus
                 /\ Failed(b) \in emitted' => payment'[b] = "FAILED"
      BY <1>2 DEF SubscriptionsShows, VerdictsNotMade, SagaInv, Causes, VerdictsTrue
    <3> QED
      BY <3>1 DEF VerdictsTrue
  <2>5. FirstPaidFirst'
    BY <1>2, <2>1, <2>2, <2>3 DEF SagaInv, Causes, FirstPaidFirst
  <2>6. ActivatedPaid'
    <3>1. ASSUME NEW s \in Subs, Activated(s) \in emitted' PROVE FirstPaid(s)'
      BY <2>1, <3>1 DEF SubscriptionsShows, VerdictsNotMade, SagaInv, Causes, ActivatedPaid
    <3> QED
      BY <3>1 DEF ActivatedPaid
  <2> QED
    BY <2>4, <2>5, <2>6 DEF Causes
<1>8. NoServiceWithoutPayment'
  BY <1>5, ServiceStaysPaid DEF SubscriptionsShows, StatusCaused
<1>9. EndHasCause'
  BY <1>2, <1>5, EndsStayCaused DEF SubscriptionsShows, StatusCaused
<1> QED
  BY <1>1, <1>6, <1>7, <1>8, <1>9 DEF SagaInv

LEMMA MessagingKeepsSaga ==
  ASSUME SagaInv, MessagingStep, UNCHANGED <<billing, subscriptions, entitlement>>
  PROVE  SagaInv'
<1>1. UNCHANGED <<status, active, web, result, withdrawal, entitlement>>
  BY DEF subscriptions
<1>2. SagaTypes'
  <2>1. MessagingTypeOK'
    BY MessagingStepTyped DEF SagaInv, SagaTypes
  <2> QED
    BY <1>1, <2>1 DEF SagaInv, SagaTypes, SubscriptionsTypeOK, EntitlementTypeOK
<1>3. emitted' = emitted /\ outbox' \subseteq outbox /\ QueuesFed
  <2>1. ASSUME NEW e \in outbox, Publish(e)
        PROVE  emitted' = emitted /\ outbox' \subseteq outbox /\ QueuesFed
    BY <2>1 DEF Publish, SagaInv, UnderWay, QueuesFed
  <2>2. ASSUME NEW q \in Queues, NEW e \in emitted, Redeliver(q, e)
        PROVE  emitted' = emitted /\ outbox' \subseteq outbox /\ QueuesFed
    BY <2>2 DEF Redeliver, SagaInv, SagaTypes, MessagingTypeOK, QueuesFed
  <2> QED
    BY <2>1, <2>2 DEF MessagingStep
<1>4. SubscriptionsShows
  BY <1>1, <1>3 DEF SubscriptionsShows, VerdictsNotMade, ConsumersHold, StatusCaused, SagaInv,
                    UnderWay, HeldBy
<1> QED
  BY <1>1, <1>2, <1>4, OthersKeepSaga

LEMMA EntitlementKeepsSaga ==
  ASSUME SagaInv, EntitlementStep, UNCHANGED <<billing, subscriptions>>
  PROVE  SagaInv'
<1>1. UNCHANGED <<status, active, web, result, withdrawal>>
  BY DEF subscriptions
<1>2. PICK s \in Subs : Grant(s) \/ Revoke(s)
  BY DEF EntitlementStep
<1>3. /\ UNCHANGED <<outbox, emitted, dlq, faults>>
      /\ \E e : Take(StatusQueue, e)
      /\ \/ /\ entitlement' = [entitlement EXCEPT ![s] = "active"]
            /\ Take(StatusQueue, Activated(s))
         \/ entitlement' = [entitlement EXCEPT ![s] = "revoked"]
  BY <1>2 DEF Grant, Revoke, Activated
<1>4. SagaTypes'
  <2>1. queue' \in [Queues -> SUBSET Event]
    BY <1>3, TakeTyped DEF SagaInv, SagaTypes
  <2> QED
    BY <1>1, <1>3, <2>1
       DEF SagaInv, SagaTypes, MessagingTypeOK, SubscriptionsTypeOK, EntitlementTypeOK
<1>5. QueuesFed
  BY <1>3, QueuesAssumption, TakenWasEmitted DEF SagaInv, SagaTypes
<1>6. SubscriptionsShows
  BY <1>1, <1>3, <1>5
     DEF SubscriptionsShows, VerdictsNotMade, ConsumersHold, StatusCaused, SagaInv, UnderWay, HeldBy
<1>7. ASSUME NEW r \in Subs, entitlement'[r] = "active"
      PROVE  entitlement[r] = "active" \/ FirstPaid(r)
  <2>1. Take(StatusQueue, Activated(s)) => FirstPaid(s)
    BY QueuesAssumption, TakenWasEmitted DEF SagaInv, SagaTypes, Causes, ActivatedPaid
  <2> QED
    BY <1>3, <1>7, <2>1 DEF SagaInv, SagaTypes, EntitlementTypeOK
<1> QED
  BY <1>4, <1>6, <1>7, OthersKeepSaga

-----------------------------------------------------------------------------
(* The steps of subscription-service.                                      *)

Withdrawn(m) == Ev("MemberWithdrawn", m)

(* What an instance of it must leave behind to stay well typed.            *)
WebOK(w) ==
  /\ w \in [doing : {"nothing", "subscribe", "cancel"}, sub : Subs \cup {NoSub}]
  /\ w.doing # "nothing" => w.sub \in Subs

LEMMA MemberEventsTyped ==
  /\ \A m \in Members : Withdrawn(m) \in Event /\ Withdrawn(m) \in MemberEvent
  /\ \A s \in Subs : Activated(s) \in Event
  BY DEF Withdrawn, Activated, Ev, Event, SubscriptionEvent, MemberEvent

LEMMA ResultIsOfSub ==
  ASSUME NEW e \in PaymentEvent
  PROVE  /\ SubOf(e) \in Subs /\ e.of \in Bills /\ e \in Event
         /\ e.type = "PaymentCompleted" => e = Completed(e.of)
         /\ e.type = "PaymentFailed" => e = Failed(e.of)
  BY DEF PaymentEvent, SubOf, Bills, Event, Completed, Failed, Ev

(* A transaction that announces neither a verdict nor an activation.       *)
LEMMA NoVerdict ==
  ASSUME NEW E, Emit(E),
         \A e \in E : /\ e.type \notin {"PaymentCompleted", "PaymentFailed"}
                      /\ e.type = "SubscriptionActivated" => FirstPaid(e.of)
  PROVE  VerdictsNotMade
<1>1. \A x : /\ Completed(x).type = "PaymentCompleted" /\ Failed(x).type = "PaymentFailed"
             /\ Activated(x).type = "SubscriptionActivated" /\ Activated(x).of = x
  BY DEF Completed, Failed, Activated, Ev
<1>2. emitted' = emitted \cup E /\ outbox' = outbox \cup E
  BY DEF Emit
<1>3. ASSUME NEW b \in Bills
      PROVE  /\ Completed(b) \in emitted' => Completed(b) \in emitted
             /\ Failed(b) \in emitted' => Failed(b) \in emitted
  BY <1>1, <1>2
<1>4. ASSUME NEW s \in Subs, Activated(s) \in emitted'
      PROVE  Activated(s) \in emitted \/ FirstPaid(s)
  BY <1>1, <1>2, <1>4
<1> QED
  BY <1>2, <1>3, <1>4 DEF VerdictsNotMade

LEMMA EventTypes ==
  /\ \A s : /\ Created(s).type = "SubscriptionCreated"
            /\ Cancelled(s).type = "SubscriptionCancelled"
            /\ Activated(s).type = "SubscriptionActivated" /\ Activated(s).of = s
  /\ \A m : Withdrawn(m).type = "MemberWithdrawn"
  BY DEF Created, Cancelled, Activated, Withdrawn, Ev

LEMMA NothingAnnounced ==
  ASSUME UNCHANGED <<outbox, emitted>>
  PROVE  VerdictsNotMade
  BY DEF VerdictsNotMade

(* Types and what is held, when one instance moves.                        *)
LEMMA WebMoves ==
  ASSUME SagaInv, NEW i \in Instances, NEW w, WebOK(w), web' = [web EXCEPT ![i] = w]
  PROVE  /\ web' \in [Instances -> [doing : {"nothing", "subscribe", "cancel"},
                                    sub : Subs \cup {NoSub}]]
         /\ \A j \in Instances : web'[j].doing # "nothing" => web'[j].sub \in Subs
  BY DEF SagaInv, SagaTypes, SubscriptionsTypeOK, WebOK

LEMMA WebIdleOK == WebOK(WebIdle)
  BY DEF WebOK, WebIdle

LEMMA HeldStays ==
  ASSUME SagaInv, UNCHANGED <<result, withdrawal>>
  PROVE  ConsumersHold
  BY DEF SagaInv, UnderWay, HeldBy, ConsumersHold

LEMMA ResultMoves ==
  ASSUME SagaInv, NEW i \in Instances, NEW e \in PaymentEvent \cup {NoEvent},
         result' = [result EXCEPT ![i] = e], UNCHANGED withdrawal,
         e # NoEvent => e \in emitted
  PROVE  /\ result' \in [Instances -> PaymentEvent \cup {NoEvent}]
         /\ ConsumersHold
  BY DEF SagaInv, SagaTypes, SubscriptionsTypeOK, UnderWay, HeldBy, ConsumersHold

LEMMA WithdrawalMoves ==
  ASSUME SagaInv, NEW i \in Instances,
         NEW w \in [event : MemberEvent \cup {NoEvent}, alive : SUBSET Subs],
         withdrawal' = [withdrawal EXCEPT ![i] = w], UNCHANGED result,
         w.event # NoEvent => w.event \in emitted
  PROVE  /\ withdrawal' \in [Instances -> [event : MemberEvent \cup {NoEvent}, alive : SUBSET Subs]]
         /\ ConsumersHold
  BY DEF SagaInv, SagaTypes, SubscriptionsTypeOK, UnderWay, HeldBy, ConsumersHold

LEMMA WithdrawalIdleOK ==
  /\ WithdrawalIdle \in [event : MemberEvent \cup {NoEvent}, alive : SUBSET Subs]
  /\ WithdrawalIdle.event = NoEvent
  BY DEF WithdrawalIdle

(* What every step of subscription-service shows.                          *)
Fits == MessagingTypeOK' /\ SubscriptionsTypeOK' /\ SubscriptionsShows
        /\ \A i \in Instances : web'[i].doing # "nothing" => web'[i].sub \in Subs

LEMMA MemberAndReadSteps ==
  ASSUME SagaInv,
         \/ \E m \in Members : Withdraw(m)
         \/ \E i \in Instances, s \in Subs : VerifyMember(i, s) \/ ReadForCancel(i, s)
  PROVE  Fits
<1>1. ASSUME NEW m \in Members, Withdraw(m) PROVE Fits
  <2>1. /\ UNCHANGED <<queue, dlq, faults, status, web, result, withdrawal>>
        /\ active' = active \ {m} /\ Emit({Withdrawn(m)})
    BY <1>1 DEF Withdraw, requests, Withdrawn
  <2>2. VerdictsNotMade
    BY <2>1, NoVerdict, EventTypes
  <2>3. outbox' \subseteq Event /\ emitted' \subseteq Event
    BY <2>1, MemberEventsTyped, EmitTyped DEF SagaInv, SagaTypes
  <2>4. ConsumersHold
    BY <2>1, HeldStays
  <2> QED
    BY <2>1, <2>2, <2>3, <2>4 DEF Fits, SagaInv, SagaTypes, MessagingTypeOK, SubscriptionsTypeOK,
       SubscriptionsShows, StatusCaused, QueuesFed
<1>2. ASSUME NEW i \in Instances, NEW s \in Subs, VerifyMember(i, s) \/ ReadForCancel(i, s)
      PROVE  Fits
  <2>1. /\ UNCHANGED <<outbox, emitted, queue, dlq, faults, status, active, result, withdrawal>>
        /\ \E d \in {"subscribe", "cancel"} : web' = [web EXCEPT ![i] = [doing |-> d, sub |-> s]]
    BY <1>2 DEF VerifyMember, ReadForCancel, messaging
  <2>2. PICK d \in {"subscribe", "cancel"} : web' = [web EXCEPT ![i] = [doing |-> d, sub |-> s]]
    BY <2>1
  <2>3. WebOK([doing |-> d, sub |-> s])
    BY DEF WebOK
  <2>4. VerdictsNotMade /\ ConsumersHold
    BY <2>1, NothingAnnounced, HeldStays
  <2> QED
    BY <2>1, <2>2, <2>3, <2>4, WebMoves DEF Fits, SagaInv, SagaTypes, MessagingTypeOK,
       SubscriptionsTypeOK, SubscriptionsShows, StatusCaused, QueuesFed
<1> QED
  BY <1>1, <1>2

LEMMA WebSteps ==
  ASSUME SagaInv, NEW i \in Instances, WebStep(i)
  PROVE  Fits
<1> DEFINE s == web[i].sub
<1>1. CASE CommitSubscribe(i)
  <2>1. /\ s \in Subs
        /\ status' = [status EXCEPT ![s] = "PENDING"] /\ Emit({Created(s)})
        /\ web' = [web EXCEPT ![i] = WebIdle]
        /\ UNCHANGED <<queue, dlq, faults, active, result, withdrawal>>
    BY <1>1 DEF CommitSubscribe, Created, SagaInv, SagaTypes
  <2>2. VerdictsNotMade
    BY <2>1, NoVerdict, EventTypes
  <2>3. outbox' \subseteq Event /\ emitted' \subseteq Event
    BY <2>1, EventsTyped, EmitTyped DEF SagaInv, SagaTypes
  <2>4. ConsumersHold
    BY <2>1, HeldStays
  <2>5. status' \in [Subs -> Status \cup {"none"}] /\ StatusCaused
    BY <2>1 DEF SagaInv, SagaTypes, SubscriptionsTypeOK, Status, StatusCaused
  <2> QED
    BY <2>1, <2>2, <2>3, <2>4, <2>5, WebMoves, WebIdleOK DEF Fits, SagaInv, SagaTypes,
       MessagingTypeOK, SubscriptionsTypeOK, SubscriptionsShows, QueuesFed
<1>2. CASE CommitCancel(i)
  <2>1. /\ s \in Subs
        /\ status' = [status EXCEPT ![s] = "CANCELLED"] /\ Emit({Cancelled(s)})
        /\ web' = [web EXCEPT ![i] = WebIdle]
        /\ UNCHANGED <<queue, dlq, faults, active, result, withdrawal>>
    BY <1>2 DEF CommitCancel, Cancelled, SagaInv, SagaTypes
  <2>2. VerdictsNotMade
    BY <2>1, NoVerdict, EventTypes
  <2>3. outbox' \subseteq Event /\ emitted' \subseteq Event
    BY <2>1, EventsTyped, EmitTyped DEF SagaInv, SagaTypes
  <2>4. ConsumersHold
    BY <2>1, HeldStays
  <2>5. status' \in [Subs -> Status \cup {"none"}] /\ StatusCaused
    BY <2>1 DEF SagaInv, SagaTypes, SubscriptionsTypeOK, Status, StatusCaused, Emit
  <2> QED
    BY <2>1, <2>2, <2>3, <2>4, <2>5, WebMoves, WebIdleOK DEF Fits, SagaInv, SagaTypes,
       MessagingTypeOK, SubscriptionsTypeOK, SubscriptionsShows, QueuesFed
<1> QED
  BY <1>1, <1>2 DEF WebStep

LEMMA ResultSteps ==
  ASSUME SagaInv, NEW i \in Instances, ResultStep(i)
  PROVE  Fits
<1> DEFINE r == result[i]
           s == SubOf(r)
<1>t. /\ r \in PaymentEvent \cup {NoEvent}
      /\ r # NoEvent => r \in emitted
      /\ status \in [Subs -> Status \cup {"none"}]
  BY DEF SagaInv, SagaTypes, SubscriptionsTypeOK, UnderWay, HeldBy
<1>1. ASSUME NEW e \in emitted \cap PaymentEvent, IgnoreResult(i, e) PROVE Fits
  <2>1. /\ UNCHANGED <<outbox, emitted, dlq, faults, status, active, web, result, withdrawal>>
        /\ Take(ResultQueue, e)
    BY <1>1 DEF IgnoreResult, subscriptions
  <2>2. QueuesFed /\ queue' \in [Queues -> SUBSET Event]
    BY <2>1, QueuesAssumption, TakenWasEmitted, TakeTyped DEF SagaInv, SagaTypes
  <2>3. VerdictsNotMade /\ ConsumersHold
    BY <2>1, NothingAnnounced, HeldStays
  <2> QED
    BY <2>1, <2>2, <2>3 DEF Fits, SagaInv, SagaTypes, MessagingTypeOK, SubscriptionsTypeOK,
       SubscriptionsShows, StatusCaused
<1>2. ASSUME NEW e \in emitted \cap PaymentEvent, ReadForResult(i, e) PROVE Fits
  <2>1. /\ UNCHANGED <<outbox, emitted, dlq, faults, status, active, web, withdrawal>>
        /\ Take(ResultQueue, e) /\ result' = [result EXCEPT ![i] = e]
    BY <1>2 DEF ReadForResult
  <2>2. QueuesFed /\ queue' \in [Queues -> SUBSET Event]
    BY <2>1, QueuesAssumption, TakenWasEmitted, TakeTyped DEF SagaInv, SagaTypes
  <2>3. VerdictsNotMade
    BY <2>1, NothingAnnounced
  <2> QED
    BY <2>1, <2>2, <2>3, ResultMoves DEF Fits, SagaInv, SagaTypes, MessagingTypeOK,
       SubscriptionsTypeOK, SubscriptionsShows, StatusCaused
<1>3. CASE CommitActivate(i)
  <2>1. /\ r # NoEvent /\ r.type = "PaymentCompleted"
        /\ status' = [status EXCEPT ![s] = "ACTIVE"] /\ Emit({Activated(s)})
        /\ result' = [result EXCEPT ![i] = NoEvent]
        /\ UNCHANGED <<queue, dlq, faults, active, web, withdrawal>>
    BY <1>3 DEF CommitActivate, Activated, ResultIdle
  <2>2. s \in Subs /\ r.of \in Bills /\ Completed(r.of) \in emitted
    BY <1>t, <2>1, ResultIsOfSub
  <2>3. FirstPaid(s)
    <3>1. payment[r.of] \in PaidStatus
      BY <2>2 DEF SagaInv, Causes, VerdictsTrue
    <3>2. s = r.of[1] /\ r.of = <<r.of[1], r.of[2]>>
      BY <2>2, BillHasSub DEF SubOf
    <3>3. CASE r.of[2] = 1
      BY <3>1, <3>2, <3>3 DEF FirstPaid, FirstBill
    <3>4. CASE r.of[2] # 1
      BY <2>2, <3>1, <3>2, <3>4 DEF SagaInv, Causes, FirstPaidFirst, PaidStatus
    <3> QED
      BY <3>3, <3>4
  <2>4. VerdictsNotMade
    BY <2>1, <2>3, NoVerdict, EventTypes
  <2>5. outbox' \subseteq Event /\ emitted' \subseteq Event
    BY <2>1, <2>2, MemberEventsTyped, EmitTyped DEF SagaInv, SagaTypes
  <2>6. status' \in [Subs -> Status \cup {"none"}] /\ StatusCaused
    BY <1>t, <2>1, <2>2, <2>3 DEF Status, StatusCaused
  <2> QED
    BY <2>1, <2>4, <2>5, <2>6, ResultMoves DEF Fits, SagaInv, SagaTypes,
       MessagingTypeOK, SubscriptionsTypeOK, SubscriptionsShows, QueuesFed
<1>4. CASE CommitCompensate(i)
  <2>1. /\ r # NoEvent /\ r.type = "PaymentFailed"
        /\ status' = [status EXCEPT ![s] = "CANCELLED"]
        /\ result' = [result EXCEPT ![i] = NoEvent]
        /\ UNCHANGED <<outbox, emitted, queue, dlq, faults, active, web, withdrawal>>
    BY <1>4 DEF CommitCompensate, ResultIdle, messaging
  <2>2. s \in Subs /\ r.of \in Bills /\ Failed(r.of) \in emitted
    BY <1>t, <2>1, ResultIsOfSub
  <2>3. FailedBill(s)
    <3>1. payment[r.of] = "FAILED"
      BY <2>2 DEF SagaInv, Causes, VerdictsTrue
    <3>2. s = r.of[1] /\ r.of = <<r.of[1], r.of[2]>> /\ r.of[2] \in Cycles
      BY <2>2 DEF SubOf, Bills
    <3> QED
      BY <3>1, <3>2 DEF FailedBill
  <2>4. VerdictsNotMade
    BY <2>1, NothingAnnounced
  <2>6. status' \in [Subs -> Status \cup {"none"}] /\ StatusCaused
    BY <1>t, <2>1, <2>2, <2>3 DEF Status, StatusCaused
  <2> QED
    BY <2>1, <2>4, <2>6, ResultMoves DEF Fits, SagaInv, SagaTypes,
       MessagingTypeOK, SubscriptionsTypeOK, SubscriptionsShows, QueuesFed
<1> QED
  BY <1>1, <1>2, <1>3, <1>4 DEF ResultStep

LEMMA WithdrawalSteps ==
  ASSUME SagaInv, NEW i \in Instances, WithdrawalStep(i)
  PROVE  Fits
<1>t. /\ withdrawal[i].alive \subseteq Subs
      /\ status \in [Subs -> Status \cup {"none"}]
  BY DEF SagaInv, SagaTypes, SubscriptionsTypeOK
<1>1. ASSUME NEW m \in Members, ReadForWithdrawal(i, m) PROVE Fits
  <2> DEFINE w == [event |-> Withdrawn(m), alive |-> {s \in Subs : OwnerOf[s] = m /\ Alive(s)}]
  <2>1. /\ UNCHANGED <<outbox, emitted, dlq, faults, status, active, web, result>>
        /\ Take(WithdrawnQueue, Withdrawn(m))
        /\ withdrawal' = [withdrawal EXCEPT ![i] = w]
    BY <1>1 DEF ReadForWithdrawal, Withdrawn
  <2>2. QueuesFed /\ queue' \in [Queues -> SUBSET Event] /\ Withdrawn(m) \in emitted
    BY <2>1, QueuesAssumption, TakenWasEmitted, TakeTyped DEF SagaInv, SagaTypes
  <2>3. VerdictsNotMade
    BY <2>1, NothingAnnounced
  <2>4. w \in [event : MemberEvent \cup {NoEvent}, alive : SUBSET Subs] /\ w.event = Withdrawn(m)
    BY MemberEventsTyped
  <2> HIDE DEF w
  <2> QED
    BY <2>1, <2>2, <2>3, <2>4, WithdrawalMoves DEF Fits, SagaInv, SagaTypes, MessagingTypeOK,
       SubscriptionsTypeOK, SubscriptionsShows, StatusCaused
<1>2. CASE CommitWithdrawal(i)
  <2> DEFINE gone == withdrawal[i].alive
             E == {Cancelled(s) : s \in gone}
  <2>1. /\ status' = [s \in Subs |-> IF s \in gone THEN "CANCELLED" ELSE status[s]]
        /\ Emit(E)
        /\ withdrawal' = [withdrawal EXCEPT ![i] = WithdrawalIdle]
        /\ UNCHANGED <<queue, dlq, faults, active, web, result>>
    BY <1>2 DEF CommitWithdrawal, Cancelled
  <2>2. VerdictsNotMade
    <3>1. \A e \in E : e.type = "SubscriptionCancelled"
      BY EventTypes
    <3> HIDE DEF E
    <3> QED
      BY <2>1, <3>1, NoVerdict
  <2>3. outbox' \subseteq Event /\ emitted' \subseteq Event
    <3>1. E \in SUBSET Event
      BY <1>t, EventsTyped
    <3> HIDE DEF E
    <3> QED
      BY <2>1, <3>1, EmitTyped DEF SagaInv, SagaTypes
  <2>4. \A s \in gone : Cancelled(s) \in emitted'
    BY <2>1 DEF Emit
  <2>5. status' \in [Subs -> Status \cup {"none"}] /\ StatusCaused
    BY <1>t, <2>1, <2>4 DEF Status, StatusCaused
  <2> QED
    BY <2>1, <2>2, <2>3, <2>5, WithdrawalMoves, WithdrawalIdleOK DEF Fits, SagaInv, SagaTypes,
       MessagingTypeOK, SubscriptionsTypeOK, SubscriptionsShows, QueuesFed
<1> QED
  BY <1>1, <1>2 DEF WithdrawalStep

LEMMA SubscriptionsCrash ==
  ASSUME SagaInv, NEW i \in Instances, CrashSubscriptions(i)
  PROVE  Fits
<1>t. /\ result[i] \in PaymentEvent \cup {NoEvent}
      /\ withdrawal[i].event \in MemberEvent \cup {NoEvent}
      /\ {result[i]} \ {NoEvent} \subseteq emitted
      /\ {withdrawal[i].event} \ {NoEvent} \subseteq emitted
      /\ emitted \subseteq Event
  BY DEF SagaInv, SagaTypes, MessagingTypeOK, SubscriptionsTypeOK, UnderWay, HeldBy
<1>1. /\ web' = [web EXCEPT ![i] = WebIdle]
      /\ result' = [result EXCEPT ![i] = NoEvent]
      /\ withdrawal' = [withdrawal EXCEPT ![i] = WithdrawalIdle]
      /\ UNCHANGED <<outbox, emitted, dlq, status, active>>
  BY DEF CrashSubscriptions, ResultIdle
<1>2. QueuesFed /\ queue' \in [Queues -> SUBSET Event]
  BY <1>t DEF CrashSubscriptions, QueuesFed, SagaInv, SagaTypes, MessagingTypeOK
<1>3. faults' \in 0..MaxFaults
  BY FaultTyped DEF CrashSubscriptions, SagaInv, SagaTypes
<1>4. /\ result' \in [Instances -> PaymentEvent \cup {NoEvent}]
      /\ withdrawal' \in [Instances -> [event : MemberEvent \cup {NoEvent}, alive : SUBSET Subs]]
      /\ ConsumersHold
  BY <1>1, WithdrawalIdleOK DEF SagaInv, SagaTypes, SubscriptionsTypeOK, UnderWay, HeldBy,
     ConsumersHold
<1>5. VerdictsNotMade
  BY <1>1, NothingAnnounced
<1> QED
  BY <1>1, <1>2, <1>3, <1>4, <1>5, WebMoves, WebIdleOK DEF Fits, SagaInv, SagaTypes,
     MessagingTypeOK, SubscriptionsTypeOK, SubscriptionsShows, StatusCaused

LEMMA SubscriptionsKeepSaga ==
  ASSUME SagaInv, SubscriptionsStep, UNCHANGED <<billing, entitlement>>
  PROVE  SagaInv'
<1>1. Fits
  BY MemberAndReadSteps, WebSteps, ResultSteps, WithdrawalSteps, SubscriptionsCrash
     DEF SubscriptionsStep
<1>2. SagaTypes'
  BY <1>1 DEF Fits, SagaInv, SagaTypes, EntitlementTypeOK
<1> QED
  BY <1>1, <1>2, OthersKeepSaga DEF Fits

-----------------------------------------------------------------------------
LEMMA NextSaga == SagaInv /\ [Next]_vars => SagaInv'
<1> SUFFICES ASSUME SagaInv, [Next]_vars PROVE SagaInv'
  OBVIOUS
<1>1. CASE UNCHANGED vars
  <2>1. UNCHANGED <<outbox, emitted, queue, dlq, faults, status, active, web, result, withdrawal,
                    entitlement>> /\ UNCHANGED billing
    BY <1>1 DEF vars, messaging, subscriptions
  <2>2. SagaTypes'
    BY <2>1 DEF SagaInv, SagaTypes, MessagingTypeOK, SubscriptionsTypeOK, EntitlementTypeOK
  <2>3. SubscriptionsShows
    BY <2>1, NothingAnnounced, HeldStays DEF SubscriptionsShows, StatusCaused, QueuesFed
  <2> QED
    BY <2>1, <2>2, <2>3, OthersKeepSaga
<1> QED
  BY <1>1, MessagingKeepsSaga, BillingStepKeepsSaga, SubscriptionsKeepSaga, EntitlementKeepsSaga
     DEF Next

LEMMA InitSaga == Init => SagaInv
<1> SUFFICES ASSUME Init PROVE SagaInv
  OBVIOUS
<1>1. BillingInv /\ MessagingTypeOK
  BY InitBilling, InitTyped DEF Init
<1>2. SagaTypes
  BY <1>1, WithdrawalIdleOK DEF Init, SubscriptionsInit, EntitlementInit, SagaTypes, WebIdle,
     ResultIdle, SubscriptionsTypeOK, EntitlementTypeOK
<1>3. UnderWay
  BY WithdrawalIdleOK DEF Init, MessagingInit, BillingInit, SubscriptionsInit, UnderWay, HeldBy,
     InitialIdle, RefundIdle, ResultIdle
<1>4. Causes
  BY FirstBillsAreBills DEF Init, MessagingInit, BillingInit, Causes, VerdictsTrue,
     FirstPaidFirst, ActivatedPaid, NoSchedule, SchedulerIdle
<1>5. NoServiceWithoutPayment /\ EndHasCause
  BY DEF Init, SubscriptionsInit, EntitlementInit, BillingInit, NoServiceWithoutPayment, EndHasCause
<1> QED
  BY <1>1, <1>2, <1>3, <1>4, <1>5 DEF SagaInv

(* The inductive invariant of the four services together.                  *)
THEOREM SagaInvariant == Spec => []SagaInv
  BY InitSaga, NextSaga, PTL DEF Spec

(* No subscription is active, and nobody plays videos on it, unless its    *)
(* first payment was approved: for any number of instances, crashes,       *)
(* redeliveries and orders of the events.                                  *)
THEOREM NoServiceUnpaid == Spec => []NoServiceWithoutPayment
<1>1. SagaInv => NoServiceWithoutPayment
  BY DEF SagaInv
<1> QED
  BY <1>1, SagaInvariant, PTL

(* A subscription ends because its cancellation was announced or a payment *)
(* of it failed, and money goes back only for announced cancellations      *)
(* (cancelBillingAndRefund).                                               *)
THEOREM EndsHaveACause == Spec => []EndHasCause
<1>1. SagaInv => EndHasCause
  BY DEF SagaInv
<1> QED
  BY <1>1, SagaInvariant, PTL

(* Type correctness of the four services and the events between them.      *)
THEOREM SagaTypeCorrect == Spec => []TypeOK
<1>1. SagaInv => TypeOK
  BY BillingTyped DEF SagaInv, SagaTypes, TypeOK
<1> QED
  BY <1>1, SagaInvariant, PTL
=============================================================================
