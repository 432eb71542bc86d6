---------------------------- MODULE OutboxProofs ----------------------------
(***************************************************************************)
(* Proofs about Outbox for every set of rows, every number of relays and   *)
(* every bound.  The inductive invariant adds to the two safety            *)
(* invariants what they rest on inside a relay run: a run only holds       *)
(* committed rows, and what it has marked, or is waiting on after the      *)
(* broker took it, has arrived.  For the order of arrival it also says     *)
(* that a run's batch leaves out no row that was committed before one of   *)
(* its rows was written, carries an earlier stamp, and has neither arrived *)
(* nor been refused.                                                       *)
(***************************************************************************)
EXTENDS Outbox, SequenceTheorems, FiniteSetTheorems, TLAPS

(* A relay run only handles committed rows.                                *)
RunsHoldCommitted ==
  \A r \in Relays :
    /\ relay[r].todo \subseteq Committed
    /\ relay[r].pc \in {"accepted", "unheard"} => relay[r].current \in Committed

(* Whatever a run counts as delivered has been delivered.                  *)
RunsHoldArrived ==
  \A r \in Relays :
    /\ relay[r].marked \subseteq Arrived
    /\ relay[r].pc = "accepted" => relay[r].current \in Arrived

DeliveryInv ==
  /\ TypeOK
  /\ RunsHoldCommitted
  /\ RunsHoldArrived
  /\ OnlyCommittedArrive
  /\ MarkedHaveArrived

(* Appending to the log adds exactly one arrival.                          *)
LEMMA ArrivedAppend ==
  ASSUME NEW m \in Messages, log \in Seq(Messages), log' = Append(log, m)
  PROVE  Arrived' = Arrived \cup {m}
<1>1. Len(log') = Len(log) + 1 /\ DOMAIN log' = 1..(Len(log) + 1) /\ DOMAIN log = 1..Len(log)
  OBVIOUS
<1>2. \A i \in 1..Len(log) : log'[i] = log[i]
  OBVIOUS
<1>3. log'[Len(log) + 1] = m
  OBVIOUS
<1>4. Len(log) \in Nat
  OBVIOUS
<1> QED
  BY <1>1, <1>2, <1>3, <1>4 DEF Arrived, Range

LEMMA InitDelivery == Init => DeliveryInv
<1> SUFFICES ASSUME Init PROVE DeliveryInv
  OBVIOUS
<1>1. Arrived = {}
  BY DEF Init, Arrived, Range
<1>2. TypeOK
  BY FaultAssumption DEF Init, TypeOK, IdleRun, Run, RelayPc
<1> QED
  BY <1>1, <1>2 DEF Init, DeliveryInv, RunsHoldCommitted, RunsHoldArrived,
                    OnlyCommittedArrive, MarkedHaveArrived, IdleRun

(* A step that leaves the tables alone or extends them, and changes one    *)
(* run only, keeps the invariant if that run still holds committed rows    *)
(* and counts only arrivals.                                               *)
LEMMA OneRunChanges ==
  ASSUME DeliveryInv, NEW r \in Relays, TypeOK',
         Committed' = Committed, Arrived \subseteq Arrived',
         Arrived' \subseteq Committed, published' \subseteq Arrived',
         \A q \in Relays : q # r => relay'[q] = relay[q],
         relay'[r].todo \subseteq Committed,
         relay'[r].pc \in {"accepted", "unheard"} => relay'[r].current \in Committed,
         relay'[r].marked \subseteq Arrived',
         relay'[r].pc = "accepted" => relay'[r].current \in Arrived'
  PROVE  DeliveryInv'
<1>1. RunsHoldCommitted'
  BY DEF DeliveryInv, RunsHoldCommitted
<1>2. RunsHoldArrived'
  <2> SUFFICES ASSUME NEW q \in Relays
               PROVE  /\ relay'[q].marked \subseteq Arrived'
                      /\ relay'[q].pc = "accepted" => relay'[q].current \in Arrived'
    BY DEF RunsHoldArrived
  <2>1. CASE q = r
    BY <2>1
  <2>2. CASE q # r
    BY <2>2 DEF DeliveryInv, RunsHoldArrived
  <2> QED
    BY <2>1, <2>2
<1> QED
  BY <1>1, <1>2 DEF DeliveryInv, OnlyCommittedArrive, MarkedHaveArrived

(* The type of the relay function after one run has changed.               *)
LEMMA RelayType ==
  ASSUME relay \in [Relays -> Run], NEW r \in Relays, NEW run \in Run,
         relay' = [relay EXCEPT ![r] = run]
  PROVE  /\ relay' \in [Relays -> Run]
         /\ relay'[r] = run
         /\ \A q \in Relays : q # r => relay'[q] = relay[q]
  OBVIOUS

LEMMA NextDelivery == DeliveryInv /\ [Next]_vars => DeliveryInv'
<1> SUFFICES ASSUME DeliveryInv, [Next]_vars PROVE DeliveryInv'
  OBVIOUS
<1>t. TypeOK /\ relay \in [Relays -> Run] /\ Arrived \subseteq Messages
  BY DEF DeliveryInv, TypeOK, OnlyCommittedArrive, Committed
<1>1. ASSUME NEW m \in Messages, Write(m) PROVE DeliveryInv'
  <2>1. Committed' = Committed /\ Arrived' = Arrived
    BY <1>1, <1>t DEF Write, Committed, Arrived, TypeOK
  <2>2. TypeOK'
    BY <1>1, <1>t, StampsAssumption DEF Write, TypeOK, Committed
  <2> QED
    BY <1>1, <2>1, <2>2 DEF DeliveryInv, Write, RunsHoldCommitted, RunsHoldArrived,
                            OnlyCommittedArrive, MarkedHaveArrived
<1>2. ASSUME NEW m \in Messages, EndTransaction(m) PROVE DeliveryInv'
  <2>1. Committed \subseteq Committed' /\ Arrived' = Arrived
    BY <1>2, <1>t DEF EndTransaction, Committed, Arrived, TypeOK
  <2>2. TypeOK'
    BY <1>2, <1>t DEF EndTransaction, TypeOK
  <2>3. relay' = relay /\ published' = published
    BY <1>2 DEF EndTransaction
  <2>4. RunsHoldCommitted'
    BY <2>1, <2>3 DEF DeliveryInv, RunsHoldCommitted
  <2>5. RunsHoldArrived'
    BY <2>1, <2>3 DEF DeliveryInv, RunsHoldArrived
  <2>6. OnlyCommittedArrive' /\ MarkedHaveArrived'
    BY <2>1, <2>3 DEF DeliveryInv, OnlyCommittedArrive, MarkedHaveArrived
  <2> QED
    BY <2>2, <2>4, <2>5, <2>6 DEF DeliveryInv
<1>3. ASSUME NEW r \in Relays, RelayStep(r) \/ Crash(r) PROVE DeliveryInv'
  <2> DEFINE run == relay[r]
  <2>r. /\ run \in Run
        /\ run.todo \subseteq Committed
        /\ run.marked \subseteq Arrived
        /\ run.pc \in {"accepted", "unheard"} => run.current \in Committed
        /\ run.pc = "accepted" => run.current \in Arrived
    BY <1>t DEF DeliveryInv, RunsHoldCommitted, RunsHoldArrived
  <2>a. Arrived \subseteq Committed /\ published \subseteq Arrived
    BY DEF DeliveryInv, OnlyCommittedArrive, MarkedHaveArrived
  <2>c. Committed' = Committed
    BY <1>3 DEF RelayStep, Poll, SendAccepted, SendUnheard, ConfirmAck, ConfirmNack,
                ConfirmTimeout, CommitMarks, Crash, Committed
  <2>1. CASE Poll(r)
    <3>b. PICK batch \in Batches(Pending) :
            relay' = [relay EXCEPT ![r] = [pc |-> "sending", todo |-> batch,
                                           current |-> NoMessage, marked |-> {}]]
      BY <2>1 DEF Poll
    <3> DEFINE new == [pc |-> "sending", todo |-> batch,
                       current |-> NoMessage, marked |-> {}]
    <3>1. batch \subseteq Committed
      BY DEF Batches, Pending
    <3>2. new \in Run /\ relay' = [relay EXCEPT ![r] = new]
      <4>1. new \in Run
        BY <3>1 DEF Run, RelayPc, Committed
      <4> QED
        BY <3>b, <4>1
    <3>3. TypeOK'
      BY <2>1, <1>t, <3>2, RelayType DEF Poll, TypeOK
    <3>4. Arrived' = Arrived /\ published' = published
      BY <2>1 DEF Poll, Arrived
    <3> HIDE DEF new
    <3>5. relay'[r] = new /\ \A q \in Relays : q # r => relay'[q] = relay[q]
      BY <1>t, <3>2, RelayType
    <3> QED
      BY <2>c, <2>a, <3>1, <3>3, <3>4, <3>5, OneRunChanges DEF new
  <2>2. CASE SendAccepted(r)
    <3>1. PICK m \in Messages :
            /\ IsFirst(m, run.todo)
            /\ log' = Append(log, m)
            /\ relay' = [relay EXCEPT ![r].pc = "accepted", ![r].current = m]
      BY <2>2 DEF SendAccepted
    <3> DEFINE new == [run EXCEPT !.pc = "accepted", !.current = m]
    <3>2. new \in Run /\ relay' = [relay EXCEPT ![r] = new]
      BY <2>r, <1>t, <3>1 DEF Run, RelayPc
    <3>3. TypeOK'
      <4>1. log' \in Seq(Messages)
        BY <1>t, <3>1 DEF TypeOK
      <4> QED
        BY <2>2, <1>t, <3>2, <4>1, RelayType DEF SendAccepted, TypeOK
    <3>4. Arrived' = Arrived \cup {m} /\ published' = published
      BY <2>2, <1>t, <3>1, ArrivedAppend DEF SendAccepted, TypeOK
    <3>5. m \in Committed
      BY <2>r, <3>1 DEF IsFirst
    <3>6. /\ new.todo = run.todo /\ new.marked = run.marked
          /\ new.pc = "accepted" /\ new.current = m
      BY <2>r DEF Run
    <3> HIDE DEF new
    <3>7. relay'[r] = new /\ \A q \in Relays : q # r => relay'[q] = relay[q]
      BY <1>t, <3>2, RelayType
    <3> QED
      BY <2>r, <2>c, <2>a, <3>3, <3>4, <3>5, <3>6, <3>7, OneRunChanges
  <2>3. CASE SendUnheard(r)
    <3>1. PICK m \in Messages :
            /\ IsFirst(m, run.todo)
            /\ relay' = [relay EXCEPT ![r].pc = "unheard", ![r].current = m]
      BY <2>3 DEF SendUnheard
    <3> DEFINE new == [run EXCEPT !.pc = "unheard", !.current = m]
    <3>2. new \in Run /\ relay' = [relay EXCEPT ![r] = new]
      BY <2>r, <1>t, <3>1 DEF Run, RelayPc
    <3>3. TypeOK'
      <4>1. faults' \in 0..MaxFaults
        BY <2>3, <1>t, FaultAssumption DEF SendUnheard, TypeOK
      <4> QED
        BY <2>3, <1>t, <3>2, <4>1, RelayType DEF SendUnheard, TypeOK
    <3>4. Arrived' = Arrived /\ published' = published
      BY <2>3 DEF SendUnheard, Arrived
    <3>5. m \in Committed
      BY <2>r, <3>1 DEF IsFirst
    <3>6. /\ new.todo = run.todo /\ new.marked = run.marked
          /\ new.pc = "unheard" /\ new.current = m
      BY <2>r DEF Run
    <3> HIDE DEF new
    <3>7. relay'[r] = new /\ \A q \in Relays : q # r => relay'[q] = relay[q]
      BY <1>t, <3>2, RelayType
    <3> QED
      BY <2>r, <2>c, <2>a, <3>3, <3>4, <3>5, <3>6, <3>7, OneRunChanges
  <2>4. CASE ConfirmAck(r)
    <3> DEFINE new == GoOn(run, {run.current})
    <3>1. run.current \in Arrived
      BY <2>4, <2>r DEF ConfirmAck
    <3>2. new \in Run /\ relay' = [relay EXCEPT ![r] = new]
      BY <2>4, <2>r, <1>t, <3>1 DEF ConfirmAck, GoOn, Run, RelayPc
    <3>3. TypeOK'
      BY <2>4, <1>t, <3>2, RelayType DEF ConfirmAck, TypeOK
    <3>4. Arrived' = Arrived /\ published' = published
      BY <2>4 DEF ConfirmAck, Arrived
    <3>5. /\ new.todo \subseteq run.todo /\ new.pc = "sending"
          /\ new.marked = run.marked \cup {run.current}
      BY <2>r DEF Run, GoOn
    <3> HIDE DEF new
    <3>6. relay'[r] = new /\ \A q \in Relays : q # r => relay'[q] = relay[q]
      BY <1>t, <3>2, RelayType
    <3> QED
      BY <2>r, <2>c, <2>a, <3>1, <3>3, <3>4, <3>5, <3>6, OneRunChanges
  <2>5. CASE ConfirmNack(r)
    <3> DEFINE new == GoOn(run, {})
    <3>1. run.current \in Messages
      BY <2>5, <2>r DEF ConfirmNack, Committed
    <3>2. new \in Run /\ relay' = [relay EXCEPT ![r] = new]
      BY <2>5, <2>r, <1>t DEF ConfirmNack, GoOn, Run, RelayPc
    <3>3. TypeOK'
      BY <2>5, <1>t, <3>1, <3>2, RelayType DEF ConfirmNack, TypeOK
    <3>4. Arrived' = Arrived /\ published' = published
      BY <2>5 DEF ConfirmNack, Arrived
    <3>5. /\ new.todo \subseteq run.todo /\ new.pc = "sending"
          /\ new.marked = run.marked
      BY <2>r DEF Run, GoOn
    <3> HIDE DEF new
    <3>6. relay'[r] = new /\ \A q \in Relays : q # r => relay'[q] = relay[q]
      BY <1>t, <3>2, RelayType
    <3> QED
      BY <2>r, <2>c, <2>a, <3>3, <3>4, <3>5, <3>6, OneRunChanges
  <2>6. CASE ConfirmTimeout(r)
    <3> DEFINE new == [run EXCEPT !.pc = "closing", !.todo = {}, !.current = NoMessage]
    <3>2. new \in Run /\ relay' = [relay EXCEPT ![r] = new]
      BY <2>6, <2>r, <1>t DEF ConfirmTimeout, Run, RelayPc
    <3>3. TypeOK'
      <4>1. faults' \in 0..MaxFaults
        BY <2>6, <1>t, FaultAssumption DEF ConfirmTimeout, TypeOK
      <4> QED
        BY <2>6, <1>t, <3>2, <4>1, RelayType DEF ConfirmTimeout, TypeOK
    <3>4. Arrived' = Arrived /\ published' = published
      BY <2>6 DEF ConfirmTimeout, Arrived
    <3>5. new.todo = {} /\ new.pc = "closing" /\ new.marked = run.marked
      BY <2>r DEF Run
    <3> HIDE DEF new
    <3>6. relay'[r] = new /\ \A q \in Relays : q # r => relay'[q] = relay[q]
      BY <1>t, <3>2, RelayType
    <3> QED
      BY <2>r, <2>c, <2>a, <3>3, <3>4, <3>5, <3>6, OneRunChanges
  <2>7. CASE CommitMarks(r) \/ Crash(r)
    <3>1. IdleRun \in Run /\ relay' = [relay EXCEPT ![r] = IdleRun]
      BY <2>7 DEF CommitMarks, Crash, IdleRun, Run, RelayPc
    <3>2. Arrived' = Arrived /\ published' \subseteq Arrived
      <4>1. Arrived' = Arrived
        BY <2>7 DEF CommitMarks, Crash, Arrived
      <4>2. published' = published \/ published' = published \cup run.marked
        BY <2>7 DEF CommitMarks, Crash
      <4> QED
        BY <2>r, <2>a, <4>1, <4>2
    <3>3. TypeOK'
      <4>1. faults' \in 0..MaxFaults
        BY <2>7, <1>t, FaultAssumption DEF CommitMarks, Crash, TypeOK
      <4>2. published' \subseteq Messages
        BY <1>t, <3>2
      <4> QED
        BY <2>7, <1>t, <3>1, <4>1, <4>2, RelayType DEF CommitMarks, Crash, TypeOK
    <3>4. relay'[r] = IdleRun /\ \A q \in Relays : q # r => relay'[q] = relay[q]
      BY <1>t, <3>1, RelayType
    <3>5. IdleRun.todo = {} /\ IdleRun.marked = {} /\ IdleRun.pc = "idle"
      BY DEF IdleRun
    <3> QED
      BY <2>c, <2>a, <3>2, <3>3, <3>4, <3>5, OneRunChanges
  <2> QED
    BY <1>3, <2>1, <2>2, <2>3, <2>4, <2>5, <2>6, <2>7 DEF RelayStep
<1>4. CASE UNCHANGED vars
  BY <1>4 DEF vars, DeliveryInv, TypeOK, RunsHoldCommitted, RunsHoldArrived,
              OnlyCommittedArrive, MarkedHaveArrived, Committed, Arrived
<1> QED
  BY <1>1, <1>2, <1>3, <1>4 DEF Next

-----------------------------------------------------------------------------
(* The inductive invariant holds throughout, for any set of rows, any      *)
(* number of relays over the table and any bound on failures.              *)
THEOREM DeliveryInvariant == Spec => []DeliveryInv
  BY InitDelivery, NextDelivery, PTL DEF Spec

(* A rolled-back domain change is never announced (OutboxWriter.write).    *)
THEOREM NoPhantomEvent == Spec => []OnlyCommittedArrive
<1>1. DeliveryInv => OnlyCommittedArrive
  BY DEF DeliveryInv
<1> QED
  BY <1>1, DeliveryInvariant, PTL

(* A row the relay has marked published has reached the broker             *)
(* (OutboxRelay.relay): marking never loses an event.                      *)
THEOREM NoLostEvent == Spec => []MarkedHaveArrived
<1>1. DeliveryInv => MarkedHaveArrived
  BY DEF DeliveryInv
<1> QED
  BY <1>1, DeliveryInvariant, PTL

-----------------------------------------------------------------------------
(* The order of arrival.                                                   *)

(* What had committed before a row was written is committed.               *)
EldersCommitted == \A n \in Messages : before[n] \subseteq Committed

(* The rows that come before n by commit and by stamp.                     *)
Elders(n) == {m \in before[n] : createdAt[m] < createdAt[n]}

(* A run owes no elder to the rows it still has to send.                   *)
NothingOverlooked(todo) ==
  \A n \in todo : \A m \in Elders(n) : m \in refused \/ m \in Arrived \/ m \in todo

BatchesFollow == \A r \in Relays : NothingOverlooked(relay[r].todo)

OrderInv == EldersCommitted /\ BatchesFollow /\ OrderLostByRefusalOrClock

LEMMA InitOrder == Init => OrderInv
<1> SUFFICES ASSUME Init PROVE OrderInv
  OBVIOUS
<1>1. Arrived = {} /\ \A n \in Messages : before[n] = {}
  BY DEF Init, Arrived, Range
<1> QED
  BY <1>1 DEF Init, OrderInv, EldersCommitted, BatchesFollow, NothingOverlooked,
              OrderLostByRefusalOrClock, IdleRun

(* A batch takes every pending row with an earlier stamp than one it       *)
(* takes.                                                                  *)
LEMMA BatchIsClosed ==
  ASSUME TypeOK, NEW batch \in Batches(Pending), NEW n \in batch,
         NEW m \in Pending, createdAt[m] < createdAt[n]
  PROVE  m \in batch
<1>1. n \in Messages /\ m \in Messages
  BY DEF Batches, Pending, Committed
<1>2. createdAt[m] \in Nat /\ createdAt[n] \in Nat
  BY <1>1 DEF TypeOK
<1>3. m \notin batch => createdAt[n] <= createdAt[m]
  BY DEF Batches
<1> QED
  BY <1>2, <1>3

(* What came first stays first.                                            *)
LEMMA EarlierStays ==
  ASSUME TypeOK, NEW m \in Messages, NEW n \in Messages, NEW k \in Messages,
         log' = Append(log, k), Earlier(m, n)
  PROVE  Earlier(m, n)'
<1>1. PICK i \in DOMAIN log : log[i] = m /\ \A j \in 1..i : log[j] # n
  BY DEF Earlier
<1>2. log \in Seq(Messages) /\ i \in 1..Len(log)
  BY <1>1 DEF TypeOK
<1>3. i \in DOMAIN log' /\ \A j \in 1..i : log'[j] = log[j]
  BY <1>2
<1> QED
  BY <1>1, <1>2, <1>3 DEF Earlier

(* A row that arrives for the first time comes after all that had arrived. *)
LEMMA EarlierThanTheNew ==
  ASSUME TypeOK, NEW m \in Arrived, NEW n \in Messages, n \notin Arrived, log' = Append(log, n)
  PROVE  Earlier(m, n)'
<1>1. PICK i \in DOMAIN log : log[i] = m
  BY DEF Arrived, Range
<1>2. log \in Seq(Messages) /\ i \in 1..Len(log)
  BY <1>1 DEF TypeOK
<1>3. i \in DOMAIN log' /\ \A j \in 1..i : j \in DOMAIN log /\ log'[j] = log[j]
  BY <1>2
<1>4. \A j \in 1..i : log'[j] # n
  BY <1>3 DEF Arrived, Range
<1>5. log'[i] = m
  BY <1>1, <1>2
<1> QED
  BY <1>3, <1>4, <1>5 DEF Earlier

LEMMA WriteKeepsOrder ==
  ASSUME DeliveryInv, OrderInv, NEW w \in Messages, Write(w)
  PROVE  OrderInv'
<1>t. TypeOK /\ Arrived \subseteq Committed /\ w \notin Committed
  BY DEF DeliveryInv, OnlyCommittedArrive, Write, Committed
<1>1. /\ Committed' = Committed /\ Arrived' = Arrived
      /\ UNCHANGED <<relay, log, refused>>
      /\ \A n \in Messages \ {w} : before'[n] = before[n] /\ createdAt'[n] = createdAt[n]
      /\ before'[w] = Committed
  BY <1>t DEF Write, Committed, Arrived, TypeOK
<1>2. \A n \in Messages : before[n] \subseteq Committed
  BY DEF OrderInv, EldersCommitted
<1>3. EldersCommitted'
  BY <1>1, <1>2 DEF EldersCommitted
<1>4. Committed \subseteq Messages \ {w}
  BY <1>t DEF Committed
<1>5. \A n \in Committed : Elders(n)' = Elders(n)
  BY <1>1, <1>2, <1>4 DEF Elders
<1>6. BatchesFollow'
  BY <1>1, <1>5 DEF DeliveryInv, RunsHoldCommitted, OrderInv, BatchesFollow, NothingOverlooked
<1>7. OrderLostByRefusalOrClock'
  <2> SUFFICES ASSUME NEW n \in Arrived, NEW m \in before'[n]
               PROVE  \/ m \in refused \/ createdAt'[m] >= createdAt'[n]
                      \/ Earlier(m, n)'
    BY <1>1 DEF OrderLostByRefusalOrClock
  <2>1. n \in Messages \ {w} /\ before'[n] = before[n] /\ m \in Messages \ {w}
    BY <1>t, <1>1, <1>2, <1>4
  <2> QED
    BY <1>1, <2>1 DEF OrderInv, OrderLostByRefusalOrClock, Earlier
<1> QED
  BY <1>3, <1>6, <1>7 DEF OrderInv

(* A relay's step: it keeps the order if its own run still overlooks       *)
(* nothing, and if what arrives for the first time comes after its         *)
(* elders.                                                                 *)
LEMMA RelayKeepsOrder ==
  ASSUME DeliveryInv, OrderInv, NEW r \in Relays,
         UNCHANGED <<tx, createdAt, before>>,
         refused \subseteq refused', Arrived \subseteq Arrived',
         \A q \in Relays : q # r => relay'[q] = relay[q],
         NothingOverlooked(relay[r].todo)' ,
         OrderLostByRefusalOrClock'
  PROVE  OrderInv'
<1>1. EldersCommitted'
  BY DEF OrderInv, EldersCommitted, Committed
<1>2. \A n \in Messages : Elders(n)' = Elders(n)
  BY DEF Elders
<1>3. ASSUME NEW q \in Relays PROVE NothingOverlooked(relay[q].todo)'
  <2>1. CASE q = r
    BY <2>1
  <2>2. CASE q # r
    BY <2>2, <1>2 DEF OrderInv, BatchesFollow, NothingOverlooked, Elders
  <2> QED
    BY <2>1, <2>2
<1> QED
  BY <1>1, <1>3 DEF OrderInv, BatchesFollow

LEMMA EndTransactionKeepsOrder ==
  ASSUME DeliveryInv, OrderInv, NEW w \in Messages, EndTransaction(w)
  PROVE  OrderInv'
<1>1. Committed \subseteq Committed'
  BY DEF DeliveryInv, TypeOK, EndTransaction, Committed
<1>2. UNCHANGED <<createdAt, before, relay, log, refused>>
  BY DEF EndTransaction
<1>3. EldersCommitted'
  BY <1>1, <1>2 DEF OrderInv, EldersCommitted
<1> QED
  BY <1>2, <1>3 DEF OrderInv, BatchesFollow, NothingOverlooked, Elders, OrderLostByRefusalOrClock,
                    Arrived, Earlier

LEMMA PollKeepsOrder ==
  ASSUME DeliveryInv, OrderInv, NEW r \in Relays, Poll(r)
  PROVE  OrderInv'
<1>1. PICK batch \in Batches(Pending) :
        relay' = [relay EXCEPT ![r] = [pc |-> "sending", todo |-> batch,
                                       current |-> NoMessage, marked |-> {}]]
  BY DEF Poll
<1>2. /\ UNCHANGED <<tx, createdAt, before, refused, log>> /\ Arrived' = Arrived
      /\ \A q \in Relays : q # r => relay'[q] = relay[q]
      /\ relay'[r].todo = batch
  BY <1>1 DEF Poll, Arrived, DeliveryInv, TypeOK
<1>3. ASSUME NEW n \in batch, NEW m \in Elders(n)
      PROVE  m \in Arrived \/ m \in batch
  <2>1. n \in Messages
    BY DEF Batches, Pending, Committed
  <2>2. m \in Committed /\ createdAt[m] < createdAt[n]
    BY <2>1 DEF OrderInv, EldersCommitted, Elders
  <2>3. CASE m \in published
    BY <2>3 DEF DeliveryInv, MarkedHaveArrived
  <2>4. CASE m \notin published
    BY <2>2, <2>4, BatchIsClosed DEF Pending, DeliveryInv
  <2> QED
    BY <2>3, <2>4
<1>5. NothingOverlooked(relay[r].todo)'
  BY <1>2, <1>3 DEF NothingOverlooked, Elders
<1>6. OrderLostByRefusalOrClock'
  BY <1>2 DEF OrderInv, OrderLostByRefusalOrClock, Earlier
<1> QED
  BY <1>2, <1>5, <1>6, RelayKeepsOrder

(* The row sent is the first of what is left: everything it owes has been  *)
(* refused or has arrived.                                                 *)
LEMMA SendKeepsOrder ==
  ASSUME DeliveryInv, OrderInv, NEW r \in Relays, SendAccepted(r)
  PROVE  OrderInv'
<1>t. TypeOK /\ relay \in [Relays -> Run] /\ log \in Seq(Messages)
  BY DEF DeliveryInv, TypeOK
<1>1. PICK k \in Messages :
        /\ IsFirst(k, relay[r].todo)
        /\ log' = Append(log, k)
        /\ relay' = [relay EXCEPT ![r].pc = "accepted", ![r].current = k]
  BY DEF SendAccepted
<1>2. /\ UNCHANGED <<tx, createdAt, before, refused>> /\ Arrived' = Arrived \cup {k}
      /\ \A q \in Relays : q # r => relay'[q] = relay[q]
      /\ relay'[r].todo = relay[r].todo
  BY <1>t, <1>1, ArrivedAppend DEF SendAccepted, Run
<1>3. NothingOverlooked(relay[r].todo)'
  BY <1>2 DEF OrderInv, BatchesFollow, NothingOverlooked, Elders
<1>4. \A m \in Elders(k) : m \in refused \/ m \in Arrived
  <2> SUFFICES ASSUME NEW m \in Elders(k), m \in relay[r].todo PROVE FALSE
    BY <1>1 DEF OrderInv, BatchesFollow, NothingOverlooked, IsFirst
  <2>1. createdAt[k] <= createdAt[m]
    BY <1>1 DEF IsFirst
  <2>2. createdAt[m] < createdAt[k]
    BY DEF Elders
  <2>3. createdAt[k] \in Nat /\ createdAt[m] \in Nat
    BY <1>t DEF TypeOK, Run
  <2> QED
    BY <2>1, <2>2, <2>3
<1>5. ASSUME NEW n \in Arrived', NEW m \in Elders(n), m \notin refused
      PROVE  Earlier(m, n)'
  <2>1. m \in Messages /\ n \in Messages
    BY <1>5, <1>2 DEF OrderInv, EldersCommitted, Elders, Committed, DeliveryInv,
                      OnlyCommittedArrive
  <2>2. CASE n \in Arrived
    <3>1. Earlier(m, n)
      <4>1. createdAt[m] \in Nat /\ createdAt[n] \in Nat
        BY <1>t, <2>1 DEF TypeOK
      <4> QED
        BY <1>5, <2>2, <4>1 DEF OrderInv, OrderLostByRefusalOrClock, Elders
    <3> QED
      BY <1>t, <1>1, <2>1, <3>1, EarlierStays
  <2>3. CASE n \notin Arrived
    <3>1. n = k /\ m \in Arrived
      BY <1>2, <1>4, <1>5, <2>3
    <3> QED
      BY <1>t, <1>1, <2>1, <2>3, <3>1, EarlierThanTheNew
  <2> QED
    BY <2>2, <2>3
<1>6. OrderLostByRefusalOrClock'
  <2> SUFFICES ASSUME NEW n \in Arrived', NEW m \in before[n], m \notin refused,
                      ~(createdAt[m] >= createdAt[n])
               PROVE  Earlier(m, n)'
    BY <1>2 DEF OrderLostByRefusalOrClock
  <2>1. m \in Messages /\ n \in Messages
    BY <1>2 DEF OrderInv, EldersCommitted, Committed, DeliveryInv, OnlyCommittedArrive
  <2>2. createdAt[m] \in Nat /\ createdAt[n] \in Nat
    BY <1>t, <2>1 DEF TypeOK
  <2> QED
    BY <1>5, <2>2 DEF Elders
<1> QED
  BY <1>2, <1>3, <1>6, RelayKeepsOrder

(* After the confirm: the row in hand has arrived, or is refused now.      *)
LEMMA ConfirmKeepsOrder ==
  ASSUME DeliveryInv, OrderInv, NEW r \in Relays, ConfirmAck(r) \/ ConfirmNack(r)
  PROVE  OrderInv'
<1>t. relay \in [Relays -> Run]
  BY DEF DeliveryInv, TypeOK
<1>1. /\ UNCHANGED <<tx, createdAt, before, log>> /\ Arrived' = Arrived
      /\ refused \subseteq refused'
      /\ \A q \in Relays : q # r => relay'[q] = relay[q]
      /\ relay'[r].todo = relay[r].todo \ {relay[r].current}
  BY <1>t DEF ConfirmAck, ConfirmNack, GoOn, Run, Arrived
<1>2. relay[r].current \in Arrived \/ relay[r].current \in refused'
  BY DEF DeliveryInv, RunsHoldArrived, ConfirmAck, ConfirmNack
<1>3. NothingOverlooked(relay[r].todo)'
  BY <1>1, <1>2 DEF OrderInv, BatchesFollow, NothingOverlooked, Elders
<1>4. OrderLostByRefusalOrClock'
  BY <1>1 DEF OrderInv, OrderLostByRefusalOrClock, Earlier
<1> QED
  BY <1>1, <1>3, <1>4, RelayKeepsOrder

(* The other steps of a run leave its batch alone or give it up.           *)
LEMMA OtherRunStepsKeepOrder ==
  ASSUME DeliveryInv, OrderInv, NEW r \in Relays,
         SendUnheard(r) \/ ConfirmTimeout(r) \/ CommitMarks(r) \/ Crash(r)
  PROVE  OrderInv'
<1>t. relay \in [Relays -> Run]
  BY DEF DeliveryInv, TypeOK
<1>1. UNCHANGED <<tx, createdAt, before, log, refused>> /\ Arrived' = Arrived
  BY DEF SendUnheard, ConfirmTimeout, CommitMarks, Crash, Arrived
<1>2. /\ \A q \in Relays : q # r => relay'[q] = relay[q]
      /\ relay'[r].todo = relay[r].todo \/ relay'[r].todo = {}
  BY <1>t DEF SendUnheard, ConfirmTimeout, CommitMarks, Crash, IdleRun, Run
<1>3. NothingOverlooked(relay[r].todo)'
  BY <1>1, <1>2 DEF OrderInv, BatchesFollow, NothingOverlooked, Elders
<1>4. OrderLostByRefusalOrClock'
  BY <1>1 DEF OrderInv, OrderLostByRefusalOrClock, Earlier
<1> QED
  BY <1>1, <1>2, <1>3, <1>4, RelayKeepsOrder

LEMMA NextOrder == DeliveryInv /\ OrderInv /\ [Next]_vars => OrderInv'
<1> SUFFICES ASSUME DeliveryInv, OrderInv, [Next]_vars PROVE OrderInv'
  OBVIOUS
<1>1. CASE UNCHANGED vars
  BY <1>1 DEF vars, OrderInv, EldersCommitted, BatchesFollow, NothingOverlooked, Elders,
              OrderLostByRefusalOrClock, Committed, Arrived, Earlier
<1> QED
  BY <1>1, WriteKeepsOrder, EndTransactionKeepsOrder, PollKeepsOrder, SendKeepsOrder,
     ConfirmKeepsOrder, OtherRunStepsKeepOrder DEF Next, RelayStep

(* For any number of relays, time-outs and crashes and any readings of the *)
(* instances' clocks, an event that was committed before another was       *)
(* written, and has the earlier stamp, reaches the broker before it unless *)
(* the broker refused it (OutboxRelay.relay).                              *)
THEOREM OrderKept == Spec => []OrderLostByRefusalOrClock
<1>1. OrderInv => OrderLostByRefusalOrClock
  BY DEF OrderInv
<1> QED
  BY <1>1, InitOrder, NextOrder, DeliveryInvariant, PTL DEF Spec

-----------------------------------------------------------------------------
(* The relay implements the safety part of its contract.                   *)

(* A step that changes neither the commits, nor the arrivals, nor the      *)
(* marks, does not show.                                                   *)
LEMMA RowsUnchanged ==
  ASSUME Committed' = Committed, Arrived' = Arrived, published' = published
  PROVE  rows' = rows
  BY DEF rows, RowOf

LEMMA InitMaps == Init => Contract!Init
<1> SUFFICES ASSUME Init PROVE rows = [m \in Messages |-> "none"]
  BY DEF Contract!Init
<1>1. Arrived = {} /\ published = {} /\ Committed = {}
  BY DEF Init, Arrived, Range, Committed
<1> QED
  BY <1>1 DEF rows, RowOf

(* A domain transaction's end is a Commit, or shows nothing.               *)
LEMMA EndTransactionMaps ==
  ASSUME DeliveryInv, NEW m \in Messages, EndTransaction(m)
  PROVE  [Contract!Next]_rows
<1>1. Arrived' = Arrived /\ published' = published
  BY DEF EndTransaction, Arrived
<1>2. m \notin Committed /\ m \notin Arrived /\ m \notin published
  BY DEF EndTransaction, Committed, DeliveryInv, OnlyCommittedArrive, MarkedHaveArrived
<1>3. Committed' = Committed \/ Committed' = Committed \cup {m}
  BY DEF EndTransaction, Committed, DeliveryInv, TypeOK
<1>4. CASE Committed' = Committed
  BY <1>1, <1>4, RowsUnchanged
<1>5. CASE Committed' = Committed \cup {m}
  <2>1. \A k \in {m} : rows[k] = "none"
    BY <1>2 DEF rows, RowOf
  <2>2. rows' = [k \in Messages |-> IF k \in {m} THEN "pending" ELSE rows[k]]
    BY <1>1, <1>2, <1>5 DEF rows, RowOf
  <2>3. Contract!Commit({m})
    BY <2>1, <2>2 DEF Contract!Commit
  <2> QED
    BY <2>3 DEF Contract!Next
<1> QED
  BY <1>3, <1>4, <1>5

(* The broker's first copy of a row is a Publish; later copies show        *)
(* nothing.                                                                *)
LEMMA SendAcceptedMaps ==
  ASSUME DeliveryInv, NEW r \in Relays, SendAccepted(r)
  PROVE  [Contract!Next]_rows
<1>1. PICK m \in Messages : IsFirst(m, relay[r].todo) /\ log' = Append(log, m)
  BY DEF SendAccepted
<1>2. Arrived' = Arrived \cup {m} /\ published' = published /\ Committed' = Committed
  BY <1>1, ArrivedAppend DEF SendAccepted, Committed, DeliveryInv, TypeOK
<1>3. m \in Committed
  BY <1>1 DEF IsFirst, DeliveryInv, RunsHoldCommitted
<1>4. CASE m \in Arrived
  <2>1. Arrived' = Arrived
    BY <1>2, <1>4
  <2> QED
    BY <1>2, <2>1, RowsUnchanged
<1>5. CASE m \notin Arrived
  <2>1. m \notin published
    BY <1>5 DEF DeliveryInv, MarkedHaveArrived
  <2>2. rows[m] = "pending"
    BY <1>3, <1>5, <2>1 DEF rows, RowOf
  <2>3. rows' = [rows EXCEPT ![m] = "sent"]
    BY <1>2, <2>1 DEF rows, RowOf
  <2>4. Contract!Publish(m)
    BY <2>2, <2>3 DEF Contract!Publish
  <2> QED
    BY <2>4 DEF Contract!Next
<1> QED
  BY <1>4, <1>5

(* The commit of a relay run is a Mark of the rows it has marked.          *)
LEMMA CommitMarksMaps ==
  ASSUME DeliveryInv, NEW r \in Relays, CommitMarks(r)
  PROVE  [Contract!Next]_rows
<1> DEFINE marked == relay[r].marked
<1>1. Arrived' = Arrived /\ Committed' = Committed /\ published' = published \cup marked
  BY DEF CommitMarks, Arrived, Committed
<1>2. marked \subseteq Arrived /\ marked \subseteq Messages
  BY DEF DeliveryInv, RunsHoldArrived, TypeOK, Run
<1> HIDE DEF marked
<1>3. \A k \in marked : rows[k] \in {"sent", "published"}
  BY <1>2 DEF rows, RowOf
<1>4. rows' = [k \in Messages |-> IF k \in marked THEN "published" ELSE rows[k]]
  BY <1>1, <1>2 DEF rows, RowOf
<1>5. Contract!Mark(marked)
  BY <1>3, <1>4 DEF Contract!Mark
<1> QED
  BY <1>2, <1>5 DEF Contract!Next

(* What a service may assume of its outbox, for any number of rows, relays *)
(* and failures: an event row is committed once, reaches the broker only   *)
(* after that, and is marked only after it has reached the broker.         *)
THEOREM ImplementsContractSafely == Spec => Contract!Safety
<1>1. DeliveryInv /\ [Next]_vars => [Contract!Next]_rows
  <2> SUFFICES ASSUME DeliveryInv, [Next]_vars PROVE [Contract!Next]_rows
    OBVIOUS
  <2>1. ASSUME NEW m \in Messages, Write(m) PROVE [Contract!Next]_rows
    <3>1. Committed' = Committed /\ Arrived' = Arrived /\ published' = published
      BY <2>1 DEF Write, Committed, Arrived, DeliveryInv, TypeOK
    <3> QED
      BY <3>1, RowsUnchanged
  <2>2. ASSUME NEW r \in Relays,
               \/ Poll(r) \/ SendUnheard(r) \/ ConfirmAck(r)
               \/ ConfirmNack(r) \/ ConfirmTimeout(r) \/ Crash(r)
        PROVE  [Contract!Next]_rows
    <3>1. Committed' = Committed /\ Arrived' = Arrived /\ published' = published
      BY <2>2 DEF Poll, SendUnheard, ConfirmAck, ConfirmNack, ConfirmTimeout, Crash,
                  Committed, Arrived
    <3> QED
      BY <3>1, RowsUnchanged
  <2>3. CASE UNCHANGED vars
    BY <2>3 DEF vars, rows, RowOf, Committed, Arrived
  <2> QED
    BY <2>1, <2>2, <2>3, EndTransactionMaps, SendAcceptedMaps, CommitMarksMaps
       DEF Next, RelayStep
<1> QED
  BY <1>1, InitMaps, DeliveryInvariant, PTL DEF Spec, Contract!Safety
=============================================================================
