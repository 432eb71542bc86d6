------------------------------- MODULE Outbox -------------------------------
(***************************************************************************)
(* common-outbox: the outbox table of one service, the domain transactions *)
(* that write it (OutboxWriter, OutboxMessage) and the relay that polls it *)
(* and publishes to RabbitMQ (OutboxRelay.relay).                          *)
(*                                                                         *)
(* A relay run is one database transaction: its markPublished() calls take *)
(* effect together when it commits and are lost together when the process  *)
(* dies first.  Messages are sent one at a time, each followed by the wait *)
(* for its publisher confirm.  Several instances of the service may each   *)
(* run a relay over the same table; nothing locks the rows they read.      *)
(*                                                                         *)
(* Rows are stamped by the clock of the instance that writes them, to the  *)
(* microsecond.  Two instances' clocks may differ and two stamps may be    *)
(* equal, so a row may get any stamp, whatever was written before it.      *)
(***************************************************************************)
EXTENDS Naturals, Sequences, FiniteSets, Functions

CONSTANTS
  Messages,    \* the event rows domain transactions may write
  Relays,      \* the service instances running a relay
  Stamps,      \* the readings of the instances' clocks
  BatchSize,   \* rows a poll takes at most (100 in the code)
  MaxFaults,   \* bound on refused sends, time-outs and crashes in a behaviour
  NoMessage    \* stands for "no message in hand"

ASSUME MessagesAssumption == IsFiniteSet(Messages)
ASSUME StampsAssumption == Stamps \subseteq Nat \ {0}
ASSUME BatchAssumption == BatchSize \in Nat \ {0}
ASSUME FaultAssumption == MaxFaults \in Nat
ASSUME NoMessageAssumption == NoMessage \notin Messages

VARIABLES
  tx,         \* [Messages -> "new" | "open" | "committed" | "rolledback"]
  createdAt,  \* the row's created_at, 0 before it is written
  published,  \* rows whose published_at is not null
  relay,      \* [Relays -> the state of one run of relay()]
  log,        \* everything the broker accepted, in order of arrival
  faults,     \* failures so far
  before,     \* history: rows already committed when a row was written
  refused     \* history: rows the broker nacked at least once

vars == <<tx, createdAt, published, relay, log, faults, before, refused>>

RelayPc == {"idle", "sending", "accepted", "unheard", "closing"}

(* One run: the rows of its batch still to send, the row being sent, and   *)
(* the rows marked published in the uncommitted transaction.               *)
Run == [pc : RelayPc, todo : SUBSET Messages,
        current : Messages \cup {NoMessage}, marked : SUBSET Messages]

IdleRun == [pc |-> "idle", todo |-> {}, current |-> NoMessage, marked |-> {}]

Committed == {m \in Messages : tx[m] = "committed"}
Arrived == Range(log)

TypeOK ==
  /\ tx \in [Messages -> {"new", "open", "committed", "rolledback"}]
  /\ createdAt \in [Messages -> Nat]
  /\ published \subseteq Messages
  /\ relay \in [Relays -> Run]
  /\ log \in Seq(Messages)
  /\ faults \in 0..MaxFaults
  /\ before \in [Messages -> SUBSET Messages]
  /\ refused \subseteq Messages

Init ==
  /\ tx = [m \in Messages |-> "new"]
  /\ createdAt = [m \in Messages |-> 0]
  /\ published = {}
  /\ relay = [r \in Relays |-> IdleRun]
  /\ log = <<>>
  /\ faults = 0
  /\ before = [m \in Messages |-> {}]
  /\ refused = {}

-----------------------------------------------------------------------------
(* Domain transactions.                                                    *)

(* OutboxWriter.write: the row gets its created_at inside the transaction, *)
(* before anybody can see it, from the clock of the instance that writes.  *)
Write(m) ==
  /\ tx[m] = "new"
  /\ tx' = [tx EXCEPT ![m] = "open"]
  /\ \E now \in Stamps : createdAt' = [createdAt EXCEPT ![m] = now]
  /\ before' = [before EXCEPT ![m] = Committed]
  /\ UNCHANGED <<published, relay, log, faults, refused>>

(* The transaction ends: the row commits with the domain change or is      *)
(* rolled back with it.                                                    *)
EndTransaction(m) ==
  /\ tx[m] = "open"
  /\ \E end \in {"committed", "rolledback"} : tx' = [tx EXCEPT ![m] = end]
  /\ UNCHANGED <<createdAt, published, relay, log, faults, before, refused>>

-----------------------------------------------------------------------------
(* The relay.                                                              *)

(* Variant: a dirty read.                                                  *)
Pending_ReadsUncommitted == {m \in Messages : tx[m] # "new"} \ published

(* published_at is null.                                                   *)
Pending == Committed \ published

(* findTop100ByPublishedAtIsNullOrderByCreatedAtAsc: as many rows as the   *)
(* batch holds, none with a later stamp than one left out.  Among equal    *)
(* stamps the database decides.                                            *)
Batches(rows) ==
  {b \in SUBSET rows :
     /\ Cardinality(b) = IF Cardinality(rows) < BatchSize THEN Cardinality(rows)
                         ELSE BatchSize
     /\ \A m \in b : \A k \in rows \ b : createdAt[m] <= createdAt[k]}

(* Variant: the batch without its order.                                   *)
IsFirst_Unordered(m, rows) == m \in rows

(* The loop goes through the batch in created_at order; which of two rows  *)
(* with one stamp comes first is the database's choice again.              *)
IsFirst(m, rows) == m \in rows /\ \A k \in rows : createdAt[m] <= createdAt[k]

Poll(r) ==
  /\ relay[r].pc = "idle"
  /\ Pending # {}
  /\ \E batch \in Batches(Pending) :
       relay' = [relay EXCEPT ![r] = [pc |-> "sending", todo |-> batch,
                                      current |-> NoMessage, marked |-> {}]]
  /\ UNCHANGED <<tx, createdAt, published, log, faults, before, refused>>

(* convertAndSend: the broker takes the message, ...                       *)
SendAccepted(r) ==
  /\ relay[r].pc = "sending"
  /\ \E m \in Messages :
       /\ IsFirst(m, relay[r].todo)
       /\ log' = Append(log, m)
       /\ relay' = [relay EXCEPT ![r].pc = "accepted", ![r].current = m]
  /\ UNCHANGED <<tx, createdAt, published, faults, before, refused>>

(* ... or it does not; the relay cannot tell until the confirm.            *)
SendUnheard(r) ==
  /\ relay[r].pc = "sending"
  /\ faults < MaxFaults
  /\ faults' = faults + 1
  /\ \E m \in Messages :
       /\ IsFirst(m, relay[r].todo)
       /\ relay' = [relay EXCEPT ![r].pc = "unheard", ![r].current = m]
  /\ UNCHANGED <<tx, createdAt, published, log, before, refused>>

(* Variant: marks the row whatever the confirm said.                       *)
GoOn_IgnoresConfirm(run, marks) ==
  [run EXCEPT !.pc = "sending", !.todo = @ \ {run.current},
              !.current = NoMessage, !.marked = @ \cup {run.current}]

(* The run's next step after the message in hand has been dealt with.      *)
GoOn(run, marks) ==
  [run EXCEPT !.pc = "sending", !.todo = @ \ {run.current},
              !.current = NoMessage, !.marked = @ \cup marks]

(* A positive confirm: markPublished.                                      *)
ConfirmAck(r) ==
  /\ relay[r].pc = "accepted"
  /\ relay' = [relay EXCEPT ![r] = GoOn(relay[r], {relay[r].current})]
  /\ UNCHANGED <<tx, createdAt, published, log, faults, before, refused>>

(* A negative confirm: the row is skipped and the loop goes on.            *)
ConfirmNack(r) ==
  /\ relay[r].pc = "unheard"
  /\ relay' = [relay EXCEPT ![r] = GoOn(relay[r], {})]
  /\ refused' = refused \cup {relay[r].current}
  /\ UNCHANGED <<tx, createdAt, published, log, faults, before>>

(* No confirm within five seconds, or an exception: the batch is cut       *)
(* short.  The message may well have been taken.                           *)
ConfirmTimeout(r) ==
  /\ \/ relay[r].pc = "unheard" /\ UNCHANGED faults
     \/ relay[r].pc = "accepted" /\ faults < MaxFaults /\ faults' = faults + 1
  /\ relay' = [relay EXCEPT ![r].pc = "closing", ![r].todo = {}, ![r].current = NoMessage]
  /\ UNCHANGED <<tx, createdAt, published, log, before, refused>>

(* Variant: marks every unpublished row, sent or not.                      *)
CommitMarks_WholeTable(r) ==
  /\ \/ relay[r].pc = "sending" /\ relay[r].todo = {}
     \/ relay[r].pc = "closing"
  /\ published' = published \cup Pending
  /\ relay' = [relay EXCEPT ![r] = IdleRun]
  /\ UNCHANGED <<tx, createdAt, log, faults, before, refused>>

(* The relay's transaction commits the marks of the whole run.             *)
CommitMarks(r) ==
  /\ \/ relay[r].pc = "sending" /\ relay[r].todo = {}
     \/ relay[r].pc = "closing"
  /\ published' = published \cup relay[r].marked
  /\ relay' = [relay EXCEPT ![r] = IdleRun]
  /\ UNCHANGED <<tx, createdAt, log, faults, before, refused>>

(* The process dies, or its commit fails: no mark of the run survives.     *)
Crash(r) ==
  /\ relay[r].pc # "idle"
  /\ faults < MaxFaults
  /\ faults' = faults + 1
  /\ relay' = [relay EXCEPT ![r] = IdleRun]
  /\ UNCHANGED <<tx, createdAt, published, log, before, refused>>

-----------------------------------------------------------------------------
RelayStep(r) ==
  \/ Poll(r) \/ SendAccepted(r) \/ SendUnheard(r)
  \/ ConfirmAck(r) \/ ConfirmNack(r) \/ ConfirmTimeout(r) \/ CommitMarks(r)

Next ==
  \/ \E m \in Messages : Write(m) \/ EndTransaction(m)
  \/ \E r \in Relays : RelayStep(r) \/ Crash(r)

(* The scheduler keeps calling relay() and every wait for a confirm ends:  *)
(* a relay that can take a step takes one.  A domain transaction owes      *)
(* nothing, and no failure is owed.                                        *)
Fairness == \A r \in Relays : WF_vars(RelayStep(r))

Spec == Init /\ [][Next]_vars /\ Fairness

-----------------------------------------------------------------------------
(* Nothing reaches the broker that is not a committed row: a rolled-back   *)
(* domain change is never announced.  (OutboxWriter's own claim.)          *)
OnlyCommittedArrive == Arrived \subseteq Committed

(* A row marked published has reached the broker, whatever crashes,        *)
(* time-outs, refusals and second relays came in between: no event is      *)
(* lost by being marked too early.                                         *)
MarkedHaveArrived == published \subseteq Arrived

Earlier(m, n) ==
  \E i \in DOMAIN log : log[i] = m /\ \A j \in 1..i : log[j] # n

(* An event whose transaction had committed before another event was even  *)
(* written reaches the broker before it.  Two things can turn the order    *)
(* around: the relay goes on after a nack, or the two stamps do not say    *)
(* it, because they are equal or the clock of the second instance was      *)
(* behind.  Time-outs, crashes, full batches and a second relay cannot.    *)
(* (OutboxRelay.java:58 claims the order without either exception.)        *)
OrderLostByRefusalOrClock ==
  \A n \in Arrived : \A m \in before[n] :
    m \in refused \/ createdAt[m] >= createdAt[n] \/ Earlier(m, n)

(* The relay implements its contract: every committed row is published at  *)
(* least once, and only then marked.                                       *)
RowOf(m) ==
  IF m \in published THEN "published"
  ELSE IF m \in Arrived THEN "sent"
  ELSE IF m \in Committed THEN "pending"
  ELSE "none"

rows == [m \in Messages |-> RowOf(m)]

Contract == INSTANCE RelayContract WITH row <- rows
ImplementsContract == Contract!Spec
=============================================================================
