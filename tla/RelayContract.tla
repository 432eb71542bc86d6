---------------------------- MODULE RelayContract ----------------------------
(***************************************************************************)
(* What a service may assume of its transactional outbox, seen from the    *)
(* outside: an event row is committed with the domain change, reaches the  *)
(* broker at least once after that, and is marked published only once it   *)
(* has reached the broker.  Nothing is promised about order, and a copy    *)
(* may be sent again at any time (such a copy changes nothing here).       *)
(*                                                                         *)
(* Outbox.tla is the detailed relay, shown to implement this module;       *)
(* Messaging.tla is the communication layer of the saga, built on it.      *)
(***************************************************************************)

CONSTANT Messages        \* the event rows services may write

VARIABLE row             \* how far each row has come

RowState == {"none", "pending", "sent", "published"}

TypeOK == row \in [Messages -> RowState]

Init == row = [m \in Messages |-> "none"]

(* A domain transaction commits the rows M with its own changes.           *)
Commit(M) ==
  /\ \A m \in M : row[m] = "none"
  /\ row' = [m \in Messages |-> IF m \in M THEN "pending" ELSE row[m]]

(* The broker takes the first copy of m.                                   *)
Publish(m) ==
  /\ row[m] = "pending"
  /\ row' = [row EXCEPT ![m] = "sent"]

(* A relay transaction commits its marks.                                  *)
Mark(M) ==
  /\ \A m \in M : row[m] \in {"sent", "published"}
  /\ row' = [m \in Messages |-> IF m \in M THEN "published" ELSE row[m]]

Next ==
  \/ \E M \in SUBSET Messages : Commit(M) \/ Mark(M)
  \/ \E m \in Messages : Publish(m)

(* A committed row does not stay behind for ever.                          *)
Fairness == \A m \in Messages : WF_row(Publish(m))

Safety == Init /\ [][Next]_row

Spec == Safety /\ Fairness
=============================================================================
