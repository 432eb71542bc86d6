--------------------------- MODULE PaymentContract ---------------------------
(***************************************************************************)
(* What payment-service promises about each bill (a cycle of a             *)
(* subscription), whatever threads, retries, crashes and duplicates are    *)
(* behind it:                                                              *)
(*  - the bill gets one row and one verdict, announced as it is recorded;  *)
(*  - it is recorded as approved only after the money was taken, and as    *)
(*    refunded only after an approved bill's money was returned;           *)
(*  - money is returned only for an approved bill.                         *)
(* It does not promise that a bill recorded as failed was not charged, nor *)
(* speaks of how often a gateway takes the money of one idempotency key.   *)
(***************************************************************************)

CONSTANT Bills

VARIABLES
  row,     \* [Bills -> "none" | "APPROVED" | "FAILED" | "REFUNDED"]
  money,   \* [Bills -> "none" | "taken" | "returned"]
  told     \* what has been announced: <<kind of event, bill>>

contract == <<row, money, told>>

Init ==
  /\ row = [b \in Bills |-> "none"]
  /\ money = [b \in Bills |-> "none"]
  /\ told = {}

Charge(b) ==
  /\ money[b] = "none"
  /\ money' = [money EXCEPT ![b] = "taken"]
  /\ UNCHANGED <<row, told>>

RecordApproved(b) ==
  /\ row[b] = "none"
  /\ money[b] = "taken"
  /\ row' = [row EXCEPT ![b] = "APPROVED"]
  /\ told' = told \cup {<<"PaymentCompleted", b>>}
  /\ UNCHANGED money

RecordFailed(b) ==
  /\ row[b] = "none"
  /\ row' = [row EXCEPT ![b] = "FAILED"]
  /\ told' = told \cup {<<"PaymentFailed", b>>}
  /\ UNCHANGED money

Return(b) ==
  /\ row[b] = "APPROVED"
  /\ money[b] = "taken"
  /\ money' = [money EXCEPT ![b] = "returned"]
  /\ UNCHANGED <<row, told>>

(* All the bills a cancellation refunds, in one transaction.               *)
Refund(B) ==
  /\ \A b \in B : row[b] \in {"APPROVED", "REFUNDED"} /\ money[b] = "returned"
  /\ row' = [b \in Bills |-> IF b \in B THEN "REFUNDED" ELSE row[b]]
  /\ told' = told \cup {<<"PaymentRefunded", b>> : b \in B}
  /\ UNCHANGED money

Next ==
  \/ \E b \in Bills : Charge(b) \/ RecordApproved(b) \/ RecordFailed(b) \/ Return(b)
  \/ \E B \in SUBSET Bills : Refund(B)

Spec == Init /\ [][Next]_contract
=============================================================================
