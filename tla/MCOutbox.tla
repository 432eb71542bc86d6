------------------------------ MODULE MCOutbox ------------------------------
(* Model-checking instance of Outbox: model values for rows and relays.    *)
EXTENDS Outbox
=============================================================================
