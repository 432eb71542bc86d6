------------------------------ MODULE MCAccess ------------------------------
(* Model-checking instances of Access.                                      *)
EXTENDS Access, TLC

Threads == Permutations(Requests)
=============================================================================
