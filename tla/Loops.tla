-------------------------------- MODULE Loops --------------------------------
(***************************************************************************)
(* What some loops over a sequence compute, each as a recursive function   *)
(* of the position reached.                                                *)
(***************************************************************************)
EXTENDS Naturals, Sequences

(* The positions at which s carries a member of S, in their order. *)
Positions(s, S) ==
  LET upto[n \in 0..Len(s)] ==
        IF n = 0 THEN <<>>
        ELSE IF s[n] \in S THEN Append(upto[n - 1], n) ELSE upto[n - 1]
  IN  upto[Len(s)]

(* What s carries that is no member of S, in its order. *)
Without(s, S) ==
  LET upto[n \in 0..Len(s)] ==
        IF n = 0 THEN <<>>
        ELSE IF s[n] \in S THEN upto[n - 1] ELSE Append(upto[n - 1], s[n])
  IN  upto[Len(s)]

Total(numbers) ==
  LET upto[n \in 0..Len(numbers)] == IF n = 0 THEN 0 ELSE upto[n - 1] + numbers[n]
  IN  upto[Len(numbers)]
=============================================================================
