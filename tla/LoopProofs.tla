------------------------------ MODULE LoopProofs ------------------------------
(***************************************************************************)
(* Lemmas about loops.  A loop of the code is a recursive function of the  *)
(* position reached: LoopRuns gives the state after every turn, and Climb, *)
(* the induction by a least counterexample, carries what holds from one    *)
(* position to the next.                                                   *)
(***************************************************************************)
EXTENDS Loops, Integers, SequencesExt, FiniteSetsExt, SequenceTheorems, WellFoundedInduction, TLAPS

(* A set of numbers that is not empty has a least one.                     *)
LEMMA Least ==
  ASSUME NEW I, I \subseteq Nat, I # {}
  PROVE  \E i \in I : \A j \in I : i <= j
<1>1. PICK i \in I : \A j \in I : ~(<<j, i>> \in OpToRel(<, Nat))
  BY NatLessThanWellFounded, WFMin
<1>2. \A j \in I : i <= j
  <2> SUFFICES ASSUME NEW j \in I PROVE i <= j
    OBVIOUS
  <2>1. i \in Nat /\ j \in Nat
    OBVIOUS
  <2>2. ~(j < i)
    BY <1>1, <2>1 DEF OpToRel
  <2> QED
    BY <2>1, <2>2
<1> QED
  BY <1>2

(* A set of numbers that is not empty has Min as its least one.            *)
LEMMA LeastNumber ==
  ASSUME NEW I, I \subseteq Nat, I # {}
  PROVE  Min(I) \in I /\ \A j \in I : Min(I) <= j
  BY Least DEF Min

(* A set of numbers with a bound that is not empty has Max as its greatest.*)
LEMMA GreatestNumber ==
  ASSUME NEW N \in Nat, NEW I, I \subseteq 0..N, I # {}
  PROVE  Max(I) \in I /\ \A k \in I : k <= Max(I)
<1> DEFINE J == {N - i : i \in I}
<1>1. J \subseteq Nat
  OBVIOUS
<1>2. J # {}
  <2>1. PICK i \in I : TRUE
    OBVIOUS
  <2>2. N - i \in J
    OBVIOUS
  <2> QED
    BY <2>2
<1> HIDE DEF J
<1>3. Min(J) \in J /\ \A j \in J : Min(J) <= j
  BY <1>1, <1>2, LeastNumber
<1> USE DEF J
<1>4. PICK i \in I : Min(J) = N - i
  BY <1>3
<1>5. \A k \in I : N - i <= N - k
  BY <1>3, <1>4
<1>6. \A k \in I : i >= k
  BY <1>5
<1> HIDE DEF J
<1> QED
  BY <1>6 DEF Max

(* A set that holds 0 and, with a position, the next one, holds them all.  *)
LEMMA Climb ==
  ASSUME NEW N \in Nat, NEW I, 0 \in I, \A n \in 0..(N - 1) : n \in I => n + 1 \in I
  PROVE  \A n \in 0..N : n \in I
<1> DEFINE bad == {n \in 0..N : n \notin I}
<1>1. SUFFICES ASSUME bad # {} PROVE FALSE
  OBVIOUS
<1>2. PICK b \in bad : \A j \in bad : b <= j
  <2>1. bad \subseteq Nat
    OBVIOUS
  <2> HIDE DEF bad
  <2> QED
    BY <1>1, <2>1, Least
<1>3. b \in 1..N /\ b - 1 \in 0..(N - 1) /\ b - 1 \notin bad
  BY <1>2
<1>4. b - 1 \in I
  BY <1>3
<1> QED
  BY <1>2, <1>3, <1>4

(* f gives the state after every turn of a loop of N turns.                *)
Loop(f, start, N, turn) == f[0] = start /\ \A n \in 1..N : f[n] = turn[n][f[n - 1]]

(* A loop of N turns over a state in S runs: the function that gives the   *)
(* state after every turn exists.                                          *)
LEMMA LoopRuns ==
  ASSUME NEW S, NEW start \in S, NEW N \in Nat, NEW turn \in [1..N -> [S -> S]]
  PROVE  \E f \in [0..N -> S] : Loop(f, start, N, turn)
<1> DEFINE Ran(f, n) == f[0] = start /\ \A m \in 1..n : f[m] = turn[m][f[m - 1]]
           I == {n \in 0..N : \E f \in [0..n -> S] : Ran(f, n)}
<1>1. 0 \in I
  <2>1. [m \in 0..0 |-> start] \in [0..0 -> S] /\ Ran([m \in 0..0 |-> start], 0)
    OBVIOUS
  <2>2. \E f \in [0..0 -> S] : Ran(f, 0)
    <3> HIDE DEF Ran
    <3> QED
      BY <2>1
  <2> QED
    BY <2>2
<1>2. ASSUME NEW n \in 0..(N - 1), n \in I PROVE n + 1 \in I
  <2>1. PICK f \in [0..n -> S] : Ran(f, n)
    BY <1>2
  <2> DEFINE next == turn[n + 1][f[n]]
             g == [m \in 0..(n + 1) |-> IF m = n + 1 THEN next ELSE f[m]]
  <2>2. next \in S
    OBVIOUS
  <2>3. g \in [0..(n + 1) -> S]
    <3>1. ASSUME NEW m \in 0..(n + 1) PROVE (IF m = n + 1 THEN next ELSE f[m]) \in S
      <4>1. m = n + 1 \/ m \in 0..n
        OBVIOUS
      <4> HIDE DEF next
      <4> QED
        BY <2>2, <4>1
    <3> HIDE DEF next
    <3> QED
      BY <3>1
  <2>4. g[0] = start /\ g[n + 1] = next /\ g[n] = f[n] /\ \A m \in 0..n : g[m] = f[m]
    <3> HIDE DEF next
    <3> QED
      BY <2>1
  <2>5. ASSUME NEW m \in 1..(n + 1) PROVE g[m] = turn[m][g[m - 1]]
    <3>1. CASE m = n + 1
      <4>1. m - 1 = n
        BY <3>1
      <4> HIDE DEF g
      <4> QED
        BY <2>4, <3>1, <4>1
    <3>2. CASE m # n + 1
      <4>1. m \in 1..n /\ m \in 0..n /\ m - 1 \in 0..n
        BY <3>2
      <4> HIDE DEF g
      <4> QED
        BY <2>1, <2>4, <4>1
    <3> QED
      BY <3>1, <3>2
  <2>6. n + 1 \in 0..N
    OBVIOUS
  <2> HIDE DEF g
  <2> QED
    BY <2>3, <2>4, <2>5, <2>6
<1>3. N \in I
  <2>1. N \in 0..N
    OBVIOUS
  <2> HIDE DEF I
  <2> QED
    BY <1>1, <1>2, <2>1, Climb
<1>4. PICK f \in [0..N -> S] : Ran(f, N)
  BY <1>3
<1> QED
  BY <1>4 DEF Loop

(* A loop whose state after n turns is in fit[n].                          *)
Guided(g, start, N, body, fit) ==
  /\ g[0] = start
  /\ \A n \in 1..N : g[n] = body[n][g[n - 1]]
  /\ \A n \in 0..N : g[n] \in fit[n]

(* A loop runs if every turn leads from the states it may be met in to     *)
(* those that the next one may be met in.                                  *)
LEMMA GuidedLoop ==
  ASSUME NEW S, NEW N \in Nat, NEW fit \in [0..N -> SUBSET S], NEW start \in fit[0], NEW body,
         \A n \in 1..N : \A p \in fit[n - 1] : body[n][p] \in fit[n]
  PROVE  \E g \in [0..N -> S] : Guided(g, start, N, body, fit)
<1> DEFINE turn == [n \in 1..N |-> [p \in S |-> IF p \in fit[n - 1] THEN body[n][p] ELSE p]]
<1>1. 0 \in 0..N /\ start \in S /\ \A n \in 1..N : n \in 0..N /\ fit[n] \subseteq S
  OBVIOUS
<1>2. turn \in [1..N -> [S -> S]]
  <2>1. ASSUME NEW n \in 1..N, NEW p \in S PROVE (IF p \in fit[n - 1] THEN body[n][p] ELSE p) \in S
    BY <1>1
  <2> QED
    BY <2>1
<1>3. PICK g \in [0..N -> S] : g[0] = start /\ \A n \in 1..N : g[n] = turn[n][g[n - 1]]
  <2> HIDE DEF turn
  <2>1. \E g \in [0..N -> S] : Loop(g, start, N, turn)
    BY <1>1, <1>2, LoopRuns
  <2> QED
    BY <2>1 DEF Loop
<1>4. ASSUME NEW n \in 1..N, g[n - 1] \in fit[n - 1] PROVE g[n] = body[n][g[n - 1]] /\ g[n] \in fit[n]
  <2>1. n - 1 \in 0..N
    OBVIOUS
  <2>2. g[n - 1] \in S
    <3> HIDE DEF turn
    <3> QED
      BY <2>1
  <2> QED
    BY <1>3, <1>4, <2>2
<1> HIDE DEF turn
<1> DEFINE I == {n \in 0..N : g[n] \in fit[n]}
<1>5. 0 \in I
  BY <1>1, <1>3
<1>6. ASSUME NEW n \in 0..(N - 1), n \in I PROVE n + 1 \in I
  <2>1. n + 1 \in 0..N /\ n + 1 \in 1..N /\ (n + 1) - 1 = n
    OBVIOUS
  <2> DEFINE m == n + 1
  <2>2. g[m - 1] \in fit[m - 1] /\ m \in 1..N /\ m \in 0..N
    BY <1>6, <2>1
  <2> HIDE DEF m
  <2>3. g[m] \in fit[m]
    BY <1>4, <2>2
  <2> QED
    BY <2>2, <2>3 DEF m
<1>7. \A n \in 0..N : n \in I
  <2> HIDE DEF I
  <2> QED
    BY <1>5, <1>6, Climb
<1>8. \A n \in 1..N : g[n] = body[n][g[n - 1]]
  <2>1. \A n \in 1..N : n - 1 \in 0..N
    OBVIOUS
  <2> QED
    BY <1>4, <1>7, <2>1
<1> QED
  BY <1>3, <1>7, <1>8 DEF Guided

(* One item is a sequence.                                                 *)
LEMMA OneItem == ASSUME NEW S, NEW e \in S PROVE <<e>> \in Seq(S)
  OBVIOUS

(* Joining sequences may be regrouped.                                     *)
Regroups(T) == \A u, v, w \in Seq(T) : (u \o v) \o w = u \o (v \o w)

LEMMA Regrouped == ASSUME NEW T PROVE Regroups(T)
  BY SMTT(30), ConcatAssociative DEF Regroups

(* A part of a sequence is a sequence of the same things.                  *)
LEMMA PartTyped ==
  ASSUME NEW T, NEW t \in Seq(T), NEW m \in Nat \ {0}, NEW n \in 0..Len(t)
  PROVE  SubSeq(t, m, n) \in Seq(T)
<1>1. \A i \in m..n : t[i] \in T
  OBVIOUS
<1> QED
  BY <1>1, SubSeqProperties

(* Where its elements come from.                                           *)
LEMMA PartFacts ==
  ASSUME NEW T, NEW t \in Seq(T), NEW n \in 0..Len(t), NEW m \in 0..n
  PROVE  /\ SubSeq(t, m + 1, n) \in Seq(T) /\ Len(SubSeq(t, m + 1, n)) = n - m
         /\ \A i \in 1..(n - m) : m + i \in 1..n /\ SubSeq(t, m + 1, n)[i] = t[m + i]
<1>1. Len(t) \in Nat /\ n \in Nat /\ m \in Nat /\ n <= Len(t) /\ m <= n
  OBVIOUS
<1> DEFINE k == m + 1
<1>2. k \in Int /\ n \in Int /\ \A i \in k..n : t[i] \in T
  BY <1>1
<1>3. k = m + 1
  OBVIOUS
<1> HIDE DEF k
<1>4. /\ SubSeq(t, k, n) \in Seq(T)
      /\ Len(SubSeq(t, k, n)) = IF k <= n THEN n - k + 1 ELSE 0
      /\ \A i \in 1..(n - k + 1) : SubSeq(t, k, n)[i] = t[k + i - 1]
  BY <1>2, SubSeqProperties
<1>5. ASSUME NEW i \in 1..(n - m)
      PROVE  m + i \in 1..n /\ SubSeq(t, k, n)[i] = t[m + i]
  <2>1. i \in 1..(n - k + 1) /\ k + i - 1 = m + i /\ m + i \in 1..n
    BY <1>1, <1>3
  <2> QED
    BY <1>4, <2>1
<1>6. Len(SubSeq(t, k, n)) = n - m
  BY <1>1, <1>3, <1>4
<1> QED
  BY <1>3, <1>4, <1>5, <1>6

(* A part that takes in one element more.                                  *)
LEMMA PartGrows ==
  ASSUME NEW T, NEW t \in Seq(T), NEW n \in 0..(Len(t) - 1), NEW k \in 1..(n + 1)
  PROVE  SubSeq(t, k, n + 1) = SubSeq(t, k, n) \o <<t[n + 1]>>
<1> DEFINE N == Len(t)  m == n + 1
<1>1. /\ N \in Nat /\ m = n + 1 /\ m \in 1..N /\ m \in 0..N /\ n \in Nat /\ n \in 0..m /\ m - n = 1
      /\ n \in (k - 1)..N /\ m \in n..N /\ k \in 1..(N + 1) /\ t[m] \in T
  OBVIOUS
<1> HIDE DEF m
<1>2. SubSeq(t, k, n) \o SubSeq(t, n + 1, m) = SubSeq(t, k, m)
  BY <1>1, ConcatAdjacentSubSeq
<1>3. /\ SubSeq(t, n + 1, m) \in Seq(T) /\ Len(SubSeq(t, n + 1, m)) = m - n
      /\ \A i \in 1..(m - n) : n + i \in 1..m /\ SubSeq(t, n + 1, m)[i] = t[n + i]
  BY <1>1, PartFacts
<1> DEFINE s == SubSeq(t, n + 1, m)  one == <<t[m]>>
<1>4. s \in Seq(T) /\ Len(s) = 1
  BY <1>1, <1>3
<1>5. s[1] = t[m]
  <2>1. 1 \in 1..(m - n)
    BY <1>1
  <2> QED
    BY <1>1, <1>3, <2>1
<1>6. one \in Seq(T) /\ Len(one) = 1 /\ one[1] = t[m]
  BY <1>1, OneItem
<1> HIDE DEF s, one
<1>7. s = one
  <2>1. \A i \in 1..1 : s[i] = one[i]
    BY <1>5, <1>6
  <2> QED
    BY <1>4, <1>6, <2>1, SeqEqual
<1> QED
  BY <1>1, <1>2, <1>7 DEF s, one

(* A sequence cut in two is its two parts in a row.                        *)
LEMMA CutInTwo ==
  ASSUME NEW T, NEW t \in Seq(T), NEW m \in 0..Len(t)
  PROVE  /\ SubSeq(t, 1, m) \in Seq(T) /\ SubSeq(t, m + 1, Len(t)) \in Seq(T)
         /\ SubSeq(t, 1, m) \o SubSeq(t, m + 1, Len(t)) = t
<1>1. Len(t) \in Nat /\ m \in Nat /\ m <= Len(t)
  OBVIOUS
<1>2. SubSeq(t, 1, m) \in Seq(T) /\ SubSeq(t, m + 1, Len(t)) \in Seq(T)
  <2>1. m + 1 \in Nat \ {0} /\ Len(t) \in 0..Len(t)
    BY <1>1
  <2> QED
    BY <2>1, PartTyped
<1>3. SubSeq(t, 1, m) \o SubSeq(t, m + 1, Len(t)) = t
  <2>1. 1 \in 1..(Len(t) + 1) /\ m \in (1 - 1)..Len(t) /\ Len(t) \in m..Len(t)
    BY <1>1
  <2>2. SubSeq(t, 1, m) \o SubSeq(t, m + 1, Len(t)) = SubSeq(t, 1, Len(t))
    BY <2>1, ConcatAdjacentSubSeq
  <2> QED
    BY <2>2, SubSeqFull
<1> QED
  BY <1>2, <1>3

(* Positions is such a loop, over positions that are kept or passed by.    *)
LEMMA PositionsLoop ==
  ASSUME NEW T, NEW s \in Seq(T), NEW S
  PROVE  \E upto \in [0..Len(s) -> Seq(Nat)] :
           /\ Positions(s, S) = upto[Len(s)]
           /\ upto[0] = <<>>
           /\ \A n \in 1..Len(s) :
                upto[n] = IF s[n] \in S THEN Append(upto[n - 1], n) ELSE upto[n - 1]
<1> DEFINE N == Len(s)
           turn == [n \in 1..N |-> [p \in Seq(Nat) |-> IF s[n] \in S THEN Append(p, n) ELSE p]]
<1>0. N \in Nat /\ <<>> \in Seq(Nat)
  OBVIOUS
<1>1. turn \in [1..N -> [Seq(Nat) -> Seq(Nat)]]
  <2>1. ASSUME NEW n \in 1..N, NEW p \in Seq(Nat) PROVE Append(p, n) \in Seq(Nat)
    BY AppendProperties
  <2> QED
    BY <2>1
<1>2. PICK g \in [0..N -> Seq(Nat)] :
        g[0] = <<>> /\ \A n \in 1..N : g[n] = turn[n][g[n - 1]]
  <2> DEFINE states == Seq(Nat)  start == <<>>
  <2>1. N \in Nat /\ start \in states /\ turn \in [1..N -> [states -> states]]
    BY <1>0, <1>1
  <2> HIDE DEF N, turn, states, start
  <2>2. \E g \in [0..N -> states] : Loop(g, start, N, turn)
    BY <2>1, LoopRuns
  <2> QED
    BY <2>2 DEF Loop, states, start
<1>3. g = [n \in 0..N |-> IF n = 0 THEN <<>>
                          ELSE IF s[n] \in S THEN Append(g[n - 1], n) ELSE g[n - 1]]
  <2>1. ASSUME NEW n \in 1..N
        PROVE  turn[n][g[n - 1]] = IF s[n] \in S THEN Append(g[n - 1], n) ELSE g[n - 1]
    <3>1. n - 1 \in 0..N /\ g[n - 1] \in Seq(Nat)
      BY <1>0
    <3> QED
      BY <3>1
  <2>2. ASSUME NEW n \in 0..N
        PROVE  g[n] = IF n = 0 THEN <<>>
                      ELSE IF s[n] \in S THEN Append(g[n - 1], n) ELSE g[n - 1]
    <3>1. n = 0 \/ n \in 1..N
      BY SMTT(30), <1>0
    <3> HIDE DEF turn, N
    <3> QED
      BY <1>2, <2>1, <3>1
  <2> HIDE DEF turn, N
  <2> QED
    BY <2>2
<1> DEFINE upto[n \in 0..N] ==
             IF n = 0 THEN <<>>
             ELSE IF s[n] \in S THEN Append(upto[n - 1], n) ELSE upto[n - 1]
<1>4. upto = [n \in 0..N |-> IF n = 0 THEN <<>>
                             ELSE IF s[n] \in S THEN Append(upto[n - 1], n) ELSE upto[n - 1]]
  BY <1>3
<1>5. Positions(s, S) = upto[N]
  BY DEF Positions
<1> HIDE DEF upto, N, turn
<1>6. \A n \in 0..N : n \in {m \in 0..N : upto[m] \in Seq(Nat)}
  <2> DEFINE I == {m \in 0..N : upto[m] \in Seq(Nat)}
  <2>1. 0 \in I
    <3>1. 0 \in 0..N /\ upto[0] = <<>>
      BY <1>0, <1>4
    <3> QED
      BY <1>0, <3>1
  <2>2. ASSUME NEW n \in 0..(N - 1), n \in I PROVE n + 1 \in I
    <3>1. /\ n + 1 \in 0..N /\ n + 1 # 0 /\ (n + 1) - 1 = n /\ n + 1 \in Nat
      BY <1>0
    <3>2. upto[n + 1] = IF s[n + 1] \in S THEN Append(upto[n], n + 1) ELSE upto[n]
      BY <1>4, <3>1
    <3>3. upto[n] \in Seq(Nat)
      BY <2>2
    <3>4. Append(upto[n], n + 1) \in Seq(Nat)
      BY <3>1, <3>3, AppendProperties
    <3> QED
      BY <3>1, <3>2, <3>3, <3>4
  <2> HIDE DEF I
  <2>3. \A n \in 0..N : n \in I
    BY <1>0, <2>1, <2>2, Climb
  <2> QED
    BY <2>3 DEF I
<1>7. upto \in [0..N -> Seq(Nat)]
  BY <1>4, <1>6
<1>8. upto[0] = <<>>
  BY <1>0, <1>4
<1>9. ASSUME NEW n \in 1..N
      PROVE  upto[n] = IF s[n] \in S THEN Append(upto[n - 1], n) ELSE upto[n - 1]
  <2>1. n \in 0..N /\ n # 0
    BY <1>0
  <2> QED
    BY <1>4, <2>1
<1> QED
  BY <1>5, <1>7, <1>8, <1>9 DEF N

(* What is kept is in S, nothing is kept twice over the length, and        *)
(* everything is kept, in its place, exactly when all of it is in S.       *)
LEMMA PositionsFacts ==
  ASSUME NEW T, NEW s \in Seq(T), NEW S
  PROVE  /\ Positions(s, S) \in Seq(Nat) /\ Len(Positions(s, S)) <= Len(s)
         /\ \A k \in 1..Len(Positions(s, S)) :
              Positions(s, S)[k] \in 1..Len(s) /\ s[Positions(s, S)[k]] \in S
         /\ (\A k \in 1..Len(s) : s[k] \in S) => Positions(s, S) = [k \in 1..Len(s) |-> k]
         /\ (\E k \in 1..Len(s) : s[k] \notin S) => Len(Positions(s, S)) < Len(s)
<1> DEFINE N == Len(s)
<1>0. N \in Nat
  OBVIOUS
<1>1. PICK upto \in [0..N -> Seq(Nat)] :
        /\ Positions(s, S) = upto[N] /\ upto[0] = <<>>
        /\ \A n \in 1..N : upto[n] = IF s[n] \in S THEN Append(upto[n - 1], n) ELSE upto[n - 1]
  BY PositionsLoop
<1> DEFINE Fits(n) == /\ Len(upto[n]) <= n
                      /\ \A k \in 1..Len(upto[n]) : upto[n][k] \in 1..n /\ s[upto[n][k]] \in S
                      /\ (\A k \in 1..n : s[k] \in S) => upto[n] = [k \in 1..n |-> k]
                      /\ (\E k \in 1..n : s[k] \notin S) => Len(upto[n]) < n
           I == {n \in 0..N : Fits(n)}
<1> HIDE DEF N
<1>2. 0 \in I
  BY <1>0, <1>1
<1>3. ASSUME NEW n \in 0..(N - 1), n \in I PROVE n + 1 \in I
  <2>1. /\ n \in 0..N /\ n + 1 \in 1..N /\ n + 1 \in 0..N /\ (n + 1) - 1 = n /\ n \in Nat
        /\ upto[n] \in Seq(Nat) /\ n + 1 \in Nat /\ Len(upto[n]) \in Nat
    BY <1>0
  <2>2. Fits(n)
    BY <1>3
  <2>3. upto[n + 1] = IF s[n + 1] \in S THEN Append(upto[n], n + 1) ELSE upto[n]
    BY <1>1, <2>1
  <2>4. CASE s[n + 1] \notin S
    <3>1. upto[n + 1] = upto[n]
      BY <2>3, <2>4
    <3>2. Len(upto[n]) < n + 1 /\ ~\A k \in 1..(n + 1) : s[k] \in S
      BY <2>1, <2>2, <2>4
    <3>3. \A k \in 1..Len(upto[n]) : upto[n][k] \in 1..(n + 1) /\ s[upto[n][k]] \in S
      BY <2>1, <2>2
    <3> QED
      BY <2>1, <3>1, <3>2, <3>3
  <2>5. CASE s[n + 1] \in S
    <3> DEFINE L == Len(upto[n])
    <3>1. /\ upto[n + 1] = Append(upto[n], n + 1) /\ Len(upto[n + 1]) = L + 1
          /\ \A k \in 1..L : upto[n + 1][k] = upto[n][k]
          /\ upto[n + 1][L + 1] = n + 1
          /\ upto[n + 1] \in Seq(Nat)
      BY <2>1, <2>3, <2>5, AppendProperties
    <3>2. \A k \in 1..(L + 1) : k \in 1..L \/ k = L + 1
      BY <2>1
    <3>3. ASSUME NEW k \in 1..Len(upto[n + 1])
          PROVE  upto[n + 1][k] \in 1..(n + 1) /\ s[upto[n + 1][k]] \in S
      <4>1. CASE k = L + 1
        BY <2>1, <2>5, <3>1, <4>1
      <4>2. CASE k \in 1..L
        <5>1. upto[n][k] \in 1..n /\ s[upto[n][k]] \in S /\ upto[n + 1][k] = upto[n][k]
          BY <2>2, <3>1, <4>2
        <5> QED
          BY <2>1, <5>1
      <4> QED
        BY <3>1, <3>2, <4>1, <4>2
    <3>4. ASSUME \A k \in 1..(n + 1) : s[k] \in S
          PROVE  upto[n + 1] = [k \in 1..(n + 1) |-> k]
      <4>1. upto[n] = [k \in 1..n |-> k]
        BY <2>1, <2>2, <3>4
      <4>2. L = n
        BY <2>1, <4>1
      <4>3. \A k \in 1..(n + 1) : upto[n + 1][k] = k
        BY <2>1, <3>1, <3>2, <4>1, <4>2
      <4>4. DOMAIN upto[n + 1] = 1..(n + 1) /\ upto[n + 1] = [k \in 1..(n + 1) |-> upto[n + 1][k]]
        BY <2>1, <3>1, <4>2
      <4> QED
        BY <4>3, <4>4
    <3>5. ASSUME \E k \in 1..(n + 1) : s[k] \notin S
          PROVE  Len(upto[n + 1]) < n + 1
      <4>1. \E k \in 1..n : s[k] \notin S
        BY <2>1, <2>5, <3>5
      <4> QED
        BY <2>1, <2>2, <3>1, <4>1
    <3>6. Len(upto[n + 1]) <= n + 1
      BY <2>1, <2>2, <3>1
    <3> HIDE DEF L
    <3> QED
      BY <2>1, <3>3, <3>4, <3>5, <3>6
  <2> QED
    BY <2>4, <2>5
<1>4. N \in I
  <2>1. N \in 0..N
    BY <1>0
  <2> HIDE DEF I
  <2> QED
    BY <1>0, <1>2, <1>3, <2>1, Climb
<1>5. Fits(N) /\ upto[N] \in Seq(Nat)
  BY <1>0, <1>4
<1> QED
  BY <1>1, <1>5 DEF N

(* Total is such a loop.                                                   *)
LEMMA TotalLoop ==
  ASSUME NEW numbers \in Seq(Nat)
  PROVE  \E upto \in [0..Len(numbers) -> Nat] :
           /\ Total(numbers) = upto[Len(numbers)]
           /\ upto[0] = 0
           /\ \A n \in 1..Len(numbers) : upto[n] = upto[n - 1] + numbers[n]
<1> DEFINE N == Len(numbers)
           turn == [n \in 1..N |-> [p \in Nat |-> p + numbers[n]]]
<1>0. N \in Nat /\ \A n \in 1..N : numbers[n] \in Nat
  OBVIOUS
<1>1. turn \in [1..N -> [Nat -> Nat]]
  BY <1>0
<1>2. PICK g \in [0..N -> Nat] : g[0] = 0 /\ \A n \in 1..N : g[n] = turn[n][g[n - 1]]
  <2>1. \E g \in [0..N -> Nat] : Loop(g, 0, N, turn)
    <3> HIDE DEF N, turn
    <3> QED
      BY <1>0, <1>1, LoopRuns
  <2> QED
    BY <2>1 DEF Loop
<1>3. g = [n \in 0..N |-> IF n = 0 THEN 0 ELSE g[n - 1] + numbers[n]]
  <2>1. ASSUME NEW n \in 1..N PROVE turn[n][g[n - 1]] = g[n - 1] + numbers[n]
    <3>1. n - 1 \in 0..N /\ g[n - 1] \in Nat
      <4> HIDE DEF N, turn
      <4> QED
        BY <1>0
    <3> QED
      BY <3>1
  <2>2. ASSUME NEW n \in 0..N PROVE g[n] = IF n = 0 THEN 0 ELSE g[n - 1] + numbers[n]
    <3>1. n = 0 \/ n \in 1..N
      BY <1>0
    <3> HIDE DEF turn, N
    <3> QED
      BY <1>2, <2>1, <3>1
  <2> HIDE DEF turn, N
  <2> QED
    BY <2>2
<1> DEFINE upto[n \in 0..N] == IF n = 0 THEN 0 ELSE upto[n - 1] + numbers[n]
<1>4. upto = [n \in 0..N |-> IF n = 0 THEN 0 ELSE upto[n - 1] + numbers[n]]
  BY <1>3
<1>5. Total(numbers) = upto[N]
  BY DEF Total
<1> HIDE DEF upto, N, turn
<1>6. upto[0] = 0
  BY <1>0, <1>4
<1>7. ASSUME NEW n \in 1..N PROVE upto[n] = upto[n - 1] + numbers[n]
  <2>1. n \in 0..N /\ n # 0
    BY <1>0
  <2> QED
    BY <1>4, <2>1
<1>8. \A n \in 0..N : n \in {m \in 0..N : upto[m] \in Nat}
  <2> DEFINE I == {m \in 0..N : upto[m] \in Nat}
  <2>1. 0 \in I
    BY <1>0, <1>6
  <2>2. ASSUME NEW n \in 0..(N - 1), n \in I PROVE n + 1 \in I
    <3>1. n + 1 \in 0..N /\ n + 1 \in 1..N /\ (n + 1) - 1 = n
      BY <1>0
    <3> QED
      <4>1. upto[n + 1] = upto[n] + numbers[n + 1] /\ numbers[n + 1] \in Nat /\ upto[n] \in Nat
        BY <1>0, <1>7, <2>2, <3>1
      <4> QED
        BY <3>1, <4>1
  <2> HIDE DEF I
  <2>3. \A n \in 0..N : n \in I
    BY <1>0, <2>1, <2>2, Climb
  <2> QED
    BY <2>3 DEF I
<1>9. upto \in [0..N -> Nat]
  BY <1>4, <1>8
<1> QED
  BY <1>5, <1>6, <1>7, <1>9 DEF N

(* No numbers add up to 0, and numbers add up to a number.                 *)
LEMMA TotalFacts ==
  /\ Total(<<>>) = 0
  /\ \A numbers \in Seq(Nat) : Total(numbers) \in Nat
<1>1. ASSUME NEW numbers \in Seq(Nat) PROVE Total(numbers) \in Nat
  <2>1. PICK f \in [0..Len(numbers) -> Nat] : Total(numbers) = f[Len(numbers)]
    BY TotalLoop
  <2>2. Len(numbers) \in 0..Len(numbers)
    OBVIOUS
  <2> QED
    BY <2>1, <2>2
<1>2. <<>> \in Seq(Nat) /\ Len(<<>>) = 0
  OBVIOUS
<1>3. Total(<<>>) = 0
  BY <1>2, TotalLoop
<1> QED
  BY <1>1, <1>3

(* One number more is added.                                               *)
LEMMA TotalAppend ==
  ASSUME NEW numbers \in Seq(Nat), NEW x \in Nat
  PROVE  Total(Append(numbers, x)) = Total(numbers) + x
<1> DEFINE N == Len(numbers)
           more == Append(numbers, x)
<1>1. /\ N \in Nat /\ more \in Seq(Nat) /\ Len(more) = N + 1 /\ more[N + 1] = x
      /\ \A n \in 1..N : more[n] = numbers[n]
  BY AppendProperties
<1>2. PICK f \in [0..N -> Nat] :
        /\ Total(numbers) = f[N] /\ f[0] = 0
        /\ \A n \in 1..N : f[n] = f[n - 1] + numbers[n]
  BY TotalLoop
<1> HIDE DEF N, more
<1>3. PICK g \in [0..(N + 1) -> Nat] :
        /\ Total(more) = g[N + 1] /\ g[0] = 0
        /\ \A n \in 1..(N + 1) : g[n] = g[n - 1] + more[n]
  <2>1. \E g \in [0..Len(more) -> Nat] :
          /\ Total(more) = g[Len(more)] /\ g[0] = 0
          /\ \A n \in 1..Len(more) : g[n] = g[n - 1] + more[n]
    BY <1>1, TotalLoop
  <2> QED
    BY <1>1, <2>1
<1> DEFINE I == {n \in 0..N : g[n] = f[n]}
<1>4. 0 \in I
  BY <1>1, <1>2, <1>3
<1>5. ASSUME NEW n \in 0..(N - 1), n \in I PROVE n + 1 \in I
  <2>1. n + 1 \in 0..N /\ n + 1 \in 1..N /\ n + 1 \in 1..(N + 1) /\ (n + 1) - 1 = n
    BY <1>1
  <2>2. g[n + 1] = g[n] + more[n + 1] /\ f[n + 1] = f[n] + numbers[n + 1]
    BY <1>2, <1>3, <2>1
  <2> QED
    BY <1>1, <1>5, <2>1, <2>2
<1>6. N \in I
  <2>1. N \in 0..N
    BY <1>1
  <2> HIDE DEF I
  <2> QED
    BY <1>1, <1>4, <1>5, <2>1, Climb
<1>7. N + 1 \in 1..(N + 1) /\ (N + 1) - 1 = N
  BY <1>1
<1>8. g[N + 1] = g[N] + more[N + 1]
  BY <1>3, <1>7
<1> QED
  BY <1>1, <1>2, <1>3, <1>6, <1>8 DEF more

(* The total of two sequences in a row is the sum of their totals.         *)
LEMMA TotalOfBoth ==
  ASSUME NEW a \in Seq(Nat), NEW b \in Seq(Nat)
  PROVE  Total(a \o b) = Total(a) + Total(b)
<1> DEFINE K == Len(a)  N == Len(b)  c == a \o b
<1>1. /\ K \in Nat /\ N \in Nat /\ c \in Seq(Nat) /\ Len(c) = K + N
      /\ \A i \in 1..K : c[i] = a[i]
      /\ \A i \in 1..N : c[K + i] = b[i]
      /\ \A i \in 1..N : b[i] \in Nat
  <2>1. /\ c \in Seq(Nat) /\ Len(c) = K + N /\ K \in Nat /\ N \in Nat
        /\ \A i \in 1..(K + N) : c[i] = IF i <= K THEN a[i] ELSE b[i - K]
        /\ \A i \in 1..N : b[i] \in Nat
    BY ConcatProperties
  <2> HIDE DEF K, N, c
  <2> QED
    BY <2>1
<1>2. PICK f \in [0..K -> Nat] :
        Total(a) = f[K] /\ f[0] = 0 /\ \A n \in 1..K : f[n] = f[n - 1] + a[n]
  BY TotalLoop
<1>3. PICK g \in [0..N -> Nat] :
        Total(b) = g[N] /\ g[0] = 0 /\ \A n \in 1..N : g[n] = g[n - 1] + b[n]
  BY TotalLoop
<1> HIDE DEF K, N, c
<1>4. PICK h \in [0..(K + N) -> Nat] :
        Total(c) = h[K + N] /\ h[0] = 0 /\ \A n \in 1..(K + N) : h[n] = h[n - 1] + c[n]
  <2>1. \E h \in [0..Len(c) -> Nat] :
          Total(c) = h[Len(c)] /\ h[0] = 0 /\ \A n \in 1..Len(c) : h[n] = h[n - 1] + c[n]
    <3>1. c \in Seq(Nat)
      BY <1>1
    <3> QED
      BY <3>1, TotalLoop
  <2> QED
    BY <1>1, <2>1
<1> DEFINE I == {n \in 0..K : h[n] = f[n]}
           J == {n \in 0..N : h[K + n] = f[K] + g[n]}
<1>5. 0 \in I
  BY <1>1, <1>2, <1>4
<1>6. ASSUME NEW n \in 0..(K - 1), n \in I PROVE n + 1 \in I
  <2>1. n + 1 \in 0..K /\ n + 1 \in 1..K /\ n + 1 \in 1..(K + N) /\ (n + 1) - 1 = n
    BY <1>1
  <2>2. f[n + 1] = f[n] + a[n + 1] /\ h[n + 1] = h[n] + c[n + 1]
    BY <1>2, <1>4, <2>1
  <2> QED
    BY <1>1, <1>6, <2>1, <2>2
<1>7. h[K] = f[K] /\ f[K] \in Nat
  <2>1. K \in 0..K
    BY <1>1
  <2>2. K \in I
    <3> HIDE DEF I
    <3> QED
      BY <1>1, <1>5, <1>6, <2>1, Climb
  <2> QED
    BY <1>2, <2>1, <2>2
<1>8. 0 \in J
  BY <1>1, <1>3, <1>7
<1>9. ASSUME NEW n \in 0..(N - 1), n \in J PROVE n + 1 \in J
  <2>1. /\ n + 1 \in 0..N /\ n + 1 \in 1..N /\ K + (n + 1) \in 1..(K + N)
        /\ (n + 1) - 1 = n /\ (K + (n + 1)) - 1 = K + n /\ n \in 0..N
    BY <1>1
  <2>2. g[n + 1] = g[n] + b[n + 1] /\ h[K + (n + 1)] = h[K + n] + c[K + (n + 1)]
    BY <1>3, <1>4, <2>1
  <2>3. c[K + (n + 1)] = b[n + 1] /\ h[K + n] = f[K] + g[n]
    BY <1>1, <1>9, <2>1
  <2>4. g[n] \in Nat /\ b[n + 1] \in Nat
    BY <1>1, <2>1
  <2>5. h[K + (n + 1)] = f[K] + g[n + 1]
    BY <1>7, <2>2, <2>3, <2>4
  <2> QED
    BY <2>1, <2>5
<1>10. N \in J
  <2>1. N \in 0..N
    BY <1>1
  <2> HIDE DEF J
  <2> QED
    BY <1>1, <1>8, <1>9, <2>1, Climb
<1> QED
  BY <1>2, <1>3, <1>4, <1>10 DEF c

(* Without is such a loop, over what is left out and what is appended.     *)
Leaving(f, s, S) ==
  /\ f[0] = <<>>
  /\ \A n \in 1..Len(s) : f[n] = IF s[n] \in S THEN f[n - 1] ELSE Append(f[n - 1], s[n])

(* The loop that leaves members out, turn by turn.                         *)
LEMMA WithoutLoop ==
  ASSUME NEW T, NEW s \in Seq(T), NEW S
  PROVE  \E upto \in [0..Len(s) -> Seq(T)] :
           Without(s, S) = upto[Len(s)] /\ Leaving(upto, s, S)
<1> DEFINE N == Len(s)
           turn == [n \in 1..N |-> [p \in Seq(T) |-> IF s[n] \in S THEN p ELSE Append(p, s[n])]]
<1>0. N \in Nat /\ <<>> \in Seq(T) /\ \A n \in 1..N : s[n] \in T
  OBVIOUS
<1>1. turn \in [1..N -> [Seq(T) -> Seq(T)]]
  <2>1. ASSUME NEW n \in 1..N, NEW p \in Seq(T) PROVE Append(p, s[n]) \in Seq(T)
    BY <1>0, AppendProperties
  <2> QED
    BY <2>1
<1>2. PICK g \in [0..N -> Seq(T)] : g[0] = <<>> /\ \A n \in 1..N : g[n] = turn[n][g[n - 1]]
  <2> DEFINE states == Seq(T)  start == <<>>
  <2>1. N \in Nat /\ start \in states /\ turn \in [1..N -> [states -> states]]
    BY <1>0, <1>1
  <2> HIDE DEF N, turn, states, start
  <2>2. \E g \in [0..N -> states] : Loop(g, start, N, turn)
    BY <2>1, LoopRuns
  <2> QED
    BY <2>2 DEF Loop, states, start
<1>3. g = [n \in 0..N |-> IF n = 0 THEN <<>>
                          ELSE IF s[n] \in S THEN g[n - 1] ELSE Append(g[n - 1], s[n])]
  <2>1. ASSUME NEW n \in 1..N
        PROVE  turn[n][g[n - 1]] = IF s[n] \in S THEN g[n - 1] ELSE Append(g[n - 1], s[n])
    <3>1. n - 1 \in 0..N /\ g[n - 1] \in Seq(T)
      <4> HIDE DEF N, turn
      <4> QED
        BY <1>0
    <3> QED
      BY <3>1
  <2>2. ASSUME NEW n \in 0..N
        PROVE  g[n] = IF n = 0 THEN <<>>
                      ELSE IF s[n] \in S THEN g[n - 1] ELSE Append(g[n - 1], s[n])
    <3>1. n = 0 \/ n \in 1..N
      BY <1>0
    <3> HIDE DEF turn, N
    <3> QED
      BY <1>2, <2>1, <3>1
  <2> HIDE DEF turn, N
  <2> QED
    BY <2>2
<1> DEFINE upto[n \in 0..N] ==
             IF n = 0 THEN <<>>
             ELSE IF s[n] \in S THEN upto[n - 1] ELSE Append(upto[n - 1], s[n])
<1>4. upto = [n \in 0..N |-> IF n = 0 THEN <<>>
                             ELSE IF s[n] \in S THEN upto[n - 1] ELSE Append(upto[n - 1], s[n])]
  BY <1>3
<1>5. Without(s, S) = upto[N]
  BY DEF Without
<1> HIDE DEF upto, N, turn
<1>6. upto[0] = <<>>
  BY <1>0, <1>4
<1>7. ASSUME NEW n \in 1..N
      PROVE  upto[n] = IF s[n] \in S THEN upto[n - 1] ELSE Append(upto[n - 1], s[n])
  <2>1. n \in 0..N /\ n # 0
    BY <1>0
  <2> QED
    BY <1>4, <2>1
<1> DEFINE I == {m \in 0..N : upto[m] \in Seq(T)}
<1>8. 0 \in I
  <2>1. 0 \in 0..N
    BY <1>0
  <2>2. upto[0] \in Seq(T)
    BY <1>0, <1>6
  <2> QED
    BY <2>1, <2>2
<1>9. ASSUME NEW n \in 0..(N - 1), n \in I PROVE n + 1 \in I
  <2>1. /\ n + 1 \in 0..N /\ n + 1 \in 1..N /\ (n + 1) - 1 = n
    BY <1>0
  <2>2. upto[n + 1] = IF s[n + 1] \in S THEN upto[n] ELSE Append(upto[n], s[n + 1])
    BY <1>7, <2>1
  <2>3. upto[n] \in Seq(T) /\ s[n + 1] \in T
    BY <1>0, <1>9, <2>1
  <2>4. Append(upto[n], s[n + 1]) \in Seq(T)
    BY <2>3, AppendProperties
  <2> QED
    BY <2>1, <2>2, <2>3, <2>4
<1>10. \A n \in 0..N : n \in I
  <2> HIDE DEF I
  <2> QED
    BY <1>0, <1>8, <1>9, Climb
<1>11. upto \in [0..N -> Seq(T)]
  BY <1>4, <1>10
<1> QED
  BY <1>5, <1>6, <1>7, <1>11 DEF N, Leaving

(* What is left is a sequence of the same things.                          *)
LEMMA WithoutTyped == ASSUME NEW T, NEW s \in Seq(T), NEW S PROVE Without(s, S) \in Seq(T)
<1>1. PICK f \in [0..Len(s) -> Seq(T)] : Without(s, S) = f[Len(s)]
  BY WithoutLoop
<1>2. Len(s) \in 0..Len(s)
  OBVIOUS
<1> QED
  BY <1>1, <1>2

(* S alone are no words.                                               *)
LEMMA NothingLeft ==
  ASSUME NEW T, NEW s \in Seq(T), NEW S, \A i \in 1..Len(s) : s[i] \in S
  PROVE  Without(s, S) = <<>>
<1> DEFINE N == Len(s)
<1>0. N \in Nat
  OBVIOUS
<1>1. PICK f \in [0..N -> Seq(T)] :
        /\ Without(s, S) = f[N] /\ f[0] = <<>>
        /\ \A n \in 1..N : f[n] = IF s[n] \in S THEN f[n - 1] ELSE Append(f[n - 1], s[n])
  <2>1. PICK x \in [0..Len(s) -> Seq(T)] : Without(s, S) = x[Len(s)] /\ Leaving(x, s, S)
    BY WithoutLoop
  <2> QED
    BY <2>1 DEF Leaving
<1> HIDE DEF N
<1> DEFINE I == {n \in 0..N : f[n] = <<>>}
<1>2. 0 \in I
  BY <1>0, <1>1
<1>3. ASSUME NEW n \in 0..(N - 1), n \in I PROVE n + 1 \in I
  <2>1. n + 1 \in 0..N /\ n + 1 \in 1..N /\ (n + 1) - 1 = n
    BY <1>0
  <2>2. f[n + 1] = f[n]
    BY <1>1, <2>1 DEF N
  <2> QED
    BY <1>3, <2>1, <2>2
<1>4. N \in I
  <2>1. N \in 0..N
    BY <1>0
  <2> HIDE DEF I
  <2> QED
    BY <1>0, <1>2, <1>3, <2>1, Climb
<1> QED
  BY <1>1, <1>4

(* What is left of two sequences in a row is what is left of the one and   *)
(* then of the other.                                                      *)
LEMMA WithoutOfBoth ==
  ASSUME NEW T, NEW a \in Seq(T), NEW b \in Seq(T), NEW S
  PROVE  Without(a \o b, S) = Without(a, S) \o Without(b, S)
<1> DEFINE K == Len(a)  N == Len(b)  c == a \o b
<1>1. /\ K \in Nat /\ N \in Nat /\ c \in Seq(T) /\ Len(c) = K + N
      /\ \A i \in 1..K : c[i] = a[i]
      /\ \A i \in 1..N : c[K + i] = b[i]
  <2>1. /\ c \in Seq(T) /\ Len(c) = K + N /\ K \in Nat /\ N \in Nat
        /\ \A i \in 1..(K + N) : c[i] = IF i <= K THEN a[i] ELSE b[i - K]
    BY ConcatProperties
  <2> HIDE DEF K, N, c
  <2> QED
    BY <2>1
<1>2. PICK f \in [0..K -> Seq(T)] :
        /\ Without(a, S) = f[K] /\ f[0] = <<>>
        /\ \A n \in 1..K : f[n] = IF a[n] \in S THEN f[n - 1] ELSE Append(f[n - 1], a[n])
  <2>1. PICK x \in [0..Len(a) -> Seq(T)] : Without(a, S) = x[Len(a)] /\ Leaving(x, a, S)
    BY WithoutLoop
  <2> QED
    BY <2>1 DEF Leaving
<1>3. PICK g \in [0..N -> Seq(T)] :
        /\ Without(b, S) = g[N] /\ g[0] = <<>>
        /\ \A n \in 1..N : g[n] = IF b[n] \in S THEN g[n - 1] ELSE Append(g[n - 1], b[n])
  <2>1. PICK x \in [0..Len(b) -> Seq(T)] : Without(b, S) = x[Len(b)] /\ Leaving(x, b, S)
    BY WithoutLoop
  <2> QED
    BY <2>1 DEF Leaving
<1> HIDE DEF K, N, c
<1>4. PICK h \in [0..(K + N) -> Seq(T)] :
        /\ Without(c, S) = h[K + N] /\ h[0] = <<>>
        /\ \A n \in 1..(K + N) : h[n] = IF c[n] \in S THEN h[n - 1] ELSE Append(h[n - 1], c[n])
  <2>1. c \in Seq(T)
    BY <1>1
  <2>2. PICK x \in [0..Len(c) -> Seq(T)] : Without(c, S) = x[Len(c)] /\ Leaving(x, c, S)
    BY <2>1, WithoutLoop
  <2>3. Len(c) = K + N
    BY <1>1
  <2> QED
    BY <2>2, <2>3 DEF Leaving
<1> DEFINE I == {n \in 0..K : h[n] = f[n]}
           J == {n \in 0..N : h[K + n] = f[K] \o g[n]}
<1>5. 0 \in I
  BY <1>1, <1>2, <1>4
<1>6. ASSUME NEW n \in 0..(K - 1), n \in I PROVE n + 1 \in I
  <2>1. n + 1 \in 0..K /\ n + 1 \in 1..K /\ n + 1 \in 1..(K + N) /\ (n + 1) - 1 = n
    BY <1>1
  <2>2. /\ f[n + 1] = IF a[n + 1] \in S THEN f[n] ELSE Append(f[n], a[n + 1])
        /\ h[n + 1] = IF c[n + 1] \in S THEN h[n] ELSE Append(h[n], c[n + 1])
    BY <1>2, <1>4, <2>1
  <2> QED
    BY <1>1, <1>6, <2>1, <2>2
<1>7. h[K] = f[K] /\ f[K] \in Seq(T)
  <2>1. K \in 0..K
    BY <1>1
  <2>2. K \in I
    <3> HIDE DEF I
    <3> QED
      BY <1>1, <1>5, <1>6, <2>1, Climb
  <2> QED
    BY <1>2, <2>1, <2>2
<1>8. 0 \in J
  <2>1. f[K] \o <<>> = f[K]
    BY <1>7, ConcatEmptySeq
  <2>2. K + 0 = K /\ 0 \in 0..N
    BY <1>1
  <2>3. g[0] = <<>>
    BY <1>3
  <2>4. h[K + 0] = f[K] \o g[0]
    BY <1>7, <2>1, <2>2, <2>3
  <2> QED
    BY <2>2, <2>4
<1>9. ASSUME NEW n \in 0..(N - 1), n \in J PROVE n + 1 \in J
  <2>1. /\ n + 1 \in 0..N /\ n + 1 \in 1..N /\ K + (n + 1) \in 1..(K + N)
        /\ (n + 1) - 1 = n /\ (K + (n + 1)) - 1 = K + n /\ n \in 0..N
    BY <1>1
  <2>2. /\ g[n + 1] = IF b[n + 1] \in S THEN g[n] ELSE Append(g[n], b[n + 1])
        /\ h[K + (n + 1)] = IF c[K + (n + 1)] \in S THEN h[K + n]
                            ELSE Append(h[K + n], c[K + (n + 1)])
    BY <1>3, <1>4, <2>1
  <2>3. c[K + (n + 1)] = b[n + 1] /\ h[K + n] = f[K] \o g[n]
    BY <1>1, <1>9, <2>1
  <2> DEFINE x == f[K]  y == g[n]  e == b[n + 1]
  <2>4. x \in Seq(T) /\ y \in Seq(T)
    BY <1>7, <2>1
  <2>5. e \in T
    <3>1. b[n + 1] \in T
      BY <2>1 DEF N
    <3> QED
      BY <3>1
  <2> HIDE DEF x, y, e
  <2>6. Append(x \o y, e) = x \o Append(y, e)
    <3>1. x \o y \in Seq(T)
      BY <2>4, ConcatProperties
    <3>4. <<e>> \in Seq(T)
      BY <2>5, OneItem
    <3>2. Append(x \o y, e) = (x \o y) \o <<e>> /\ Append(y, e) = y \o <<e>>
      BY <2>4, <2>5, <3>1, AppendIsConcat
    <3>3. (x \o y) \o <<e>> = x \o (y \o <<e>>)
      <4>1. Regroups(T)
        BY Regrouped
      <4> QED
        BY <2>4, <3>4, <4>1 DEF Regroups
    <3> QED
      BY <3>2, <3>3
  <2>7. h[K + (n + 1)] = f[K] \o g[n + 1]
    BY <2>2, <2>3, <2>6 DEF x, y, e
  <2> QED
    BY <2>1, <2>7
<1>10. N \in J
  <2>1. N \in 0..N
    BY <1>1
  <2> HIDE DEF J
  <2> QED
    BY <1>1, <1>8, <1>9, <2>1, Climb
<1> QED
  BY <1>2, <1>3, <1>4, <1>10 DEF c

(* What is left of it is left of the one part or the other.                *)
LEMMA WithoutCut ==
  ASSUME NEW T, NEW t \in Seq(T), NEW m \in 0..Len(t), NEW S
  PROVE  /\ SubSeq(t, 1, m) \in Seq(T) /\ SubSeq(t, m + 1, Len(t)) \in Seq(T)
         /\ Without(t, S) = Without(SubSeq(t, 1, m), S) \o Without(SubSeq(t, m + 1, Len(t)), S)
<1> DEFINE a == SubSeq(t, 1, m)  b == SubSeq(t, m + 1, Len(t))
<1>1. a \in Seq(T) /\ b \in Seq(T) /\ a \o b = t
  BY CutInTwo
<1> HIDE DEF a, b
<1>2. Without(a \o b, S) = Without(a, S) \o Without(b, S)
  <2>1. a \in Seq(T) /\ b \in Seq(T)
    BY <1>1
  <2> QED
    BY <2>1, WithoutOfBoth
<1> QED
  BY <1>1, <1>2 DEF a, b

(* To cut members of S off at the front, or at the back, takes nothing of  *)
(* it away.                                                                *)
LEMMA WithoutInFront ==
  ASSUME NEW T, NEW t \in Seq(T), NEW m \in 0..Len(t), NEW S, \A i \in 1..m : t[i] \in S
  PROVE  Without(SubSeq(t, m + 1, Len(t)), S) = Without(t, S)
<1> DEFINE a == SubSeq(t, 1, m)  b == SubSeq(t, m + 1, Len(t))
<1>1. a \in Seq(T) /\ b \in Seq(T) /\ Without(t, S) = Without(a, S) \o Without(b, S)
  BY WithoutCut
<1>2. Len(a) = m /\ \A i \in 1..m : a[i] = t[i]
  BY SubSeqProperties
<1> HIDE DEF a, b
<1>3. Without(a, S) = <<>>
  BY <1>1, <1>2, NothingLeft
<1>4. Without(b, S) \in Seq(T)
  BY <1>1, WithoutTyped
<1> QED
  BY <1>1, <1>3, <1>4, ConcatEmptySeq DEF b

LEMMA WithoutBehind ==
  ASSUME NEW T, NEW t \in Seq(T), NEW m \in 0..Len(t), NEW S, \A i \in 1..Len(t) : m < i => t[i] \in S
  PROVE  Without(SubSeq(t, 1, m), S) = Without(t, S)
<1> DEFINE a == SubSeq(t, 1, m)  b == SubSeq(t, m + 1, Len(t))
<1>1. a \in Seq(T) /\ b \in Seq(T) /\ Without(t, S) = Without(a, S) \o Without(b, S)
  BY WithoutCut
<1>2. \A i \in 1..Len(b) : b[i] \in S
  <2>1. /\ m + 1 \in Int /\ Len(t) \in Int /\ m \in Nat /\ Len(t) \in Nat /\ m <= Len(t)
        /\ \A i \in (m + 1)..Len(t) : t[i] \in T
    OBVIOUS
  <2>2. /\ Len(b) = IF m + 1 <= Len(t) THEN Len(t) - (m + 1) + 1 ELSE 0
        /\ \A i \in 1..(Len(t) - (m + 1) + 1) : b[i] = t[(m + 1) + i - 1]
    BY <2>1, SubSeqProperties
  <2> HIDE DEF b
  <2>3. ASSUME NEW i \in 1..Len(b) PROVE b[i] \in S
    <3>1. /\ i \in 1..(Len(t) - (m + 1) + 1) /\ (m + 1) + i - 1 \in 1..Len(t)
          /\ m < (m + 1) + i - 1
      BY <2>1, <2>2
    <3> QED
      BY <2>2, <3>1
  <2> QED
    BY <2>3
<1> HIDE DEF a, b
<1>3. Without(b, S) = <<>>
  BY <1>1, <1>2, NothingLeft
<1>4. Without(a, S) \in Seq(T)
  BY <1>1, WithoutTyped
<1> QED
  BY <1>1, <1>3, <1>4, ConcatEmptySeq DEF a

(* FlattenSeq joins the sequences one after the other.                     *)
LEMMA FlattenLoop ==
  ASSUME NEW T, NEW ss \in Seq(Seq(T))
  PROVE  \E upto \in [0..Len(ss) -> Seq(T)] :
           /\ FlattenSeq(ss) = upto[Len(ss)]
           /\ upto[0] = <<>>
           /\ \A n \in 1..Len(ss) : upto[n] = upto[n - 1] \o ss[n]
<1> DEFINE N == Len(ss)
           turn == [n \in 1..N |-> [p \in Seq(T) |-> p \o ss[n]]]
<1>0. N \in Nat /\ <<>> \in Seq(T) /\ \A n \in 1..N : ss[n] \in Seq(T)
  OBVIOUS
<1>1. turn \in [1..N -> [Seq(T) -> Seq(T)]]
  <2>1. ASSUME NEW n \in 1..N, NEW p \in Seq(T) PROVE p \o ss[n] \in Seq(T)
    <3>1. ss[n] \in Seq(T)
      BY <1>0
    <3> QED
      BY <3>1
  <2> HIDE DEF N
  <2> QED
    BY <2>1
<1>2. PICK g \in [0..N -> Seq(T)] : g[0] = <<>> /\ \A n \in 1..N : g[n] = turn[n][g[n - 1]]
  <2> DEFINE states == Seq(T)  start == <<>>
  <2>1. start \in states /\ turn \in [1..N -> [states -> states]]
    BY <1>0, <1>1
  <2> HIDE DEF N, turn, states, start
  <2>2. \E g \in [0..N -> states] : Loop(g, start, N, turn)
    BY <1>0, <2>1, LoopRuns
  <2> QED
    BY <2>2 DEF Loop, states, start
<1>3. ASSUME NEW n \in 1..N PROVE g[n] = g[n - 1] \o ss[n]
  <2>1. n - 1 \in 0..N /\ g[n - 1] \in Seq(T)
    <3> HIDE DEF N, turn
    <3> QED
      BY <1>0
  <2> QED
    BY <1>2, <2>1
<1> HIDE DEF turn
<1>4. CASE N = 0
  <2>1. ss = <<>> /\ FlattenSeq(ss) = ss
    BY <1>4 DEF FlattenSeq
  <2> QED
    BY <1>2, <1>3, <1>4, <2>1
<1>5. CASE N # 0
  <2> DEFINE h == [i \in 1..N |-> g[i]]
  <2>0. 1 \in 1..N /\ N \in 1..N
    BY <1>0, <1>5
  <2>1. h = [i \in 1..N |-> IF i = 1 THEN ss[i] ELSE h[i - 1] \o ss[i]]
    <3>1. ASSUME NEW i \in 1..N PROVE h[i] = IF i = 1 THEN ss[i] ELSE h[i - 1] \o ss[i]
      <4>1. CASE i = 1
        <5>1. g[1] = g[0] \o ss[1] /\ ss[1] \in Seq(T)
          <6>1. g[1] = g[1 - 1] \o ss[1] /\ ss[1] \in Seq(T)
            BY <1>0, <1>3, <2>0
          <6> QED
            BY <6>1
        <5>2. <<>> \o ss[1] = ss[1]
          BY <5>1, ConcatEmptySeq
        <5> QED
          BY <1>2, <2>0, <4>1, <5>1, <5>2
      <4>2. CASE i # 1
        <5>1. i - 1 \in 1..N
          BY <1>0, <4>2
        <5>2. h[i - 1] = g[i - 1] /\ h[i] = g[i]
          BY SMTT(30), <5>1
        <5> HIDE DEF h
        <5> QED
          BY <1>3, <4>2, <5>2
      <4> QED
        BY <4>1, <4>2
    <3> HIDE DEF N
    <3> QED
      BY <3>1
  <2> DEFINE flatten[i \in 1..N] == IF i = 1 THEN ss[i] ELSE flatten[i - 1] \o ss[i]
  <2> HIDE DEF h
  <2>2. flatten = [i \in 1..N |-> IF i = 1 THEN ss[i] ELSE flatten[i - 1] \o ss[i]]
    BY <2>1
  <2>3. FlattenSeq(ss) = flatten[N]
    BY <1>5 DEF FlattenSeq
  <2> HIDE DEF flatten, N
  <2> DEFINE I == {n \in 0..N : n = 0 \/ flatten[n] = g[n]}
  <2>4. 0 \in I
    BY <1>0
  <2>5. ASSUME NEW n \in 0..(N - 1), n \in I PROVE n + 1 \in I
    <3>1. n + 1 \in 0..N /\ n + 1 \in 1..N /\ (n + 1) - 1 = n /\ (n + 1 = 1 <=> n = 0)
      BY <1>0
    <3>2. flatten[n + 1] = IF n + 1 = 1 THEN ss[n + 1] ELSE flatten[n] \o ss[n + 1]
      BY <2>2, <3>1
    <3>3. g[n + 1] = g[n] \o ss[n + 1] /\ ss[n + 1] \in Seq(T)
      BY <1>0, <1>3, <3>1
    <3>4. <<>> \o ss[n + 1] = ss[n + 1]
      BY <3>3, ConcatEmptySeq
    <3>5. flatten[n + 1] = g[n + 1]
      BY <1>2, <2>5, <3>1, <3>2, <3>3, <3>4
    <3> QED
      BY <3>1, <3>5
  <2>6. flatten[N] = g[N]
    <3>1. N \in 0..N
      BY <1>0
    <3>2. N \in I
      <4> HIDE DEF I
      <4> QED
        BY <1>0, <2>4, <2>5, <3>1, Climb
    <3> QED
      BY <1>5, <3>2
  <2> QED
    BY <1>2, <1>3, <2>3, <2>6 DEF N
<1> QED
  BY <1>4, <1>5

(* Nothing joined is nothing, and what is joined is a sequence.            *)
LEMMA FlattenFacts ==
  ASSUME NEW T
  PROVE  /\ FlattenSeq(<<>>) = <<>>
         /\ \A ss \in Seq(Seq(T)) : FlattenSeq(ss) \in Seq(T)
<1>1. ASSUME NEW ss \in Seq(Seq(T)) PROVE FlattenSeq(ss) \in Seq(T)
  <2>1. PICK f \in [0..Len(ss) -> Seq(T)] : FlattenSeq(ss) = f[Len(ss)]
    BY FlattenLoop
  <2>2. Len(ss) \in 0..Len(ss)
    OBVIOUS
  <2> QED
    BY <2>1, <2>2
<1>2. FlattenSeq(<<>>) = <<>>
  BY DEF FlattenSeq
<1> QED
  BY <1>1, <1>2

(* One sequence more is joined at the end.                                 *)
LEMMA FlattenAppend ==
  ASSUME NEW T, NEW ss \in Seq(Seq(T)), NEW x \in Seq(T)
  PROVE  FlattenSeq(Append(ss, x)) = FlattenSeq(ss) \o x
<1> DEFINE N == Len(ss)
           more == Append(ss, x)
<1>1. /\ N \in Nat /\ more \in Seq(Seq(T)) /\ Len(more) = N + 1 /\ more[N + 1] = x
      /\ \A n \in 1..N : more[n] = ss[n]
  BY AppendProperties
<1>2. PICK f \in [0..N -> Seq(T)] :
        /\ FlattenSeq(ss) = f[N] /\ f[0] = <<>>
        /\ \A n \in 1..N : f[n] = f[n - 1] \o ss[n]
  BY FlattenLoop
<1> HIDE DEF N, more
<1>3. PICK g \in [0..(N + 1) -> Seq(T)] :
        /\ FlattenSeq(more) = g[N + 1] /\ g[0] = <<>>
        /\ \A n \in 1..(N + 1) : g[n] = g[n - 1] \o more[n]
  <2>1. \E g \in [0..Len(more) -> Seq(T)] :
          /\ FlattenSeq(more) = g[Len(more)] /\ g[0] = <<>>
          /\ \A n \in 1..Len(more) : g[n] = g[n - 1] \o more[n]
    BY <1>1, FlattenLoop
  <2> QED
    BY <1>1, <2>1
<1> DEFINE I == {n \in 0..N : g[n] = f[n]}
<1>4. 0 \in I
  BY <1>1, <1>2, <1>3
<1>5. ASSUME NEW n \in 0..(N - 1), n \in I PROVE n + 1 \in I
  <2>1. n + 1 \in 0..N /\ n + 1 \in 1..N /\ n + 1 \in 1..(N + 1) /\ (n + 1) - 1 = n
    BY <1>1
  <2>2. g[n + 1] = g[n] \o more[n + 1] /\ f[n + 1] = f[n] \o ss[n + 1]
    BY <1>2, <1>3, <2>1
  <2> QED
    BY <1>1, <1>5, <2>1, <2>2
<1>6. N \in I
  <2>1. N \in 0..N
    BY <1>1
  <2> HIDE DEF I
  <2> QED
    BY <1>1, <1>4, <1>5, <2>1, Climb
<1>7. N + 1 \in 1..(N + 1) /\ (N + 1) - 1 = N
  BY <1>1
<1>8. g[N + 1] = g[N] \o more[N + 1]
  BY <1>3, <1>7
<1> QED
  BY <1>1, <1>2, <1>3, <1>6, <1>8 DEF more

(* Two sequences of sequences in a row are joined to what each is joined   *)
(* to.                                                                     *)
LEMMA FlattenOfBoth ==
  ASSUME NEW T, NEW a \in Seq(Seq(T)), NEW b \in Seq(Seq(T))
  PROVE  FlattenSeq(a \o b) = FlattenSeq(a) \o FlattenSeq(b)
<1> DEFINE K == Len(a)  N == Len(b)  c == a \o b
<1>1. /\ K \in Nat /\ N \in Nat /\ c \in Seq(Seq(T)) /\ Len(c) = K + N
      /\ \A i \in 1..K : c[i] = a[i]
      /\ \A i \in 1..N : c[K + i] = b[i]
      /\ \A i \in 1..N : b[i] \in Seq(T)
  <2>1. /\ c \in Seq(Seq(T)) /\ Len(c) = K + N /\ K \in Nat /\ N \in Nat
        /\ \A i \in 1..(K + N) : c[i] = IF i <= K THEN a[i] ELSE b[i - K]
    BY ConcatProperties
  <2>2. \A i \in 1..N : b[i] \in Seq(T)
    OBVIOUS
  <2> HIDE DEF K, N, c
  <2>3. /\ \A i \in 1..K : c[i] = a[i]
        /\ \A i \in 1..N : c[K + i] = b[i]
    BY <2>1
  <2> QED
    BY <2>1, <2>2, <2>3
<1>2. PICK f \in [0..K -> Seq(T)] :
        FlattenSeq(a) = f[K] /\ f[0] = <<>> /\ \A n \in 1..K : f[n] = f[n - 1] \o a[n]
  BY FlattenLoop
<1>3. PICK g \in [0..N -> Seq(T)] :
        FlattenSeq(b) = g[N] /\ g[0] = <<>> /\ \A n \in 1..N : g[n] = g[n - 1] \o b[n]
  BY FlattenLoop
<1> HIDE DEF K, N, c
<1>4. PICK h \in [0..(K + N) -> Seq(T)] :
        FlattenSeq(c) = h[K + N] /\ h[0] = <<>> /\ \A n \in 1..(K + N) : h[n] = h[n - 1] \o c[n]
  <2>1. \E h \in [0..Len(c) -> Seq(T)] :
          FlattenSeq(c) = h[Len(c)] /\ h[0] = <<>> /\ \A n \in 1..Len(c) : h[n] = h[n - 1] \o c[n]
    <3>1. c \in Seq(Seq(T))
      BY <1>1
    <3> QED
      BY <3>1, FlattenLoop
  <2> QED
    BY <1>1, <2>1
<1> DEFINE I == {n \in 0..K : h[n] = f[n]}
           J == {n \in 0..N : h[K + n] = f[K] \o g[n]}
<1>5. 0 \in I
  BY <1>1, <1>2, <1>4
<1>6. ASSUME NEW n \in 0..(K - 1), n \in I PROVE n + 1 \in I
  <2>1. n + 1 \in 0..K /\ n + 1 \in 1..K /\ n + 1 \in 1..(K + N) /\ (n + 1) - 1 = n
    BY <1>1
  <2>2. f[n + 1] = f[n] \o a[n + 1] /\ h[n + 1] = h[n] \o c[n + 1]
    BY <1>2, <1>4, <2>1
  <2> QED
    BY <1>1, <1>6, <2>1, <2>2
<1>7. h[K] = f[K] /\ f[K] \in Seq(T)
  <2>1. K \in 0..K
    BY <1>1
  <2>2. K \in I
    <3> HIDE DEF I
    <3> QED
      BY <1>1, <1>5, <1>6, <2>1, Climb
  <2> QED
    BY <1>2, <2>1, <2>2
<1>8. 0 \in J
  <2>1. f[K] \o <<>> = f[K]
    BY <1>7, ConcatEmptySeq
  <2>2. K + 0 = K /\ 0 \in 0..N
    BY <1>1
  <2>3. h[K + 0] = f[K] \o g[0]
    BY <1>3, <1>7, <2>1, <2>2
  <2> QED
    BY <2>2, <2>3
<1>9. ASSUME NEW n \in 0..(N - 1), n \in J PROVE n + 1 \in J
  <2>1. /\ n + 1 \in 0..N /\ n + 1 \in 1..N /\ K + (n + 1) \in 1..(K + N)
        /\ (n + 1) - 1 = n /\ (K + (n + 1)) - 1 = K + n /\ n \in 0..N
    BY <1>1
  <2>2. g[n + 1] = g[n] \o b[n + 1] /\ h[K + (n + 1)] = h[K + n] \o c[K + (n + 1)]
    BY <1>3, <1>4, <2>1
  <2>3. c[K + (n + 1)] = b[n + 1] /\ h[K + n] = f[K] \o g[n]
    BY <1>1, <1>9, <2>1
  <2> DEFINE x == f[K]  y == g[n]  e == b[n + 1]
  <2>4. x \in Seq(T) /\ y \in Seq(T) /\ e \in Seq(T)
    BY <1>1, <1>7, <2>1
  <2> HIDE DEF x, y, e
  <2>5. (x \o y) \o e = x \o (y \o e)
    <3>1. Regroups(T)
      BY Regrouped
    <3> QED
      BY <2>4, <3>1 DEF Regroups
  <2>6. h[K + (n + 1)] = f[K] \o g[n + 1]
    BY <2>2, <2>3, <2>5 DEF x, y, e
  <2> QED
    BY <2>1, <2>6
<1>10. N \in J
  <2>1. N \in 0..N
    BY <1>1
  <2> HIDE DEF J
  <2> QED
    BY <1>1, <1>8, <1>9, <2>1, Climb
<1> QED
  BY <1>2, <1>3, <1>4, <1>10 DEF c

(* A sequence is its front and its last element.                           *)
LEMMA FrontAndLast ==
  ASSUME NEW T, NEW s \in Seq(T), s # <<>>
  PROVE  /\ Len(s) \in Nat \ {0} /\ Front(s) \in Seq(T) /\ Len(Front(s)) = Len(s) - 1
         /\ \A i \in 1..(Len(s) - 1) : Front(s)[i] = s[i]
         /\ Last(s) = s[Len(s)] /\ Last(s) \in T
         /\ s = Append(Front(s), Last(s))
<1> DEFINE N == Len(s)  m == N - 1
<1>1. N \in Nat \ {0} /\ m \in Nat /\ m \in 0..N /\ N \in 1..N /\ m + 1 = N
  BY EmptySeq
<1>2. Front(s) = SubSeq(s, 1, m) /\ Last(s) = s[N] /\ s[N] \in T
  BY <1>1 DEF Front, Last
<1>3. \A i \in 1..m : s[i] \in T
  OBVIOUS
<1> HIDE DEF m
<1>4. /\ SubSeq(s, 1, m) \in Seq(T) /\ Len(SubSeq(s, 1, m)) = m
      /\ \A i \in 1..m : SubSeq(s, 1, m)[i] = s[i]
  BY <1>1, <1>3, SubSeqProperties
<1> DEFINE a == SubSeq(s, 1, m)  e == s[N]
<1>5. /\ a \in Seq(T) /\ Len(a) = m /\ (\A i \in 1..m : a[i] = s[i]) /\ e \in T /\ e = s[N]
  BY <1>2, <1>4
<1> HIDE DEF a, e
<1>6. /\ Append(a, e) \in Seq(T) /\ Len(Append(a, e)) = m + 1
      /\ (\A i \in 1..m : Append(a, e)[i] = a[i]) /\ Append(a, e)[m + 1] = e
  BY <1>5, AppendProperties
<1>7. s = Append(a, e)
  <2>1. \A i \in 1..N : i \in 1..m \/ i = m + 1
    BY <1>1
  <2>2. \A i \in 1..N : s[i] = Append(a, e)[i]
    BY <1>1, <1>5, <1>6, <2>1
  <2>3. Len(Append(a, e)) = Len(s)
    BY <1>1, <1>6 DEF N
  <2> QED
    BY <1>6, <2>2, <2>3, SeqEqual
<1> QED
  BY <1>1, <1>2, <1>4, <1>7 DEF a, e, m

(* What the last of them goes on with, all of them joined go on with.      *)
LEMMA FlattenMore ==
  ASSUME NEW T, NEW ss \in Seq(Seq(T)), NEW y \in Seq(T), ss # <<>>
  PROVE  /\ Append(Front(ss), Last(ss) \o y) \in Seq(Seq(T))
         /\ FlattenSeq(Append(Front(ss), Last(ss) \o y)) = FlattenSeq(ss) \o y
<1> DEFINE a == Front(ss)  x == Last(ss)
<1>1. a \in Seq(Seq(T)) /\ x \in Seq(T) /\ ss = Append(a, x)
  BY FrontAndLast
<1> HIDE DEF a, x
<1>2. x \o y \in Seq(T)
  BY <1>1, ConcatProperties
<1>3. FlattenSeq(Append(a, x)) = FlattenSeq(a) \o x
  BY <1>1, FlattenAppend
<1>4. FlattenSeq(Append(a, x \o y)) = FlattenSeq(a) \o (x \o y)
  BY <1>1, <1>2, FlattenAppend
<1>5. FlattenSeq(a) \in Seq(T)
  BY <1>1, FlattenFacts
<1>6. (FlattenSeq(a) \o x) \o y = FlattenSeq(a) \o (x \o y)
  <2>1. Regroups(T)
    BY Regrouped
  <2> QED
    BY <1>1, <1>5, <2>1 DEF Regroups
<1>7. Append(a, x \o y) \in Seq(Seq(T))
  BY <1>1, <1>2, AppendProperties
<1> QED
  BY <1>1, <1>3, <1>4, <1>6, <1>7 DEF a, x

(* Sequences of which one by one the same is left are joined to sequences  *)
(* of which the same is left.                                              *)
LEMMA FlattenAlike ==
  ASSUME NEW T, NEW a \in Seq(Seq(T)), NEW b \in Seq(Seq(T)), NEW S, Len(a) = Len(b),
         \A n \in 1..Len(a) : Without(a[n], S) = Without(b[n], S)
  PROVE  Without(FlattenSeq(a), S) = Without(FlattenSeq(b), S)
<1> DEFINE N == Len(a)
<1>1. N \in Nat /\ N = Len(b) /\ \A n \in 1..N : a[n] \in Seq(T) /\ b[n] \in Seq(T)
  OBVIOUS
<1>2. PICK f \in [0..N -> Seq(T)] :
        FlattenSeq(a) = f[N] /\ f[0] = <<>> /\ \A n \in 1..N : f[n] = f[n - 1] \o a[n]
  BY FlattenLoop
<1>3. PICK g \in [0..N -> Seq(T)] :
        FlattenSeq(b) = g[N] /\ g[0] = <<>> /\ \A n \in 1..N : g[n] = g[n - 1] \o b[n]
  <2>1. PICK g \in [0..Len(b) -> Seq(T)] :
          /\ FlattenSeq(b) = g[Len(b)] /\ g[0] = <<>>
          /\ \A n \in 1..Len(b) : g[n] = g[n - 1] \o b[n]
    BY FlattenLoop
  <2> HIDE DEF N
  <2> QED
    BY <1>1, <2>1
<1>4. \A n \in 1..N : Without(a[n], S) = Without(b[n], S)
  OBVIOUS
<1> HIDE DEF N
<1> DEFINE I == {n \in 0..N : Without(f[n], S) = Without(g[n], S)}
<1>5. 0 \in I
  BY <1>1, <1>2, <1>3
<1>6. ASSUME NEW n \in 0..(N - 1), n \in I PROVE n + 1 \in I
  <2>1. n + 1 \in 0..N /\ n + 1 \in 1..N /\ (n + 1) - 1 = n /\ n \in 0..N
    BY <1>1
  <2> DEFINE x == f[n]  y == g[n]  p == a[n + 1]  q == b[n + 1]
  <2>2. /\ x \in Seq(T) /\ y \in Seq(T) /\ p \in Seq(T) /\ q \in Seq(T)
        /\ f[n + 1] = x \o p /\ g[n + 1] = y \o q
        /\ Without(x, S) = Without(y, S) /\ Without(p, S) = Without(q, S)
    BY <1>1, <1>2, <1>3, <1>4, <1>6, <2>1
  <2> HIDE DEF x, y, p, q
  <2>3. x \in Seq(T) /\ y \in Seq(T) /\ p \in Seq(T) /\ q \in Seq(T)
    BY <2>2
  <2>4. \A u \in Seq(T), v \in Seq(T) : Without(u \o v, S) = Without(u, S) \o Without(v, S)
    BY WithoutOfBoth
  <2>5. /\ Without(x \o p, S) = Without(x, S) \o Without(p, S)
        /\ Without(y \o q, S) = Without(y, S) \o Without(q, S)
    BY <2>3, <2>4
  <2> QED
    BY <2>1, <2>2, <2>5
<1>7. N \in I
  <2>1. N \in 0..N
    BY <1>1
  <2> HIDE DEF I
  <2> QED
    BY <1>1, <1>5, <1>6, <2>1, Climb
<1> QED
  BY <1>2, <1>3, <1>7
=============================================================================
