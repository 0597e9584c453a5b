--------------------------- MODULE RecursionLemmas ---------------------------
(***************************************************************************)
(* Induction and recursion over 0..N for sets and functions.  The          *)
(* library's theorems on induction and on recursive functions take the     *)
(* predicate or the body as an operator, these take a set or a function.   *)
(***************************************************************************)
EXTENDS Naturals, TLAPS, WellFoundedInduction

\* A set of indices that is not empty has a first one.
LEMMA LeastIndex ==
  ASSUME NEW S \in SUBSET Nat, S # {}
  PROVE  \E i \in S : \A j \in S : i <= j
<1>1. IsWellFoundedOn(OpToRel(<, Nat), Nat)
  BY NatLessThanWellFounded, Zenon
<1>2. PICK i \in S : \A j \in S : <<j, i>> \notin OpToRel(<, Nat)
  BY <1>1, WFMin, Zenon
<1>3. \A j \in S : ~(j < i)
  BY <1>2 DEF OpToRel
<1>4. QED BY <1>3

\* A set that holds 0 and every successor up to N holds 0..N.
LEMMA InductionUpto ==
  ASSUME NEW N \in Nat, NEW P, 0 \in P, \A i \in 1..N : i - 1 \in P => i \in P
  PROVE  0..N \subseteq P
<1> DEFINE Bad == {n \in 0..N : n \notin P}
<1>1. SUFFICES ASSUME Bad # {} PROVE FALSE
  OBVIOUS
<1>2. PICK n \in Bad : \A m \in Bad : n <= m
  <2>1. Bad \in SUBSET Nat
    OBVIOUS
  <2> HIDE DEF Bad
  <2>2. QED BY <1>1, <2>1, LeastIndex
<1>3. n \in 1..N /\ n - 1 \in 0..N
  BY <1>2
<1>4. n - 1 \notin Bad
  BY <1>2, <1>3
<1>5. QED BY <1>2, <1>3, <1>4

-----------------------------------------------------------------------------
(* Recursion: g runs through step[1], ..., step[n] from start, inside S. *)

Runs(g, n, S, start, step) ==
  /\ g \in [0..n -> S] /\ g[0] = start
  /\ \A i \in 1..n : g[i] = step[i][g[i - 1]]

\* Steps that stay in S can be run through.
LEMMA RecursionExists ==
  ASSUME NEW N \in Nat, NEW S, NEW start \in S, NEW step,
         \A i \in 1..N : \A q \in S : step[i][q] \in S
  PROVE  \E g : Runs(g, N, S, start, step)
<1> DEFINE Upto(n) == \E g \in [0..n -> S] :
                         g[0] = start /\ \A i \in 1..n : g[i] = step[i][g[i - 1]]
           Bad == {n \in 0..N : ~Upto(n)}
<1> SUFFICES Upto(N)
  BY DEF Runs
<1>1. SUFFICES ASSUME Bad # {} PROVE FALSE
  <2>1. N \in 0..N
    OBVIOUS
  <2>2. Upto(N)
    BY <1>1, <2>1
  <2>3. QED BY <2>2
<1>2. PICK n \in Bad : \A m \in Bad : n <= m
  <2>1. Bad \in SUBSET Nat
    OBVIOUS
  <2> HIDE DEF Bad
  <2>2. QED BY <1>1, <2>1, LeastIndex
<1>3. CASE n = 0
  <2> DEFINE g == [i \in 0..0 |-> start]
  <2>1. g \in [0..0 -> S] /\ g[0] = start /\ \A i \in 1..0 : g[i] = step[i][g[i - 1]]
    OBVIOUS
  <2>2. Upto(0)
    BY <2>1
  <2>3. QED BY <1>2, <1>3, <2>2
<1>4. CASE n # 0
  <2>1. n - 1 \in 0..N /\ n \in 1..N /\ n - 1 \notin Bad
    <3>1. n \in 1..N /\ n - 1 \in 0..N
      BY <1>2, <1>4
    <3>2. ~(n <= n - 1)
      BY <3>1
    <3> HIDE DEF Bad
    <3>3. QED BY <1>2, <3>1, <3>2
  <2>2. PICK h \in [0..(n - 1) -> S] :
               h[0] = start /\ \A i \in 1..(n - 1) : h[i] = step[i][h[i - 1]]
    BY <2>1, Zenon
  <2> DEFINE g == [i \in 0..n |-> IF i = n THEN step[n][h[n - 1]] ELSE h[i]]
  <2>3. h[n - 1] \in S /\ step[n][h[n - 1]] \in S
    BY <2>1
  <2>4. g \in [0..n -> S]
    BY <2>1, <2>3
  <2>5. g[0] = start
    BY <2>1, <2>2
  <2>6. ASSUME NEW i \in 1..n PROVE g[i] = step[i][g[i - 1]]
    <3>1. CASE i = n
      BY <2>1, <3>1
    <3>2. CASE i # n
      BY <2>1, <2>2, <3>2
    <3>3. QED BY <3>1, <3>2
  <2>7. Upto(n)
    BY <2>4, <2>5, <2>6
  <2>8. QED BY <1>2, <2>7
<1>5. QED BY <1>3, <1>4

\* A set that holds 0 and every successor holds every natural number.
LEMMA InductionNat ==
  ASSUME NEW P, 0 \in P, \A n \in Nat : n \in P => n + 1 \in P
  PROVE  Nat \subseteq P
<1>1. SUFFICES ASSUME NEW n \in Nat PROVE n \in P
  OBVIOUS
<1>2. \A i \in 1..n : i - 1 \in P => i \in P
  <2>1. \A i \in 1..n : i - 1 \in Nat /\ (i - 1) + 1 = i
    OBVIOUS
  <2>2. QED BY <2>1
<1>3. 0..n \subseteq P
  BY <1>2, InductionUpto
<1>4. QED BY <1>3

\* A function on S can be iterated without end.
LEMMA IterationExists ==
  ASSUME NEW S, NEW start \in S, NEW F \in [S -> S]
  PROVE  \E g \in [Nat -> S] : g[0] = start /\ \A n \in Nat : g[n + 1] = F[g[n]]
<1> DEFINE R(h, n) == Runs(h, n, S, start, [i \in 1..n |-> F])
<1>1. ASSUME NEW n \in Nat PROVE \E h : R(h, n)
  <2> DEFINE step == [i \in 1..n |-> F]
  <2>1. \A i \in 1..n : \A q \in S : step[i][q] \in S
    OBVIOUS
  <2> HIDE DEF step
  <2>2. \E h : Runs(h, n, S, start, step)
    BY <2>1, RecursionExists
  <2>3. QED BY <2>2 DEF step
<1>2. ASSUME NEW n \in Nat, NEW h, R(h, n)
      PROVE  h \in [0..n -> S] /\ h[0] = start /\ \A i \in 1..n : h[i] = F[h[i - 1]]
  BY <1>2 DEF Runs
<1> HIDE DEF R
<1>3. ASSUME NEW n \in Nat, NEW m \in Nat, n <= m, NEW h, R(h, n), NEW k, R(k, m)
      PROVE  h[n] = k[n]
  <2> DEFINE P == {i \in 0..n : h[i] = k[i]}
  <2>1. 0 \in P
    BY <1>2, <1>3
  <2>2. ASSUME NEW i \in 1..n, i - 1 \in P PROVE i \in P
    <3>1. h[i] = F[h[i - 1]] /\ k[i] = F[k[i - 1]]
      BY <1>2, <1>3
    <3>2. QED BY <2>2, <3>1
  <2>3. 0..n \subseteq P
    <3> HIDE DEF P
    <3>1. QED BY <2>1, <2>2, InductionUpto
  <2>4. n \in 0..n
    OBVIOUS
  <2>5. QED BY <2>3, <2>4
<1> DEFINE run == [n \in Nat |-> CHOOSE h : R(h, n)]
           g == [n \in Nat |-> run[n][n]]
<1>4. \A n \in Nat : R(run[n], n)
  BY <1>1
<1> HIDE DEF run
<1>5. g \in [Nat -> S]
  <2>1. ASSUME NEW n \in Nat PROVE run[n][n] \in S
    <3>1. run[n] \in [0..n -> S] /\ n \in 0..n
      BY <1>2, <1>4
    <3>2. QED BY <3>1
  <2>2. QED BY <2>1
<1>6. g[0] = start
  BY <1>2, <1>4
<1>7. ASSUME NEW n \in Nat PROVE g[n + 1] = F[g[n]]
  <2>1. n + 1 \in Nat /\ n + 1 \in 1..(n + 1) /\ n <= n + 1 /\ (n + 1) - 1 = n
    OBVIOUS
  <2>2. run[n + 1][n + 1] = F[run[n + 1][n]]
    BY <1>2, <1>4, <2>1
  <2>3. run[n][n] = run[n + 1][n]
    BY <1>3, <1>4, <2>1
  <2>4. QED BY <2>1, <2>2, <2>3
<1>8. QED BY <1>5, <1>6, <1>7

=============================================================================
