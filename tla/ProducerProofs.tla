---------------------------- MODULE ProducerProofs ----------------------------
(***************************************************************************)
(* Proofs about producer plans: what the program of a plan consists of,    *)
(* and what its execution on a new Runtime ends with.                      *)
(***************************************************************************)
EXTENDS RuntimeExecProofs, ProducerProps

-----------------------------------------------------------------------------
(* Sequences by position: one after another, and a flattened one.          *)

\* c is a followed by b.
Joined(c, a, b) ==
  /\ \A i \in DOMAIN a : i \in DOMAIN c /\ c[i] = a[i]
  /\ \A j \in DOMAIN b : Len(a) + j \in DOMAIN c /\ c[Len(a) + j] = b[j]
  /\ \A i \in DOMAIN c : i \in DOMAIN a \/ \E j \in DOMAIN b : i = Len(a) + j

\* Concatenation.
LEMMA JoinedSeqs ==
  ASSUME NEW T, NEW a \in Seq(T), NEW b \in Seq(T)
  PROVE  a \o b \in Seq(T) /\ Joined(a \o b, a, b)
<1>1. PICK c : c = a \o b
  OBVIOUS
<1>2. /\ DOMAIN a = 1..Len(a) /\ DOMAIN b = 1..Len(b)
      /\ Len(a) \in Nat /\ Len(b) \in Nat
  OBVIOUS
<1>3. c \in Seq(T) /\ Len(c) = Len(a) + Len(b) /\ DOMAIN c = 1..(Len(a) + Len(b))
  BY <1>1
<1>4. \A i \in 1..(Len(a) + Len(b)) : c[i] = IF i <= Len(a) THEN a[i] ELSE b[i - Len(a)]
  BY <1>1, <1>2
<1>5. \A j \in 1..Len(b) :
        /\ Len(a) + j \in 1..(Len(a) + Len(b)) /\ ~(Len(a) + j <= Len(a))
        /\ (Len(a) + j) - Len(a) = j
  BY <1>2
<1>6. \A i \in 1..Len(a) : i \in 1..(Len(a) + Len(b)) /\ i <= Len(a)
  BY <1>2
<1>7. \A i \in 1..Len(a) : c[i] = a[i]
  BY <1>4, <1>6
<1>8. \A j \in 1..Len(b) : c[Len(a) + j] = b[j]
  BY <1>4, <1>5
<1>9. \A i \in 1..(Len(a) + Len(b)) :
        i \in 1..Len(a) \/ (i - Len(a) \in 1..Len(b) /\ i = Len(a) + (i - Len(a)))
  BY <1>2
<1>10. QED BY <1>1, <1>2, <1>3, <1>5, <1>6, <1>7, <1>8, <1>9 DEF Joined

\* F is the sequences of ss, the k-th after position at[k].
Laid(F, ss, at) ==
  /\ at \in [DOMAIN ss -> Nat]
  /\ \A k \in DOMAIN ss : \A j \in DOMAIN ss[k] :
       at[k] + j \in DOMAIN F /\ F[at[k] + j] = ss[k][j]
  /\ \A i \in DOMAIN F : \E k \in DOMAIN ss : \E j \in DOMAIN ss[k] : i = at[k] + j

\* FlattenSeq as a run from the empty sequence, one sequence a round.
LEMMA FlattenRounds ==
  ASSUME NEW T, NEW ss \in Seq(Seq(T)), Len(ss) # 0
  PROVE  \E f \in [0..Len(ss) -> Seq(T)] :
           /\ f[0] = <<>> /\ Seqs!FlattenSeq(ss) = f[Len(ss)]
           /\ \A i \in 1..Len(ss) : f[i] = f[i - 1] \o ss[i]
<1> DEFINE N == Len(ss)
           flatten[i \in 1..N] == IF i = 1 THEN ss[i] ELSE flatten[i - 1] \o ss[i]
           step == [i \in 1..N |-> [q \in Seq(T) |-> q \o ss[i]]]
<1>1. N \in Nat /\ N # 0 /\ \A i \in 1..N : ss[i] \in Seq(T)
  OBVIOUS
<1>2. \A i \in 1..N : \A q \in Seq(T) : step[i][q] \in Seq(T) /\ step[i][q] = q \o ss[i]
  BY <1>1
<1>3. <<>> \in Seq(T)
  OBVIOUS
<1>4. Seqs!FlattenSeq(ss) = flatten[N]
  BY DEF Seqs!FlattenSeq
<1> HIDE DEF step, N
<1>5. PICK g : Runs(g, N, Seq(T), <<>>, step)
  BY <1>1, <1>2, <1>3, RecursionExists, Zenon
<1>6. \A i \in 1..N : i - 1 \in 0..N /\ i \in 0..N
  BY <1>1
<1>7. g \in [0..N -> Seq(T)] /\ g[0] = <<>> /\ \A i \in 1..N : g[i] = g[i - 1] \o ss[i]
  BY <1>2, <1>5, <1>6 DEF Runs
<1>8. g[1] = ss[1]
  <2>1. 1 \in 1..N /\ 1 - 1 = 0
    BY <1>1
  <2>2. g[1] = <<>> \o ss[1] /\ ss[1] \in Seq(T)
    <3>1. g[1] = g[1 - 1] \o ss[1]
      BY <1>7, <2>1
    <3>2. QED BY <1>1, <1>7, <2>1, <3>1
  <2>3. QED BY <2>2
<1> DEFINE h == [i \in 1..N |-> g[i]]
<1>9. h = [i \in 1..N |-> IF i = 1 THEN ss[i] ELSE h[i - 1] \o ss[i]]
  <2>1. ASSUME NEW i \in 1..N
        PROVE  g[i] = IF i = 1 THEN ss[i] ELSE h[i - 1] \o ss[i]
    <3>1. CASE i = 1
      BY <1>8, <3>1
    <3>2. CASE i # 1
      <4>1. i - 1 \in 1..N
        BY <1>1, <3>2
      <4>2. QED BY <1>7, <3>2, <4>1
    <3>3. QED BY <3>1, <3>2
  <2>2. QED BY <2>1
<1> HIDE DEF h
<1>10. flatten = [i \in 1..N |-> IF i = 1 THEN ss[i] ELSE flatten[i - 1] \o ss[i]]
  BY <1>9, Zenon
<1> HIDE DEF flatten
<1>11. N \in 1..N
  BY <1>1
<1>12. PICK fl : fl = flatten
  OBVIOUS
<1>13. \A i \in 1..N : fl[i] = IF i = 1 THEN ss[i] ELSE fl[i - 1] \o ss[i]
  BY <1>10, <1>12
<1> DEFINE P == {i \in 0..N : i = 0 \/ fl[i] = g[i]}
<1>14. 0 \in P
  BY <1>1
<1>15. ASSUME NEW i \in 1..N, i - 1 \in P PROVE i \in P
  <2>1. CASE i = 1
    BY <1>6, <1>8, <1>13, <2>1
  <2>2. CASE i # 1
    <3>1. fl[i - 1] = g[i - 1]
      BY <1>1, <1>15, <2>2
    <3>2. fl[i] = g[i]
      BY <1>7, <1>13, <2>2, <3>1
    <3>3. QED BY <1>6, <3>2
  <2>3. QED BY <2>1, <2>2
<1>16. 0..N \subseteq P
  <2> HIDE DEF P
  <2>1. QED BY <1>1, <1>14, <1>15, InductionUpto
<1>17. fl[N] = g[N]
  BY <1>1, <1>11, <1>16
<1>18. QED BY <1>4, <1>7, <1>12, <1>17 DEF N

\* A flattened sequence lays its sequences one after the other.
LEMMA FlattenLaid ==
  ASSUME NEW T, NEW ss \in Seq(Seq(T))
  PROVE  Seqs!FlattenSeq(ss) \in Seq(T) /\ \E at : Laid(Seqs!FlattenSeq(ss), ss, at)
<1>1. CASE Len(ss) = 0
  <2>1. Seqs!FlattenSeq(ss) = ss
    BY <1>1 DEF Seqs!FlattenSeq
  <2>2. ss = <<>> /\ ss \in Seq(T)
    BY <1>1
  <2>3. Laid(ss, ss, ss)
    BY <2>2 DEF Laid
  <2>4. QED BY <2>1, <2>2, <2>3
<1>2. CASE Len(ss) # 0
  <2> DEFINE N == Len(ss)
  <2>1. PICK f \in [0..N -> Seq(T)] :
           /\ f[0] = <<>> /\ Seqs!FlattenSeq(ss) = f[N]
           /\ \A i \in 1..N : f[i] = f[i - 1] \o ss[i]
    BY <1>2, FlattenRounds
  <2>2. N \in Nat /\ DOMAIN ss = 1..N /\ \A k \in 1..N : ss[k] \in Seq(T)
    OBVIOUS
  <2> HIDE DEF N
  <2>3. \A k \in 1..N : k - 1 \in 0..N /\ k \in 0..N /\ f[k - 1] \in Seq(T) /\ f[k] \in Seq(T)
    <3>1. \A k \in 1..N : k - 1 \in 0..N /\ k \in 0..N
      BY <2>2
    <3>2. QED BY <2>1, <3>1
  <2> DEFINE at == [k \in 1..N |-> Len(f[k - 1])]
             UpTo(m) ==
               /\ \A k \in 1..m : \A j \in DOMAIN ss[k] :
                    at[k] + j \in DOMAIN f[m] /\ f[m][at[k] + j] = ss[k][j]
               /\ \A i \in DOMAIN f[m] : \E k \in 1..m : \E j \in DOMAIN ss[k] : i = at[k] + j
             P == {m \in 0..N : UpTo(m)}
  <2>4. 0 \in P
    BY <2>1, <2>2
  <2>5. ASSUME NEW m \in 1..N, m - 1 \in P PROVE m \in P
    <3>1. /\ f[m] = f[m - 1] \o ss[m] /\ f[m - 1] \in Seq(T) /\ ss[m] \in Seq(T)
          /\ at[m] = Len(f[m - 1]) /\ m \in 0..N
      BY <2>1, <2>2, <2>3
    <3>2. UpTo(m - 1)
      BY <2>5
    <3> HIDE DEF at
    <3>3. /\ \A i \in DOMAIN f[m - 1] : i \in DOMAIN f[m] /\ f[m][i] = f[m - 1][i]
          /\ \A j \in DOMAIN ss[m] : at[m] + j \in DOMAIN f[m] /\ f[m][at[m] + j] = ss[m][j]
          /\ \A i \in DOMAIN f[m] :
               i \in DOMAIN f[m - 1] \/ \E j \in DOMAIN ss[m] : i = at[m] + j
      <4>1. PICK a \in Seq(T) : a = f[m - 1]
        BY <3>1
      <4>2. PICK b \in Seq(T) : b = ss[m]
        BY <3>1
      <4>3. PICK c : c = a \o b /\ Joined(c, a, b)
        BY JoinedSeqs
      <4>4. Joined(f[m], f[m - 1], ss[m])
        BY <3>1, <4>1, <4>2, <4>3
      <4>5. \A j : Len(f[m - 1]) + j = at[m] + j
        BY <3>1
      <4>6. QED BY <4>4, <4>5, Zenon DEF Joined
    <3>4. \A k \in 1..m : k \in 1..(m - 1) \/ k = m
      OBVIOUS
    <3>5. \A k \in 1..m : \A j \in DOMAIN ss[k] :
            at[k] + j \in DOMAIN f[m] /\ f[m][at[k] + j] = ss[k][j]
      BY <3>2, <3>3, <3>4
    <3>6. m \in 1..m /\ \A k \in 1..(m - 1) : k \in 1..m
      OBVIOUS
    <3>7. \A i \in DOMAIN f[m] : \E k \in 1..m : \E j \in DOMAIN ss[k] : i = at[k] + j
      BY <3>2, <3>3, <3>6
    <3>8. QED BY <3>1, <3>5, <3>7
  <2>6. 0..N \subseteq P
    <3> HIDE DEF P
    <3>1. QED BY <2>2, <2>4, <2>5, InductionUpto
  <2>7. UpTo(N) /\ N \in 0..N
    <3>1. N \in 0..N
      BY <2>2
    <3>2. N \in P
      BY <2>6, <3>1
    <3>3. QED BY <3>1, <3>2
  <2>8. at \in [1..N -> Nat]
    BY <2>3
  <2> HIDE DEF at
  <2>9. Laid(f[N], ss, at)
    <3>1. /\ \A k \in 1..N : \A j \in DOMAIN ss[k] :
               at[k] + j \in DOMAIN f[N] /\ f[N][at[k] + j] = ss[k][j]
          /\ \A i \in DOMAIN f[N] : \E k \in 1..N : \E j \in DOMAIN ss[k] : i = at[k] + j
      BY <2>7
    <3>2. PICK F : F = f[N]
      OBVIOUS
    <3> HIDE DEF UpTo, P
    <3>3. DOMAIN ss = 1..N
      BY <2>2
    <3>4. /\ \A k \in DOMAIN ss : \A j \in DOMAIN ss[k] :
               at[k] + j \in DOMAIN F /\ F[at[k] + j] = ss[k][j]
          /\ \A i \in DOMAIN F : \E k \in DOMAIN ss : \E j \in DOMAIN ss[k] : i = at[k] + j
      <4>1. ASSUME NEW k \in DOMAIN ss, NEW j \in DOMAIN ss[k]
            PROVE  at[k] + j \in DOMAIN F /\ F[at[k] + j] = ss[k][j]
        <5>1. k \in 1..N
          BY <3>3
        <5>2. QED BY <3>1, <3>2, <5>1
      <4>2. ASSUME NEW i \in DOMAIN F
            PROVE  \E k \in DOMAIN ss : \E j \in DOMAIN ss[k] : i = at[k] + j
        <5>1. i \in DOMAIN f[N]
          BY <3>2
        <5>2. PICK k \in 1..N : \E j \in DOMAIN ss[k] : i = at[k] + j
          BY <3>1, <5>1
        <5>3. k \in DOMAIN ss
          BY <3>3, <5>2
        <5>4. QED BY <5>2, <5>3
      <4>3. QED BY <4>1, <4>2
    <3>5. at \in [DOMAIN ss -> Nat]
      BY <2>8, <3>3
    <3>6. Laid(F, ss, at)
      BY <3>4, <3>5 DEF Laid
    <3>7. QED BY <3>2, <3>6
  <2>10. QED BY <2>1, <2>7, <2>9
<1>3. QED BY <1>1, <1>2
-----------------------------------------------------------------------------
(* The statements of a plan. *)

Steps(plan) == Seqs!ToSet(plan.steps)

\* The statements of one step, and those before the steps.
Parts(s) == Seqs!ToSet(StepStatements(s))
Openings(plan) ==
  (UNION {Seqs!ToSet(EvidencedPremise(q)) \cup Seqs!ToSet(PlainPremise(q)) :
            q \in Seqs!ToSet(plan.premises)})
    \cup (UNION {Seqs!ToSet(AssumedPremise(q)) : q \in Seqs!ToSet(plan.assumptions)})

\* p has the statements of plan, those of the k-th step after position at[k].
Written(p, plan, at) ==
  /\ at \in [DOMAIN plan.steps -> Nat]
  /\ \A st \in Openings(plan) : \E i \in DOMAIN p : p[i] = st
  /\ \A k \in DOMAIN plan.steps : \A j \in DOMAIN StepStatements(plan.steps[k]) :
       at[k] + j \in DOMAIN p /\ p[at[k] + j] = StepStatements(plan.steps[k])[j]
  /\ \A i \in DOMAIN p :
       \/ p[i] \in Openings(plan)
       \/ \E k \in DOMAIN plan.steps : \E j \in DOMAIN StepStatements(plan.steps[k]) :
            i = at[k] + j

\* A vector is a sequence over every set that has its elements.
LEMMA VectorGrows ==
  ASSUME NEW T, NEW s, IsVector(s), Seqs!ToSet(s) \subseteq T
  PROVE  s \in Seq(T)
BY DEF IsVector

\* Vectors joined, with the elements of both.
LEMMA JoinedVectors ==
  ASSUME NEW s, NEW t, IsVector(s), IsVector(t)
  PROVE  IsVector(s \o t) /\ Seqs!ToSet(s \o t) = Seqs!ToSet(s) \cup Seqs!ToSet(t)
<1> DEFINE T == Seqs!ToSet(s) \cup Seqs!ToSet(t)
<1>1. s \in Seq(T) /\ t \in Seq(T)
  BY VectorGrows
<1> HIDE DEF T
<1>2. PICK c : c = s \o t /\ c \in Seq(T) /\ Joined(c, s, t)
  BY <1>1, JoinedSeqs
<1>3. Seqs!ToSet(c) = Seqs!ToSet(s) \cup Seqs!ToSet(t)
  <2>1. \A i \in DOMAIN c : c[i] \in Seqs!ToSet(s) \cup Seqs!ToSet(t)
    <3>1. ASSUME NEW i \in DOMAIN c, i \notin DOMAIN s PROVE c[i] \in Seqs!ToSet(t)
      <4>1. PICK j \in DOMAIN t : i = Len(s) + j
        BY <1>2, <3>1 DEF Joined
      <4>2. c[i] = t[j]
        BY <1>2, <4>1 DEF Joined
      <4>3. QED BY <4>1, <4>2, ToSetIsRange
    <3>2. ASSUME NEW i \in DOMAIN s PROVE c[i] \in Seqs!ToSet(s)
      BY <1>2, ToSetIsRange DEF Joined
    <3>3. QED BY <3>1, <3>2
  <2>2. \A i \in DOMAIN s : s[i] \in Seqs!ToSet(c)
    <3>1. \A i \in DOMAIN s : i \in DOMAIN c /\ c[i] = s[i]
      BY <1>2 DEF Joined
    <3>2. QED BY <3>1, ToSetIsRange
  <2>3. \A i \in DOMAIN t : t[i] \in Seqs!ToSet(c)
    <3>1. \A i \in DOMAIN t : Len(s) + i \in DOMAIN c /\ c[Len(s) + i] = t[i]
      BY <1>2 DEF Joined
    <3>2. QED BY <3>1, ToSetIsRange
  <2>4. QED BY <2>1, <2>2, <2>3, ToSetIsRange
<1>4. QED BY <1>2, <1>3 DEF T, IsVector

\* What is written for an item is a vector.
LEMMA PremiseVectors ==
  \A q : IsVector(EvidencedPremise(q)) /\ IsVector(PlainPremise(q)) /\ IsVector(AssumedPremise(q))
<1> SUFFICES ASSUME NEW q
             PROVE  IsVector(EvidencedPremise(q)) /\ IsVector(PlainPremise(q))
                    /\ IsVector(AssumedPremise(q))
  OBVIOUS
<1>1. IsVector(<<>>)
  BY DEF IsVector
<1>2. \A a : IsVector(<<a>>)
  BY ToSetIsRange DEF IsVector
<1>3. \A a, b : IsVector(<<a, b>>)
  BY ToSetIsRange DEF IsVector
<1>4. QED BY <1>1, <1>2, <1>3 DEF EvidencedPremise, PlainPremise, AssumedPremise

\* What is written for a step is a vector.
LEMMA StepVector == \A s : IsVector(StepStatements(s))
<1>1. IsVector(<<>>)
  BY DEF IsVector
<1>2. \A a : IsVector(<<a>>)
  BY ToSetIsRange DEF IsVector
<1>3. ASSUME NEW s PROVE IsVector(StepStatements(s))
  <2>1. /\ IsVector(<<DeriveOf(s)>>) /\ IsVector(RequireOf(s))
        /\ IsVector(DischargeOf(s)) /\ IsVector(VerifyOf(s))
    BY <1>1, <1>2 DEF RequireOf, DischargeOf, VerifyOf
  <2>2. IsVector(<<DeriveOf(s)>> \o RequireOf(s))
    BY <2>1, JoinedVectors
  <2>3. IsVector((<<DeriveOf(s)>> \o RequireOf(s)) \o DischargeOf(s))
    BY <2>1, <2>2, JoinedVectors
  <2>4. IsVector(((<<DeriveOf(s)>> \o RequireOf(s)) \o DischargeOf(s)) \o VerifyOf(s))
    BY <2>1, <2>3, JoinedVectors
  <2>5. QED BY <2>4 DEF StepStatements
<1>4. QED BY <1>3

\* One of the loops of `produce`: for each item its statements.
LEMMA EachLaid ==
  ASSUME NEW T, NEW seq, IsVector(seq), NEW ss, DOMAIN ss = DOMAIN seq,
         \A k \in DOMAIN ss : IsVector(ss[k]) /\ Seqs!ToSet(ss[k]) \subseteq T,
         ss = [k \in DOMAIN ss |-> ss[k]]
  PROVE  /\ Seqs!FlattenSeq(ss) \in Seq(T)
         /\ \E at : Laid(Seqs!FlattenSeq(ss), ss, at)
<1>1. \A k \in DOMAIN ss : ss[k] \in Seq(T)
  BY VectorGrows
<1>2. Len(seq) \in Nat /\ DOMAIN ss = 1..Len(seq)
  BY DEF IsVector
<1>3. ss \in [1..Len(seq) -> Seq(T)]
  BY <1>1, <1>2
<1>4. ss \in Seq(Seq(T))
  BY <1>2, <1>3
<1>5. QED BY <1>4, FlattenLaid

\* Its elements are theirs.
LEMMA LaidElements ==
  ASSUME NEW F, NEW ss, NEW at, Laid(F, ss, at)
  PROVE  Seqs!ToSet(F) = UNION {Seqs!ToSet(ss[k]) : k \in DOMAIN ss}
<1>1. ASSUME NEW i \in DOMAIN F
      PROVE  \E k \in DOMAIN ss : F[i] \in Seqs!ToSet(ss[k])
  <2>1. PICK k \in DOMAIN ss : \E j \in DOMAIN ss[k] : i = at[k] + j
    BY DEF Laid
  <2>2. PICK j \in DOMAIN ss[k] : i = at[k] + j
    BY <2>1
  <2>3. F[i] = ss[k][j]
    BY <2>2 DEF Laid
  <2>4. QED BY <2>3, ToSetIsRange
<1>2. ASSUME NEW k \in DOMAIN ss, NEW st \in Seqs!ToSet(ss[k])
      PROVE  st \in Seqs!ToSet(F)
  <2>1. PICK j \in DOMAIN ss[k] : st = ss[k][j]
    BY ToSetIsRange
  <2>2. at[k] + j \in DOMAIN F /\ F[at[k] + j] = st
    BY <2>1 DEF Laid
  <2>3. QED BY <2>2, ToSetIsRange
<1>3. ASSUME NEW st \in Seqs!ToSet(F)
      PROVE  \E k \in DOMAIN ss : st \in Seqs!ToSet(ss[k])
  BY <1>1, ToSetIsRange
<1>4. QED BY <1>2, <1>3

\* The elements of what is written for each item of a vector.
LEMMA ImageElements ==
  ASSUME NEW seq, NEW g, NEW ss, DOMAIN ss = DOMAIN seq,
         \A k \in DOMAIN ss : ss[k] = g[seq[k]], NEW x
  PROVE  (\E k \in DOMAIN ss : x \in Seqs!ToSet(ss[k]))
           <=> \E q \in Seqs!ToSet(seq) : x \in Seqs!ToSet(g[q])
<1>1. ASSUME NEW k \in DOMAIN ss, x \in Seqs!ToSet(ss[k])
      PROVE  \E q \in Seqs!ToSet(seq) : x \in Seqs!ToSet(g[q])
  <2>1. seq[k] \in Seqs!ToSet(seq) /\ x \in Seqs!ToSet(g[seq[k]])
    BY <1>1, ToSetIsRange
  <2>2. QED BY <2>1
<1>2. ASSUME NEW q \in Seqs!ToSet(seq), x \in Seqs!ToSet(g[q])
      PROVE  \E k \in DOMAIN ss : x \in Seqs!ToSet(ss[k])
  <2>1. PICK k \in DOMAIN seq : q = seq[k]
    BY ToSetIsRange
  <2>2. QED BY <1>2, <2>1
<1>3. QED BY <1>1, <1>2

\* The statements of the loops over premises and assumptions.
Opened(plan) ==
  Each(EvidencedPremise, plan.premises) \o Each(PlainPremise, plan.premises)
    \o Each(AssumedPremise, plan.assumptions)

\* The statements before the steps are those of premises and assumptions.
LEMMA OpenedElements ==
  ASSUME NEW plan \in Plan
  PROVE  IsVector(Opened(plan)) /\ Seqs!ToSet(Opened(plan)) = Openings(plan)
<1> DEFINE es == [k \in DOMAIN plan.premises |-> EvidencedPremise(plan.premises[k])]
           ps == [k \in DOMAIN plan.premises |-> PlainPremise(plan.premises[k])]
           as == [k \in DOMAIN plan.assumptions |-> AssumedPremise(plan.assumptions[k])]
           Union(ss) == UNION {Seqs!ToSet(ss[k]) : k \in DOMAIN ss}
<1>1. IsVector(plan.premises) /\ IsVector(plan.assumptions)
  BY PlanAssumption
<1>2. /\ DOMAIN es = DOMAIN plan.premises /\ es = [k \in DOMAIN es |-> es[k]]
      /\ DOMAIN ps = DOMAIN plan.premises /\ ps = [k \in DOMAIN ps |-> ps[k]]
      /\ DOMAIN as = DOMAIN plan.assumptions /\ as = [k \in DOMAIN as |-> as[k]]
  OBVIOUS
<1>3. /\ \A k \in DOMAIN es : IsVector(es[k]) /\ es[k] = EvidencedPremise(plan.premises[k])
      /\ \A k \in DOMAIN ps : IsVector(ps[k]) /\ ps[k] = PlainPremise(plan.premises[k])
      /\ \A k \in DOMAIN as : IsVector(as[k]) /\ as[k] = AssumedPremise(plan.assumptions[k])
  BY PremiseVectors
<1>4. /\ Each(EvidencedPremise, plan.premises) = Seqs!FlattenSeq(es)
      /\ Each(PlainPremise, plan.premises) = Seqs!FlattenSeq(ps)
      /\ Each(AssumedPremise, plan.assumptions) = Seqs!FlattenSeq(as)
  BY DEF Each
<1> HIDE DEF es, ps, as
<1>5. ASSUME NEW seq, IsVector(seq), NEW ss, DOMAIN ss = DOMAIN seq,
             ss = [k \in DOMAIN ss |-> ss[k]], \A k \in DOMAIN ss : IsVector(ss[k])
      PROVE  IsVector(Seqs!FlattenSeq(ss)) /\ Seqs!ToSet(Seqs!FlattenSeq(ss)) = Union(ss)
  <2> DEFINE T == Union(ss)
  <2>1. \A k \in DOMAIN ss : IsVector(ss[k]) /\ Seqs!ToSet(ss[k]) \subseteq T
    BY <1>5
  <2> HIDE DEF T
  <2>2. PICK F : F = Seqs!FlattenSeq(ss) /\ F \in Seq(T) /\ \E at : Laid(F, ss, at)
    BY <1>5, <2>1, EachLaid
  <2>3. Seqs!ToSet(F) = T
    BY <2>2, LaidElements DEF T
  <2>4. QED BY <2>2, <2>3 DEF T, IsVector
<1>6. /\ IsVector(Seqs!FlattenSeq(es)) /\ Seqs!ToSet(Seqs!FlattenSeq(es)) = Union(es)
      /\ IsVector(Seqs!FlattenSeq(ps)) /\ Seqs!ToSet(Seqs!FlattenSeq(ps)) = Union(ps)
      /\ IsVector(Seqs!FlattenSeq(as)) /\ Seqs!ToSet(Seqs!FlattenSeq(as)) = Union(as)
  <2> HIDE DEF Union
  <2>1. QED BY <1>1, <1>2, <1>3, <1>5
<1>7. /\ IsVector(Opened(plan))
      /\ Seqs!ToSet(Opened(plan)) = (Union(es) \cup Union(ps)) \cup Union(as)
  <2> HIDE DEF Union
  <2>1. PICK a, b, c : /\ a = Each(EvidencedPremise, plan.premises)
                       /\ b = Each(PlainPremise, plan.premises)
                       /\ c = Each(AssumedPremise, plan.assumptions)
    OBVIOUS
  <2>2. /\ IsVector(a) /\ Seqs!ToSet(a) = Union(es) /\ IsVector(b) /\ Seqs!ToSet(b) = Union(ps)
        /\ IsVector(c) /\ Seqs!ToSet(c) = Union(as)
    BY <1>4, <1>6, <2>1
  <2>3. IsVector(a \o b) /\ Seqs!ToSet(a \o b) = Union(es) \cup Union(ps)
    BY <2>2, JoinedVectors
  <2>4. IsVector((a \o b) \o c) /\ Seqs!ToSet((a \o b) \o c) = (Union(es) \cup Union(ps)) \cup Union(as)
    BY <2>2, <2>3, JoinedVectors
  <2>5. Opened(plan) = (a \o b) \o c
    BY <2>1 DEF Opened
  <2>6. QED BY <2>4, <2>5
<1>8. ASSUME NEW x
      PROVE  /\ x \in Union(es) <=>
                  \E q \in Seqs!ToSet(plan.premises) : x \in Seqs!ToSet(EvidencedPremise(q))
             /\ x \in Union(ps) <=>
                  \E q \in Seqs!ToSet(plan.premises) : x \in Seqs!ToSet(PlainPremise(q))
             /\ x \in Union(as) <=>
                  \E q \in Seqs!ToSet(plan.assumptions) : x \in Seqs!ToSet(AssumedPremise(q))
  <2> DEFINE e == [q \in Seqs!ToSet(plan.premises) |-> EvidencedPremise(q)]
             p == [q \in Seqs!ToSet(plan.premises) |-> PlainPremise(q)]
             a == [q \in Seqs!ToSet(plan.assumptions) |-> AssumedPremise(q)]
  <2>1. /\ \A k \in DOMAIN es : es[k] = e[plan.premises[k]]
        /\ \A k \in DOMAIN ps : ps[k] = p[plan.premises[k]]
        /\ \A k \in DOMAIN as : as[k] = a[plan.assumptions[k]]
    BY <1>2, <1>3, ToSetIsRange
  <2>2. /\ \A q \in Seqs!ToSet(plan.premises) : e[q] = EvidencedPremise(q) /\ p[q] = PlainPremise(q)
        /\ \A q \in Seqs!ToSet(plan.assumptions) : a[q] = AssumedPremise(q)
    OBVIOUS
  <2> HIDE DEF e, p, a
  <2>3. /\ x \in Union(es) <=> \E q \in Seqs!ToSet(plan.premises) : x \in Seqs!ToSet(e[q])
        /\ x \in Union(ps) <=> \E q \in Seqs!ToSet(plan.premises) : x \in Seqs!ToSet(p[q])
        /\ x \in Union(as) <=> \E q \in Seqs!ToSet(plan.assumptions) : x \in Seqs!ToSet(a[q])
    <3>1. \A ss : x \in Union(ss) <=> \E k \in DOMAIN ss : x \in Seqs!ToSet(ss[k])
      OBVIOUS
    <3> HIDE DEF Union
    <3>2. /\ (\E k \in DOMAIN es : x \in Seqs!ToSet(es[k]))
               <=> \E q \in Seqs!ToSet(plan.premises) : x \in Seqs!ToSet(e[q])
          /\ (\E k \in DOMAIN ps : x \in Seqs!ToSet(ps[k]))
               <=> \E q \in Seqs!ToSet(plan.premises) : x \in Seqs!ToSet(p[q])
          /\ (\E k \in DOMAIN as : x \in Seqs!ToSet(as[k]))
               <=> \E q \in Seqs!ToSet(plan.assumptions) : x \in Seqs!ToSet(a[q])
      BY <1>2, <2>1, ImageElements
    <3>3. QED BY <3>1, <3>2
  <2>4. QED BY <2>2, <2>3
<1>9. ASSUME NEW x
      PROVE  x \in Openings(plan) <=> x \in (Union(es) \cup Union(ps)) \cup Union(as)
  <2>1. x \in Openings(plan) <=>
          \/ \E q \in Seqs!ToSet(plan.premises) :
               x \in Seqs!ToSet(EvidencedPremise(q)) \/ x \in Seqs!ToSet(PlainPremise(q))
          \/ \E q \in Seqs!ToSet(plan.assumptions) : x \in Seqs!ToSet(AssumedPremise(q))
    <3> DEFINE A == {Seqs!ToSet(EvidencedPremise(q)) \cup Seqs!ToSet(PlainPremise(q)) :
                       q \in Seqs!ToSet(plan.premises)}
               B == {Seqs!ToSet(AssumedPremise(q)) : q \in Seqs!ToSet(plan.assumptions)}
    <3>1. Openings(plan) = (UNION A) \cup (UNION B)
      BY Zenon DEF Openings
    <3>2. x \in UNION A <=> \E q \in Seqs!ToSet(plan.premises) :
               x \in Seqs!ToSet(EvidencedPremise(q)) \/ x \in Seqs!ToSet(PlainPremise(q))
      OBVIOUS
    <3>3. x \in UNION B <=> \E q \in Seqs!ToSet(plan.assumptions) :
                                x \in Seqs!ToSet(AssumedPremise(q))
      OBVIOUS
    <3> HIDE DEF A, B
    <3>4. x \in Openings(plan) <=> x \in UNION A \/ x \in UNION B
      BY <3>1, Zenon
    <3>5. QED BY <3>2, <3>3, <3>4
  <2> HIDE DEF Union
  <2>2. QED BY <1>8, <2>1
<1>10. QED BY <1>7, <1>9

\* The program of a plan: openings, then the steps' statements in one piece each.
LEMMA ProduceWritten ==
  ASSUME NEW plan \in Plan
  PROVE  \E at : Written(Produce(plan), plan, at)
<1> DEFINE ss == [k \in DOMAIN plan.steps |-> StepStatements(plan.steps[k])]
           T == UNION {Seqs!ToSet(ss[k]) : k \in DOMAIN ss}
<1>1. IsVector(plan.steps) /\ DOMAIN ss = DOMAIN plan.steps /\ ss = [k \in DOMAIN ss |-> ss[k]]
  BY PlanAssumption
<1>2. \A k \in DOMAIN ss : /\ IsVector(ss[k]) /\ Seqs!ToSet(ss[k]) \subseteq T
                           /\ ss[k] = StepStatements(plan.steps[k])
  BY StepVector
<1>3. Each(StepStatements, plan.steps) = Seqs!FlattenSeq(ss)
  BY DEF Each
<1> HIDE DEF ss, T
<1>4. PICK d : d = Each(StepStatements, plan.steps) /\ d \in Seq(T) /\ \E at : Laid(d, ss, at)
  BY <1>1, <1>2, <1>3, EachLaid
<1>5. PICK at : Laid(d, ss, at)
  BY <1>4
<1>6. PICK o : o = Opened(plan) /\ IsVector(o) /\ Seqs!ToSet(o) = Openings(plan)
  BY OpenedElements
<1>7. PICK p : p = Produce(plan) /\ Joined(p, o, d)
  <2>1. o \in Seq(Seqs!ToSet(o) \cup T) /\ d \in Seq(Seqs!ToSet(o) \cup T)
    BY <1>4, <1>6 DEF IsVector
  <2>2. Joined(o \o d, o, d)
    BY <2>1, JoinedSeqs
  <2>3. Produce(plan) = o \o d
    BY <1>4, <1>6 DEF Produce, Opened
  <2>4. QED BY <2>2, <2>3
<1> DEFINE after == [k \in DOMAIN plan.steps |-> Len(o) + at[k]]
<1>8. Len(o) \in Nat /\ at \in [DOMAIN plan.steps -> Nat]
  BY <1>1, <1>5, <1>6 DEF IsVector, Laid
<1>9. after \in [DOMAIN plan.steps -> Nat]
  BY <1>8
<1>10. \A st \in Openings(plan) : \E i \in DOMAIN p : p[i] = st
  BY <1>6, <1>7, ToSetIsRange DEF Joined
<1>11. ASSUME NEW k \in DOMAIN plan.steps, NEW j \in DOMAIN StepStatements(plan.steps[k])
       PROVE  /\ after[k] + j \in DOMAIN p /\ p[after[k] + j] = StepStatements(plan.steps[k])[j]
              /\ after[k] + j = Len(o) + (at[k] + j)
  <2>1. j \in Nat /\ at[k] \in Nat
    <3>1. IsVector(StepStatements(plan.steps[k]))
      BY StepVector
    <3>2. QED BY <1>8, <3>1 DEF IsVector
  <2>2. after[k] + j = Len(o) + (at[k] + j)
    BY <1>8, <2>1
  <2>3. k \in DOMAIN ss /\ ss[k] = StepStatements(plan.steps[k])
    BY <1>1, <1>2
  <2>4. at[k] + j \in DOMAIN d /\ d[at[k] + j] = StepStatements(plan.steps[k])[j]
    BY <1>5, <2>3 DEF Laid
  <2> HIDE DEF after
  <2>5. QED BY <1>7, <2>2, <2>4 DEF Joined
<1>12. ASSUME NEW i \in DOMAIN p
       PROVE  \/ p[i] \in Openings(plan)
              \/ \E k \in DOMAIN plan.steps : \E j \in DOMAIN StepStatements(plan.steps[k]) :
                   i = after[k] + j
  <2>1. CASE i \in DOMAIN o
    BY <1>6, <1>7, <2>1, ToSetIsRange DEF Joined
  <2>2. CASE \E n \in DOMAIN d : i = Len(o) + n
    <3>1. PICK n \in DOMAIN d : i = Len(o) + n
      BY <2>2
    <3>2. PICK k \in DOMAIN ss : \E j \in DOMAIN ss[k] : n = at[k] + j
      BY <1>5 DEF Laid
    <3>3. k \in DOMAIN plan.steps /\ ss[k] = StepStatements(plan.steps[k])
      BY <1>1, <1>2
    <3>4. PICK j \in DOMAIN StepStatements(plan.steps[k]) : n = at[k] + j
      BY <3>2, <3>3
    <3>5. i = after[k] + j
      BY <1>11, <3>1, <3>3, <3>4
    <3>6. QED BY <3>3, <3>5
  <2>3. QED BY <1>7, <2>1, <2>2 DEF Joined
<1> HIDE DEF after
<1>13. Written(p, plan, after)
  BY <1>9, <1>10, <1>11, <1>12 DEF Written
<1>14. QED BY <1>7, <1>13

Requirement(s) == [verb |-> "require", kind |-> "NumericBounds", target |-> LabelOf(s)]
Clearance(s) == [verb |-> "discharge", target |-> LabelOf(s), by |-> Sanitize(s.dischargeBy)]
Request(s) == [verb |-> "verify", target |-> LabelOf(s)]

Settles(s) == s.requires /\ s.dischargeBy # NoLabel

TurnOf(verb) ==
  CASE verb = "derive" -> 1 [] verb = "require" -> 2 [] verb = "discharge" -> 3
    [] OTHER -> 4
Turn(st) == TurnOf(st.verb)

InTurn(v) == \A i, j \in DOMAIN v : i < j => Turn(v[i]) < Turn(v[j])
Before(v, n) == \A i \in DOMAIN v : Turn(v[i]) < n

\* At most one statement is appended, and later ones take a later turn.
LEMMA TurnAppended ==
  ASSUME NEW v, NEW t, NEW w, IsVector(v), InTurn(v), Before(v, Turn(t)),
         w = <<t>> \/ w = <<>>
  PROVE  /\ IsVector(v \o w) /\ Seqs!ToSet(v \o w) = Seqs!ToSet(v) \cup Seqs!ToSet(w)
         /\ InTurn(v \o w) /\ Before(v \o w, Turn(t) + 1)
<1>1. IsVector(w)
  <2>1. IsVector(<<t>>) /\ IsVector(<<>>)
    BY ToSetIsRange DEF IsVector
  <2>2. QED BY <2>1
<1>2. IsVector(v \o w) /\ Seqs!ToSet(v \o w) = Seqs!ToSet(v) \cup Seqs!ToSet(w)
  BY <1>1, JoinedVectors
<1>3. PICK c : c = v \o w /\ Joined(c, v, w)
  <2>1. v \in Seq(Seqs!ToSet(v) \cup Seqs!ToSet(w)) /\ w \in Seq(Seqs!ToSet(v) \cup Seqs!ToSet(w))
    BY <1>1, VectorGrows
  <2>2. QED BY <2>1, JoinedSeqs
<1>4. Turn(t) \in Nat /\ \A i \in DOMAIN v : Turn(v[i]) \in Nat
  BY DEF Turn, TurnOf
<1>5. Len(v) \in Nat /\ DOMAIN v = 1..Len(v)
  BY DEF IsVector
<1>6. \A j \in DOMAIN w : j = 1 /\ w[j] = t
  OBVIOUS
<1>7. \A i \in DOMAIN c :
        \/ i \in DOMAIN v /\ c[i] = v[i]
        \/ i = Len(v) + 1 /\ c[i] = t
  BY <1>3, <1>6 DEF Joined
<1>8. InTurn(c)
  <2>1. ASSUME NEW i \in DOMAIN c, NEW j \in DOMAIN c, i < j
        PROVE  Turn(c[i]) < Turn(c[j])
    <3>1. i \in DOMAIN v /\ c[i] = v[i]
      BY <1>5, <1>7, <2>1
    <3>2. CASE j \in DOMAIN v /\ c[j] = v[j]
      BY <2>1, <3>1, <3>2 DEF InTurn
    <3>3. CASE c[j] = t
      BY <3>1, <3>3 DEF Before
    <3>4. QED BY <1>7, <3>2, <3>3
  <2>2. QED BY <2>1 DEF InTurn
<1>9. Before(c, Turn(t) + 1)
  <2>1. ASSUME NEW i \in DOMAIN c PROVE Turn(c[i]) < Turn(t) + 1
    <3>1. CASE i \in DOMAIN v /\ c[i] = v[i]
      <4>1. Turn(v[i]) < Turn(t)
        BY <3>1 DEF Before
      <4>2. QED BY <1>4, <3>1, <4>1
    <3>2. CASE c[i] = t
      BY <1>4, <3>2
    <3>3. QED BY <1>7, <3>1, <3>2
  <2>2. QED BY <2>1 DEF Before
<1>10. QED BY <1>2, <1>3, <1>8, <1>9

\* What a step becomes, in order.
LEMMA StepShape ==
  ASSUME NEW s
  PROVE  /\ Parts(s) = {DeriveOf(s)} \cup (IF s.requires THEN {Requirement(s)} ELSE {})
                         \cup (IF Settles(s) THEN {Clearance(s)} ELSE {})
                         \cup (IF s.verify THEN {Request(s)} ELSE {})
         /\ InTurn(StepStatements(s))
<1>1. PICK d, r, x, v : d = DeriveOf(s) /\ r = Requirement(s) /\ x = Clearance(s) /\ v = Request(s)
  OBVIOUS
<1>2. Turn(d) = 1 /\ Turn(r) = 2 /\ Turn(x) = 3 /\ Turn(v) = 4
  BY <1>1 DEF Turn, TurnOf, DeriveOf, Requirement, Clearance, Request
<1>3. PICK rs, xs, vs : rs = RequireOf(s) /\ xs = DischargeOf(s) /\ vs = VerifyOf(s)
  OBVIOUS
<1>4. /\ rs = IF s.requires THEN <<r>> ELSE <<>>
      /\ xs = IF Settles(s) THEN <<x>> ELSE <<>>
      /\ vs = IF s.verify THEN <<v>> ELSE <<>>
  BY <1>1, <1>3, Zenon DEF RequireOf, DischargeOf, VerifyOf, Settles, Requirement,
     Clearance, Request, LabelOf
<1>5. (rs = <<r>> \/ rs = <<>>) /\ (xs = <<x>> \/ xs = <<>>) /\ (vs = <<v>> \/ vs = <<>>)
  BY <1>4
<1>6. /\ Seqs!ToSet(rs) = IF s.requires THEN {r} ELSE {}
      /\ Seqs!ToSet(xs) = IF Settles(s) THEN {x} ELSE {}
      /\ Seqs!ToSet(vs) = IF s.verify THEN {v} ELSE {}
  <2>1. \A t : Seqs!ToSet(<<t>>) = {t}
    BY ToSetIsRange
  <2>2. Seqs!ToSet(<<>>) = {}
    BY ToSetIsRange
  <2>3. QED BY <1>4, <2>1, <2>2
<1>7. IsVector(<<d>>) /\ InTurn(<<d>>) /\ Before(<<d>>, 2) /\ Seqs!ToSet(<<d>>) = {d}
  BY <1>2, ToSetIsRange DEF IsVector, InTurn, Before
<1>8. PICK a : a = <<d>> \o rs /\ IsVector(a) /\ Seqs!ToSet(a) = {d} \cup Seqs!ToSet(rs)
               /\ InTurn(a) /\ Before(a, 3)
  <2>1. PICK u : u = <<d>> /\ IsVector(u) /\ InTurn(u) /\ Before(u, 2) /\ Seqs!ToSet(u) = {d}
    BY <1>7
  <2>2. 2 + 1 = 3 /\ Before(u, Turn(r))
    BY <1>2, <2>1
  <2>3. Before(u \o rs, Turn(r) + 1) /\ IsVector(u \o rs) /\ InTurn(u \o rs)
        /\ Seqs!ToSet(u \o rs) = Seqs!ToSet(u) \cup Seqs!ToSet(rs)
    BY <1>5, <2>1, <2>2, TurnAppended
  <2>4. QED BY <1>2, <2>1, <2>2, <2>3
<1>9. PICK b : b = a \o xs /\ IsVector(b) /\ Seqs!ToSet(b) = Seqs!ToSet(a) \cup Seqs!ToSet(xs)
               /\ InTurn(b) /\ Before(b, 4)
  <2>2. 3 + 1 = 4 /\ Before(a, Turn(x))
    BY <1>2, <1>8
  <2>3. Before(a \o xs, Turn(x) + 1) /\ IsVector(a \o xs) /\ InTurn(a \o xs)
        /\ Seqs!ToSet(a \o xs) = Seqs!ToSet(a) \cup Seqs!ToSet(xs)
    BY <1>5, <1>8, <2>2, TurnAppended
  <2>4. QED BY <1>2, <2>2, <2>3
<1>10. PICK w : w = b \o vs /\ Seqs!ToSet(w) = Seqs!ToSet(b) \cup Seqs!ToSet(vs) /\ InTurn(w)
  <2>2. Before(b, Turn(v))
    BY <1>2, <1>9
  <2>3. QED BY <1>5, <1>9, <2>2, TurnAppended
<1>11. StepStatements(s) = w
  <2>1. StepStatements(s) = ((<<DeriveOf(s)>> \o RequireOf(s)) \o DischargeOf(s)) \o VerifyOf(s)
    BY Zenon DEF StepStatements
  <2>2. QED BY <1>1, <1>3, <1>8, <1>9, <1>10, <2>1, Zenon
<1>12. Parts(s) = ((({d} \cup Seqs!ToSet(rs)) \cup Seqs!ToSet(xs)) \cup Seqs!ToSet(vs))
  BY <1>8, <1>9, <1>10, <1>11 DEF Parts
<1>13. QED BY <1>1, <1>6, <1>10, <1>11, <1>12

\* The statements of a step as such, and whose they are.
LEMMA PartMeans ==
  ASSUME NEW s, NEW st \in Parts(s)
  PROVE  /\ \/ st.verb = "derive" /\ st = DeriveOf(s)
            \/ st.verb = "require" /\ st = Requirement(s) /\ s.requires
            \/ st.verb = "discharge" /\ st = Clearance(s) /\ Settles(s)
            \/ st.verb = "verify" /\ st = Request(s) /\ s.verify
         /\ IF st.verb = "derive" THEN st.label = LabelOf(s) ELSE st.target = LabelOf(s)
<1>1. \/ st = DeriveOf(s)
      \/ st = Requirement(s) /\ s.requires
      \/ st = Clearance(s) /\ Settles(s)
      \/ st = Request(s) /\ s.verify
  BY StepShape
<1>2. QED BY <1>1 DEF DeriveOf, Requirement, Clearance, Request, LabelOf

\* The statements a step has.
LEMMA PartsOf ==
  ASSUME NEW s
  PROVE  /\ DeriveOf(s) \in Parts(s)
         /\ s.requires => Requirement(s) \in Parts(s)
         /\ Settles(s) => Clearance(s) \in Parts(s)
         /\ s.verify => Request(s) \in Parts(s)
BY StepShape

Stating(plan) == Seqs!ToSet(plan.premises) \cup Seqs!ToSet(plan.assumptions)

EvidenceFrom(st, plan) ==
  \E q \in Seqs!ToSet(plan.premises) :
    /\ q.evidence # NoEvidence
    /\ st.label = EvidenceLabel(LabelOf(q)) /\ st.evidence = q.evidence

PremiseFrom(st, plan) ==
  /\ st.ctx = RootLabel
  /\ \E q \in Stating(plan) : st.label = LabelOf(q)
  /\ \A l \in st.evidence : \E q \in Seqs!ToSet(plan.premises) :
       q.evidence # NoEvidence /\ l = EvidenceLabel(LabelOf(q))

\* The statements before the steps as such.
LEMMA OpeningMeans ==
  ASSUME NEW plan, NEW st \in Openings(plan)
  PROVE  \/ IsEvidence(st) /\ EvidenceFrom(st, plan)
         \/ IsPremise(st) /\ PremiseFrom(st, plan)
<1>1. \/ \E q \in Seqs!ToSet(plan.premises) :
           \/ st \in Seqs!ToSet(EvidencedPremise(q))
           \/ st \in Seqs!ToSet(PlainPremise(q))
      \/ \E q \in Seqs!ToSet(plan.assumptions) : st \in Seqs!ToSet(AssumedPremise(q))
  BY DEF Openings
<1>2. ASSUME NEW q \in Seqs!ToSet(plan.premises), st \in Seqs!ToSet(EvidencedPremise(q))
      PROVE  \/ IsEvidence(st) /\ EvidenceFrom(st, plan)
             \/ IsPremise(st) /\ PremiseFrom(st, plan)
  <2> DEFINE a == [verb |-> "evidence", label |-> EvidenceLabel(Sanitize(q.label)),
                   evidence |-> q.evidence, provider |-> NoLabel, signed |-> FALSE]
             b == Stated("observe", q, {EvidenceLabel(Sanitize(q.label))})
  <2>1. q.evidence # NoEvidence /\ (st = a \/ st = b)
    <3>1. PICK j \in DOMAIN EvidencedPremise(q) : st = EvidencedPremise(q)[j]
      BY <1>2, ToSetIsRange
    <3>2. q.evidence # NoEvidence
      BY <3>1 DEF EvidencedPremise
    <3>3. EvidencedPremise(q) = <<a, b>>
      BY <3>2 DEF EvidencedPremise
    <3> HIDE DEF a, b
    <3>4. QED BY <3>1, <3>2, <3>3
  <2>2. CASE st = a
    <3>1. st.verb = "evidence" /\ st.label = EvidenceLabel(LabelOf(q)) /\ st.evidence = q.evidence
      BY <2>2 DEF LabelOf
    <3>2. QED BY <2>1, <3>1 DEF IsEvidence, EvidenceFrom
  <2>3. CASE st = b
    <3>1. st.verb = "observe" /\ st.label = LabelOf(q) /\ st.ctx = RootLabel
          /\ st.evidence = {EvidenceLabel(LabelOf(q))}
      BY <2>3 DEF LabelOf, Stated
    <3>2. QED BY <2>1, <3>1 DEF IsPremise, Premises, PremiseFrom, Stating
  <2>4. QED BY <2>1, <2>2, <2>3
<1>3. ASSUME NEW q \in Stating(plan),
             st \in Seqs!ToSet(PlainPremise(q)) \/ st \in Seqs!ToSet(AssumedPremise(q))
      PROVE  IsPremise(st) /\ PremiseFrom(st, plan)
  <2>1. st = Stated("assert", q, {}) \/ st = Stated("assume", q, {})
    <3>1. CASE st \in Seqs!ToSet(PlainPremise(q))
      <4>1. PICK j \in DOMAIN PlainPremise(q) : st = PlainPremise(q)[j]
        BY <3>1, ToSetIsRange
      <4>2. q.evidence = NoEvidence
        BY <4>1 DEF PlainPremise
      <4>3. PICK t : t = Stated("assert", q, {})
        OBVIOUS
      <4>4. PlainPremise(q) = <<t>>
        BY <4>2, <4>3 DEF PlainPremise
      <4>5. QED BY <4>1, <4>3, <4>4
    <3>2. CASE st \in Seqs!ToSet(AssumedPremise(q))
      <4>1. PICK j \in DOMAIN AssumedPremise(q) : st = AssumedPremise(q)[j]
        BY <3>2, ToSetIsRange
      <4>2. PICK t : t = Stated("assume", q, {})
        OBVIOUS
      <4>3. AssumedPremise(q) = <<t>>
        BY <4>2 DEF AssumedPremise
      <4>4. QED BY <4>1, <4>2, <4>3
    <3>3. QED BY <1>3, <3>1, <3>2
  <2>2. /\ st.verb = "assert" \/ st.verb = "assume"
        /\ st.label = LabelOf(q) /\ st.ctx = RootLabel /\ st.evidence = {}
    BY <2>1 DEF LabelOf, Stated
  <2>3. QED BY <2>2 DEF IsPremise, Premises, PremiseFrom
<1>4. QED BY <1>1, <1>2, <1>3 DEF Stating

\* Premises and assumptions are stated, and given evidence is declared.
LEMMA OpeningsHave ==
  ASSUME NEW plan
  PROVE  /\ \A q \in Stating(plan) : \E st \in Openings(plan) :
              IsPremise(st) /\ st.label = LabelOf(q)
         /\ \A q \in Seqs!ToSet(plan.premises) : q.evidence # NoEvidence =>
              \E st \in Openings(plan) : IsEvidence(st) /\ st.label = EvidenceLabel(LabelOf(q))
<1>1. \A a, b : a \in Seqs!ToSet(<<a>>) /\ a \in Seqs!ToSet(<<a, b>>) /\ b \in Seqs!ToSet(<<a, b>>)
  <2>1. ASSUME NEW a, NEW b
        PROVE  a \in Seqs!ToSet(<<a>>) /\ a \in Seqs!ToSet(<<a, b>>) /\ b \in Seqs!ToSet(<<a, b>>)
    <3>1. 1 \in DOMAIN <<a>> /\ <<a>>[1] = a
      OBVIOUS
    <3>2. 1 \in DOMAIN <<a, b>> /\ 2 \in DOMAIN <<a, b>> /\ <<a, b>>[1] = a /\ <<a, b>>[2] = b
      OBVIOUS
    <3>3. QED BY <3>1, <3>2, ToSetIsRange
  <2>2. QED BY <2>1
<1>2. /\ \A q \in Seqs!ToSet(plan.premises) :
           /\ Seqs!ToSet(EvidencedPremise(q)) \subseteq Openings(plan)
           /\ Seqs!ToSet(PlainPremise(q)) \subseteq Openings(plan)
      /\ \A q \in Seqs!ToSet(plan.assumptions) :
           Seqs!ToSet(AssumedPremise(q)) \subseteq Openings(plan)
  BY DEF Openings
<1>3. ASSUME NEW q \in Seqs!ToSet(plan.premises), q.evidence # NoEvidence
      PROVE  \E st, t \in Openings(plan) :
               /\ IsEvidence(st) /\ st.label = EvidenceLabel(LabelOf(q))
               /\ IsPremise(t) /\ t.label = LabelOf(q)
  <2>1. PICK a, b : /\ a = [verb |-> "evidence", label |-> EvidenceLabel(Sanitize(q.label)),
                           evidence |-> q.evidence, provider |-> NoLabel, signed |-> FALSE]
                    /\ b = Stated("observe", q, {EvidenceLabel(Sanitize(q.label))})
    OBVIOUS
  <2>2. EvidencedPremise(q) = <<a, b>>
    BY <1>3, <2>1 DEF EvidencedPremise
  <2>3. a \in Openings(plan) /\ b \in Openings(plan)
    BY <1>1, <1>2, <2>2
  <2>4. a.verb = "evidence" /\ a.label = EvidenceLabel(LabelOf(q))
        /\ b.verb = "observe" /\ b.label = LabelOf(q)
    BY <2>1 DEF Stated, LabelOf
  <2>5. QED BY <2>3, <2>4 DEF IsEvidence, IsPremise, Premises
<1>4. ASSUME NEW q \in Seqs!ToSet(plan.premises), q.evidence = NoEvidence
      PROVE  \E t \in Openings(plan) : IsPremise(t) /\ t.label = LabelOf(q)
  <2>1. PICK b : b = Stated("assert", q, {})
    OBVIOUS
  <2>2. PlainPremise(q) = <<b>>
    BY <1>4, <2>1 DEF PlainPremise
  <2>3. b \in Openings(plan)
    BY <1>1, <1>2, <2>2
  <2>4. b.verb = "assert" /\ b.label = LabelOf(q)
    BY <2>1 DEF Stated, LabelOf
  <2>5. QED BY <2>3, <2>4 DEF IsPremise, Premises
<1>5. ASSUME NEW q \in Seqs!ToSet(plan.assumptions)
      PROVE  \E t \in Openings(plan) : IsPremise(t) /\ t.label = LabelOf(q)
  <2>1. PICK b : b = Stated("assume", q, {})
    OBVIOUS
  <2>2. AssumedPremise(q) = <<b>>
    BY <2>1 DEF AssumedPremise
  <2>3. b \in Openings(plan)
    BY <1>1, <1>2, <2>2
  <2>4. b.verb = "assume" /\ b.label = LabelOf(q)
    BY <2>1 DEF Stated, LabelOf
  <2>5. QED BY <2>3, <2>4 DEF IsPremise, Premises
<1>6. QED BY <1>3, <1>4, <1>5 DEF Stating

\* Distinct labels tell steps apart, and steps from premises and assumptions.
LEMMA ItemLabels ==
  ASSUME NEW plan \in Plan, DistinctLabels(plan)
  PROVE  /\ \A k, m \in DOMAIN plan.steps :
              LabelOf(plan.steps[k]) = LabelOf(plan.steps[m]) => k = m
         /\ \A q \in Stating(plan) : \A s \in Steps(plan) : LabelOf(q) # LabelOf(s)
<1>1. IsVector(plan.premises) /\ IsVector(plan.assumptions) /\ IsVector(plan.steps)
  BY PlanAssumption
<1>2. PICK o : o = plan.premises \o plan.assumptions /\ IsVector(o)
               /\ Seqs!ToSet(o) = Stating(plan)
  BY <1>1, JoinedVectors DEF Stating
<1>3. PICK c : c = Items(plan) /\ Joined(c, o, plan.steps)
  <2> DEFINE T == Seqs!ToSet(o) \cup Seqs!ToSet(plan.steps)
  <2>1. o \in Seq(T) /\ plan.steps \in Seq(T)
    BY <1>1, <1>2, VectorGrows
  <2>2. Joined(o \o plan.steps, o, plan.steps)
    BY <2>1, JoinedSeqs
  <2>3. QED BY <1>2, <2>2 DEF Items
<1>4. Len(o) \in Nat /\ DOMAIN o = 1..Len(o) /\ DOMAIN plan.steps \subseteq Nat \ {0}
  <2>1. \A v : IsVector(v) => Len(v) \in Nat /\ DOMAIN v = 1..Len(v)
    BY DEF IsVector
  <2>2. \A n \in Nat : 1..n \subseteq Nat \ {0}
    OBVIOUS
  <2>3. DOMAIN plan.steps = 1..Len(plan.steps) /\ Len(plan.steps) \in Nat
    BY <1>1, <2>1
  <2>4. QED BY <1>2, <2>1, <2>2, <2>3
<1>5. \A i, j \in DOMAIN c : LabelOf(c[i]) = LabelOf(c[j]) => i = j
  BY <1>3 DEF DistinctLabels
<1>6. \A k \in DOMAIN plan.steps : Len(o) + k \in DOMAIN c /\ c[Len(o) + k] = plan.steps[k]
  BY <1>3 DEF Joined
<1>7. \A i \in DOMAIN o : i \in DOMAIN c /\ c[i] = o[i]
  BY <1>3 DEF Joined
<1>8. ASSUME NEW k \in DOMAIN plan.steps, NEW m \in DOMAIN plan.steps,
             LabelOf(plan.steps[k]) = LabelOf(plan.steps[m])
      PROVE  k = m
  <2>1. Len(o) + k = Len(o) + m
    BY <1>5, <1>6, <1>8
  <2>2. QED BY <1>4, <2>1
<1>9. ASSUME NEW q \in Stating(plan), NEW s \in Steps(plan), LabelOf(q) = LabelOf(s)
      PROVE  FALSE
  <2>1. PICK i \in DOMAIN o : q = o[i]
    BY <1>2, ToSetIsRange
  <2>2. PICK k \in DOMAIN plan.steps : s = plan.steps[k]
    BY ToSetIsRange DEF Steps
  <2>3. i = Len(o) + k
    BY <1>5, <1>6, <1>7, <1>9, <2>1, <2>2
  <2>4. QED BY <1>4, <2>1, <2>2, <2>3
<1>10. QED BY <1>8, <1>9

Evidenced(p, l) == \E i \in DOMAIN p : IsEvidence(p[i]) /\ p[i].label = l
Premised(p, l) == \E i \in DOMAIN p : IsPremise(p[i]) /\ p[i].label = l

OpeningsOK(p, plan) ==
  /\ \A i \in DOMAIN p : IsEvidence(p[i]) => p[i].evidence \notin Trusted
  /\ \A i \in DOMAIN p : IsPremise(p[i]) =>
       /\ p[i].ctx = RootLabel
       /\ \A l \in p[i].evidence : Evidenced(p, l)
       /\ \A s \in Steps(plan) : p[i].label # LabelOf(s)

PartsOK(p, plan) ==
  /\ \A i \in DOMAIN p : IsPending(p[i]) => \E s \in Steps(plan) : p[i] \in Parts(s)
  /\ \A s \in Steps(plan) : \A st \in Parts(s) : \E i \in DOMAIN p : p[i] = st
  /\ \A s \in Steps(plan) : \A i, j \in DOMAIN p :
       p[i] \in Parts(s) /\ p[j] \in Parts(s) /\ i < j => Turn(p[i]) < Turn(p[j])

StepsOK(p, plan) ==
  /\ \A s, t \in Steps(plan) : LabelOf(s) = LabelOf(t) => s = t
  /\ \A s \in Steps(plan) : Resolve(s.op) \in DOMAIN Registry(Builtin)
  /\ \A s \in Steps(plan) : Settles(s) => Evidenced(p, Sanitize(s.dischargeBy))
  /\ \E rank \in [Steps(plan) -> Nat] : \A s \in Steps(plan) : \A i \in DOMAIN s.inputs :
       \/ Premised(p, Sanitize(s.inputs[i]))
       \/ \E t \in Steps(plan) : LabelOf(t) = Sanitize(s.inputs[i]) /\ rank[t] < rank[s]

PlanFacts(p, plan) ==
  Len(p) <= MaxStmts /\ OpeningsOK(p, plan) /\ PartsOK(p, plan) /\ StepsOK(p, plan)

\* Which statements of the program are a step's, and in what order.
LEMMA WrittenParts ==
  ASSUME NEW plan \in Plan, NEW p, NEW at, Written(p, plan, at),
         \A k, m \in DOMAIN plan.steps : LabelOf(plan.steps[k]) = LabelOf(plan.steps[m]) => k = m
  PROVE  PartsOK(p, plan)
<1>1. ASSUME NEW i \in DOMAIN p, IsPending(p[i])
      PROVE  \E s \in Steps(plan) : p[i] \in Parts(s)
  <2>1. p[i] \notin Openings(plan)
    BY <1>1, OpeningMeans DEF IsPending, IsEvidence, IsPremise
  <2>2. PICK k \in DOMAIN plan.steps : \E j \in DOMAIN StepStatements(plan.steps[k]) : i = at[k] + j
    BY <2>1 DEF Written
  <2>3. PICK j \in DOMAIN StepStatements(plan.steps[k]) : i = at[k] + j
    BY <2>2
  <2>4. p[i] = StepStatements(plan.steps[k])[j]
    BY <2>3 DEF Written
  <2>5. p[i] \in Parts(plan.steps[k]) /\ plan.steps[k] \in Steps(plan)
    BY <2>4, ToSetIsRange DEF Parts, Steps
  <2>6. QED BY <2>5
<1>2. ASSUME NEW s \in Steps(plan), NEW st \in Parts(s)
      PROVE  \E i \in DOMAIN p : p[i] = st
  <2>1. PICK k \in DOMAIN plan.steps : s = plan.steps[k]
    BY ToSetIsRange DEF Steps
  <2>2. PICK j \in DOMAIN StepStatements(s) : st = StepStatements(s)[j]
    BY ToSetIsRange DEF Parts
  <2>3. at[k] + j \in DOMAIN p /\ p[at[k] + j] = st
    BY <2>1, <2>2 DEF Written
  <2>4. QED BY <2>3
<1>3. ASSUME NEW s \in Steps(plan), NEW i \in DOMAIN p, p[i] \in Parts(s),
             NEW k \in DOMAIN plan.steps, s = plan.steps[k]
      PROVE  \E j \in DOMAIN StepStatements(s) : i = at[k] + j /\ p[i] = StepStatements(s)[j]
  <2>1. p[i].verb \in {"derive", "require", "discharge", "verify"}
    BY <1>3, PartMeans
  <2>2. p[i] \notin Openings(plan)
    BY <2>1, OpeningMeans DEF IsEvidence, IsPremise, Premises
  <2>3. PICK m \in DOMAIN plan.steps : \E j \in DOMAIN StepStatements(plan.steps[m]) : i = at[m] + j
    BY <2>2 DEF Written
  <2>4. PICK j \in DOMAIN StepStatements(plan.steps[m]) : i = at[m] + j
    BY <2>3
  <2>5. p[i] = StepStatements(plan.steps[m])[j]
    BY <2>4 DEF Written
  <2>6. p[i] \in Parts(plan.steps[m])
    BY <2>5, ToSetIsRange DEF Parts
  <2>7. LabelOf(plan.steps[m]) = LabelOf(s)
    <3>1. \A t : p[i] \in Parts(t) =>
            IF p[i].verb = "derive" THEN p[i].label = LabelOf(t) ELSE p[i].target = LabelOf(t)
      BY PartMeans
    <3>2. QED BY <1>3, <2>6, <3>1
  <2>8. m = k
    BY <1>3, <2>7
  <2>9. QED BY <1>3, <2>4, <2>5, <2>8
<1>4. ASSUME NEW s \in Steps(plan), NEW i \in DOMAIN p, NEW j \in DOMAIN p,
             p[i] \in Parts(s), p[j] \in Parts(s), i < j
      PROVE  Turn(p[i]) < Turn(p[j])
  <2>1. PICK k \in DOMAIN plan.steps : s = plan.steps[k]
    BY ToSetIsRange DEF Steps
  <2>2. PICK a \in DOMAIN StepStatements(s) : i = at[k] + a /\ p[i] = StepStatements(s)[a]
    BY <1>3, <1>4, <2>1
  <2>3. PICK b \in DOMAIN StepStatements(s) : j = at[k] + b /\ p[j] = StepStatements(s)[b]
    BY <1>3, <1>4, <2>1
  <2>4. at[k] \in Nat /\ a \in Nat /\ b \in Nat
    <3>1. IsVector(StepStatements(s))
      BY StepVector
    <3>2. DOMAIN StepStatements(s) \subseteq Nat
      BY <3>1 DEF IsVector
    <3>3. QED BY <3>2 DEF Written
  <2>5. a < b
    BY <1>4, <2>2, <2>3, <2>4
  <2>6. QED BY <2>2, <2>3, <2>5, StepShape DEF InTurn
<1>5. QED BY <1>1, <1>2, <1>4 DEF PartsOK

\* What the execution needs to know of the program of a plan.
LEMMA ProduceFacts ==
  ASSUME NEW plan \in Plan, Executable(plan)
  PROVE  PlanFacts(Produce(plan), plan)
<1>1. PICK p : p = Produce(plan)
  OBVIOUS
<1>2. PICK at : Written(p, plan, at)
  BY <1>1, ProduceWritten
<1>3. /\ \A k, m \in DOMAIN plan.steps : LabelOf(plan.steps[k]) = LabelOf(plan.steps[m]) => k = m
      /\ \A q \in Stating(plan) : \A s \in Steps(plan) : LabelOf(q) # LabelOf(s)
  BY ItemLabels DEF Executable
<1>4. PartsOK(p, plan)
  BY <1>2, <1>3, WrittenParts
<1>5. \A st \in Openings(plan) : \E i \in DOMAIN p : p[i] = st
  BY <1>2 DEF Written
<1>6. \A q \in Seqs!ToSet(plan.premises) :
        q.evidence # NoEvidence => Evidenced(p, EvidenceLabel(LabelOf(q)))
  BY <1>5, OpeningsHave DEF Evidenced
<1>7. \A q \in Stating(plan) : Premised(p, LabelOf(q))
  BY <1>5, OpeningsHave DEF Premised
<1>8. ASSUME NEW i \in DOMAIN p, IsEvidence(p[i]) \/ IsPremise(p[i])
      PROVE  p[i] \in Openings(plan)
  <2>1. CASE \E k \in DOMAIN plan.steps : \E j \in DOMAIN StepStatements(plan.steps[k]) : i = at[k] + j
    <3>1. PICK k \in DOMAIN plan.steps : \E j \in DOMAIN StepStatements(plan.steps[k]) : i = at[k] + j
      BY <2>1
    <3>2. PICK j \in DOMAIN StepStatements(plan.steps[k]) : i = at[k] + j
      BY <3>1
    <3>3. p[i] = StepStatements(plan.steps[k])[j]
      BY <1>2, <3>2 DEF Written
    <3>4. p[i] \in Parts(plan.steps[k])
      BY <3>3, ToSetIsRange DEF Parts
    <3>5. QED BY <1>8, <3>4, PartMeans DEF IsEvidence, IsPremise, Premises
  <2>2. QED BY <1>2, <2>1 DEF Written
<1>9. OpeningsOK(p, plan)
  <2>1. ASSUME NEW i \in DOMAIN p, IsEvidence(p[i]) PROVE p[i].evidence \notin Trusted
    <3>1. PICK q \in Seqs!ToSet(plan.premises) : p[i].evidence = q.evidence
      BY <1>8, <2>1, OpeningMeans DEF IsEvidence, IsPremise, Premises, EvidenceFrom
    <3>2. QED BY <3>1, ToSetIsRange, PlanAssumption
  <2>2. ASSUME NEW i \in DOMAIN p, IsPremise(p[i])
        PROVE  /\ p[i].ctx = RootLabel
               /\ \A l \in p[i].evidence : Evidenced(p, l)
               /\ \A s \in Steps(plan) : p[i].label # LabelOf(s)
    <3>1. PremiseFrom(p[i], plan)
      BY <1>8, <2>2, OpeningMeans DEF IsEvidence, IsPremise, Premises
    <3>2. QED BY <1>3, <1>6, <3>1 DEF PremiseFrom
  <2>3. QED BY <2>1, <2>2 DEF OpeningsOK
<1>10. \A s \in Steps(plan) : \E k \in DOMAIN plan.steps : s = plan.steps[k]
  BY ToSetIsRange DEF Steps
<1>11. \A s, t \in Steps(plan) : LabelOf(s) = LabelOf(t) => s = t
  BY <1>3, <1>10
<1>12. \A s \in Steps(plan) : Resolve(s.op) \in DOMAIN Registry(Builtin)
  BY <1>10, PlanAssumption DEF Executable, Valid, ValidStep, Registry
<1>13. ASSUME NEW s \in Steps(plan), Settles(s) PROVE Evidenced(p, Sanitize(s.dischargeBy))
  <2>1. PICK q \in Seqs!ToSet(plan.premises) :
          q.evidence # NoEvidence /\ Sanitize(s.dischargeBy) = EvidenceLabel(LabelOf(q))
    BY <1>13 DEF Settles, Executable, Authorised, Steps
  <2>2. QED BY <1>6, <2>1
<1>14. \E rank \in [Steps(plan) -> Nat] : \A s \in Steps(plan) : \A i \in DOMAIN s.inputs :
         \/ Premised(p, Sanitize(s.inputs[i]))
         \/ \E t \in Steps(plan) : LabelOf(t) = Sanitize(s.inputs[i]) /\ rank[t] < rank[s]
  <2>1. PICK r \in [DOMAIN plan.steps -> 1..Len(plan.steps)] :
          \A k \in DOMAIN plan.steps : \A i \in DOMAIN plan.steps[k].inputs :
            \/ \E q \in Stating(plan) : LabelOf(q) = Sanitize(plan.steps[k].inputs[i])
            \/ \E m \in DOMAIN plan.steps :
                 LabelOf(plan.steps[m]) = Sanitize(plan.steps[k].inputs[i]) /\ r[m] < r[k]
    BY DEF Executable, Orderable, Stating
  <2> DEFINE place(s) == CHOOSE k \in DOMAIN plan.steps : s = plan.steps[k]
             rank == [s \in Steps(plan) |-> r[place(s)]]
  <2>2. \A s \in Steps(plan) : place(s) \in DOMAIN plan.steps /\ s = plan.steps[place(s)]
    BY <1>10
  <2>3. \A k \in DOMAIN plan.steps : plan.steps[k] \in Steps(plan)
    BY ToSetIsRange DEF Steps
  <2> HIDE DEF place
  <2>4. \A k \in DOMAIN plan.steps : place(plan.steps[k]) = k
    BY <1>3, <2>2, <2>3
  <2>5. rank \in [Steps(plan) -> Nat]
    <3>1. \A k \in DOMAIN plan.steps : r[k] \in Nat
      OBVIOUS
    <3>2. QED BY <2>2, <3>1
  <2>6. ASSUME NEW s \in Steps(plan), NEW i \in DOMAIN s.inputs
        PROVE  \/ Premised(p, Sanitize(s.inputs[i]))
               \/ \E t \in Steps(plan) : LabelOf(t) = Sanitize(s.inputs[i]) /\ rank[t] < rank[s]
    <3>1. CASE \E q \in Stating(plan) : LabelOf(q) = Sanitize(s.inputs[i])
      BY <1>7, <3>1
    <3>2. CASE \E m \in DOMAIN plan.steps :
                 LabelOf(plan.steps[m]) = Sanitize(s.inputs[i]) /\ r[m] < r[place(s)]
      <4>1. PICK m \in DOMAIN plan.steps :
              LabelOf(plan.steps[m]) = Sanitize(s.inputs[i]) /\ r[m] < r[place(s)]
        BY <3>2
      <4>2. plan.steps[m] \in Steps(plan) /\ rank[plan.steps[m]] = r[m] /\ rank[s] = r[place(s)]
        BY <2>3, <2>4
      <4>3. QED BY <4>1, <4>2
    <3>3. \/ \E q \in Stating(plan) : LabelOf(q) = Sanitize(s.inputs[i])
          \/ \E m \in DOMAIN plan.steps :
               LabelOf(plan.steps[m]) = Sanitize(s.inputs[i]) /\ r[m] < r[place(s)]
      BY <2>1, <2>2
    <3>4. QED BY <3>1, <3>2, <3>3
  <2> HIDE DEF rank
  <2>7. QED BY <2>5, <2>6
<1>15. StepsOK(p, plan)
  BY <1>11, <1>12, <1>13, <1>14 DEF StepsOK
<1>16. Len(p) <= MaxStmts
  BY <1>1 DEF Executable
<1>17. QED BY <1>1, <1>4, <1>9, <1>15, <1>16 DEF PlanFacts

-----------------------------------------------------------------------------
(* The execution of a plan's program.                                      *)

Target(s) == <<LabelOf(s), RootLabel>>

Verbs == {"derive", "require", "discharge", "verify"}

\* Whether a step has such a statement, and whether it was run.
Has(s, verb) ==
  CASE verb = "derive" -> TRUE [] verb = "require" -> s.requires
    [] verb = "discharge" -> Settles(s) [] OTHER -> s.verify
Gone(s, verb) == \A i \in left : program[i] \in Parts(s) => program[i].verb # verb

\* A step's discharge is under way.
Clearing(s) == phase = "discharge" /\ busy = Clearance(s)

Bounds(s) == [kind |-> "NumericBounds", target |-> Target(s), severity |-> "Mandatory"]

\* What the claim of a step owes by now, and how far that is settled.
Declared(s) ==
  {[kind |-> k, target |-> Target(s),
    severity |-> IF k \in MandatoryKinds THEN "Mandatory" ELSE "Advisory"] :
     k \in Of(s).generates}
Owed(s) ==
  Declared(s)
    \cup (IF s.requires /\ Gone(s, "require") THEN {Bounds(s)} ELSE {})

InState(s, o) ==
  /\ o \in DOMAIN obligations /\ obligations[o] \in {"Pending", "Satisfied"}
  /\ o.kind \in Checked => obligations[o] = "Satisfied"
  /\ o.kind \notin Checked /\ ~Clearing(s) =>
       obligations[o] = IF Settles(s) /\ Gone(s, "discharge") THEN "Satisfied" ELSE "Pending"

Recorded(s) ==
  /\ claims[Target(s)].derivation \in derivations
  /\ claims[Target(s)].derivation.op = Resolve(s.op)
  /\ claims[Target(s)].derivation.receipt = NoReceipt

\* The claim of a derived step.
Stands(s) ==
  /\ Target(s) \in DOMAIN claims /\ Recorded(s)
  /\ claims[Target(s)].obligations = Owed(s)
  /\ \A o \in Owed(s) : InState(s, o)
  /\ claims[Target(s)].status =
       IF s.verify /\ Gone(s, "verify") /\ Cleared(s) THEN "Verified" ELSE "Pending"

Prepared(plan) ==
  /\ forged = {} /\ operations = Registry(Builtin)
  /\ \A l \in DOMAIN claimLabels : claimLabels[l] = <<l, RootLabel>>
  /\ \A i \in DOMAIN program : IsEvidence(program[i]) /\ ~(phase = "evidence" /\ i \in left) =>
       program[i].label \in DOMAIN evidenceLabels
  /\ phase # "evidence" =>
       \A i \in DOMAIN program : IsPremise(program[i]) /\ ~(phase = "premises" /\ i \in left) =>
         Bound(program[i].label)
  /\ \A n \in DOMAIN claims : claims[n].status = "Verified" =>
       \E s \in Steps(plan) : n = Target(s) /\ Bound(LabelOf(s))

\* A step is run in its order, its claim is what its statements made it.
StepUnderway(s) ==
  /\ \A v, w \in Verbs : TurnOf(v) < TurnOf(w) /\ Has(s, w) /\ Gone(s, w) => Gone(s, v)
  /\ Bound(LabelOf(s)) <=> Gone(s, "derive")
  /\ Bound(LabelOf(s)) => Stands(s)

Underway(plan) ==
  /\ \A i \in left : IsPending(program[i])
  /\ \A s \in Steps(plan) : StepUnderway(s)
  /\ phase = "discharge" => \E s \in Steps(plan) :
       Clearing(s) /\ Gone(s, "discharge") /\ Settles(s) /\ Bound(LabelOf(s))
  /\ phase = "ok" => left = {}

\* Nothing is derived yet.
Early(plan) ==
  /\ phase \in {"evidence", "premises"} /\ Prepared(plan)
  /\ \A s \in Steps(plan) : ~Bound(LabelOf(s))

Settling(plan) ==
  \/ phase = "error" /\ error = "CannotDerive"
  \/ Early(plan)
  \/ phase \in {"worklist", "discharge", "ok"} /\ Prepared(plan) /\ Underway(plan)

\* What holds of a step's claim holds while nothing that concerns it changes.
LEMMA StandsKept ==
  ASSUME NEW s, Stands(s),
         Target(s) \in DOMAIN claims', claims'[Target(s)] = claims[Target(s)],
         derivations \subseteq derivations',
         \A o \in Owed(s) : o \in DOMAIN obligations' /\ obligations'[o] = obligations[o],
         \A v \in Verbs : Gone(s, v)' <=> Gone(s, v),
         Clearing(s)' <=> Clearing(s)
  PROVE  Stands(s)'
<1>1. Owed(s)' = Owed(s)
  BY DEF Owed, Verbs
<1>2. Recorded(s)'
  BY DEF Stands, Recorded
<1>3. \A o \in Owed(s) : InState(s, o)'
  BY DEF Stands, InState, Verbs
<1>4. QED BY <1>1, <1>2, <1>3 DEF Stands, Verbs

\* What a step owes is its own.
LEMMA OwedTargets ==
  ASSUME NEW s, NEW o \in Owed(s)
  PROVE  o.target = Target(s)
BY DEF Owed, Declared, Bounds

\* A part of a step tells whose it is, and a step has one of each.
LEMMA PartIndex ==
  ASSUME NEW p, NEW plan, PlanFacts(p, plan), DOMAIN p \subseteq Nat,
         NEW s \in Steps(plan), NEW t \in Steps(plan), NEW i \in DOMAIN p, p[i] \in Parts(s)
  PROVE  /\ p[i] \in Parts(t) => t = s
         /\ \A j \in DOMAIN p : p[j] \in Parts(s) /\ p[j].verb = p[i].verb => j = i
         /\ \A j \in DOMAIN p : p[j] \in Parts(s) /\ Turn(p[j]) < Turn(p[i]) => j < i
<1>1. p[i] \in Parts(t) => t = s
  <2>1. \A x : p[i] \in Parts(x) =>
          IF p[i].verb = "derive" THEN p[i].label = LabelOf(x) ELSE p[i].target = LabelOf(x)
    BY PartMeans
  <2>2. QED BY <2>1 DEF PlanFacts, StepsOK
<1>2. ASSUME NEW j \in DOMAIN p, p[j] \in Parts(s)
      PROVE  (i < j => Turn(p[i]) < Turn(p[j])) /\ (j < i => Turn(p[j]) < Turn(p[i]))
  BY <1>2 DEF PlanFacts, PartsOK
<1>3. \A st : Turn(st) \in Nat
  BY DEF Turn, TurnOf
<1>4. ASSUME NEW j \in DOMAIN p, p[j] \in Parts(s)
      PROVE  /\ p[j].verb = p[i].verb => j = i
             /\ Turn(p[j]) < Turn(p[i]) => j < i
  <2>1. i \in Nat /\ j \in Nat /\ Turn(p[i]) \in Nat /\ Turn(p[j]) \in Nat
    BY <1>3
  <2>2. p[j].verb = p[i].verb => Turn(p[j]) = Turn(p[i])
    BY DEF Turn
  <2>3. i = j => Turn(p[j]) = Turn(p[i])
    OBVIOUS
  <2>4. QED BY <1>2, <1>4, <2>1, <2>2, <2>3
<1>5. QED BY <1>1, <1>4

\* Running a statement changes its step alone.
LEMMA GoneStep ==
  ASSUME ExecInv, NEW plan, PlanFacts(program, plan), NEW s \in Steps(plan),
         NEW i \in left, program[i] \in Parts(s), left' = left \ {i}, program' = program
  PROVE  /\ ~Gone(s, program[i].verb) /\ Gone(s, program[i].verb)'
         /\ \A v : v # program[i].verb => (Gone(s, v)' <=> Gone(s, v))
         /\ \A t \in Steps(plan) : t # s => \A v : Gone(t, v)' <=> Gone(t, v)
<1>1. DOMAIN program \subseteq Nat /\ left \subseteq DOMAIN program
  BY StatementsAdmitted DEF ExecInv, RunInv, ProgramOK
<1>2. \A t \in Steps(plan) : program[i] \in Parts(t) => t = s
  BY <1>1, PartIndex
<1>3. \A j \in left : program[j] \in Parts(s) /\ program[j].verb = program[i].verb => j = i
  BY <1>1, PartIndex
<1>4. QED BY <1>2, <1>3 DEF Gone

\* What follows a step's derivation is ready once that was run.
LEMMA PartReady ==
  ASSUME NEW plan, PlanFacts(program, plan), Prepared(plan), phase \notin {"evidence", "premises"},
         NEW s \in Steps(plan), Bound(LabelOf(s)), NEW st \in Parts(s), st.verb # "derive"
  PROVE  Ready(st)
<1>1. st.target = LabelOf(s) /\ st.verb \in {"require", "discharge", "verify"}
  BY PartMeans
<1>2. CASE st.verb = "discharge"
  <2>1. st.by = Sanitize(s.dischargeBy) /\ Settles(s)
    BY <1>2, PartMeans DEF Clearance
  <2>2. PICK i \in DOMAIN program : IsEvidence(program[i]) /\ program[i].label = st.by
    BY <2>1 DEF PlanFacts, StepsOK, Evidenced
  <2>3. st.by \in DOMAIN evidenceLabels
    BY <2>2 DEF Prepared
  <2>4. QED BY <1>1, <1>2, <2>3 DEF Ready
<1>3. CASE st.verb \in {"require", "verify"}
  BY <1>1, <1>3 DEF Ready
<1>4. QED BY <1>1, <1>2, <1>3

\* The statement that runs is the first left of its step.
LEMMA RunningPart ==
  ASSUME ExecInv, NEW plan, PlanFacts(program, plan), Prepared(plan), Underway(plan),
         phase = "worklist", NEW i \in FirstReady
  PROVE  \E s \in Steps(plan) :
           /\ program[i] \in Parts(s)
           /\ \A v \in Verbs : TurnOf(v) < Turn(program[i]) => Gone(s, v)
<1>1. i \in left /\ Ready(program[i]) /\ \A j \in left : j < i => ~Ready(program[j])
  BY DEF FirstReady
<1>2. DOMAIN program \subseteq Nat /\ left \subseteq DOMAIN program
  BY StatementsAdmitted DEF ExecInv, RunInv, ProgramOK
<1>3. PICK s \in Steps(plan) : program[i] \in Parts(s)
  BY <1>1, <1>2 DEF Underway, PlanFacts, PartsOK
<1>4. ASSUME NEW v \in Verbs, TurnOf(v) < Turn(program[i]),
             NEW j \in left, program[j] \in Parts(s), program[j].verb = v
      PROVE  FALSE
  <2>1. j < i
    BY <1>1, <1>2, <1>3, <1>4, PartIndex DEF Turn
  <2>2. program[i].verb # "derive" /\ program[i].target = LabelOf(s)
    <3>1. program[i].verb # "derive"
      BY <1>4 DEF Turn, TurnOf, Verbs
    <3>2. QED BY <1>3, <3>1, PartMeans
  <2>3. Bound(LabelOf(s))
    BY <1>1, <1>3, <2>2, PartMeans, ReadyMeans
  <2>4. v # "derive"
    BY <1>4, <2>3 DEF Underway, StepUnderway, Gone
  <2>5. Ready(program[j])
    BY <1>4, <2>3, <2>4, PartReady
  <2>6. QED BY <1>1, <1>4, <2>1, <2>5
<1>5. QED BY <1>3, <1>4 DEF Gone

\* A step of the execution that concerns the claim of s.
Touches(s) ==
  /\ UNCHANGED <<program, operations, evidenceLabels, forged>>
  /\ DOMAIN claims' = DOMAIN claims \cup {Target(s)}
  /\ \A n \in DOMAIN claims : n # Target(s) => claims'[n] = claims[n]
  /\ DOMAIN claimLabels' = DOMAIN claimLabels \cup {LabelOf(s)}
  /\ \A l \in DOMAIN claimLabels' : claimLabels'[l] = <<l, RootLabel>>
  /\ derivations \subseteq derivations'
  /\ \A o \in DOMAIN obligations :
       o.target # Target(s) => o \in DOMAIN obligations' /\ obligations'[o] = obligations[o]

\* What touches one step leaves the claims of the others.
LEMMA OthersStand ==
  ASSUME NEW plan, StepsOK(program, plan), NEW s \in Steps(plan), NEW t \in Steps(plan), t # s,
         Stands(t), Touches(s),
         \A v \in Verbs : Gone(t, v)' <=> Gone(t, v), Clearing(t)' <=> Clearing(t)
  PROVE  Stands(t)'
<1>1. Target(t) # Target(s)
  BY DEF StepsOK, Target
<1>2. \A o \in Owed(t) : o \in DOMAIN obligations' /\ obligations'[o] = obligations[o]
  BY <1>1, OwedTargets DEF Touches, Stands, InState
<1>3. Target(t) \in DOMAIN claims' /\ claims'[Target(t)] = claims[Target(t)]
  BY <1>1 DEF Touches, Stands
<1>4. QED BY <1>2, <1>3, StandsKept DEF Touches

\* A statement that keeps its own step in order keeps the plan in order.
LEMMA PartStep ==
  ASSUME ExecInv, NEW plan, PlanFacts(program, plan), Prepared(plan), Underway(plan),
         phase = "worklist", NEW s \in Steps(plan), NEW i \in left, program[i] \in Parts(s),
         \A v \in Verbs : TurnOf(v) < Turn(program[i]) => Gone(s, v),
         left' = left \ {i}, Touches(s), Stands(s)',
         \/ phase' = "worklist"
         \/ phase' = "discharge" /\ busy' = Clearance(s) /\ program[i].verb = "discharge"
  PROVE  Prepared(plan)' /\ Underway(plan)'
<1>1. program' = program /\ program[i].verb \in Verbs
  BY PartMeans DEF Touches, Verbs
<1> PICK run \in Verbs : run = program[i].verb
  BY <1>1
<1>2. /\ Gone(s, run)'
      /\ \A v : v # run => (Gone(s, v)' <=> Gone(s, v))
      /\ \A t \in Steps(plan) : t # s => \A v : Gone(t, v)' <=> Gone(t, v)
  BY <1>1, GoneStep
<1>3. \A t \in Steps(plan) : t # s => LabelOf(t) # LabelOf(s)
  BY DEF PlanFacts, StepsOK
<1>4. \A l : Bound(l)' <=> Bound(l) \/ l = LabelOf(s)
  BY DEF Touches, Bound
<1>5. ASSUME NEW t \in Steps(plan), t # s PROVE StepUnderway(t)'
  <2>1. Clearing(t)' <=> Clearing(t)
    <3>1. Clearance(t).target = LabelOf(t) /\ Clearance(s).target = LabelOf(s)
      BY DEF Clearance
    <3>2. QED BY <1>3, <1>5, <3>1 DEF Clearing
  <2>2. Bound(LabelOf(t))' <=> Bound(LabelOf(t))
    BY <1>3, <1>4, <1>5
  <2>3. Bound(LabelOf(t)) => Stands(t)'
    BY <1>2, <1>5, <2>1, OthersStand DEF Underway, StepUnderway, PlanFacts
  <2>4. QED BY <1>2, <1>5, <2>2, <2>3 DEF Underway, StepUnderway
<1>6. StepUnderway(s)'
  <2>1. Bound(LabelOf(s))' /\ Gone(s, "derive")'
    <3>1. TurnOf("derive") = 1 /\ \A v \in Verbs : v # "derive" => 1 < TurnOf(v)
      BY DEF TurnOf, Verbs
    <3>2. run # "derive" => Gone(s, "derive")
      BY <1>1, <3>1 DEF Turn, Verbs
    <3>3. QED BY <1>2, <1>4, <3>2
  <2>2. ASSUME NEW v \in Verbs, NEW w \in Verbs, TurnOf(v) < TurnOf(w), Has(s, w), Gone(s, w)'
        PROVE  Gone(s, v)'
    <3>1. CASE w = run
      BY <1>2, <2>2, <3>1 DEF Turn
    <3>2. CASE w # run
      <4>1. Gone(s, w)
        BY <1>2, <2>2, <3>2
      <4>2. Gone(s, v)
        BY <2>2, <4>1 DEF Underway, StepUnderway
      <4>3. QED BY <1>2, <4>2
    <3>3. QED BY <3>1, <3>2
  <2>3. QED BY <2>1, <2>2 DEF StepUnderway
<1>7. phase' = "discharge" => Clearing(s)' /\ Gone(s, "discharge")' /\ Settles(s) /\ Bound(LabelOf(s))'
  <2>1. run = "discharge" => Settles(s)
    BY PartMeans
  <2>2. QED BY <1>2, <1>4, <2>1 DEF Clearing
<1>8. Underway(plan)'
  BY <1>1, <1>5, <1>6, <1>7 DEF Underway
<1>9. Prepared(plan)'
  <2>1. phase' \notin {"evidence", "premises"}
    OBVIOUS
  <2>2. ASSUME NEW n \in DOMAIN claims', claims'[n].status = "Verified"
        PROVE  \E t \in Steps(plan) : n = Target(t) /\ Bound(LabelOf(t))'
    <3>1. CASE n = Target(s)
      BY <1>4, <3>1
    <3>2. CASE n # Target(s)
      <4>1. n \in DOMAIN claims /\ claims[n].status = "Verified"
        BY <2>2, <3>2 DEF Touches
      <4>2. QED BY <1>4, <4>1 DEF Prepared
    <3>3. QED BY <3>1, <3>2
  <2>3. QED BY <1>4, <2>1, <2>2 DEF Prepared, Touches
<1>10. QED BY <1>8, <1>9

PartRuns(plan, s, i) ==
  /\ PlanFacts(program, plan) /\ Prepared(plan) /\ Underway(plan) /\ phase = "worklist"
  /\ s \in Steps(plan) /\ i \in left /\ program[i] \in Parts(s)
  /\ \A v \in Verbs : TurnOf(v) < Turn(program[i]) => Gone(s, v)

\* What is left of a step when one of its statements runs.
LEMMA RunningGone ==
  ASSUME ExecInv, NEW plan, NEW s, NEW i, PartRuns(plan, s, i), NEW run, run = program[i].verb,
         left' = left \ {i}, program' = program
  PROVE  /\ ~Gone(s, run) /\ Gone(s, run)'
         /\ \A v : v # run => (Gone(s, v)' <=> Gone(s, v))
         /\ \A v \in Verbs : TurnOf(v) < TurnOf(run) => Gone(s, v)
         /\ \A v \in Verbs : TurnOf(run) < TurnOf(v) /\ Has(s, v) => ~Gone(s, v)
         /\ Bound(LabelOf(s)) <=> run # "derive"
         /\ Bound(LabelOf(s)) => Stands(s)
<1>1. /\ ~Gone(s, run) /\ Gone(s, run)'
      /\ \A v : v # run => (Gone(s, v)' <=> Gone(s, v))
  BY GoneStep DEF PartRuns
<1>2. run \in Verbs /\ StepUnderway(s)
  BY PartMeans DEF PartRuns, Verbs, Underway
<1>3. \A v \in Verbs : TurnOf(v) < TurnOf(run) => Gone(s, v)
  BY DEF PartRuns, Turn
<1>4. run # "derive" => TurnOf("derive") < TurnOf(run) /\ "derive" \in Verbs
  BY <1>2 DEF Verbs, TurnOf
<1>5. QED BY <1>1, <1>2, <1>3, <1>4 DEF StepUnderway

\* A derivation gives its step the obligations of the operation, types settled.
LEMMA DeriveRuns ==
  ASSUME ExecInv, NEW plan, NEW s, NEW i, PartRuns(plan, s, i), program[i].verb = "derive",
         DeriveStmt(program[i]), left' = left \ {i}, UNCHANGED <<program, forged>>
  PROVE  Fail("CannotDerive") \/ (phase' = "worklist" /\ Prepared(plan)' /\ Underway(plan)')
<1>1. PICK st : st = program[i] /\ st = DeriveOf(s) /\ st.verb = "derive"
  BY PartMeans DEF PartRuns
<1>2. st.op = Resolve(s.op) /\ st.label = LabelOf(s) /\ st.ctx = RootLabel
  BY <1>1 DEF DeriveOf, LabelOf
<1>3. st.op \in DOMAIN operations /\ st.ctx \in contextLabels
  BY <1>2 DEF PartRuns, PlanFacts, StepsOK, Prepared, ExecInv, RunInv, LabelsOK
<1>4. DeriveTo(st, st.op, NoReceipt)
  BY <1>1, <1>3 DEF DeriveStmt, Resolved
<1> PICK ins, op, n : ins = Nodes(st.inputs) /\ op = st.op /\ n = Target(s)
  OBVIOUS
<1>5. n = <<st.label, st.ctx>>
  BY <1>2 DEF Target
<1> SUFFICES ASSUME CanDerive(op, ins, NoReceipt, TrustRoots)
             PROVE  phase' = "worklist" /\ Prepared(plan)' /\ Underway(plan)'
  BY <1>4 DEF DeriveTo
<1>6. /\ Derive(op, ins, n, NoReceipt, TrustRoots) /\ phase' = "worklist"
      /\ Bind(st.label, n) /\ UNCHANGED evidenceLabels
  BY <1>4, <1>5 DEF DeriveTo
<1> PICK c, G : c = DerivedClaim(op, ins, n, NoReceipt) /\ G = GeneratedObligations(op, n)
  OBVIOUS
<1>7. /\ claims' = Put(claims, n, c) /\ derivations' = derivations \cup {c.derivation}
      /\ obligations' = PutAll(obligations, [o \in G |-> GeneratedState(o, NoReceipt)])
      /\ operations' = operations
  BY <1>6 DEF Derive, supportVars
<1>8. /\ c.status = "Pending" /\ c.obligations = G /\ G = Declared(s)
      /\ c.derivation.op = op /\ c.derivation.receipt = NoReceipt
  BY <1>2 DEF DerivedClaim, GeneratedObligations, Declared, Of, PartRuns, Prepared
<1>9. Touches(s)
  <2>1. claimLabels' = Put(claimLabels, LabelOf(s), n)
    BY <1>2, <1>6 DEF Bind
  <2>2. \A o \in G : o.target = n
    BY DEF GeneratedObligations
  <2>3. \A o \in DOMAIN obligations :
          o.target # n => o \in DOMAIN obligations' /\ obligations'[o] = obligations[o]
    BY <1>7, <2>2 DEF PutAll
  <2>4. DOMAIN claims' = DOMAIN claims \cup {n} /\ \A m \in DOMAIN claims : m # n => claims'[m] = claims[m]
    BY <1>7 DEF Put
  <2>5. /\ DOMAIN claimLabels' = DOMAIN claimLabels \cup {LabelOf(s)}
        /\ \A l \in DOMAIN claimLabels' : claimLabels'[l] = <<l, RootLabel>>
    BY <2>1 DEF Put, PartRuns, Prepared, Target
  <2>6. QED BY <1>6, <1>7, <2>3, <2>4, <2>5 DEF Touches
<1>10. Stands(s)'
  <2>1. /\ \A v : v # "derive" => (Gone(s, v)' <=> Gone(s, v))
        /\ \A v \in Verbs : TurnOf("derive") < TurnOf(v) /\ Has(s, v) => ~Gone(s, v)
    BY <1>1, RunningGone
  <2>2. /\ s.requires => ~Gone(s, "require")'
        /\ Settles(s) => ~Gone(s, "discharge")'
        /\ s.verify => ~Gone(s, "verify")'
    BY <2>1 DEF TurnOf, Has, Verbs
  <2>3. Owed(s)' = G
    BY <1>8, <2>2 DEF Owed
  <2>4. n \in DOMAIN claims' /\ claims'[n] = c
    BY <1>7 DEF Put
  <2>5. ASSUME NEW o \in G PROVE InState(s, o)'
    <3>1. o \in DOMAIN obligations' /\ obligations'[o] = GeneratedState(o, NoReceipt)
      BY <1>7 DEF PutAll
    <3>2. obligations'[o] = IF o.kind \in Checked THEN "Satisfied" ELSE "Pending"
      BY <3>1 DEF GeneratedState, Checked
    <3>3. QED BY <2>2, <3>1, <3>2 DEF InState
  <2>6. Recorded(s)'
    BY <1>2, <1>7, <1>8, <2>4 DEF Recorded
  <2>7. QED BY <1>8, <2>2, <2>3, <2>4, <2>5, <2>6 DEF Stands
<1>11. QED BY <1>6, <1>9, <1>10, PartStep DEF PartRuns

\* A requirement adds a pending bounds check.
LEMMA RequireRuns ==
  ASSUME ExecInv, NEW plan, NEW s, NEW i, PartRuns(plan, s, i), program[i].verb = "require",
         RequireStmt(program[i]), left' = left \ {i}, UNCHANGED <<program, forged>>
  PROVE  Prepared(plan)' /\ Underway(plan)'
<1>1. PICK st : st = program[i] /\ st = Requirement(s) /\ st.verb = "require" /\ s.requires
  BY PartMeans DEF PartRuns
<1>2. st.kind = "NumericBounds" /\ st.target = LabelOf(s)
  BY <1>1 DEF Requirement
<1>3. /\ \A v : v # "require" => (Gone(s, v)' <=> Gone(s, v))
      /\ Gone(s, "require")' /\ ~Gone(s, "require")
      /\ \A v \in Verbs : TurnOf("require") < TurnOf(v) /\ Has(s, v) => ~Gone(s, v)
      /\ Bound(LabelOf(s)) /\ Stands(s)
  BY <1>1, RunningGone
<1> PICK n, o : n = Target(s) /\ o = Bounds(s)
  OBVIOUS
<1>4. Claimed(st.target) = n
  BY <1>2, <1>3 DEF Claimed, Bound, PartRuns, Prepared, Target
<1>5. n \in DOMAIN claims /\ o.target = n /\ o.kind = "NumericBounds"
      /\ o = [kind |-> st.kind, target |-> n, severity |-> "Mandatory"]
  BY <1>2, <1>3 DEF Stands, Bounds
<1>6. AddObligation(o, FALSE) /\ Quiet /\ NoLabels
  BY <1>1, <1>4, <1>5 DEF RequireStmt
<1>7. /\ obligations' = Put(obligations, o, "Pending")
      /\ claims' = [claims EXCEPT ![n].obligations = @ \cup {o}]
      /\ UNCHANGED <<operations, derivations, phase, busy, claimLabels, evidenceLabels>>
  BY <1>5, <1>6 DEF AddObligation, Exists, Quiet, NoLabels, supportVars, callVars, labelVars
<1>8. claims[n] \in Claim
  BY <1>5 DEF ExecInv, TypeOK, IsMap
<1>9. /\ DOMAIN claims' = DOMAIN claims
      /\ \A m \in DOMAIN claims : m # n => claims'[m] = claims[m]
      /\ claims'[n].obligations = claims[n].obligations \cup {o}
      /\ claims'[n].status = claims[n].status /\ claims'[n].derivation = claims[n].derivation
  BY <1>5, <1>7, <1>8 DEF Claim
<1>10. Touches(s)
  <2>1. \A x \in DOMAIN obligations :
          x.target # n => x \in DOMAIN obligations' /\ obligations'[x] = obligations[x]
    BY <1>5, <1>7 DEF Put
  <2>2. /\ DOMAIN claimLabels' = DOMAIN claimLabels \cup {LabelOf(s)}
        /\ \A l \in DOMAIN claimLabels' : claimLabels'[l] = <<l, RootLabel>>
    BY <1>3, <1>7 DEF Bound, PartRuns, Prepared
  <2>3. DOMAIN claims' = DOMAIN claims \cup {n}
    BY <1>5, <1>9
  <2>4. UNCHANGED <<operations, derivations, evidenceLabels>>
    BY <1>7
  <2>5. \A m \in DOMAIN claims : m # n => claims'[m] = claims[m]
    BY <1>9
  <2>6. QED BY <2>1, <2>2, <2>3, <2>4, <2>5 DEF Touches
<1>11. Stands(s)'
  <2>1. (Settles(s) => ~Gone(s, "discharge")') /\ (s.verify => ~Gone(s, "verify")')
        /\ (Settles(s) => ~Gone(s, "discharge")) /\ (s.verify => ~Gone(s, "verify"))
    BY <1>3 DEF TurnOf, Has, Verbs
  <2>2. Owed(s)' = Owed(s) \cup {o}
    BY <1>1, <1>3 DEF Owed
  <2>3. ~Clearing(s) /\ ~Clearing(s)'
    BY <1>7 DEF Clearing, PartRuns
  <2>4. ASSUME NEW x \in Owed(s) \cup {o} PROVE InState(s, x)'
    <3>1. CASE x = o
      <4>1. x \in DOMAIN obligations' /\ obligations'[x] = "Pending"
        BY <1>7, <3>1 DEF Put
      <4>2. QED BY <1>5, <2>1, <3>1, <4>1 DEF InState, Checked
    <3>2. CASE x # o
      <4>1. InState(s, x)
        BY <1>3, <2>4, <3>2 DEF Stands
      <4>2. x \in DOMAIN obligations' /\ obligations'[x] = obligations[x]
        BY <1>7, <3>2, <4>1 DEF Put, InState
      <4>3. QED BY <2>1, <2>3, <4>1, <4>2 DEF InState
    <3>3. QED BY <3>1, <3>2
  <2>5. Recorded(s)'
    BY <1>3, <1>7, <1>9 DEF Recorded, Stands
  <2>6. claims'[n].obligations = Owed(s)' /\ claims'[n].status = "Pending"
    BY <1>3, <1>9, <2>1, <2>2 DEF Stands
  <2>7. QED BY <1>5, <1>9, <2>1, <2>2, <2>4, <2>5, <2>6 DEF Stands
<1>12. phase' = "worklist"
  BY <1>7 DEF PartRuns
<1>13. QED BY <1>10, <1>11, <1>12, PartStep DEF PartRuns

\* A discharge by the evidence of a premise begins.
LEMMA DischargeRuns ==
  ASSUME ExecInv, NEW plan, NEW s, NEW i, PartRuns(plan, s, i), program[i].verb = "discharge",
         DischargeStmt(program[i]), left' = left \ {i}, UNCHANGED <<program, forged>>
  PROVE  phase' = "discharge" /\ Prepared(plan)' /\ Underway(plan)'
<1>1. PICK st : st = program[i] /\ st = Clearance(s) /\ st.verb = "discharge" /\ Settles(s)
  BY PartMeans DEF PartRuns
<1>2. st.by \in DOMAIN evidenceLabels
  <2>1. st.by = Sanitize(s.dischargeBy)
    BY <1>1 DEF Clearance
  <2>2. PICK k \in DOMAIN program : IsEvidence(program[k]) /\ program[k].label = st.by
    BY <1>1, <2>1 DEF PartRuns, PlanFacts, StepsOK, Evidenced
  <2>3. QED BY <2>2 DEF Prepared, PartRuns
<1>3. phase' = "discharge" /\ busy' = st /\ UNCHANGED <<vars, error, receipt, issued, labelVars>>
  BY <1>1, <1>2 DEF DischargeStmt
<1>4. /\ \A v : v # "discharge" => (Gone(s, v)' <=> Gone(s, v))
      /\ ~Gone(s, "discharge")
      /\ \A v \in Verbs : TurnOf("discharge") < TurnOf(v) /\ Has(s, v) => ~Gone(s, v)
      /\ Bound(LabelOf(s)) /\ Stands(s)
  BY <1>1, RunningGone
<1>5. UNCHANGED <<claims, obligations, derivations, operations, claimLabels, evidenceLabels>>
  BY <1>3 DEF vars, labelVars
<1>6. Touches(s)
  <2>1. /\ DOMAIN claimLabels' = DOMAIN claimLabels \cup {LabelOf(s)}
        /\ \A l \in DOMAIN claimLabels' : claimLabels'[l] = <<l, RootLabel>>
    BY <1>4, <1>5 DEF Bound, PartRuns, Prepared
  <2>2. DOMAIN claims' = DOMAIN claims \cup {Target(s)}
    BY <1>4, <1>5 DEF Stands
  <2>3. QED BY <1>5, <2>1, <2>2 DEF Touches
<1>7. Stands(s)'
  <2>1. Owed(s)' = Owed(s)
    BY <1>4 DEF Owed
  <2>2. Clearing(s)'
    BY <1>1, <1>3 DEF Clearing
  <2>3. \A o \in Owed(s) : InState(s, o)'
    BY <1>4, <1>5, <2>2 DEF Stands, InState
  <2>4. Recorded(s)'
    BY <1>4, <1>5 DEF Stands, Recorded
  <2>5. (s.verify /\ Gone(s, "verify"))' <=> s.verify /\ Gone(s, "verify")
    BY <1>4
  <2>6. QED BY <1>4, <1>5, <2>1, <2>3, <2>4, <2>5 DEF Stands
<1>8. QED BY <1>1, <1>3, <1>6, <1>7, PartStep DEF PartRuns

\* The gate of a step's claim is open when the plan settled what it owes.
LEMMA ClearedGate ==
  ASSUME ExecInv, NEW plan, Prepared(plan), PlanFacts(program, plan), NEW s \in Steps(plan),
         Stands(s), ~Clearing(s), Gone(s, "require"), Gone(s, "discharge")
  PROVE  GateOpen(Target(s)) <=> Cleared(s)
<1> PICK n, c : n = Target(s) /\ c = claims[n]
  OBVIOUS
<1>1. /\ n \in DOMAIN claims /\ c.obligations = Owed(s) /\ c.derivation \in derivations
      /\ c.derivation.op = Resolve(s.op) /\ c.derivation.receipt = NoReceipt
      /\ \A o \in Owed(s) : InState(s, o)
  BY DEF Stands, Recorded
<1>2. c.derivation # NoDerivation
  BY <1>1, ModuleAssumption DEF ExecInv, TypeOK
<1>3. DerivationComplete(c) <=> ~External(Of(s))
  BY <1>1 DEF DerivationComplete, PlanFacts, StepsOK, Prepared, Of
<1>4. ObligationsDischarged(c) <=> \A o \in Owed(s) :
        o.severity = "Mandatory" => o.kind \in Checked \/ Settles(s)
  <2>1. ASSUME NEW o \in Owed(s)
        PROVE  o \in DOMAIN obligations
               /\ (obligations[o] \in Discharged <=> o.kind \in Checked \/ Settles(s))
    BY <1>1 DEF InState, Discharged
  <2>2. QED BY <1>1, <2>1 DEF ObligationsDischarged
<1>5. (\A o \in Owed(s) : o.severity = "Mandatory" => o.kind \in Checked \/ Settles(s))
        <=> (Owes(s) => Settles(s))
  <2>1. ASSUME ~Settles(s), NEW k \in (Of(s).generates \cap MandatoryKinds) \ Checked
        PROVE  \E o \in Owed(s) : o.severity = "Mandatory" /\ o.kind \notin Checked
    <3>1. PICK o : o = [kind |-> k, target |-> n, severity |-> "Mandatory"]
      OBVIOUS
    <3>2. o \in Declared(s)
      BY <2>1, <3>1 DEF Declared
    <3>3. QED BY <2>1, <3>1, <3>2 DEF Owed
  <2>2. ASSUME s.requires PROVE \E o \in Owed(s) : o.severity = "Mandatory" /\ o.kind \notin Checked
    <3>1. Bounds(s) \in Owed(s) /\ Bounds(s).severity = "Mandatory" /\ Bounds(s).kind = "NumericBounds"
      BY <2>2 DEF Owed, Bounds
    <3>2. QED BY <3>1 DEF Checked
  <2>3. ASSUME ~Owes(s), NEW o \in Owed(s), o.severity = "Mandatory" PROVE o.kind \in Checked
    <3>1. o \in Declared(s)
      BY <2>3 DEF Owed, Owes
    <3>2. PICK k \in Of(s).generates :
            o = [kind |-> k, target |-> Target(s),
                 severity |-> IF k \in MandatoryKinds THEN "Mandatory" ELSE "Advisory"]
      BY <3>1 DEF Declared
    <3>3. k \in MandatoryKinds /\ o.kind = k
      BY <2>3, <3>2
    <3>4. QED BY <2>3, <3>3 DEF Owes
  <2>4. CASE Settles(s)
    BY <2>4
  <2>5. CASE ~Settles(s) /\ Owes(s)
    <3>1. \E o \in Owed(s) : o.severity = "Mandatory" /\ o.kind \notin Checked
      BY <2>1, <2>2, <2>5 DEF Owes
    <3>2. QED BY <2>5, <3>1
  <2>6. CASE ~Owes(s)
    BY <2>3, <2>6
  <2>7. QED BY <2>4, <2>5, <2>6
<1>6. GateOpen(n) <=> ObligationsDischarged(c) /\ DerivationComplete(c)
  BY <1>1, <1>2 DEF GateOpen, Exists
<1>7. QED BY <1>3, <1>4, <1>5, <1>6 DEF Cleared, Settles

\* A verification succeeds on a claim that is cleared, and only then.
LEMMA VerifyRuns ==
  ASSUME ExecInv, NEW plan, NEW s, NEW i, PartRuns(plan, s, i), program[i].verb = "verify",
         VerifyStmt(program[i]), left' = left \ {i}, UNCHANGED <<program, forged>>
  PROVE  Prepared(plan)' /\ Underway(plan)'
<1>1. PICK st : st = program[i] /\ st = Request(s) /\ st.verb = "verify" /\ s.verify
  BY PartMeans DEF PartRuns
<1>2. st.target = LabelOf(s)
  BY <1>1 DEF Request
<1>3. /\ \A v : v # "verify" => (Gone(s, v)' <=> Gone(s, v))
      /\ Gone(s, "verify")' /\ ~Gone(s, "verify")
      /\ \A v \in Verbs : TurnOf(v) < TurnOf("verify") => Gone(s, v)
      /\ Bound(LabelOf(s)) /\ Stands(s)
  BY <1>1, RunningGone
<1> PICK n : n = Target(s)
  OBVIOUS
<1>4. Claimed(st.target) = n
  BY <1>2, <1>3 DEF Claimed, Bound, PartRuns, Prepared, Target
<1>5. n \in DOMAIN claims /\ claims[n].status = "Pending"
  BY <1>3 DEF Stands
<1>6. ~Clearing(s) /\ Gone(s, "require") /\ Gone(s, "discharge")
  BY <1>3 DEF Clearing, PartRuns, Verbs, TurnOf
<1>7. GateOpen(n) <=> Cleared(s)
  BY <1>3, <1>6, ClearedGate DEF PartRuns
<1>8. /\ claims' = IF Cleared(s) THEN [claims EXCEPT ![n].status = "Verified"] ELSE claims
      /\ UNCHANGED <<operations, derivations, obligations, phase, busy, claimLabels, evidenceLabels>>
  BY <1>1, <1>4, <1>7 DEF VerifyStmt, Verify, SetStatus, vars, Quiet, NoLabels, supportVars,
     callVars, labelVars
<1>9. claims[n] \in Claim
  BY <1>5 DEF ExecInv, TypeOK, IsMap
<1>10. /\ DOMAIN claims' = DOMAIN claims
       /\ \A m \in DOMAIN claims : m # n => claims'[m] = claims[m]
       /\ claims'[n].obligations = claims[n].obligations
       /\ claims'[n].derivation = claims[n].derivation
       /\ claims'[n].status = IF Cleared(s) THEN "Verified" ELSE "Pending"
  BY <1>5, <1>8, <1>9 DEF Claim
<1>11. Touches(s)
  <2>1. /\ DOMAIN claimLabels' = DOMAIN claimLabels \cup {LabelOf(s)}
        /\ \A l \in DOMAIN claimLabels' : claimLabels'[l] = <<l, RootLabel>>
    BY <1>3, <1>8 DEF Bound, PartRuns, Prepared
  <2>2. QED BY <1>5, <1>8, <1>10, <2>1 DEF Touches
<1>12. Stands(s)'
  <2>1. Owed(s)' = Owed(s)
    BY <1>3 DEF Owed
  <2>2. Clearing(s)' <=> Clearing(s)
    BY <1>8 DEF Clearing
  <2>3. \A o \in Owed(s) : InState(s, o)'
    BY <1>3, <1>8, <2>2 DEF Stands, InState
  <2>4. Recorded(s)'
    BY <1>3, <1>8, <1>10 DEF Stands, Recorded
  <2>5. QED BY <1>1, <1>3, <1>5, <1>10, <2>1, <2>3, <2>4 DEF Stands
<1>13. phase' = "worklist"
  BY <1>8 DEF PartRuns
<1>14. QED BY <1>11, <1>12, <1>13, PartStep DEF PartRuns

\* Whatever statement of the worklist runs.
LEMMA RunReadySettles ==
  ASSUME ExecInv, NEW plan, PlanFacts(program, plan), Prepared(plan), Underway(plan), RunReady
  PROVE  Settling(plan)'
<1>1. phase = "worklist"
  BY DEF RunReady
<1>2. PICK i \in FirstReady :
        ExecStmt(program[i]) /\ left' = left \ {i} /\ UNCHANGED <<program, forged, modeVars>>
  BY DEF RunReady
<1>3. PICK s \in Steps(plan) :
        /\ program[i] \in Parts(s)
        /\ \A v \in Verbs : TurnOf(v) < Turn(program[i]) => Gone(s, v)
  BY <1>1, RunningPart
<1>4. PartRuns(plan, s, i)
  BY <1>1, <1>3 DEF PartRuns, FirstReady
<1>5. program[i].verb \in Verbs
  BY <1>3, PartMeans DEF Verbs
<1>6. \/ DeriveStmt(program[i]) /\ program[i].verb = "derive"
      \/ RequireStmt(program[i]) /\ program[i].verb = "require"
      \/ DischargeStmt(program[i]) /\ program[i].verb = "discharge"
      \/ VerifyStmt(program[i]) /\ program[i].verb = "verify"
  BY <1>2, <1>5 DEF ExecStmt, DeriveStmt, RequireStmt, DischargeStmt, VerifyStmt, StatusStmt,
     ContradictStmt, ContextStmt, CallStmt, Verbs
<1>7. CASE DeriveStmt(program[i]) /\ program[i].verb = "derive"
  <2>1. Fail("CannotDerive") \/ (phase' = "worklist" /\ Prepared(plan)' /\ Underway(plan)')
    BY <1>2, <1>4, <1>7, DeriveRuns
  <2>2. QED BY <2>1 DEF Settling, Fail
<1>8. CASE RequireStmt(program[i]) /\ program[i].verb = "require"
  <2>1. phase' = "worklist"
    BY <1>1, <1>8 DEF RequireStmt, Quiet
  <2>2. Prepared(plan)' /\ Underway(plan)'
    BY <1>2, <1>4, <1>8, RequireRuns
  <2>3. QED BY <2>1, <2>2 DEF Settling
<1>9. CASE DischargeStmt(program[i]) /\ program[i].verb = "discharge"
  <2>1. phase' = "discharge" /\ Prepared(plan)' /\ Underway(plan)'
    BY <1>2, <1>4, <1>9, DischargeRuns
  <2>2. QED BY <2>1 DEF Settling
<1>10. CASE VerifyStmt(program[i]) /\ program[i].verb = "verify"
  <2>1. phase' = "worklist"
    BY <1>1, <1>10 DEF VerifyStmt, Quiet
  <2>2. Prepared(plan)' /\ Underway(plan)'
    BY <1>2, <1>4, <1>10, VerifyRuns
  <2>3. QED BY <2>1, <2>2 DEF Settling
<1>11. QED BY <1>6, <1>7, <1>8, <1>9, <1>10

\* The worklist of a plan with inputs in order does not get stuck.
LEMMA NeverStuck ==
  ASSUME ExecInv, NEW plan, PlanFacts(program, plan), Prepared(plan), Underway(plan), Stuck
  PROVE  FALSE
<1>1. phase = "worklist" /\ left # {} /\ \A i \in left : ~Ready(program[i])
  BY NoneReady DEF Stuck, ExecInv, RunInv
<1>2. left \subseteq DOMAIN program
  BY DEF ExecInv, RunInv, ProgramOK
<1> DEFINE U == {s \in Steps(plan) : ~Bound(LabelOf(s))}
<1>3. PICK rank \in [Steps(plan) -> Nat] : \A s \in Steps(plan) : \A i \in DOMAIN s.inputs :
        \/ Premised(program, Sanitize(s.inputs[i]))
        \/ \E t \in Steps(plan) : LabelOf(t) = Sanitize(s.inputs[i]) /\ rank[t] < rank[s]
  BY DEF PlanFacts, StepsOK
<1>4. CASE U = {}
  <2>1. PICK i \in left : TRUE
    BY <1>1
  <2>2. PICK s \in Steps(plan) : program[i] \in Parts(s)
    BY <1>2, <2>1 DEF Underway, PlanFacts, PartsOK
  <2>3. Bound(LabelOf(s))
    BY <1>4, <2>2
  <2>4. program[i].verb # "derive"
    BY <2>1, <2>2, <2>3 DEF Underway, StepUnderway, Gone
  <2>5. QED BY <1>1, <2>1, <2>2, <2>3, <2>4, PartReady
<1>5. CASE U # {}
  <2> DEFINE K == {rank[s] : s \in U}
  <2>1. K \subseteq Nat /\ K # {}
    BY <1>3, <1>5
  <2>2. PICK k \in K : \A m \in K : k <= m
    <3> HIDE DEF K
    <3>1. QED BY <2>1, LeastIndex
  <2>3. PICK s \in U : k = rank[s]
    BY <2>2
  <2>4. ~Gone(s, "derive")
    BY <2>3 DEF Underway, StepUnderway
  <2>5. PICK i \in left : program[i] \in Parts(s) /\ program[i].verb = "derive"
    BY <2>4 DEF Gone
  <2>6. program[i] = DeriveOf(s)
    BY <2>5, PartMeans
  <2>7. ASSUME NEW j \in DOMAIN s.inputs PROVE Bound(Sanitize(s.inputs[j]))
    <3>1. CASE Premised(program, Sanitize(s.inputs[j]))
      BY <1>1, <3>1 DEF Premised, Prepared
    <3>2. CASE \E t \in Steps(plan) : LabelOf(t) = Sanitize(s.inputs[j]) /\ rank[t] < rank[s]
      <4>1. PICK t \in Steps(plan) : LabelOf(t) = Sanitize(s.inputs[j]) /\ rank[t] < rank[s]
        BY <3>2
      <4>2. t \notin U
        <5>1. ASSUME t \in U PROVE FALSE
          <6>1. rank[s] <= rank[t]
            BY <2>2, <2>3, <5>1
          <6>2. rank[s] \in Nat /\ rank[t] \in Nat
            BY <1>3
          <6>3. QED BY <4>1, <6>1, <6>2
        <5>2. QED BY <5>1
      <4>3. QED BY <4>1, <4>2
    <3>3. QED BY <1>3, <3>1, <3>2
  <2>8. PICK st : st = DeriveOf(s)
    OBVIOUS
  <2>9. /\ st.verb = "derive" /\ ~st.receipt
        /\ DOMAIN st.inputs = DOMAIN s.inputs
        /\ \A j \in DOMAIN s.inputs : st.inputs[j] = Sanitize(s.inputs[j])
    BY <2>8 DEF DeriveOf
  <2>10. Ready(st)
    BY <2>7, <2>9 DEF Ready
  <2>11. QED BY <1>1, <2>5, <2>6, <2>8, <2>10
<1>6. QED BY <1>4, <1>5

\* A finished plan passes the checks at the end.
LEMMA FinishSettles ==
  ASSUME ExecInv, NEW plan, PlanFacts(program, plan), Prepared(plan), Underway(plan), Finish
  PROVE  Settling(plan)'
<1>1. phase = "worklist" /\ left = {} /\ UNCHANGED <<left, program, forged>>
  BY DEF Finish
<1>2. ASSUME NEW n \in DOMAIN claims, claims[n].status = "Verified" PROVE GateOpen(n)
  <2>1. PICK s \in Steps(plan) : n = Target(s) /\ Bound(LabelOf(s))
    BY <1>2 DEF Prepared
  <2>2. Stands(s) /\ \A v : Gone(s, v)
    BY <1>1, <2>1 DEF Underway, StepUnderway, Gone
  <2>3. Cleared(s)
    BY <1>2, <2>1, <2>2 DEF Stands
  <2>4. ~Clearing(s)
    BY <1>1 DEF Clearing
  <2>5. QED BY <2>1, <2>2, <2>3, <2>4, ClearedGate
<1>3. phase' = "ok" /\ UNCHANGED <<vars, error, callVars, labelVars>>
  BY <1>2 DEF Finish, Prepared
<1>4. UNCHANGED <<claims, obligations, derivations, operations, claimLabels, evidenceLabels>>
  BY <1>3 DEF vars, labelVars
<1>5. \A s : Clearing(s)' <=> Clearing(s)
  BY <1>1, <1>3 DEF Clearing
<1>6. \A s : \A v : Gone(s, v)' <=> Gone(s, v)
  BY <1>1 DEF Gone
<1>7. \A s \in Steps(plan) : StepUnderway(s)'
  <2>1. ASSUME NEW s \in Steps(plan), Stands(s) PROVE Stands(s)'
    <3>1. Target(s) \in DOMAIN claims /\ \A o \in Owed(s) : o \in DOMAIN obligations
      BY <2>1 DEF Stands, InState
    <3>2. QED BY <1>4, <1>5, <1>6, <2>1, <3>1, StandsKept
  <2>2. \A l : Bound(l)' <=> Bound(l)
    BY <1>4 DEF Bound
  <2>3. QED BY <1>6, <2>1, <2>2 DEF Underway, StepUnderway
<1>8. Underway(plan)'
  BY <1>1, <1>3, <1>7 DEF Underway
<1>9. Prepared(plan)'
  BY <1>1, <1>3, <1>4 DEF Prepared, Bound
<1>10. QED BY <1>3, <1>8, <1>9 DEF Settling

\* The discharge that a step asks for settles what its claim owes.
LEMMA DischargeNextSettles ==
  ASSUME ExecInv, NEW plan, PlanFacts(program, plan), Prepared(plan), Underway(plan), DischargeNext
  PROVE  Settling(plan)'
<1>1. phase = "discharge" /\ UNCHANGED <<program, left, forged, labelVars>>
  BY DEF DischargeNext
<1>2. PICK s \in Steps(plan) :
        Clearing(s) /\ Gone(s, "discharge") /\ Settles(s) /\ Bound(LabelOf(s))
  BY <1>1 DEF Underway
<1>3. Stands(s)
  BY <1>2 DEF Underway, StepUnderway
<1>4. busy = Clearance(s) /\ busy.target = LabelOf(s)
  BY <1>2 DEF Clearing, Clearance
<1> PICK n, open : n = Target(s) /\ open = {o \in Owed(s) : obligations[o] = "Pending"}
  OBVIOUS
<1>5. Claimed(busy.target) = n
  BY <1>2, <1>4 DEF Claimed, Bound, Prepared, Target
<1>6. {o \in claims[n].obligations : o \in DOMAIN obligations /\ obligations[o] = "Pending"} = open
  BY <1>3 DEF Stands, InState
<1>7. \/ open = {} /\ phase' = "worklist" /\ busy' = NoStmt /\ UNCHANGED vars
      \/ \E o \in open : /\ Discharge(o, evidenceLabels[busy.by], "Satisfied")
                         /\ UNCHANGED <<phase, busy>>
  BY <1>5, <1>6 DEF DischargeNext
<1>8. \A t, v : Gone(t, v)' <=> Gone(t, v)
  BY <1>1 DEF Gone
<1>9. UNCHANGED <<claimLabels, contextLabels, evidenceLabels>>
  BY <1>1 DEF labelVars
<1>10. UNCHANGED <<claims, operations, derivations>>
  BY <1>7 DEF vars, Discharge, supportVars
<1>11. /\ Clearing(s)' <=> phase' = "discharge"
       /\ phase' = "worklist" => open = {} /\ obligations' = obligations
       /\ phase' \in {"worklist", "discharge"}
       /\ DOMAIN obligations' = DOMAIN obligations
       /\ \A o \in DOMAIN obligations :
            obligations'[o] = obligations[o] \/ (o \in open /\ obligations'[o] = "Satisfied")
  <2>1. CASE open = {} /\ phase' = "worklist" /\ busy' = NoStmt /\ UNCHANGED vars
    BY <2>1 DEF Clearing, vars
  <2>2. CASE \E o \in open : /\ Discharge(o, evidenceLabels[busy.by], "Satisfied")
                             /\ UNCHANGED <<phase, busy>>
    BY <1>1, <1>4, <2>2 DEF Clearing, Discharge
  <2>3. QED BY <1>7, <2>1, <2>2
<1>12. \A o \in open : o.target = n
  BY OwedTargets
<1>13. Touches(s)
  <2>1. /\ DOMAIN claimLabels' = DOMAIN claimLabels \cup {LabelOf(s)}
        /\ \A l \in DOMAIN claimLabels' : claimLabels'[l] = <<l, RootLabel>>
    BY <1>2, <1>9 DEF Bound, Prepared
  <2>2. DOMAIN claims' = DOMAIN claims \cup {n}
    BY <1>3, <1>10 DEF Stands
  <2>3. \A o \in DOMAIN obligations :
          o.target # n => o \in DOMAIN obligations' /\ obligations'[o] = obligations[o]
    BY <1>11, <1>12
  <2>4. QED BY <1>1, <1>9, <1>10, <2>1, <2>2, <2>3 DEF Touches
<1>14. Stands(s)'
  <2>1. Owed(s)' = Owed(s)
    BY <1>8 DEF Owed
  <2>2. ASSUME NEW o \in Owed(s) PROVE InState(s, o)'
    <3>1. InState(s, o)
      BY <1>3, <2>2 DEF Stands
    <3>2. /\ o \in DOMAIN obligations' /\ obligations'[o] \in {"Pending", "Satisfied"}
          /\ o.kind \in Checked => obligations'[o] = "Satisfied"
      BY <1>11, <3>1 DEF InState
    <3>3. ~Clearing(s)' => obligations'[o] = "Satisfied"
      <4>1. ~Clearing(s)' => open = {} /\ obligations' = obligations
        BY <1>11
      <4>2. open = {} => obligations[o] = "Satisfied"
        BY <2>2, <3>1 DEF InState
      <4>3. QED BY <4>1, <4>2
    <3>4. Gone(s, "discharge")'
      BY <1>2, <1>8
    <3>5. QED BY <1>2, <3>2, <3>3, <3>4 DEF InState
  <2>3. Recorded(s)'
    BY <1>3, <1>10 DEF Stands, Recorded
  <2>4. QED BY <1>3, <1>8, <1>10, <2>1, <2>2, <2>3 DEF Stands
<1>15. ASSUME NEW t \in Steps(plan), t # s, Stands(t) PROVE Stands(t)'
  <2>1. LabelOf(t) # LabelOf(s)
    BY <1>15 DEF PlanFacts, StepsOK
  <2>2. Clearance(t).target = LabelOf(t)
    BY DEF Clearance
  <2>3. ~Clearing(t) /\ ~Clearing(t)'
    BY <1>4, <1>7, <1>11, <2>1, <2>2 DEF Clearing
  <2>4. QED BY <1>8, <1>13, <1>15, <2>3, OthersStand DEF PlanFacts
<1>16. \A l : Bound(l)' <=> Bound(l)
  BY <1>9 DEF Bound
<1>17. \A t \in Steps(plan) : StepUnderway(t)'
  BY <1>8, <1>14, <1>15, <1>16 DEF Underway, StepUnderway
<1>18. Underway(plan)'
  <2>1. phase' = "discharge" => \E t \in Steps(plan) :
          Clearing(t)' /\ Gone(t, "discharge")' /\ Settles(t) /\ Bound(LabelOf(t))'
    BY <1>2, <1>8, <1>11, <1>16
  <2>2. \A i \in left' : IsPending(program'[i])
    BY <1>1 DEF Underway
  <2>3. QED BY <1>11, <1>17, <2>1, <2>2 DEF Underway
<1>19. Prepared(plan)'
  BY <1>1, <1>9, <1>10, <1>11 DEF Prepared, Bound
<1>20. QED BY <1>11, <1>18, <1>19 DEF Settling

-----------------------------------------------------------------------------
(* Before the worklist. *)

\* Untrusted evidence is declared without a check of its signature.
LEMMA DeclareSettles ==
  ASSUME ExecInv, NEW plan, PlanFacts(program, plan), Early(plan), DeclareEvidence
  PROVE  Early(plan)'
<1>1. phase = "evidence" /\ UNCHANGED <<program, claimLabels>>
  BY DEF DeclareEvidence
<1>2. PICK i \in FirstLeft : Declare(program[i]) /\ left' = left \ {i}
  BY DEF DeclareEvidence
<1>3. i \in left /\ i \in DOMAIN program /\ IsEvidence(program[i])
  BY <1>1, <1>2 DEF FirstLeft, ExecInv, RunInv, ProgramOK
<1>4. program[i].evidence \notin Trusted
  BY <1>3 DEF PlanFacts, OpeningsOK
<1> PICK st : st = program[i]
  OBVIOUS
<1>5. /\ Record(st.evidence) /\ evidenceLabels' = Put(evidenceLabels, st.label, st.evidence)
      /\ forged' = forged \ {st.evidence} /\ UNCHANGED <<phase, error>>
  BY <1>2, <1>4 DEF Declare
<1>6. UNCHANGED <<claims, operations>>
  BY <1>5 DEF Record, AddEvidence, vars
<1>7. DOMAIN evidenceLabels' = DOMAIN evidenceLabels \cup {st.label}
  BY <1>5 DEF Put
<1>8. forged' = {}
  BY <1>5 DEF Early, Prepared
<1>9. Prepared(plan)'
  <2>1. ASSUME NEW j \in DOMAIN program, IsEvidence(program[j]), j \notin left'
        PROVE  program[j].label \in DOMAIN evidenceLabels'
    <3>1. CASE j = i
      BY <1>7, <3>1
    <3>2. CASE j # i
      BY <1>1, <1>2, <1>7, <2>1, <3>2 DEF Early, Prepared
    <3>3. QED BY <3>1, <3>2
  <2>2. \A l : Bound(l)' <=> Bound(l)
    BY <1>1 DEF Bound
  <2>3. phase' = "evidence"
    BY <1>1, <1>5
  <2>4. QED BY <1>1, <1>6, <1>8, <2>1, <2>2, <2>3 DEF Early, Prepared
<1>10. QED BY <1>1, <1>5, <1>9 DEF Early, Bound

\* Premises find their evidence and take labels no step has.
LEMMA PremiseSettles ==
  ASSUME ExecInv, NEW plan, PlanFacts(program, plan), Early(plan), RunPremise
  PROVE  Early(plan)'
<1>1. phase = "premises" /\ UNCHANGED <<program, forged>>
  BY DEF RunPremise
<1>2. PICK i \in FirstLeft : PremiseStmt(program[i]) /\ left' = left \ {i}
  BY DEF RunPremise
<1>3. i \in left /\ i \in DOMAIN program /\ IsPremise(program[i])
  BY <1>1, <1>2 DEF FirstLeft, ExecInv, RunInv, ProgramOK
<1> PICK st, n : st = program[i] /\ n = <<st.label, st.ctx>>
  OBVIOUS
<1>4. /\ st.ctx = RootLabel /\ \A s \in Steps(plan) : st.label # LabelOf(s)
      /\ \A l \in st.evidence : Evidenced(program, l)
  BY <1>3 DEF PlanFacts, OpeningsOK
<1>5. st.evidence \subseteq DOMAIN evidenceLabels /\ st.ctx \in contextLabels
  <2>1. ASSUME NEW l \in st.evidence PROVE l \in DOMAIN evidenceLabels
    <3>1. PICK k \in DOMAIN program : IsEvidence(program[k]) /\ program[k].label = l
      BY <1>4 DEF Evidenced
    <3>2. QED BY <1>1, <3>1 DEF Early, Prepared
  <2>2. QED BY <1>4, <2>1 DEF ExecInv, RunInv, LabelsOK
<1>6. StatePremise(st)
  BY <1>2, <1>5 DEF PremiseStmt
<1>7. /\ Bind(st.label, n)
      /\ UNCHANGED <<phase, error, callVars, contextLabels, evidenceLabels>>
  BY <1>6 DEF StatePremise
<1>8. \E c : /\ c.status \in {"Asserted", "Observed", "Assumed"}
             /\ claims' = Put(claims, n, c) /\ operations' = operations
  <2> PICK ev : ev = {evidenceLabels[l] : l \in st.evidence}
    OBVIOUS
  <2>1. \/ st.verb = "assert" /\ Assert(n, st.value, ev)
        \/ st.verb = "observe" /\ Observe(n, st.value, ev)
        \/ st.verb = "assume" /\ Assume(n, st.value)
    BY <1>3, <1>6 DEF StatePremise, IsPremise, Premises
  <2>2. \A v, e, status, as : PremiseClaim(n, v, e, status, as).status = status
    BY DEF PremiseClaim
  <2>3. CASE st.verb = "assert" /\ Assert(n, st.value, ev)
    <3>1. PICK c : c = PremiseClaim(n, st.value, ev, "Asserted", {})
      OBVIOUS
    <3>2. claims' = Put(claims, n, c) /\ operations' = operations
      BY <2>3, <3>1 DEF Assert, Premise
    <3>3. c.status = "Asserted"
      BY <2>2, <3>1
    <3>4. QED BY <3>2, <3>3
  <2>4. CASE st.verb = "observe" /\ Observe(n, st.value, ev)
    <3>1. PICK c : c = PremiseClaim(n, st.value, ev, "Observed", {})
      OBVIOUS
    <3>2. claims' = Put(claims, n, c) /\ operations' = operations
      BY <2>4, <3>1 DEF Observe, Premise
    <3>3. c.status = "Observed"
      BY <2>2, <3>1
    <3>4. QED BY <3>2, <3>3
  <2>5. CASE st.verb = "assume" /\ Assume(n, st.value)
    <3>1. PICK c : c = PremiseClaim(n, st.value, {}, "Assumed", {[claim |-> n]})
      OBVIOUS
    <3>2. claims' = Put(claims, n, c) /\ operations' = operations
      BY <2>5, <3>1 DEF Assume, Premise
    <3>3. c.status = "Assumed"
      BY <2>2, <3>1
    <3>4. QED BY <3>2, <3>3
  <2>6. QED BY <2>1, <2>3, <2>4, <2>5
<1>9. PICK c : /\ c.status \in {"Asserted", "Observed", "Assumed"}
               /\ claims' = Put(claims, n, c) /\ operations' = operations
  BY <1>8
<1>10. /\ DOMAIN claimLabels' = DOMAIN claimLabels \cup {st.label}
       /\ \A l \in DOMAIN claimLabels' : claimLabels'[l] = <<l, RootLabel>>
  BY <1>4, <1>7 DEF Bind, Put, Early, Prepared
<1>11. \A l : Bound(l)' <=> Bound(l) \/ l = st.label
  BY <1>10 DEF Bound
<1>12. \A m \in DOMAIN claims' : claims'[m].status = "Verified" =>
         m \in DOMAIN claims /\ claims[m].status = "Verified"
  BY <1>9 DEF Put
<1>13. Prepared(plan)'
  <2>1. ASSUME NEW j \in DOMAIN program, IsPremise(program[j]), j \notin left'
        PROVE  Bound(program[j].label)'
    <3>1. CASE j = i
      BY <1>1, <1>11, <3>1
    <3>2. CASE j # i
      BY <1>1, <1>2, <1>11, <2>1, <3>2 DEF Early, Prepared
    <3>3. QED BY <3>1, <3>2
  <2>2. phase' = "premises" /\ UNCHANGED evidenceLabels
    BY <1>1, <1>7
  <2>3. ASSUME NEW m \in DOMAIN claims', claims'[m].status = "Verified"
        PROVE  \E s \in Steps(plan) : m = Target(s) /\ Bound(LabelOf(s))'
    BY <1>11, <1>12, <2>3 DEF Early, Prepared
  <2>4. QED BY <1>1, <1>9, <1>10, <2>1, <2>2, <2>3 DEF Early, Prepared
<1>14. QED BY <1>1, <1>4, <1>7, <1>11, <1>13 DEF Early

\* The worklist begins with every statement of every step.
LEMMA NextPhaseSettles ==
  ASSUME ExecInv, NEW plan, PlanFacts(program, plan), Early(plan), NextPhase
  PROVE  Settling(plan)'
<1>1. left = {} /\ UNCHANGED <<vars, program, labelVars, forged>>
  BY DEF NextPhase
<1>2. UNCHANGED <<claims, operations, claimLabels, evidenceLabels>>
  BY <1>1 DEF vars, labelVars
<1>3. \A l : Bound(l)' <=> Bound(l)
  BY <1>2 DEF Bound
<1>4. CASE phase = "evidence"
  <2>1. phase' = "premises" /\ left' = Which(program, IsPremise)
    BY <1>4 DEF NextPhase
  <2>2. \A i \in DOMAIN program : IsPremise(program[i]) => i \in left'
    BY <2>1 DEF Which
  <2>3. Prepared(plan)'
    BY <1>1, <1>2, <1>4, <2>1, <2>2 DEF Early, Prepared, Bound
  <2>4. QED BY <1>3, <2>1, <2>3 DEF Settling, Early
<1>5. CASE phase = "premises"
  <2>1. phase' = "worklist" /\ left' = Which(program, IsPending)
    BY <1>5 DEF NextPhase
  <2>2. \A i : i \in left' <=> i \in DOMAIN program /\ IsPending(program[i])
    BY <2>1 DEF Which
  <2>3. Prepared(plan)'
    BY <1>1, <1>2, <1>5, <2>1 DEF Early, Prepared, Bound
  <2>4. ASSUME NEW s \in Steps(plan), NEW w \in Verbs, Has(s, w) PROVE ~Gone(s, w)'
    <3>1. PICK st \in Parts(s) : st.verb = w
      <4>1. DeriveOf(s).verb = "derive" /\ Requirement(s).verb = "require"
            /\ Clearance(s).verb = "discharge" /\ Request(s).verb = "verify"
        BY DEF DeriveOf, Requirement, Clearance, Request
      <4>2. QED BY <2>4, <4>1, PartsOf DEF Has, Verbs
    <3>2. PICK i \in DOMAIN program : program[i] = st
      BY DEF PlanFacts, PartsOK
    <3>3. i \in left'
      BY <2>2, <3>1, <3>2 DEF IsPending, Premises, Verbs
    <3>4. QED BY <1>1, <3>1, <3>2, <3>3 DEF Gone
  <2>5. ASSUME NEW s \in Steps(plan) PROVE StepUnderway(s)'
    <3>1. ~Gone(s, "derive")'
      BY <2>4 DEF Has, Verbs
    <3>2. ~Bound(LabelOf(s))'
      BY <1>3 DEF Early
    <3>3. QED BY <2>4, <3>1, <3>2 DEF StepUnderway
  <2>6. Underway(plan)'
    BY <1>1, <2>1, <2>2, <2>5 DEF Underway
  <2>7. QED BY <2>1, <2>3, <2>6 DEF Settling
<1>6. QED BY <1>4, <1>5 DEF Early

\* A new Runtime begins with nothing bound.
LEMMA FreshSettles ==
  ASSUME NEW plan, NEW p, PlanFacts(p, plan), Begin(p), Fresh'
  PROVE  Settling(plan)'
<1>1. phase' = "evidence" /\ program' = p /\ left' = Which(p, IsEvidence)
  <2>1. ~(Len(p) > MaxStmts)
    BY RuntimeAssumption DEF PlanFacts
  <2>2. QED BY <2>1 DEF Begin
<1>2. claimLabels' = <<>> /\ claims' = <<>> /\ forged' = {} /\ operations' = Registry(Builtin)
  BY DEF Fresh
<1>3. \A l : ~Bound(l)'
  BY <1>2 DEF Bound
<1>4. \A i \in DOMAIN p : IsEvidence(p[i]) => i \in left'
  BY <1>1 DEF Which
<1>5. Prepared(plan)'
  <2>1. DOMAIN claimLabels' = {} /\ DOMAIN claims' = {}
    BY <1>2
  <2>2. program' = p /\ phase' = "evidence"
    BY <1>1
  <2>3. QED BY <1>2, <1>4, <2>1, <2>2 DEF Prepared
<1>6. QED BY <1>1, <1>3, <1>5 DEF Settling, Early

-----------------------------------------------------------------------------
(* The theorem. *)

SettleInv ==
  executions = 1 \/ replaying => \A plan \in Plan :
    program = Produce(plan) /\ Executable(plan) => Settling(plan)

\* Each step of the execution.
LEMMA PlanStepSettles ==
  ASSUME ExecInv, NEW plan, PlanFacts(program, plan), Settling(plan), Step
  PROVE  Settling(plan)'
<1>1. phase \notin {"idle", "ok", "error"}
  BY StepKeepsMode
<1>2. CASE Early(plan)
  <2>1. NextPhase \/ DeclareEvidence \/ RunPremise
    BY <1>2 DEF Early, Step, RunReady, Stuck, DischargeNext, ReplayCall, LiveCall, RegisterCall,
       ApplyCall, Finish
  <2>2. QED BY <1>2, <2>1, NextPhaseSettles, DeclareSettles, PremiseSettles DEF Settling
<1>3. CASE phase \in {"worklist", "discharge", "ok"} /\ Prepared(plan) /\ Underway(plan)
  <2>1. RunReady \/ Stuck \/ DischargeNext \/ Finish
    BY <1>3 DEF Step, NextPhase, DeclareEvidence, RunPremise, ReplayCall, LiveCall, RegisterCall,
       ApplyCall
  <2>2. QED BY <1>3, <2>1, RunReadySettles, NeverStuck, DischargeNextSettles, FinishSettles
<1>4. QED BY <1>1, <1>2, <1>3 DEF Settling

\* Each step of the runtime.
LEMMA SettleStep ==
  ASSUME ExecInv, FollowInv, SettleInv, [ExecNext]_execVars
  PROVE  SettleInv'
<1> SUFFICES ASSUME executions' = 1 \/ replaying', NEW plan \in Plan,
                    program' = Produce(plan), Executable(plan)
             PROVE  Settling(plan)'
  BY DEF SettleInv
<1>1. PICK p : p = Produce(plan) /\ PlanFacts(p, plan)
  BY ProduceFacts
<1>2. CASE UNCHANGED execVars
  <2>1. /\ UNCHANGED <<phase, error, program, left, busy, claims, obligations, derivations,
                       operations, claimLabels, evidenceLabels, forged, executions, replaying>>
    BY <1>2 DEF execVars, vars, callVars, labelVars, modeVars
  <2>2. Settling(plan)
    BY <2>1 DEF SettleInv
  <2>3. Prepared(plan)' <=> Prepared(plan)
    BY <2>1 DEF Prepared, Bound
  <2>4. \A s, v : Gone(s, v)' <=> Gone(s, v)
    BY <2>1 DEF Gone
  <2>5. \A s : Clearing(s)' <=> Clearing(s)
    BY <2>1 DEF Clearing
  <2>6. \A s : Stands(s) => Stands(s)'
    <3>1. ASSUME NEW s, Stands(s) PROVE Stands(s)'
      <4>1. Target(s) \in DOMAIN claims /\ \A o \in Owed(s) : o \in DOMAIN obligations
        BY <3>1 DEF Stands, InState
      <4>2. QED BY <2>1, <2>4, <2>5, <3>1, <4>1, StandsKept
    <3>2. QED BY <3>1
  <2>7. \A l : Bound(l)' <=> Bound(l)
    BY <2>1 DEF Bound
  <2>8. Underway(plan) => Underway(plan)'
    BY <2>1, <2>4, <2>5, <2>6, <2>7 DEF Underway, StepUnderway
  <2>9. Early(plan) => Early(plan)'
    BY <2>1, <2>3, <2>7 DEF Early
  <2>10. QED BY <2>1, <2>2, <2>3, <2>8, <2>9 DEF Settling
<1>3. CASE \E q \in (IF executions = 0 THEN Program ELSE Followup) : Execute(q)
  <2>1. PICK q : Execute(q)
    BY <1>3
  <2>2. /\ executions < MaxExecutions /\ executions' = executions + 1 /\ replaying' = replaying
        /\ Begin(q) /\ program' = q
        /\ UNCHANGED <<vars, labelVars, forged>>
    BY <2>1 DEF Execute, Begin
  <2>3. executions = 0
    BY <2>2, RuntimeAssumption DEF FollowInv, ReplayFollows
  <2>4. Fresh'
    BY <2>2, <2>3 DEF FollowInv, Fresh, vars, labelVars
  <2>5. QED BY <1>1, <2>2, <2>4, FreshSettles
<1>4. CASE Replay
  <2>1. Begin(program) /\ program' = program
    BY <1>4 DEF Replay, Begin
  <2>2. Fresh'
    BY <1>4 DEF Replay, FreshModule, FreshLabels, Fresh
  <2>3. QED BY <1>1, <2>1, <2>2, FreshSettles
<1>5. CASE Step
  <2>1. UNCHANGED <<program, executions, replaying>>
    BY <1>5, StepKeepsMode DEF modeVars
  <2>2. Settling(plan)
    BY <2>1 DEF SettleInv
  <2>3. QED BY <1>1, <1>5, <2>1, <2>2, PlanStepSettles
<1>6. QED BY <1>2, <1>3, <1>4, <1>5 DEF ExecNext

\* What a produced module asks for is what a new Runtime ends with, live or in a
\* replay: exactly the steps that ask to be verified and whose obligations the
\* plan discharges are verified, and nothing but an executor's error stops it.
THEOREM PlanTheorem == ExecSpec => []PlanSettled
<1>1. SettleInv => PlanSettled
  <2> SUFFICES ASSUME SettleInv, phase \in {"ok", "error"}, executions = 1 \/ replaying,
                      NEW plan \in Plan, program = Produce(plan), Executable(plan)
               PROVE  /\ phase = "error" => error = "CannotDerive"
                      /\ phase = "ok" => \A k \in DOMAIN plan.steps :
                           LET s == plan.steps[k] IN
                           claims[<<LabelOf(s), RootLabel>>].status = "Verified"
                             <=> s.verify /\ Cleared(s)
    BY DEF PlanSettled
  <2>1. \/ phase = "error" /\ error = "CannotDerive"
        \/ phase = "ok" /\ Underway(plan)
    BY DEF SettleInv, Settling, Early
  <2>2. ASSUME phase = "ok", Underway(plan), NEW k \in DOMAIN plan.steps, NEW s, s = plan.steps[k]
        PROVE  claims[<<LabelOf(s), RootLabel>>].status = "Verified" <=> s.verify /\ Cleared(s)
    <3>1. s \in Steps(plan) /\ left = {}
      BY <2>2, ToSetIsRange DEF Underway, Steps
    <3>2. Stands(s) /\ \A v : Gone(s, v)
      BY <2>2, <3>1 DEF Underway, StepUnderway, Gone
    <3>3. QED BY <3>2 DEF Stands, Target
  <2>3. QED BY <2>1, <2>2
<1>2. ExecInit => SettleInv
  BY DEF ExecInit, SettleInv
<1>3. ExecInv /\ FollowInv /\ SettleInv /\ [ExecNext]_execVars => SettleInv'
  BY SettleStep
<1>4. ExecInv /\ FollowInv /\ [ExecNext]_execVars => FollowInv'
  BY FollowStep
<1>5. QED BY <1>1, <1>2, <1>3, <1>4, FollowInitial, ExecInvariant, PTL DEF ExecSpec
=============================================================================
