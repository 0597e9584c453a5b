---------------------------- MODULE ValueChainProofs ----------------------------
(***************************************************************************)
(* Proofs about chains of derivations of any length, from any premises and *)
(* over integers of any width: what the units and the uncertainties of     *)
(* their results are, that their numbers stay in the width, and when their *)
(* values are those of exact arithmetic.                                   *)
(***************************************************************************)
EXTENDS ValueChainProps, NumbersProofs

-----------------------------------------------------------------------------
(* Units. *)

\* Dropping the zero exponents leaves a unit with the same exponents.
LEMMA CanonicalUnit ==
  ASSUME NEW B, NEW e \in [B -> Int]
  PROVE  /\ IsUnit(Canonical(e))
         /\ \A b : Exponent(Canonical(e), b) = Exponent(e, b)
<1>1. DOMAIN Canonical(e) = {b \in B : e[b] # 0}
      /\ \A b \in DOMAIN Canonical(e) : Canonical(e)[b] = e[b]
  BY DEF Canonical
<1>2. Canonical(e) = [b \in DOMAIN Canonical(e) |-> Canonical(e)[b]]
  BY DEF Canonical
<1>3. IsUnit(Canonical(e))
  BY <1>1, <1>2 DEF IsUnit
<1>4. ASSUME NEW b PROVE Exponent(Canonical(e), b) = Exponent(e, b)
  BY <1>1 DEF Exponent
<1>5. QED BY <1>3, <1>4

\* The exponent of any base in a unit is an integer.
LEMMA ExponentInt ==
  ASSUME NEW u, IsUnit(u), NEW b
  PROVE  Exponent(u, b) \in Int
BY DEF IsUnit, Exponent

\* Multiplying units adds exponents, whatever cancels.
LEMMA ProductExponents ==
  ASSUME NEW u, NEW v, IsUnit(u), IsUnit(v)
  PROVE  /\ IsUnit(UnitMultiply(u, v))
         /\ \A b : Exponent(UnitMultiply(u, v), b) = Exponent(u, b) + Exponent(v, b)
<1> DEFINE B == (DOMAIN u) \cup (DOMAIN v)
           e == [b \in B |-> Exponent(u, b) + Exponent(v, b)]
<1>1. \A b : Exponent(u, b) \in Int /\ Exponent(v, b) \in Int
  BY ExponentInt
<1>2. e \in [B -> Int]
  BY <1>1
<1>3. \A b : Exponent(e, b) = Exponent(u, b) + Exponent(v, b)
  BY DEF Exponent
<1>4. UnitMultiply(u, v) = Canonical(e)
  BY DEF UnitMultiply
<1> HIDE DEF e, B
<1>5. QED BY <1>2, <1>3, <1>4, CanonicalUnit

\* Dividing them subtracts exponents.
LEMMA QuotientExponents ==
  ASSUME NEW u, NEW v, IsUnit(u), IsUnit(v)
  PROVE  /\ IsUnit(UnitDivide(u, v))
         /\ \A b : Exponent(UnitDivide(u, v), b) = Exponent(u, b) - Exponent(v, b)
<1> DEFINE B == (DOMAIN u) \cup (DOMAIN v)
           e == [b \in B |-> Exponent(u, b) - Exponent(v, b)]
<1>1. \A b : Exponent(u, b) \in Int /\ Exponent(v, b) \in Int
  BY ExponentInt
<1>2. e \in [B -> Int]
  BY <1>1
<1>3. \A b : Exponent(e, b) = Exponent(u, b) - Exponent(v, b)
  BY DEF Exponent
<1>4. UnitDivide(u, v) = Canonical(e)
  BY DEF UnitDivide
<1> HIDE DEF e, B
<1>5. QED BY <1>2, <1>3, <1>4, CanonicalUnit

-----------------------------------------------------------------------------
(* Claims and what their ideals say of them. *)

KindsOf(i) == {u.kind : u \in i.doubts}

\* What is kept of a claim's doubts in its uncertainty's kind.
KindsKept(kind, kinds) ==
  /\ kind = "exact" <=> kinds = {"exact"}
  /\ kind = "unknown" <=> "unknown" \in kinds
  /\ "conflicting" \in kinds /\ "unknown" \notin kinds => kind = "conflicting"
  /\ kind = "external" <=> "external" \in kinds /\ kinds \subseteq {"exact", "external"}

IdealForm(i) ==
  i = [known |-> i.known, meaning |-> i.meaning, dimension |-> i.dimension,
       doubts |-> i.doubts, roomy |-> i.roomy]

\* A claim with its ideal: the form of its value, and units and doubts as the
\* ideal has them.  Of a truth value or an interval the doubts are lost.
OperandOK(c, i) ==
  /\ c = [value |-> c.value, unc |-> c.unc] /\ Stateable(c.unc)
  /\ c.value.type = "num" => c.value = NumValue(c.value.num)
  /\ c.value.type = "quantity" =>
       /\ c.value = Quantity(c.value.num, c.value.unit) /\ IsUnit(c.value.unit)
       /\ Dimension(c.value) = i.dimension
  /\ c.value.type \in {"num", "quantity"} => KindsKept(c.unc.kind, KindsOf(i))
  /\ i.doubts # {} /\ IdealForm(i)

\* The inductive invariant.
ChainInv == OperandOK(claim, ideal)

\* A premise is such a claim.
LEMMA PremiseOK ==
  ASSUME NEW o \in Operands
  PROVE  OperandOK(o.claim, o.ideal)
<1>1. PICK p \in Premises : o = [claim |-> Claim(p), ideal |-> Ideal(p)]
  BY DEF Operands
<1>2. o.claim = [value |-> p.value, unc |-> p.unc] /\ o.ideal = Ideal(p)
  BY <1>1 DEF Claim
<1>3. Ideal(p).dimension = Dimension(p.value) /\ Ideal(p).doubts = {p.unc}
  BY DEF Ideal
<1>4. KindsOf(o.ideal) = {p.unc.kind}
  BY <1>2, <1>3 DEF KindsOf
<1>5. KindsKept(p.unc.kind, {p.unc.kind})
  BY DEF KindsKept
<1>6. PICK c : c = o.claim
  OBVIOUS
<1>7. c.value = p.value /\ c.unc = p.unc /\ c = [value |-> p.value, unc |-> p.unc]
  BY <1>2, <1>6
<1>8. IdealForm(Ideal(p))
  BY DEF IdealForm, Ideal
<1>9. QED BY <1>2, <1>3, <1>4, <1>5, <1>6, <1>7, <1>8, PremisesAssumption DEF OperandOK

-----------------------------------------------------------------------------
(* Combined uncertainties. *)

\* What combine answers, by the kinds of the two: one of them, the doubt that
\* absorbs the other, a new bound of their common kind, or no uncertainty.
LEMMA CombinedKind ==
  ASSUME NEW u, NEW v, Stateable(u), Stateable(v), Combine(u, v) # Rejected
  PROVE  /\ Stateable(Combine(u, v))
         /\ \/ u.kind = "exact" /\ Combine(u, v) = v
            \/ v.kind = "exact" /\ Combine(u, v) = u
            \/ "unknown" \in {u.kind, v.kind} /\ Combine(u, v).kind = "unknown"
            \/ /\ "unknown" \notin {u.kind, v.kind} /\ "conflicting" \in {u.kind, v.kind}
               /\ Combine(u, v).kind = "conflicting"
            \/ /\ {"unknown", "conflicting", "exact"} \cap {u.kind, v.kind} = {}
               /\ \/ u.kind = "external" /\ Combine(u, v) = v
                  \/ v.kind = "external" /\ Combine(u, v) = u
                  \/ /\ "external" \notin {u.kind, v.kind}
                     /\ Combine(u, v).kind \in {"probability", "weight", "numeric", "conflicting"}
<1>1. /\ u.kind = "exact" <=> u = Exact
      /\ v.kind = "exact" <=> v = Exact
  BY DEF Stateable, Exact, Unknown, Conflicting
<1>2. CASE u = Exact
  BY <1>1, <1>2 DEF Combine
<1>3. CASE u # Exact /\ v = Exact
  BY <1>1, <1>3 DEF Combine
<1>4. CASE u # Exact /\ v # Exact /\ "unknown" \in {u.kind, v.kind}
  <2>1. Combine(u, v) = Unknown
    BY <1>4 DEF Combine
  <2>2. QED BY <1>4, <2>1 DEF Stateable, Unknown
<1>5. CASE /\ u # Exact /\ v # Exact /\ "unknown" \notin {u.kind, v.kind}
           /\ "conflicting" \in {u.kind, v.kind}
  <2>1. Combine(u, v) = Conflicting
    BY <1>5 DEF Combine
  <2>2. QED BY <1>5, <2>1 DEF Stateable, Conflicting
<1>6. CASE /\ u # Exact /\ v # Exact
           /\ "unknown" \notin {u.kind, v.kind} /\ "conflicting" \notin {u.kind, v.kind}
  <2>1. {"unknown", "conflicting", "exact"} \cap {u.kind, v.kind} = {}
    BY <1>1, <1>6
  <2>2. CASE u.kind = "external"
    BY <1>6, <2>1, <2>2 DEF Combine
  <2>3. CASE u.kind # "external" /\ v.kind = "external"
    BY <1>6, <2>1, <2>3 DEF Combine
  <2>4. CASE u.kind # "external" /\ v.kind # "external"
    <3>1. Combine(u, v) \in {ProbabilityProduct(u, v), WeightProduct(u, v),
                             Intersection(u, v), Rejected}
      BY <1>6, <2>4 DEF Combine
    <3>2. ProbabilityProduct(u, v) = Rejected \/ ProbabilityProduct(u, v).kind = "probability"
      BY DEF ProbabilityProduct, Probability
    <3>3. WeightProduct(u, v) = Rejected \/ WeightProduct(u, v).kind = "weight"
      BY DEF WeightProduct, EvidenceWeight
    <3>4. Intersection(u, v) = Conflicting \/ Intersection(u, v).kind = "numeric"
      BY DEF Intersection, NumericInterval
    <3>5. \/ Combine(u, v) = Conflicting
          \/ Combine(u, v).kind \in {"probability", "weight", "numeric"}
      BY <3>1, <3>2, <3>3, <3>4
    <3>6. Stateable(Combine(u, v)) /\ Combine(u, v).kind \in
            {"probability", "weight", "numeric", "conflicting"}
      BY <3>5 DEF Stateable, Conflicting
    <3>7. QED BY <2>1, <2>4, <3>6
  <2>5. QED BY <2>2, <2>3, <2>4
<1>7. QED BY <1>2, <1>3, <1>4, <1>5, <1>6

\* What is kept of two sets of doubts is kept of their union.
LEMMA KeptTogether ==
  ASSUME NEW u, NEW v, NEW K, NEW L, Stateable(u), Stateable(v),
         KindsKept(u.kind, K), KindsKept(v.kind, L), K # {}, L # {},
         Combine(u, v) # Rejected
  PROVE  KindsKept(Combine(u, v).kind, K \cup L)
<1> DEFINE k == u.kind
           m == v.kind
           r == Combine(u, v).kind
<1>1. \/ k = "exact" /\ r = m
      \/ m = "exact" /\ r = k
      \/ "unknown" \in {k, m} /\ r = "unknown"
      \/ "unknown" \notin {k, m} /\ "conflicting" \in {k, m} /\ r = "conflicting"
      \/ /\ {"unknown", "conflicting", "exact"} \cap {k, m} = {}
         /\ \/ k = "external" /\ r = m
            \/ m = "external" /\ r = k
            \/ /\ "external" \notin {k, m}
               /\ r \in {"probability", "weight", "numeric", "conflicting"}
  BY CombinedKind
<1> HIDE DEF k, m, r
<1>2. KindsKept(k, K) /\ KindsKept(m, L)
  BY DEF k, m
<1>3. KindsKept(r, K \cup L)
  <2>1. r = "exact" <=> K \cup L = {"exact"}
    BY <1>1, <1>2 DEF KindsKept
  <2>2. r = "unknown" <=> "unknown" \in K \cup L
    BY <1>1, <1>2 DEF KindsKept
  <2>3. "conflicting" \in K \cup L /\ "unknown" \notin K \cup L => r = "conflicting"
    BY <1>1, <1>2 DEF KindsKept
  <2>4. r = "external" <=> "external" \in K \cup L /\ K \cup L \subseteq {"exact", "external"}
    <3>1. /\ K \subseteq {"exact", "external"} <=> k \in {"exact", "external"}
          /\ L \subseteq {"exact", "external"} <=> m \in {"exact", "external"}
      BY <1>2 DEF KindsKept
    <3>2. K \cup L \subseteq {"exact", "external"} <=> {k, m} \subseteq {"exact", "external"}
      BY <3>1
    <3>3. ASSUME {k, m} \subseteq {"exact", "external"}
          PROVE  "external" \in K \cup L <=> "external" \in {k, m}
      BY <1>2, <3>3 DEF KindsKept
    <3>4. r = "external" <=> "external" \in {k, m} /\ {k, m} \subseteq {"exact", "external"}
      BY <1>1
    <3>5. QED BY <3>2, <3>3, <3>4
  <2>5. QED BY <2>1, <2>2, <2>3, <2>4 DEF KindsKept
<1>4. QED BY <1>3 DEF r

-----------------------------------------------------------------------------
(* What a derivation computes. *)

\* The result of an arithmetic operation on quantities that is accepted.
LEMMA QuantityResult ==
  ASSUME NEW op \in QuantityOps, NEW x, NEW y, IsUnit(x.unit), IsUnit(y.unit),
         ExecQuantity(op, x, y).value.type = "quantity"
  PROVE  \E num, unit :
           /\ ExecQuantity(op, x, y).value = Quantity(num, unit) /\ IsUnit(unit)
           /\ \A b : Exponent(unit, b) =
                       CASE op = "qmul" -> Exponent(x.unit, b) + Exponent(y.unit, b)
                         [] op = "qdiv" -> Exponent(x.unit, b) - Exponent(y.unit, b)
                         [] OTHER -> Exponent(x.unit, b)
<1> DEFINE num == Arithmetic(op, x.num, y.num).num
           unit == CASE op = "qmul" -> UnitMultiply(x.unit, y.unit)
                     [] op = "qdiv" -> UnitDivide(x.unit, y.unit)
                     [] OTHER -> x.unit
<1>1. ExecQuantity(op, x, y).value \in {NoValue, Quantity(num, unit)}
  BY DEF ExecQuantity, Result
<1>2. NoValue.type # "quantity"
  BY DEF NoValue
<1>3. ExecQuantity(op, x, y).value = Quantity(num, unit)
  BY <1>1, <1>2
<1>4. IsUnit(unit) /\ \A b : Exponent(unit, b) =
                       CASE op = "qmul" -> Exponent(x.unit, b) + Exponent(y.unit, b)
                         [] op = "qdiv" -> Exponent(x.unit, b) - Exponent(y.unit, b)
                         [] OTHER -> Exponent(x.unit, b)
  <2>1. CASE op = "qmul"
    BY <2>1, ProductExponents
  <2>2. CASE op = "qdiv"
    BY <2>2, QuotientExponents
  <2>3. CASE op # "qmul" /\ op # "qdiv"
    BY <2>3
  <2>4. QED BY <2>1, <2>2, <2>3
<1> HIDE DEF num, unit
<1>5. QED BY <1>3, <1>4

\* A claim that an accepted derivation of two such claims commits is such a
\* claim, with the ideal of the derivation.
LEMMA AcceptedOK ==
  ASSUME NEW op \in Binary, NEW x, NEW y,
         OperandOK(x.claim, x.ideal), OperandOK(y.claim, y.ideal),
         NEW values, values = <<x.claim.value, y.claim.value>>,
         NEW r, r = Exec(op, values).value,
         NEW w, w = ConjoinedUncertainty(op, <<x.claim.unc, y.claim.unc>>),
         NEW n, n = IdealDerive(op, values, x.ideal, y.ideal),
         TypeChecks(op, values), Checks(r, OutputType(op)), w # Rejected
  PROVE  OperandOK([value |-> r, unc |-> w], n)
<1> DEFINE a == x.claim.value
           b == y.claim.value
           u == x.claim.unc
           v == y.claim.unc
<1>1. /\ values[1] = a /\ values[2] = b /\ DOMAIN values = {1, 2}
      /\ w = IF ConjoinsInputs(op) THEN Combine(u, v) ELSE Exact
  BY DEF ConjoinedUncertainty
<1>2. PICK c : c = [value |-> r, unc |-> w]
  OBVIOUS
<1>3. c.value = r /\ c.unc = w /\ c = [value |-> r, unc |-> w]
  BY <1>2
<1>4. /\ n.doubts = x.ideal.doubts \cup y.ideal.doubts
      /\ n.dimension = IF ConjoinsInputs(op)
                       THEN ExactDimension(op, x.ideal.dimension, y.ideal.dimension)
                       ELSE [e \in Bases |-> 0]
  BY DEF IdealDerive
<1>5. /\ n.doubts # {} /\ IdealForm(n)
      /\ KindsOf(n) = KindsOf(x.ideal) \cup KindsOf(y.ideal)
  <2>1. IdealForm(n)
    BY DEF IdealDerive, IdealForm
  <2>2. QED BY <1>4, <2>1 DEF KindsOf, OperandOK
<1>6. \A k \in {1, 2} : Checks(values[k], InputTypes(op)[k])
  BY <1>1 DEF TypeChecks
<1>7. /\ Stateable(u) /\ Stateable(v)
      /\ KindsOf(x.ideal) # {} /\ KindsOf(y.ideal) # {}
  BY DEF OperandOK, KindsOf
<1>8. ASSUME ConjoinsInputs(op), {a.type, b.type} \subseteq {"num", "quantity"}
      PROVE  Stateable(w) /\ KindsKept(w.kind, KindsOf(n))
  <2>1. KindsKept(u.kind, KindsOf(x.ideal)) /\ KindsKept(v.kind, KindsOf(y.ideal))
    BY <1>8 DEF OperandOK
  <2>2. w = Combine(u, v)
    BY <1>1, <1>8
  <2> HIDE DEF u, v
  <2>3. Stateable(w)
    BY <1>7, <2>2, CombinedKind
  <2>4. KindsKept(w.kind, KindsOf(x.ideal) \cup KindsOf(y.ideal))
    BY <1>7, <2>1, <2>2, KeptTogether
  <2>5. QED BY <1>5, <2>3, <2>4
<1>9. CASE op \in NumOps
  <2>1. InputTypes(op) = <<"rational", "rational">> /\ OutputType(op) = "rational"
        /\ ConjoinsInputs(op)
    BY <1>9 DEF InputTypes, OutputType, ConjoinsInputs
  <2>2. a.type = "num" /\ b.type = "num" /\ r.type = "num"
    BY <1>1, <1>6, <2>1 DEF Checks
  <2>3. r = ExecNum(op, a, b).value
    <3>1. op \notin QuantityOps /\ op \notin ComparisonOps /\ op # "interval" /\ op # "not"
      BY <1>9 DEF NumOps, QuantityOps, ComparisonOps
    <3>2. Exec(op, values) = ExecNum(op, values[1], values[2])
      BY <1>9, <3>1 DEF Exec
    <3>3. QED BY <1>1, <3>2
  <2>4. r = NumValue(r.num)
    <3>1. \E num : r \in {NoValue, NumValue(num)}
      BY <2>3 DEF ExecNum, Result
    <3>2. NoValue.type # "num"
      BY DEF NoValue
    <3>3. \A num : NumValue(num).num = num
      BY DEF NumValue
    <3>4. QED BY <2>2, <3>1, <3>2, <3>3
  <2>5. Stateable(w) /\ KindsKept(w.kind, KindsOf(n))
    BY <1>8, <2>1, <2>2
  <2>6. QED BY <1>2, <1>3, <1>5, <2>2, <2>4, <2>5 DEF OperandOK
<1>10. CASE op \in QuantityOps
  <2>1. InputTypes(op) = <<"quantity", "quantity">> /\ OutputType(op) = "quantity"
        /\ ConjoinsInputs(op)
    BY <1>10 DEF InputTypes, OutputType, ConjoinsInputs, NumOps, QuantityOps
  <2>2. a.type = "quantity" /\ b.type = "quantity" /\ r.type = "quantity"
    BY <1>1, <1>6, <2>1 DEF Checks
  <2>3. r = ExecQuantity(op, a, b).value
    <3>1. op \notin NumOps /\ op \notin ComparisonOps /\ op # "interval" /\ op # "not"
      BY <1>10 DEF NumOps, QuantityOps, ComparisonOps
    <3>2. Exec(op, values) = ExecQuantity(op, values[1], values[2])
      BY <1>10, <3>1 DEF Exec
    <3>3. QED BY <1>1, <3>2
  <2>4. /\ IsUnit(a.unit) /\ IsUnit(b.unit)
        /\ Dimension(a) = x.ideal.dimension /\ Dimension(b) = y.ideal.dimension
    BY <2>2 DEF OperandOK
  <2>5. PICK num, unit :
               /\ r = Quantity(num, unit) /\ IsUnit(unit)
               /\ \A e : Exponent(unit, e) =
                           CASE op = "qmul" -> Exponent(a.unit, e) + Exponent(b.unit, e)
                             [] op = "qdiv" -> Exponent(a.unit, e) - Exponent(b.unit, e)
                             [] OTHER -> Exponent(a.unit, e)
    <3> HIDE DEF a, b
    <3>1. QED BY <1>10, <2>2, <2>3, <2>4, QuantityResult
  <2>6. r = Quantity(r.num, r.unit) /\ r.unit = unit
    BY <2>5 DEF Quantity
  <2>7. Dimension(r) = n.dimension
    <3>1. n.dimension = ExactDimension(op, Dimension(a), Dimension(b))
      BY <1>4, <2>1, <2>4
    <3> HIDE DEF a, b
    <3>2. /\ Dimension(a) = [e \in Bases |-> Exponent(a.unit, e)]
          /\ Dimension(b) = [e \in Bases |-> Exponent(b.unit, e)]
          /\ Dimension(r) = [e \in Bases |-> Exponent(unit, e)]
      BY <2>2, <2>6 DEF Dimension
    <3>3. CASE op = "qmul"
      BY <2>5, <3>1, <3>2, <3>3 DEF ExactDimension
    <3>4. CASE op = "qdiv"
      BY <2>5, <3>1, <3>2, <3>4 DEF ExactDimension
    <3>5. CASE op # "qmul" /\ op # "qdiv"
      BY <2>5, <3>1, <3>2, <3>5 DEF ExactDimension
    <3>6. QED BY <3>3, <3>4, <3>5
  <2>8. Stateable(w) /\ KindsKept(w.kind, KindsOf(n))
    BY <1>8, <2>1, <2>2
  <2>9. QED BY <1>2, <1>3, <1>5, <2>2, <2>5, <2>6, <2>7, <2>8 DEF OperandOK
<1>11. CASE op \notin NumOps \cup QuantityOps
  <2>1. w = Exact /\ OutputType(op) \in {"bool", "interval"}
    BY <1>1, <1>11 DEF ConjoinsInputs, OutputType
  <2>2. r.type \in {"bool", "interval"}
    BY <2>1 DEF Checks
  <2>3. Stateable(w)
    BY <2>1 DEF Stateable
  <2>4. QED BY <1>2, <1>3, <1>5, <2>2, <2>3 DEF OperandOK
<1>12. QED BY <1>9, <1>10, <1>11

\* A call of derive commits such a claim or leaves the one before.
LEMMA DeriveOK ==
  ASSUME NEW op \in Binary, NEW x, NEW y,
         OperandOK(x.claim, x.ideal), OperandOK(y.claim, y.ideal),
         ChainInv, Derive(op, x, y)
  PROVE  ChainInv'
<1>1. PICK values : values = <<x.claim.value, y.claim.value>>
  OBVIOUS
<1>2. PICK r : r = Exec(op, values)
  OBVIOUS
<1>3. PICK w : w = ConjoinedUncertainty(op, <<x.claim.unc, y.claim.unc>>)
  OBVIOUS
<1>4. PICK n : n = IdealDerive(op, values, x.ideal, y.ideal)
  OBVIOUS
<1>5. PICK over : Calculated(op, values, w, over, n)
  BY <1>1, <1>3, <1>4 DEF Derive
<1>6. \/ UNCHANGED <<claim, ideal>>
      \/ /\ TypeChecks(op, values) /\ Checks(r.value, OutputType(op)) /\ w # Rejected
         /\ claim' = [value |-> r.value, unc |-> w] /\ ideal' = n
  BY <1>2, <1>5 DEF Calculated, Conclude, Commit, Refuse, Stop
<1>7. CASE UNCHANGED <<claim, ideal>>
  BY <1>7 DEF ChainInv
<1>8. CASE /\ TypeChecks(op, values) /\ Checks(r.value, OutputType(op)) /\ w # Rejected
           /\ claim' = [value |-> r.value, unc |-> w] /\ ideal' = n
  <2>1. PICK value : value = r.value
    OBVIOUS
  <2>2. OperandOK([value |-> value, unc |-> w], n)
    BY <1>1, <1>2, <1>3, <1>4, <1>8, <2>1, AcceptedOK
  <2>3. QED BY <1>8, <2>1, <2>2 DEF ChainInv
<1>9. QED BY <1>6, <1>7, <1>8

\* So does the negation of a truth value.
LEMMA DeriveNotOK ==
  ASSUME ChainInv, DeriveNot
  PROVE  ChainInv'
<1>1. PICK r : r = Exec("not", <<claim.value>>)
  OBVIOUS
<1>2. PICK n : /\ n = [ideal EXCEPT !.known = ideal.roomy,
                                    !.meaning = IF ideal.roomy THEN ~@ ELSE Lost]
               /\ Calculated("not", <<claim.value>>, Exact, FALSE, n)
  BY DEF DeriveNot
<1>3. n.doubts = ideal.doubts /\ IdealForm(n)
  BY <1>2 DEF ChainInv, OperandOK, IdealForm
<1>4. \/ UNCHANGED <<claim, ideal>>
      \/ /\ Checks(r.value, OutputType("not"))
         /\ claim' = [value |-> r.value, unc |-> Exact] /\ ideal' = n
  BY <1>1, <1>2 DEF Calculated, Conclude, Commit, Refuse, Stop
<1>5. CASE UNCHANGED <<claim, ideal>>
  BY <1>5 DEF ChainInv
<1>6. CASE /\ Checks(r.value, OutputType("not"))
           /\ claim' = [value |-> r.value, unc |-> Exact] /\ ideal' = n
  <2>1. OutputType("not") = "bool"
    BY DEF OutputType, NumOps, QuantityOps
  <2>2. r.value.type = "bool"
    BY <1>6, <2>1 DEF Checks
  <2>3. Stateable(Exact)
    BY DEF Stateable
  <2>4. n.doubts # {} /\ IdealForm(n)
    BY <1>3 DEF ChainInv, OperandOK
  <2>5. PICK c : c = [value |-> r.value, unc |-> Exact]
    OBVIOUS
  <2>6. c.value = r.value /\ c.unc = Exact /\ c = [value |-> c.value, unc |-> c.unc]
    BY <2>5
  <2>7. OperandOK(c, n)
    BY <2>2, <2>3, <2>4, <2>6 DEF OperandOK
  <2>8. QED BY <1>6, <2>5, <2>7 DEF ChainInv
<1>7. QED BY <1>4, <1>5, <1>6

\* A receipt log changes the number of a value at most.
LEMMA StoreOK ==
  ASSUME ChainInv, Store
  PROVE  ChainInv'
<1>1. PICK num : claim' = [claim EXCEPT !.value.num = num]
  BY DEF Store
<1>2. claim.value.type \in {"num", "quantity"} /\ ideal' = ideal
  BY DEF Store
<1>3. claim = [value |-> claim.value, unc |-> claim.unc]
  BY DEF ChainInv, OperandOK
<1>4. PICK old : old = claim.value
  OBVIOUS
<1>5. claim' = [value |-> [old EXCEPT !.num = num], unc |-> claim.unc]
  BY <1>1, <1>3, <1>4
<1>6. CASE old.type = "num"
  <2>1. old = NumValue(old.num)
    BY <1>4, <1>6 DEF ChainInv, OperandOK
  <2>2. [old EXCEPT !.num = num] = NumValue(num)
    BY <2>1 DEF NumValue
  <2>3. claim' = [value |-> NumValue(num), unc |-> claim.unc]
    BY <1>5, <2>2
  <2>4. NumValue(num).type = "num" /\ NumValue(num).num = num
    BY DEF NumValue
  <2>5. claim'.value = NumValue(num) /\ claim'.unc = claim.unc
    BY <2>3
  <2>6. QED BY <1>2, <1>4, <1>6, <2>3, <2>4, <2>5 DEF ChainInv, OperandOK
<1>7. CASE old.type = "quantity"
  <2> DEFINE new == Quantity(num, old.unit)
  <2>1. old = Quantity(old.num, old.unit) /\ IsUnit(old.unit) /\ Dimension(old) = ideal.dimension
    BY <1>4, <1>7 DEF ChainInv, OperandOK
  <2>2. [old EXCEPT !.num = num] = new
    BY <2>1 DEF Quantity
  <2>3. claim' = [value |-> new, unc |-> claim.unc]
    BY <1>5, <2>2
  <2>4. new.type = "quantity" /\ new.num = num /\ new.unit = old.unit
    BY DEF Quantity
  <2>5. claim'.value = new /\ claim'.unc = claim.unc
    BY <2>3
  <2>6. Dimension(new) = ideal.dimension
    BY <1>7, <2>1, <2>4 DEF Dimension
  <2> HIDE DEF new
  <2>7. new = Quantity(new.num, new.unit)
    BY <2>4 DEF new
  <2>8. QED BY <1>2, <1>4, <1>7, <2>1, <2>3, <2>4, <2>5, <2>6, <2>7 DEF ChainInv, OperandOK
<1>8. QED BY <1>2, <1>4, <1>6, <1>7

-----------------------------------------------------------------------------
(* The theorems. *)

\* The last claim of a chain has its form, its ideal's unit and its premises'
\* doubts, in every behaviour.
THEOREM ChainInvariant == ChainSpec => []ChainInv
<1>1. ChainInit => ChainInv
  <2> SUFFICES ASSUME ChainInit PROVE ChainInv
    OBVIOUS
  <2>1. PICK o \in Operands : claim = o.claim /\ ideal = o.ideal
    BY DEF ChainInit
  <2>2. QED BY <2>1, PremiseOK DEF ChainInv
<1>2. ChainInv /\ [ChainNext]_chainVars => ChainInv'
  <2> SUFFICES ASSUME ChainInv, [ChainNext]_chainVars PROVE ChainInv'
    OBVIOUS
  <2>1. CASE UNCHANGED chainVars
    BY <2>1 DEF chainVars, ChainInv
  <2>2. CASE DeriveBinary
    <3>1. PICK op \in Binary, o \in Operands \cup {Last} :
                 \E sides \in {<<Last, o>>, <<o, Last>>} : Derive(op, sides[1], sides[2])
      BY <2>2 DEF DeriveBinary
    <3>2. Last.claim = claim /\ Last.ideal = ideal
      BY DEF Last
    <3>3. OperandOK(o.claim, o.ideal) /\ OperandOK(Last.claim, Last.ideal)
      BY <3>2, PremiseOK DEF ChainInv
    <3>4. Derive(op, Last, o) \/ Derive(op, o, Last)
      BY <3>1
    <3>5. PICK l : l = Last
      OBVIOUS
    <3>6. QED BY <3>3, <3>4, <3>5, DeriveOK
  <2>3. QED BY <2>1, <2>2, DeriveNotOK, StoreOK DEF ChainNext
<1>3. QED BY <1>1, <1>2, PTL DEF ChainSpec

\* The unit of any quantity a program computes is the product of powers that
\* dimensional analysis gives, and carries no zero exponent: two derivations of
\* one dimension can always be added.
THEOREM UnitsTheorem == ChainSpec => []UnitsAreDimensions
<1>1. ChainInv => UnitsAreDimensions
  BY DEF ChainInv, OperandOK, UnitsAreDimensions, IsUnit
<1>2. QED BY <1>1, ChainInvariant, PTL

\* The strongest doubt of the premises prevails along whatever chain and in
\* whatever order combine meets them, and an external assertion only where
\* every other premise is exact: where one is combined with a weight, a
\* probability, an interval or an extension it is gone, whatever uncertainty.rs:78
\* says.
THEOREM DoubtTheorem == ChainSpec => []StrongestDoubt
<1>1. ChainInv => StrongestDoubt
  BY DEF ChainInv, OperandOK, StrongestDoubt, KindsKept, KindsOf
<1>2. QED BY <1>1, ChainInvariant, PTL

-----------------------------------------------------------------------------
(* The numbers of a chain. *)

\* The numbers that an accepted derivation commits are of the width, and an
\* interval has the bounds that its comparison found in order.
LEMMA AcceptedNumbers ==
  ASSUME NEW op \in Binary, NEW values, TypeChecks(op, values), Len(values) = 2,
         DOMAIN values = {1, 2},
         NumsOf(values[1]) \subseteq Num, NumsOf(values[2]) \subseteq Num,
         NEW r, r = Exec(op, values), Checks(r.value, OutputType(op)), Ends(r)
  PROVE  /\ NumsOf(r.value) \subseteq Num
         /\ r.value.type = "interval" => ~Less(r.value.hi, r.value.lo)
<1>1. PICK a, b : a = values[1] /\ b = values[2]
  OBVIOUS
<1>2. /\ Checks(a, InputTypes(op)[1]) /\ Checks(b, InputTypes(op)[2])
      /\ NumsOf(a) \subseteq Num /\ NumsOf(b) \subseteq Num
  BY <1>1 DEF TypeChecks
<1>3. a.type \in {"num", "quantity"} => a.num \in Num
  BY <1>2 DEF NumsOf
<1>4. b.type \in {"num", "quantity"} => b.num \in Num
  BY <1>2 DEF NumsOf
<1>5. NoValue.type = "none" /\ Endless \notin Num
  BY DEF NoValue, Endless, Num
<1>6. CASE op \in NumOps \cup QuantityOps
  <2>1. a.type \in {"num", "quantity"} /\ b.type \in {"num", "quantity"}
    BY <1>2, <1>6 DEF InputTypes, Checks, NumOps, QuantityOps
  <2>2. r.value.type \in {"num", "quantity"}
    BY <1>6 DEF OutputType, Checks
  <2>3. PICK m : m = Arithmetic(op, a.num, b.num)
    OBVIOUS
  <2>4. m.num \in Answers
    BY <1>3, <1>4, <1>6, <2>1, <2>3, ArithmeticFits
  <2>5. r.value # NoValue => m.num # Error /\ r.value.num = m.num
    <3>1. CASE op \in NumOps
      <4>1. op \notin QuantityOps /\ op \notin ComparisonOps /\ op # "interval" /\ op # "not"
        BY <3>1 DEF NumOps, QuantityOps, ComparisonOps
      <4>2. r = ExecNum(op, a, b)
        BY <1>1, <3>1, <4>1 DEF Exec
      <4>3. r.value = IF m.num = Error THEN NoValue ELSE NumValue(m.num)
        BY <2>3, <4>2 DEF ExecNum, Result
      <4>4. NumValue(m.num).num = m.num
        BY DEF NumValue
      <4>5. QED BY <4>3, <4>4
    <3>2. CASE op \in QuantityOps
      <4>1. op \notin NumOps /\ op \notin ComparisonOps /\ op # "interval" /\ op # "not"
        BY <3>2 DEF NumOps, QuantityOps, ComparisonOps
      <4>2. r = ExecQuantity(op, a, b)
        BY <1>1, <3>2, <4>1 DEF Exec
      <4>3. \E unit : r.value \in {NoValue, IF m.num = Error THEN NoValue
                                            ELSE Quantity(m.num, unit)}
        BY <2>3, <4>2 DEF ExecQuantity, Result
      <4>4. \A unit : Quantity(m.num, unit).num = m.num
        BY DEF Quantity
      <4>5. QED BY <4>3, <4>4
    <3>3. QED BY <1>6, <3>1, <3>2
  <2>6. r.value # NoValue
    BY <1>5, <2>2
  <2>7. r.value.num # Endless
    BY <2>2 DEF Ends
  <2>8. r.value.num \in Num
    BY <2>4, <2>5, <2>6, <2>7 DEF Answers
  <2>9. NumsOf(r.value) = {r.value.num} /\ r.value.type # "interval"
    BY <2>2 DEF NumsOf
  <2>10. QED BY <2>8, <2>9
<1>7. CASE op = "interval"
  <2>1. a.type = "num" /\ b.type = "num" /\ r.value.type = "interval"
    BY <1>2, <1>7 DEF InputTypes, OutputType, Checks, NumOps, QuantityOps
  <2>2. a.num \in Num /\ b.num \in Num
    BY <1>3, <1>4, <2>1
  <2>3. r = MakeInterval(a, b)
    BY <1>1, <1>7 DEF Exec, NumOps, QuantityOps, ComparisonOps
  <2>4. r.value = IF Cmp(a.num, b.num).ord = 1 THEN NoValue ELSE Interval(a.num, b.num)
    BY <2>3 DEF MakeInterval, Result
  <2>5. Cmp(a.num, b.num).ord # 1 /\ r.value = Interval(a.num, b.num)
    BY <1>5, <2>1, <2>4
  <2>6. r.value.lo = a.num /\ r.value.hi = b.num
    BY <2>5 DEF Interval
  <2>7. NumsOf(r.value) = {a.num, b.num}
    BY <2>1, <2>6 DEF NumsOf
  <2>8. ~Less(b.num, a.num)
    BY <2>2, <2>5, CmpOpposite
  <2>9. QED BY <2>2, <2>6, <2>7, <2>8
<1>8. CASE op \notin NumOps \cup QuantityOps /\ op # "interval"
  <2>1. OutputType(op) = "bool"
    BY <1>8 DEF OutputType
  <2>2. r.value.type = "bool"
    BY <2>1 DEF Checks
  <2>3. QED BY <2>2 DEF NumsOf
<1>9. QED BY <1>6, <1>7, <1>8

\* A call of derive keeps the numbers in the width.
LEMMA DeriveNumbers ==
  ASSUME NEW op \in Binary, NEW x, NEW y,
         NumsOf(x.claim.value) \subseteq Num, NumsOf(y.claim.value) \subseteq Num,
         ChainTypeOK, derives < MaxDerives, Derive(op, x, y)
  PROVE  ChainTypeOK'
<1>1. PICK values : values = <<x.claim.value, y.claim.value>>
  OBVIOUS
<1>2. PICK r : r = Exec(op, values)
  OBVIOUS
<1>3. PICK w : w = ConjoinedUncertainty(op, <<x.claim.unc, y.claim.unc>>)
  OBVIOUS
<1>4. PICK n : n = IdealDerive(op, values, x.ideal, y.ideal)
  OBVIOUS
<1>5. PICK over : Calculated(op, values, w, over, n)
  BY <1>1, <1>3, <1>4 DEF Derive
<1>6. \/ UNCHANGED <<claim, derives>> /\ outcome' \in {"refused", "stopped"}
      \/ /\ TypeChecks(op, values) /\ Ends(r) /\ Checks(r.value, OutputType(op))
         /\ w # Rejected /\ claim' = [value |-> r.value, unc |-> w]
         /\ outcome' = "ok" /\ derives' = derives + 1
  BY <1>2, <1>5 DEF Calculated, Conclude, Commit, Refuse, Stop
<1>7. CASE UNCHANGED <<claim, derives>> /\ outcome' \in {"refused", "stopped"}
  BY <1>7 DEF ChainTypeOK
<1>8. CASE /\ TypeChecks(op, values) /\ Ends(r) /\ Checks(r.value, OutputType(op))
           /\ w # Rejected /\ claim' = [value |-> r.value, unc |-> w]
           /\ outcome' = "ok" /\ derives' = derives + 1
  <2>1. values[1] = x.claim.value /\ values[2] = y.claim.value
        /\ Len(values) = 2 /\ DOMAIN values = {1, 2}
    BY <1>1
  <2>2. /\ NumsOf(r.value) \subseteq Num
        /\ r.value.type = "interval" => ~Less(r.value.hi, r.value.lo)
    BY <1>2, <1>8, <2>1, AcceptedNumbers
  <2>3. claim'.value = r.value /\ claim'.unc = w
    BY <1>8
  <2>4. derives' \in 0..MaxDerives
    BY <1>8, PremisesAssumption DEF ChainTypeOK
  <2>5. QED BY <1>8, <2>2, <2>3, <2>4 DEF ChainTypeOK
<1>9. QED BY <1>6, <1>7, <1>8

\* A truth value has no numbers.
LEMMA DeriveNotNumbers ==
  ASSUME ChainTypeOK, derives < MaxDerives, DeriveNot
  PROVE  ChainTypeOK'
<1>1. PICK r : r = Exec("not", <<claim.value>>)
  OBVIOUS
<1>2. \/ UNCHANGED <<claim, derives>> /\ outcome' \in {"refused", "stopped"}
      \/ /\ Checks(r.value, OutputType("not"))
         /\ claim' = [value |-> r.value, unc |-> Exact]
         /\ outcome' = "ok" /\ derives' = derives + 1
  BY <1>1 DEF DeriveNot, Calculated, Conclude, Commit, Refuse, Stop
<1>3. CASE UNCHANGED <<claim, derives>> /\ outcome' \in {"refused", "stopped"}
  BY <1>3 DEF ChainTypeOK
<1>4. CASE /\ Checks(r.value, OutputType("not"))
           /\ claim' = [value |-> r.value, unc |-> Exact]
           /\ outcome' = "ok" /\ derives' = derives + 1
  <2>1. OutputType("not") = "bool"
    BY DEF OutputType, NumOps, QuantityOps
  <2>2. r.value.type = "bool"
    BY <1>4, <2>1 DEF Checks
  <2>3. NumsOf(r.value) = {} /\ Exact # Rejected
    BY <2>2 DEF NumsOf, Exact, Rejected
  <2>4. claim'.value = r.value /\ claim'.unc = Exact
    BY <1>4
  <2>5. derives' \in 0..MaxDerives
    BY <1>4, PremisesAssumption DEF ChainTypeOK
  <2>6. QED BY <1>4, <2>2, <2>3, <2>4, <2>5 DEF ChainTypeOK
<1>5. QED BY <1>2, <1>3, <1>4

\* A receipt log gives a number of the width back.
LEMMA StoreNumbers ==
  ASSUME ChainInv, ChainTypeOK, Store
  PROVE  ChainTypeOK'
<1>1. claim = [value |-> claim.value, unc |-> claim.unc]
  BY DEF ChainInv, OperandOK
<1>2. PICK old : old = claim.value
  OBVIOUS
<1>3. /\ old.type \in {"num", "quantity"} /\ outcome' = "ok" /\ derives' = derives
      /\ claim' = [claim EXCEPT !.value.num = Reload(@)]
  BY <1>2 DEF Store
<1>4. PICK num \in Num : num = Reload(old.num)
  BY <1>2, <1>3, ReloadFits DEF ChainTypeOK, NumsOf
<1>5. claim' = [value |-> [old EXCEPT !.num = num], unc |-> claim.unc]
  BY <1>1, <1>2, <1>3, <1>4
<1>6. old = NumValue(old.num) \/ old = Quantity(old.num, old.unit)
  BY <1>2, <1>3 DEF ChainInv, OperandOK
<1>7. PICK new : new = [old EXCEPT !.num = num]
  OBVIOUS
<1>8. new.type = old.type /\ new.num = num
  BY <1>6, <1>7 DEF NumValue, Quantity
<1>9. NumsOf(new) = {num} /\ new.type # "interval"
  BY <1>3, <1>8 DEF NumsOf
<1>10. claim'.value = new /\ claim'.unc = claim.unc
  BY <1>5, <1>7
<1>11. QED BY <1>3, <1>4, <1>9, <1>10 DEF ChainTypeOK

\* Every number of a chain is of the width, and no derived interval is upside
\* down: the unchecked steps of num.rs reach no number out of its range,
\* whatever the width, the premises and the length of the chain.
THEOREM ChainTypeTheorem == ChainSpec => []ChainTypeOK
<1>1. \A o \in Operands : NumsOf(o.claim.value) \subseteq Num /\ o.claim.unc # Rejected
  <2>1. SUFFICES ASSUME NEW o \in Operands
                 PROVE  NumsOf(o.claim.value) \subseteq Num /\ o.claim.unc # Rejected
    OBVIOUS
  <2>2. PICK p \in Premises : o = [claim |-> Claim(p), ideal |-> Ideal(p)]
    BY DEF Operands
  <2>3. o.claim.value = p.value /\ o.claim.unc = p.unc
    BY <2>2 DEF Claim
  <2>4. p.unc # Rejected
    BY PremisesAssumption DEF Stateable, Exact, Unknown, Conflicting, Rejected
  <2>5. QED BY <2>3, <2>4, PremisesAssumption
<1>2. ChainInit => ChainTypeOK
  BY <1>1, PremisesAssumption DEF ChainInit, ChainTypeOK
<1>3. ChainInv /\ ChainTypeOK /\ [ChainNext]_chainVars => ChainTypeOK'
  <2> SUFFICES ASSUME ChainInv, ChainTypeOK, [ChainNext]_chainVars PROVE ChainTypeOK'
    OBVIOUS
  <2>1. CASE UNCHANGED chainVars
    BY <2>1 DEF chainVars, ChainTypeOK
  <2>2. CASE derives < MaxDerives /\ DeriveBinary
    <3>1. PICK op \in Binary, o \in Operands \cup {Last} :
                 \E sides \in {<<Last, o>>, <<o, Last>>} : Derive(op, sides[1], sides[2])
      BY <2>2 DEF DeriveBinary
    <3>2. NumsOf(Last.claim.value) \subseteq Num
      BY DEF Last, ChainTypeOK
    <3>3. NumsOf(o.claim.value) \subseteq Num
      BY <1>1, <3>2
    <3>4. Derive(op, Last, o) \/ Derive(op, o, Last)
      BY <3>1
    <3>5. PICK l : l = Last
      OBVIOUS
    <3>6. QED BY <2>2, <3>2, <3>3, <3>4, <3>5, DeriveNumbers
  <2>3. QED BY <2>1, <2>2, DeriveNotNumbers, StoreNumbers DEF ChainNext
<1>4. QED BY <1>2, <1>3, ChainInvariant, PTL DEF ChainSpec

-----------------------------------------------------------------------------
(* Exactness. *)

\* The numbers of a value with its meaning: what exact arithmetic gives, where
\* its derivation left room.
Meant(value, i) == i.roomy => Meaning(value) = i.meaning

\* What a premise means is its own value.
LEMMA PremiseMeant ==
  ASSUME NEW o \in Operands
  PROVE  Meant(o.claim.value, o.ideal) /\ NumsOf(o.claim.value) \subseteq Num
<1>1. PICK p \in Premises : o = [claim |-> Claim(p), ideal |-> Ideal(p)]
  BY DEF Operands
<1>2. o.claim.value = p.value /\ o.ideal.meaning = Meaning(p.value)
  BY <1>1 DEF Claim, Ideal
<1>3. QED BY <1>2, PremisesAssumption DEF Meant

\* A result that is accepted means what exact arithmetic gives for the meanings
\* of the operands, where the operation leaves room.
LEMMA AcceptedMeant ==
  ASSUME NEW op \in Binary, NEW values, TypeChecks(op, values), Len(values) = 2,
         DOMAIN values = {1, 2},
         NumsOf(values[1]) \subseteq Num, NumsOf(values[2]) \subseteq Num,
         NEW r, r = Exec(op, values), Checks(r.value, OutputType(op)), Ends(r),
         Roomy(op, values)
  PROVE  Meaning(r.value) = ExactMeaning(op, <<Meaning(values[1]), Meaning(values[2])>>)
<1>1. PICK a, b : a = values[1] /\ b = values[2]
  OBVIOUS
<1>2. /\ Checks(a, InputTypes(op)[1]) /\ Checks(b, InputTypes(op)[2])
      /\ NumsOf(a) \subseteq Num /\ NumsOf(b) \subseteq Num
  BY <1>1 DEF TypeChecks
<1>3. a.type \in {"num", "quantity"} /\ b.type \in {"num", "quantity"}
  BY <1>2 DEF Binary, Ops, InputTypes, Checks, NumOps, QuantityOps, ComparisonOps
<1>4. PICK x \in Num, y \in Num : x = a.num /\ y = b.num
  BY <1>2, <1>3 DEF NumsOf
<1>5. Meaning(a) = Exactly(x) /\ Meaning(b) = Exactly(y)
  BY <1>3, <1>4 DEF Meaning
<1>6. /\ Fits(ToRational(x).d * ToRational(y).d) /\ ~r.over
      /\ op \in {"sub", "qsub"} => y.n # MinInt
  BY <1>1, <1>4 DEF Roomy, Binary
<1>7. PICK m : m = <<Meaning(values[1]), Meaning(values[2])>>
  OBVIOUS
<1>8. m[1] = Exactly(x) /\ m[2] = Exactly(y) /\ m = <<Exactly(x), Exactly(y)>>
  BY <1>1, <1>5, <1>7
<1>9. NoValue.type = "none"
  BY DEF NoValue
<1>10. CASE op \in NumOps \cup QuantityOps
  <2>1. PICK c : c = Arithmetic(op, x, y)
    OBVIOUS
  <2>2. r.value.type \in {"num", "quantity"}
    BY <1>10 DEF OutputType, Checks
  <2>3. r.value # NoValue => c.num # Error /\ r.value.num = c.num
    <3>1. CASE op \in NumOps
      <4>1. op \notin QuantityOps /\ op \notin ComparisonOps /\ op # "interval" /\ op # "not"
        BY <3>1 DEF NumOps, QuantityOps, ComparisonOps
      <4>2. r = ExecNum(op, a, b)
        BY <1>1, <3>1, <4>1 DEF Exec
      <4>3. r.value = IF c.num = Error THEN NoValue ELSE NumValue(c.num)
        BY <1>4, <2>1, <4>2 DEF ExecNum, Result
      <4>4. NumValue(c.num).num = c.num
        BY DEF NumValue
      <4>5. QED BY <4>3, <4>4
    <3>2. CASE op \in QuantityOps
      <4>1. op \notin NumOps /\ op \notin ComparisonOps /\ op # "interval" /\ op # "not"
        BY <3>2 DEF NumOps, QuantityOps, ComparisonOps
      <4>2. r = ExecQuantity(op, a, b)
        BY <1>1, <3>2, <4>1 DEF Exec
      <4>3. \E unit : r.value \in {NoValue, IF c.num = Error THEN NoValue
                                            ELSE Quantity(c.num, unit)}
        BY <1>4, <2>1, <4>2 DEF ExecQuantity, Result
      <4>4. \A unit : Quantity(c.num, unit).num = c.num
        BY DEF Quantity
      <4>5. QED BY <4>3, <4>4
    <3>3. QED BY <1>10, <3>1, <3>2
  <2>4. c.num \notin {Error, Endless} /\ r.value.num = c.num
    BY <1>9, <2>2, <2>3 DEF Ends
  <2>5. ~c.over
    <3>1. CASE op \in NumOps
      <4>1. op \notin QuantityOps /\ op \notin ComparisonOps /\ op # "interval" /\ op # "not"
        BY <3>1 DEF NumOps, QuantityOps, ComparisonOps
      <4>2. r = ExecNum(op, a, b)
        BY <1>1, <3>1, <4>1 DEF Exec
      <4>3. r.over = c.over
        BY <1>4, <2>1, <4>2 DEF ExecNum, Result
      <4>4. QED BY <1>6, <4>3
    <3>2. CASE op \in QuantityOps
      <4>1. op \notin NumOps /\ op \notin ComparisonOps /\ op # "interval" /\ op # "not"
        BY <3>2 DEF NumOps, QuantityOps, ComparisonOps
      <4>2. r = ExecQuantity(op, a, b)
        BY <1>1, <3>2, <4>1 DEF Exec
      <4>3. r.value # NoValue
        BY <1>9, <2>2
      <4>4. PICK d : d = (op \in {"qadd", "qsub"} /\ ~SameDimension(a.unit, b.unit))
        OBVIOUS
      <4>5. d => r = Result(NoValue, FALSE)
        BY <4>2, <4>4 DEF ExecQuantity
      <4>6. ~d
        BY <4>3, <4>5 DEF Result
      <4>7. PICK value : r = Result(value, c.over)
        BY <1>4, <2>1, <4>2, <4>4, <4>6 DEF ExecQuantity
      <4>8. r.over = c.over
        BY <4>7 DEF Result
      <4>9. QED BY <1>6, <4>8
    <3>3. QED BY <1>10, <3>1, <3>2
  <2>6. Meaning(r.value) = Exactly(c.num)
    BY <2>2, <2>4 DEF Meaning
  <2>7. ExactMeaning(op, m) = ExactArithmetic(op, Exactly(x), Exactly(y))
    BY <1>8, <1>10 DEF ExactMeaning, NumOps, QuantityOps, ComparisonOps
  <2>8. Exactly(c.num) = ExactArithmetic(op, Exactly(x), Exactly(y))
    <3>1. CASE op \in {"add", "qadd"}
      <4>1. c = Add(x, y)
        BY <2>1, <3>1 DEF Arithmetic
      <4>2. Exactly(c.num) = ExactArithmetic("add", Exactly(x), Exactly(y))
        BY <1>6, <2>4, <2>5, <4>1, AddExact DEF AnswersExactly
      <4>3. QED BY <3>1, <4>2 DEF ExactArithmetic
    <3>2. CASE op \in {"sub", "qsub"}
      <4>1. c = Sub(x, y)
        BY <2>1, <3>2 DEF Arithmetic
      <4>2. Exactly(c.num) = ExactArithmetic("sub", Exactly(x), Exactly(y))
        BY <1>6, <2>4, <2>5, <3>2, <4>1, SubExact DEF AnswersExactly
      <4>3. QED BY <3>2, <4>2 DEF ExactArithmetic
    <3>3. CASE op \in {"mul", "qmul"}
      <4>1. c = Mul(x, y)
        BY <2>1, <3>3 DEF Arithmetic
      <4>2. Exactly(c.num) = ExactArithmetic("mul", Exactly(x), Exactly(y))
        BY <2>4, <4>1, MulExact DEF AnswersExactly
      <4>3. QED BY <3>3, <4>2 DEF ExactArithmetic
    <3>4. CASE op \in {"div", "qdiv"}
      <4>1. c = Div(x, y)
        BY <2>1, <3>4 DEF Arithmetic
      <4>2. Exactly(c.num) = ExactArithmetic("div", Exactly(x), Exactly(y))
        BY <2>4, <2>5, <4>1, DivExact DEF AnswersExactly
      <4>3. QED BY <3>4, <4>2 DEF ExactArithmetic
    <3>5. QED BY <1>10, <3>1, <3>2, <3>3, <3>4 DEF NumOps, QuantityOps
  <2>9. QED BY <1>7, <2>6, <2>7, <2>8
<1>11. CASE op \in ComparisonOps
  <2>1. r = Compare(op, a, b)
    BY <1>1, <1>11 DEF Exec, NumOps, QuantityOps, ComparisonOps
  <2>2. PICK c : c = Cmp(x, y)
    OBVIOUS
  <2>3. r = Result(Truth(Ordered(op, c.ord)), c.over)
    BY <1>4, <2>1, <2>2 DEF Compare
  <2>4. r.over = c.over /\ r.value = Truth(Ordered(op, c.ord))
    BY <2>3 DEF Result
  <2>5. c.ord = ExactOrder(Exactly(x), Exactly(y))
    BY <1>6, <2>2, <2>4, CmpExact
  <2>6. Meaning(r.value) = Ordered(op, c.ord)
    BY <2>4 DEF Meaning, Truth
  <2>7. ExactMeaning(op, m) = Ordered(op, ExactOrder(Exactly(x), Exactly(y)))
    BY <1>8, <1>11 DEF ExactMeaning, NumOps, QuantityOps, ComparisonOps
  <2>8. QED BY <1>7, <2>5, <2>6, <2>7
<1>12. CASE op = "interval"
  <2>1. r = MakeInterval(a, b)
    BY <1>1, <1>12 DEF Exec, NumOps, QuantityOps, ComparisonOps
  <2>2. r.value = IF Cmp(x, y).ord = 1 THEN NoValue ELSE Interval(x, y)
    BY <1>4, <2>1 DEF MakeInterval, Result
  <2>3. r.value.type = "interval"
    BY <1>12 DEF OutputType, Checks, NumOps, QuantityOps
  <2>4. r.value = Interval(x, y)
    BY <1>9, <2>2, <2>3
  <2>5. Meaning(r.value) = <<Exactly(x), Exactly(y)>>
    BY <2>4 DEF Meaning, Interval
  <2>6. ExactMeaning(op, m) = m
    BY <1>12 DEF ExactMeaning, NumOps, QuantityOps, ComparisonOps
  <2>7. QED BY <1>7, <1>8, <2>5, <2>6
<1>13. QED BY <1>10, <1>11, <1>12 DEF Binary, Ops

\* A call of derive commits what is meant or leaves the claim before.
LEMMA DeriveMeant ==
  ASSUME NEW op \in Binary, NEW x, NEW y,
         NumsOf(x.claim.value) \subseteq Num, NumsOf(y.claim.value) \subseteq Num,
         Meant(x.claim.value, x.ideal), Meant(y.claim.value, y.ideal),
         ExactWhileRoomy, Derive(op, x, y)
  PROVE  ExactWhileRoomy'
<1>1. PICK values : values = <<x.claim.value, y.claim.value>>
  OBVIOUS
<1>2. PICK r : r = Exec(op, values)
  OBVIOUS
<1>3. PICK w : w = ConjoinedUncertainty(op, <<x.claim.unc, y.claim.unc>>)
  OBVIOUS
<1>4. PICK n : n = IdealDerive(op, values, x.ideal, y.ideal)
  OBVIOUS
<1>5. PICK over : Calculated(op, values, w, over, n)
  BY <1>1, <1>3, <1>4 DEF Derive
<1>6. \/ UNCHANGED <<claim, ideal>>
      \/ /\ TypeChecks(op, values) /\ Ends(r) /\ Checks(r.value, OutputType(op))
         /\ claim' = [value |-> r.value, unc |-> w] /\ ideal' = n
  BY <1>2, <1>5 DEF Calculated, Conclude, Commit, Refuse, Stop
<1>7. CASE UNCHANGED <<claim, ideal>>
  BY <1>7 DEF ExactWhileRoomy
<1>8. CASE /\ TypeChecks(op, values) /\ Ends(r) /\ Checks(r.value, OutputType(op))
           /\ claim' = [value |-> r.value, unc |-> w] /\ ideal' = n
  <2>1. values[1] = x.claim.value /\ values[2] = y.claim.value
        /\ Len(values) = 2 /\ DOMAIN values = {1, 2}
    BY <1>1
  <2>2. claim'.value = r.value /\ ideal' = n
    BY <1>8
  <2>3. ASSUME n.roomy PROVE Meaning(r.value) = n.meaning
    <3>1. x.ideal.roomy /\ y.ideal.roomy /\ Roomy(op, values)
      BY <1>4, <2>3 DEF IdealDerive
    <3>2. n.meaning = ExactMeaning(op, <<x.ideal.meaning, y.ideal.meaning>>)
      BY <1>4, <3>1 DEF IdealDerive
    <3>3. /\ x.ideal.meaning = Meaning(values[1])
          /\ y.ideal.meaning = Meaning(values[2])
      BY <2>1, <3>1 DEF Meant
    <3>4. Meaning(r.value) = ExactMeaning(op, <<Meaning(values[1]), Meaning(values[2])>>)
      BY <1>2, <1>8, <2>1, <3>1, AcceptedMeant
    <3>5. QED BY <3>2, <3>3, <3>4
  <2>4. QED BY <2>2, <2>3 DEF ExactWhileRoomy
<1>9. QED BY <1>6, <1>7, <1>8

\* So does the negation of a truth value.
LEMMA DeriveNotMeant ==
  ASSUME ChainInv, ExactWhileRoomy, DeriveNot
  PROVE  ExactWhileRoomy'
<1>1. PICK old, i : old = claim.value /\ i = ideal
  OBVIOUS
<1>2. PICK r : r = Exec("not", <<old>>)
  OBVIOUS
<1>3. PICK n : n = [i EXCEPT !.known = i.roomy, !.meaning = IF i.roomy THEN ~@ ELSE Lost]
  OBVIOUS
<1>4. Calculated("not", <<old>>, Exact, FALSE, n)
  BY <1>1, <1>3 DEF DeriveNot
<1>5. \/ UNCHANGED <<claim, ideal>>
      \/ /\ TypeChecks("not", <<old>>) /\ Checks(r.value, OutputType("not"))
         /\ claim' = [value |-> r.value, unc |-> Exact] /\ ideal' = n
  BY <1>2, <1>4 DEF Calculated, Conclude, Commit, Refuse, Stop
<1>6. CASE UNCHANGED <<claim, ideal>>
  BY <1>6 DEF ExactWhileRoomy
<1>7. CASE /\ TypeChecks("not", <<old>>) /\ Checks(r.value, OutputType("not"))
           /\ claim' = [value |-> r.value, unc |-> Exact] /\ ideal' = n
  <2>1. Checks(old, "bool")
    <3>1. InputTypes("not") = <<"bool">>
      BY DEF InputTypes, NumOps
    <3>2. DOMAIN <<old>> = {1}
      OBVIOUS
    <3>3. QED BY <1>7, <3>1, <3>2 DEF TypeChecks
  <2>2. old.type = "bool"
    BY <2>1 DEF Checks
  <2>3. r = Result(Truth(~old.truth), FALSE)
    BY <1>2 DEF Exec, NumOps, QuantityOps, ComparisonOps
  <2>4. Meaning(r.value) = ~old.truth
    BY <2>3 DEF Result, Truth, Meaning
  <2>5. Meaning(old) = old.truth
    BY <2>2 DEF Meaning
  <2>6. n.roomy = i.roomy /\ n.meaning = IF i.roomy THEN ~i.meaning ELSE Lost
    BY <1>1, <1>3 DEF ChainInv, OperandOK, IdealForm
  <2>7. ASSUME n.roomy PROVE Meaning(r.value) = n.meaning
    <3>1. Meaning(old) = i.meaning
      BY <1>1, <2>6, <2>7 DEF ExactWhileRoomy
    <3>2. n.meaning = ~i.meaning
      BY <2>6, <2>7
    <3>3. QED BY <2>4, <2>5, <3>1, <3>2
  <2>8. claim'.value = r.value /\ ideal' = n
    BY <1>7
  <2>9. QED BY <2>7, <2>8 DEF ExactWhileRoomy
<1>8. QED BY <1>5, <1>6, <1>7

\* A receipt log changes no meaning.
LEMMA StoreMeant ==
  ASSUME ChainInv, ChainTypeOK, ExactWhileRoomy, Store
  PROVE  ExactWhileRoomy'
<1>1. claim = [value |-> claim.value, unc |-> claim.unc]
  BY DEF ChainInv, OperandOK
<1>2. PICK old : old = claim.value
  OBVIOUS
<1>3. /\ old.type \in {"num", "quantity"} /\ ideal' = ideal
      /\ claim' = [claim EXCEPT !.value.num = Reload(@)]
  BY <1>2 DEF Store
<1>4. old.num \in Num
  BY <1>2, <1>3 DEF ChainTypeOK, NumsOf
<1>5. PICK num : num = Reload(old.num)
  OBVIOUS
<1>6. PICK new : new = [old EXCEPT !.num = num]
  OBVIOUS
<1>7. claim'.value = new
  BY <1>1, <1>2, <1>3, <1>5, <1>6
<1>8. old = NumValue(old.num) \/ old = Quantity(old.num, old.unit)
  BY <1>2, <1>3 DEF ChainInv, OperandOK
<1>9. new.type = old.type /\ new.num = num
  BY <1>6, <1>8 DEF NumValue, Quantity
<1>10. Meaning(new) = Meaning(old)
  <2>1. Meaning(new) = Exactly(num) /\ Meaning(old) = Exactly(old.num)
    BY <1>3, <1>9 DEF Meaning
  <2>2. QED BY <1>4, <1>5, <2>1, ReloadExact
<1>11. QED BY <1>2, <1>3, <1>7, <1>10 DEF ExactWhileRoomy

\* As long as nothing leaves the width on the way, a chain computes what exact
\* arithmetic does, whatever the width, the premises and the length of the
\* chain: in whatever mixture of integers, rationals and decimals, reduced or
\* not, in whatever order of operations, and through however many receipt logs.
THEOREM ExactTheorem == ChainSpec => []ExactWhileRoomy
<1>1. ChainInit => ExactWhileRoomy
  <2> SUFFICES ASSUME ChainInit PROVE ExactWhileRoomy
    OBVIOUS
  <2>1. PICK o \in Operands : claim = o.claim /\ ideal = o.ideal
    BY DEF ChainInit
  <2>2. QED BY <2>1, PremiseMeant DEF Meant, ExactWhileRoomy
<1>2. ChainInv /\ ChainTypeOK /\ ExactWhileRoomy /\ [ChainNext]_chainVars => ExactWhileRoomy'
  <2> SUFFICES ASSUME ChainInv, ChainTypeOK, ExactWhileRoomy, [ChainNext]_chainVars
               PROVE  ExactWhileRoomy'
    OBVIOUS
  <2>1. CASE UNCHANGED chainVars
    BY <2>1 DEF chainVars, ExactWhileRoomy
  <2>2. CASE DeriveBinary
    <3>1. PICK op \in Binary, o \in Operands \cup {Last} :
                 \E sides \in {<<Last, o>>, <<o, Last>>} : Derive(op, sides[1], sides[2])
      BY <2>2 DEF DeriveBinary
    <3>2. Last.claim = claim /\ Last.ideal = ideal
      BY DEF Last
    <3>3. PICK l : l = Last
      OBVIOUS
    <3>4. /\ Meant(l.claim.value, l.ideal) /\ NumsOf(l.claim.value) \subseteq Num
      BY <3>2, <3>3 DEF Meant, ExactWhileRoomy, ChainTypeOK
    <3>5. Meant(o.claim.value, o.ideal) /\ NumsOf(o.claim.value) \subseteq Num
      BY <3>3, <3>4, PremiseMeant
    <3>6. Derive(op, l, o) \/ Derive(op, o, l)
      BY <3>1, <3>3
    <3>7. QED BY <3>4, <3>5, <3>6, DeriveMeant
  <2>3. QED BY <2>1, <2>2, DeriveNotMeant, StoreMeant DEF ChainNext
<1>3. QED BY <1>1, <1>2, ChainInvariant, ChainTypeTheorem, PTL DEF ChainSpec

-----------------------------------------------------------------------------
(* Intervals. *)

\* The order of the exact values of two numbers.
AtMost(b, c) == ExactOrder(Exactly(b), Exactly(c)) <= 0

\* It is a total order, strict where the second is not at most the first.
LEMMA AtMostOrder ==
  ASSUME NEW b \in Num, NEW c \in Num, NEW d \in Num
  PROVE  /\ AtMost(b, b)
         /\ AtMost(b, c) \/ AtMost(c, b)
         /\ AtMost(b, c) /\ AtMost(c, d) => AtMost(b, d)
         /\ ExactOrder(Exactly(b), Exactly(c)) = -1 <=> ~AtMost(c, b)
<1>1. PICK m \in Int, x \in Nat \ {0} : Exactly(b) = [n |-> m, d |-> x]
  BY OperandForm
<1>2. PICK n \in Int, y \in Nat \ {0} : Exactly(c) = [n |-> n, d |-> y]
  BY OperandForm
<1>3. PICK k \in Int, z \in Nat \ {0} : Exactly(d) = [n |-> k, d |-> z]
  BY OperandForm
<1>4. PICK my \in Int, nx \in Int, nz \in Int, ky \in Int, mz \in Int, kx \in Int, mx \in Int :
        /\ my = m * y /\ nx = n * x /\ nz = n * z /\ ky = k * y
        /\ mz = m * z /\ kx = k * x /\ mx = m * x
  OBVIOUS
<1>5. /\ ExactOrder(Exactly(b), Exactly(c)) = IF my < nx THEN -1 ELSE IF my > nx THEN 1 ELSE 0
      /\ ExactOrder(Exactly(c), Exactly(b)) = IF nx < my THEN -1 ELSE IF nx > my THEN 1 ELSE 0
      /\ ExactOrder(Exactly(c), Exactly(d)) = IF nz < ky THEN -1 ELSE IF nz > ky THEN 1 ELSE 0
      /\ ExactOrder(Exactly(b), Exactly(d)) = IF mz < kx THEN -1 ELSE IF mz > kx THEN 1 ELSE 0
      /\ ExactOrder(Exactly(b), Exactly(b)) = IF mx < mx THEN -1 ELSE IF mx > mx THEN 1 ELSE 0
  BY <1>1, <1>2, <1>3, <1>4 DEF ExactOrder
<1>6. /\ AtMost(b, c) <=> my <= nx
      /\ AtMost(c, b) <=> nx <= my
      /\ AtMost(c, d) <=> nz <= ky
      /\ AtMost(b, d) <=> mz <= kx
      /\ AtMost(b, b)
  BY <1>5 DEF AtMost
<1>7. ASSUME my <= nx, nz <= ky PROVE mz <= kx
  <2>1. z * my <= z * nx
    <3>1. z * (nx - my) >= 0
      BY <1>7
    <3>2. z * (nx - my) = z * nx - z * my /\ z * nx \in Int /\ z * my \in Int
      OBVIOUS
    <3>3. QED BY <3>1, <3>2
  <2>2. x * nz <= x * ky
    <3>1. x * (ky - nz) >= 0
      BY <1>7
    <3>2. x * (ky - nz) = x * ky - x * nz /\ x * ky \in Int /\ x * nz \in Int
      OBVIOUS
    <3>3. QED BY <3>1, <3>2
  <2>3. z * nx = x * nz
    <3>1. z * (n * x) = x * (n * z)
      OBVIOUS
    <3>2. QED BY <1>4, <3>1
  <2>4. z * my = y * mz
    <3>1. z * (m * y) = y * (m * z)
      OBVIOUS
    <3>2. QED BY <1>4, <3>1
  <2>5. x * ky = y * kx
    <3>1. x * (k * y) = y * (k * x)
      OBVIOUS
    <3>2. QED BY <1>4, <3>1
  <2>6. PICK p \in Int, q \in Int : p = y * mz /\ q = y * kx
    OBVIOUS
  <2>7. p <= q
    <3>1. PICK s \in Int, t \in Int : s = z * nx /\ t = x * nz
      OBVIOUS
    <3>2. p <= s /\ s = t /\ t <= q
      BY <2>1, <2>2, <2>3, <2>4, <2>5, <2>6, <3>1
    <3>3. QED BY <3>2
  <2>8. ~(y * kx < y * mz)
    BY <2>6, <2>7
  <2>9. ~(kx < mz)
    BY <2>8, OrderScaled
  <2>10. QED BY <2>9
<1>8. ExactOrder(Exactly(b), Exactly(c)) = -1 <=> ~AtMost(c, b)
  BY <1>5, <1>6
<1>9. QED BY <1>6, <1>7, <1>8

\* The comparisons of combine are of exact values.
LEMMA LessExact ==
  ASSUME NEW U, Comparable(U), NEW b \in Num, NEW c \in Num,
         b \in BoundsOf(U), c \in BoundsOf(U)
  PROVE  Less(b, c) <=> ~AtMost(c, b)
<1>1. Fits(ToRational(b).d * ToRational(c).d) /\ ~Cmp(b, c).over
  BY DEF Comparable
<1>2. Cmp(b, c).ord = ExactOrder(Exactly(b), Exactly(c))
  BY <1>1, CmpExact
<1>3. QED BY <1>2, AtMostOrder DEF Less

\* Numeric intervals of a program.
Numerics(D) == {u \in D : u.kind = "numeric"}

Bounded(D) ==
  \A u \in Numerics(D) :
    u.lo \in Num /\ u.hi \in Num /\ u = NumericInterval(u.lo, u.hi)

\* Bounds that can be compared can be compared in a part of them.
LEMMA ComparablePart ==
  ASSUME NEW D, NEW E, Comparable(Numerics(D \cup E))
  PROVE  Comparable(Numerics(D)) /\ Comparable(Numerics(E))
<1>1. /\ Numerics(D) \subseteq Numerics(D \cup E)
      /\ Numerics(E) \subseteq Numerics(D \cup E)
  BY DEF Numerics
<1>2. /\ BoundsOf(Numerics(D)) \subseteq BoundsOf(Numerics(D \cup E))
      /\ BoundsOf(Numerics(E)) \subseteq BoundsOf(Numerics(D \cup E))
  BY <1>1 DEF BoundsOf
<1>3. QED BY <1>2 DEF Comparable

\* What is kept of the numeric intervals among doubts D of the kinds K.
Narrowed(w, D) ==
  /\ \A u \in Numerics(D) : AtMost(u.lo, w.lo) /\ AtMost(w.hi, u.hi)
  /\ \E u \in Numerics(D) : u.lo = w.lo
  /\ \E u \in Numerics(D) : u.hi = w.hi
  /\ Disjoint(Numerics(D)) => Numerics(D) = {w}

IntervalKept(w, D, K) ==
  /\ w.kind = "conflicting" =>
       "unknown" \notin K /\ ("conflicting" \in K \/ Disjoint(Numerics(D)))
  /\ "numeric" \in K => w.kind \in {"numeric", "conflicting", "unknown"}

\* What combine answers, by the kinds of the two, as to numeric intervals.
LEMMA CombinedInterval ==
  ASSUME NEW u, NEW v, Stateable(u), Stateable(v), NEW w, w = Combine(u, v), w # Rejected
  PROVE  \/ u.kind \in {"exact", "external"} /\ w = v
         \/ v.kind \in {"exact", "external"} /\ w = u
         \/ w.kind = "unknown"
         \/ /\ "unknown" \notin {u.kind, v.kind} /\ "conflicting" \in {u.kind, v.kind}
            /\ w.kind = "conflicting"
         \/ u.kind = "numeric" /\ v.kind = "numeric" /\ w = Intersection(u, v)
         \/ /\ {u.kind, v.kind} \cap {"numeric", "conflicting", "unknown"} = {}
            /\ w.kind \in {"probability", "weight"}
<1>1. u = Exact => u.kind = "exact"
  BY DEF Exact
<1>2. v = Exact => v.kind = "exact"
  BY DEF Exact
<1>3. CASE u = Exact \/ v = Exact
  BY <1>1, <1>2, <1>3 DEF Combine
<1>4. CASE u # Exact /\ v # Exact /\ "unknown" \in {u.kind, v.kind}
  BY <1>4 DEF Combine, Unknown
<1>5. CASE /\ u # Exact /\ v # Exact /\ "unknown" \notin {u.kind, v.kind}
           /\ "conflicting" \in {u.kind, v.kind}
  BY <1>5 DEF Combine, Conflicting
<1>6. CASE /\ u # Exact /\ v # Exact
           /\ "unknown" \notin {u.kind, v.kind} /\ "conflicting" \notin {u.kind, v.kind}
  <2>1. CASE u.kind = "external" \/ v.kind = "external"
    BY <1>6, <2>1 DEF Combine
  <2>2. CASE u.kind # "external" /\ v.kind # "external"
    <3>1. CASE {u.kind, v.kind} = {"probability"}
      <4>1. w = ProbabilityProduct(u, v)
        BY <1>6, <2>2, <3>1 DEF Combine
      <4>2. w.kind = "probability"
        BY <4>1 DEF ProbabilityProduct, Probability
      <4>3. QED BY <3>1, <4>2
    <3>2. CASE {u.kind, v.kind} = {"weight"}
      <4>1. w = WeightProduct(u, v)
        BY <1>6, <2>2, <3>2 DEF Combine
      <4>2. w.kind = "weight"
        BY <4>1 DEF WeightProduct, EvidenceWeight
      <4>3. QED BY <3>2, <4>2
    <3>3. CASE {u.kind, v.kind} = {"numeric"}
      <4>1. w = Intersection(u, v)
        BY <1>6, <2>2, <3>3 DEF Combine
      <4>2. QED BY <3>3, <4>1
    <3>4. CASE {u.kind, v.kind} \notin {{"probability"}, {"weight"}, {"numeric"}}
      BY <1>6, <2>2, <3>4 DEF Combine
    <3>5. QED BY <3>1, <3>2, <3>3, <3>4
  <2>3. QED BY <2>1, <2>2
<1>7. QED BY <1>3, <1>4, <1>5, <1>6

LEMMA DisjointMore ==
  ASSUME NEW D, NEW E, Disjoint(Numerics(D))
  PROVE  Disjoint(Numerics(D \cup E)) /\ Disjoint(Numerics(E \cup D))
BY DEF Disjoint, Numerics

\* The intersection of what is kept of two sets of doubts is kept of their
\* union; it is empty only where two of those intervals are apart.
LEMMA IntersectionKept ==
  ASSUME NEW u, NEW v, NEW D, NEW E, Bounded(D), Bounded(E),
         Comparable(Numerics(D \cup E)),
         Narrowed(u, D), Narrowed(v, E), NEW w, w = Intersection(u, v)
  PROVE  /\ w.kind = "numeric" => Narrowed(w, D \cup E)
         /\ w.kind # "numeric" => w.kind = "conflicting" /\ Disjoint(Numerics(D \cup E))
<1> DEFINE F == Numerics(D \cup E)
<1>1. F = Numerics(D) \cup Numerics(E)
  BY DEF Numerics
<1>2. ASSUME NEW x \in F
      PROVE  /\ x.lo \in Num /\ x.hi \in Num
             /\ x.lo \in BoundsOf(F) /\ x.hi \in BoundsOf(F)
  <2>1. x.lo \in Num /\ x.hi \in Num
    BY <1>1 DEF Bounded
  <2>2. {x.lo, x.hi} \in {{d.lo, d.hi} : d \in F}
    OBVIOUS
  <2>3. x.lo \in BoundsOf(F) /\ x.hi \in BoundsOf(F)
    BY <2>2 DEF BoundsOf
  <2>4. QED BY <2>1, <2>3
<1>3. /\ \E x \in F : x.lo = u.lo
      /\ \E x \in F : x.hi = u.hi
      /\ \E x \in F : x.lo = v.lo
      /\ \E x \in F : x.hi = v.hi
  BY <1>1 DEF Narrowed
<1>4. /\ u.lo \in Num /\ u.hi \in Num /\ v.lo \in Num /\ v.hi \in Num
      /\ u.lo \in BoundsOf(F) /\ u.hi \in BoundsOf(F)
      /\ v.lo \in BoundsOf(F) /\ v.hi \in BoundsOf(F)
  BY <1>2, <1>3
<1>5. PICK lo : lo = HigherLo(u, v) /\ lo \in {u.lo, v.lo}
  BY DEF HigherLo
<1>6. PICK hi : hi = LowerHi(u, v) /\ hi \in {u.hi, v.hi}
  BY DEF LowerHi
<1>7. w = IF Less(hi, lo) THEN Conflicting ELSE NumericInterval(lo, hi)
  BY <1>5, <1>6 DEF Intersection
<1>8. lo \in BoundsOf(F) /\ hi \in BoundsOf(F) /\ lo \in Num /\ hi \in Num
  BY <1>4, <1>5, <1>6
<1>9. AtMost(u.lo, lo) /\ AtMost(v.lo, lo)
  <2>1. Less(v.lo, u.lo) <=> ~AtMost(u.lo, v.lo)
    BY <1>4, LessExact
  <2>2. AtMost(u.lo, u.lo) /\ AtMost(v.lo, v.lo) /\ (AtMost(u.lo, v.lo) \/ AtMost(v.lo, u.lo))
    BY <1>4, AtMostOrder
  <2>3. QED BY <1>5, <2>1, <2>2 DEF HigherLo
<1>10. AtMost(hi, u.hi) /\ AtMost(hi, v.hi)
  <2>1. Less(u.hi, v.hi) <=> ~AtMost(v.hi, u.hi)
    BY <1>4, LessExact
  <2>2. AtMost(u.hi, u.hi) /\ AtMost(v.hi, v.hi) /\ (AtMost(u.hi, v.hi) \/ AtMost(v.hi, u.hi))
    BY <1>4, AtMostOrder
  <2>3. QED BY <1>6, <2>1, <2>2 DEF LowerHi
<1>11. ASSUME NEW x \in F PROVE AtMost(x.lo, lo) /\ AtMost(hi, x.hi)
  <2>1. x.lo \in Num /\ x.hi \in Num
    BY <1>2
  <2>2. \/ AtMost(x.lo, u.lo) /\ AtMost(u.hi, x.hi)
        \/ AtMost(x.lo, v.lo) /\ AtMost(v.hi, x.hi)
    BY <1>1 DEF Narrowed
  <2>3. QED BY <1>4, <1>8, <1>9, <1>10, <2>1, <2>2, AtMostOrder
<1>12. (\E x \in F : x.lo = lo) /\ (\E x \in F : x.hi = hi)
  BY <1>3, <1>5, <1>6
<1>13. Less(hi, lo) <=> ~AtMost(lo, hi)
  BY <1>8, LessExact
<1> HIDE DEF F
<1>14. CASE Less(hi, lo)
  <2>1. w.kind = "conflicting"
    BY <1>7, <1>14 DEF Conflicting
  <2>2. PICK x \in F, y \in F : x.hi = hi /\ y.lo = lo
    BY <1>12
  <2>3. ExactOrder(Exactly(x.hi), Exactly(y.lo)) = -1
    BY <1>8, <1>13, <1>14, <2>2, AtMostOrder
  <2>4. Disjoint(F)
    BY <2>3 DEF Disjoint
  <2>5. QED BY <2>1, <2>4 DEF F
<1>15. CASE ~Less(hi, lo)
  <2>1. w = NumericInterval(lo, hi)
    BY <1>7, <1>15
  <2>2. w.kind = "numeric" /\ w.lo = lo /\ w.hi = hi
    BY <2>1 DEF NumericInterval
  <2>3. ~Disjoint(F)
    <3>1. SUFFICES ASSUME NEW x \in F, NEW y \in F,
                          ExactOrder(Exactly(x.hi), Exactly(y.lo)) = -1
                   PROVE  FALSE
      BY DEF Disjoint
    <3>2. x.hi \in Num /\ y.lo \in Num
      BY <1>2
    <3>3. ~AtMost(y.lo, x.hi)
      BY <3>1, <3>2, AtMostOrder
    <3>4. AtMost(y.lo, lo) /\ AtMost(lo, hi) /\ AtMost(hi, x.hi)
      BY <1>11, <1>13, <1>15
    <3>5. AtMost(y.lo, hi)
      BY <1>8, <3>2, <3>4, AtMostOrder
    <3>6. AtMost(y.lo, x.hi)
      BY <1>8, <3>2, <3>4, <3>5, AtMostOrder
    <3>7. QED BY <3>3, <3>6
  <2>4. Narrowed(w, D \cup E)
    BY <1>11, <1>12, <2>2, <2>3 DEF Narrowed, F
  <2>5. QED BY <2>2, <2>4
<1>16. QED BY <1>14, <1>15

\* What is kept of the intervals among two sets of doubts is kept of those
\* among their union.
LEMMA IntervalsTogether ==
  ASSUME NEW u, NEW v, NEW D, NEW E, Stateable(u), Stateable(v), Bounded(D), Bounded(E),
         Comparable(Numerics(D \cup E)),
         NEW K, NEW L, K = {d.kind : d \in D}, L = {d.kind : d \in E},
         KindsKept(u.kind, K), KindsKept(v.kind, L),
         IntervalKept(u, D, K), IntervalKept(v, E, L),
         u.kind = "numeric" => Narrowed(u, D), v.kind = "numeric" => Narrowed(v, E),
         NEW w, w = Combine(u, v), w # Rejected
  PROVE  /\ IntervalKept(w, D \cup E, K \cup L)
         /\ w.kind = "numeric" => Narrowed(w, D \cup E)
<1>1. /\ "numeric" \notin K => Numerics(D \cup E) = Numerics(E)
      /\ "numeric" \notin L => Numerics(D \cup E) = Numerics(D)
  BY DEF Numerics
<1>2. CASE u.kind \in {"exact", "external"} /\ w = v
  <2>1. "numeric" \notin K /\ "unknown" \notin K
    BY <1>2 DEF IntervalKept, KindsKept
  <2>2. Numerics(D \cup E) = Numerics(E)
    BY <1>1, <2>1
  <2>3. IntervalKept(w, D \cup E, K \cup L)
    BY <1>2, <2>1, <2>2 DEF IntervalKept
  <2>4. QED BY <1>2, <2>2, <2>3 DEF Narrowed
<1>3. CASE v.kind \in {"exact", "external"} /\ w = u
  <2>1. "numeric" \notin L /\ "unknown" \notin L
    BY <1>3 DEF IntervalKept, KindsKept
  <2>2. Numerics(D \cup E) = Numerics(D)
    BY <1>1, <2>1
  <2>3. IntervalKept(w, D \cup E, K \cup L)
    BY <1>3, <2>1, <2>2 DEF IntervalKept
  <2>4. QED BY <1>3, <2>2, <2>3 DEF Narrowed
<1>4. CASE w.kind = "unknown"
  BY <1>4 DEF IntervalKept
<1>5. CASE /\ "unknown" \notin {u.kind, v.kind} /\ "conflicting" \in {u.kind, v.kind}
           /\ w.kind = "conflicting"
  <2>1. "unknown" \notin K \cup L
    BY <1>5 DEF KindsKept
  <2>2. "conflicting" \in K \cup L \/ Disjoint(Numerics(D \cup E))
    BY <1>5, DisjointMore DEF IntervalKept
  <2>3. QED BY <1>5, <2>1, <2>2 DEF IntervalKept
<1>6. CASE u.kind = "numeric" /\ v.kind = "numeric" /\ w = Intersection(u, v)
  <2>1. "unknown" \notin K \cup L
    BY <1>6 DEF KindsKept
  <2>2. /\ w.kind = "numeric" => Narrowed(w, D \cup E)
        /\ w.kind # "numeric" => w.kind = "conflicting" /\ Disjoint(Numerics(D \cup E))
    BY <1>6, IntersectionKept
  <2>3. QED BY <2>1, <2>2 DEF IntervalKept
<1>7. CASE /\ {u.kind, v.kind} \cap {"numeric", "conflicting", "unknown"} = {}
           /\ w.kind \in {"probability", "weight"}
  BY <1>7 DEF IntervalKept
<1>8. QED BY <1>2, <1>3, <1>4, <1>5, <1>6, <1>7, CombinedInterval

\* A claim with its ideal, as to the numeric intervals among its doubts.
IntervalOK(c, i) ==
  /\ Bounded(i.doubts)
  /\ Comparable(Numerics(i.doubts)) =>
       /\ c.unc.kind = "numeric" => Narrowed(c.unc, i.doubts)
       /\ c.value.type \in {"num", "quantity"} => IntervalKept(c.unc, i.doubts, KindsOf(i))

\* A premise is such a claim.
LEMMA PremiseInterval ==
  ASSUME NEW o \in Operands
  PROVE  IntervalOK(o.claim, o.ideal)
<1>1. PICK p \in Premises : o = [claim |-> Claim(p), ideal |-> Ideal(p)]
  BY DEF Operands
<1>2. o.claim.unc = p.unc /\ o.ideal.doubts = {p.unc}
  BY <1>1 DEF Claim, Ideal
<1>3. KindsOf(o.ideal) = {p.unc.kind}
  BY <1>2 DEF KindsOf
<1>4. PICK u : u = p.unc
  OBVIOUS
<1>5. ASSUME u.kind = "numeric"
      PROVE  u.lo \in Num /\ u.hi \in Num /\ u = NumericInterval(u.lo, u.hi)
  BY <1>4, <1>5, BoundsAssumption
<1>6. Bounded({u})
  BY <1>5 DEF Bounded, Numerics
<1>7. ASSUME u.kind = "numeric" PROVE Narrowed(u, {u})
  <2>1. Numerics({u}) = {u}
    BY <1>7 DEF Numerics
  <2>2. AtMost(u.lo, u.lo) /\ AtMost(u.hi, u.hi)
    BY <1>5, <1>7, AtMostOrder
  <2>3. QED BY <2>1, <2>2 DEF Narrowed
<1>8. IntervalKept(u, {u}, {u.kind})
  BY DEF IntervalKept
<1>9. QED BY <1>2, <1>3, <1>4, <1>6, <1>7, <1>8 DEF IntervalOK

\* So is a claim that an accepted derivation of two such claims commits.
LEMMA AcceptedInterval ==
  ASSUME NEW op \in Binary, NEW x, NEW y,
         OperandOK(x.claim, x.ideal), OperandOK(y.claim, y.ideal),
         IntervalOK(x.claim, x.ideal), IntervalOK(y.claim, y.ideal),
         NEW values, values = <<x.claim.value, y.claim.value>>, NEW r,
         NEW w, w = ConjoinedUncertainty(op, <<x.claim.unc, y.claim.unc>>),
         NEW n, n = IdealDerive(op, values, x.ideal, y.ideal),
         TypeChecks(op, values), Checks(r, OutputType(op)), w # Rejected
  PROVE  IntervalOK([value |-> r, unc |-> w], n)
<1> DEFINE a == x.claim.value
           b == y.claim.value
<1>1. PICK c : c = [value |-> r, unc |-> w]
  OBVIOUS
<1>2. c.value = r /\ c.unc = w
  BY <1>1
<1>3. PICK D, E : D = x.ideal.doubts /\ E = y.ideal.doubts
  OBVIOUS
<1>4. n.doubts = D \cup E
  BY <1>3 DEF IdealDerive
<1>5. PICK K, L : K = {d.kind : d \in D} /\ L = {d.kind : d \in E}
  OBVIOUS
<1>6. KindsOf(x.ideal) = K /\ KindsOf(y.ideal) = L /\ KindsOf(n) = K \cup L
  BY <1>3, <1>4, <1>5 DEF KindsOf
<1>7. Bounded(D) /\ Bounded(E)
  BY <1>3 DEF IntervalOK
<1>8. Bounded(D \cup E)
  BY <1>7 DEF Bounded, Numerics
<1>9. values[1] = a /\ values[2] = b /\ DOMAIN values = {1, 2}
  OBVIOUS
<1>10. CASE ConjoinsInputs(op)
  <2>1. PICK u, v : u = x.claim.unc /\ v = y.claim.unc
    OBVIOUS
  <2>2. w = Combine(u, v)
    BY <1>10, <2>1 DEF ConjoinedUncertainty
  <2>3. a.type \in {"num", "quantity"} /\ b.type \in {"num", "quantity"}
    <3>1. Checks(a, InputTypes(op)[1]) /\ Checks(b, InputTypes(op)[2])
      BY <1>9 DEF TypeChecks
    <3>2. QED BY <1>10, <3>1 DEF ConjoinsInputs, InputTypes, Checks, NumOps, QuantityOps
  <2>4. /\ Stateable(u) /\ Stateable(v)
        /\ KindsKept(u.kind, K) /\ KindsKept(v.kind, L)
    BY <1>6, <2>1, <2>3 DEF OperandOK
  <2>5. ASSUME Comparable(Numerics(D \cup E))
        PROVE  /\ IntervalKept(w, D \cup E, K \cup L)
               /\ w.kind = "numeric" => Narrowed(w, D \cup E)
    <3>1. Comparable(Numerics(D)) /\ Comparable(Numerics(E))
      BY <2>5, ComparablePart
    <3>2. /\ IntervalKept(u, D, K) /\ IntervalKept(v, E, L)
          /\ u.kind = "numeric" => Narrowed(u, D)
          /\ v.kind = "numeric" => Narrowed(v, E)
      BY <1>3, <1>6, <2>1, <2>3, <3>1 DEF IntervalOK
    <3>3. QED BY <1>5, <1>7, <2>2, <2>4, <2>5, <3>2, IntervalsTogether
  <2>6. QED BY <1>1, <1>2, <1>4, <1>6, <1>8, <2>5 DEF IntervalOK
<1>11. CASE ~ConjoinsInputs(op)
  <2>1. w.kind = "exact"
    BY <1>11 DEF ConjoinedUncertainty, Exact
  <2>2. OutputType(op) \in {"bool", "interval"}
    BY <1>11 DEF ConjoinsInputs, OutputType
  <2>3. r.type \notin {"num", "quantity"}
    BY <2>2 DEF Checks
  <2>4. IntervalOK(c, n)
    BY <1>2, <1>4, <1>8, <2>1, <2>3 DEF IntervalOK
  <2>5. QED BY <1>1, <2>4
<1>12. QED BY <1>10, <1>11

\* A call of derive commits such a claim or leaves the one before.
LEMMA DeriveInterval ==
  ASSUME NEW op \in Binary, NEW x, NEW y,
         OperandOK(x.claim, x.ideal), OperandOK(y.claim, y.ideal),
         IntervalOK(x.claim, x.ideal), IntervalOK(y.claim, y.ideal),
         IntervalOK(claim, ideal), Derive(op, x, y)
  PROVE  IntervalOK(claim, ideal)'
<1>1. PICK values : values = <<x.claim.value, y.claim.value>>
  OBVIOUS
<1>2. PICK r : r = Exec(op, values)
  OBVIOUS
<1>3. PICK w : w = ConjoinedUncertainty(op, <<x.claim.unc, y.claim.unc>>)
  OBVIOUS
<1>4. PICK n : n = IdealDerive(op, values, x.ideal, y.ideal)
  OBVIOUS
<1>5. PICK over : Calculated(op, values, w, over, n)
  BY <1>1, <1>3, <1>4 DEF Derive
<1>6. \/ UNCHANGED <<claim, ideal>>
      \/ /\ TypeChecks(op, values) /\ Checks(r.value, OutputType(op)) /\ w # Rejected
         /\ claim' = [value |-> r.value, unc |-> w] /\ ideal' = n
  BY <1>2, <1>5 DEF Calculated, Conclude, Commit, Refuse, Stop
<1>7. CASE UNCHANGED <<claim, ideal>>
  BY <1>7
<1>8. CASE /\ TypeChecks(op, values) /\ Checks(r.value, OutputType(op)) /\ w # Rejected
           /\ claim' = [value |-> r.value, unc |-> w] /\ ideal' = n
  <2>1. PICK value : value = r.value
    OBVIOUS
  <2>2. IntervalOK([value |-> value, unc |-> w], n)
    BY <1>1, <1>3, <1>4, <1>8, <2>1, AcceptedInterval
  <2>3. QED BY <1>8, <2>1, <2>2
<1>9. QED BY <1>6, <1>7, <1>8

\* So do the negation of a truth value, which is exact, and a receipt log,
\* which keeps the uncertainty.
LEMMA OthersInterval ==
  ASSUME ChainInv, IntervalOK(claim, ideal), DeriveNot \/ Store
  PROVE  IntervalOK(claim, ideal)'
<1>1. CASE DeriveNot
  <2>1. PICK r : r = Exec("not", <<claim.value>>)
    OBVIOUS
  <2>2. PICK n : /\ n = [ideal EXCEPT !.known = ideal.roomy,
                                      !.meaning = IF ideal.roomy THEN ~@ ELSE Lost]
                 /\ Calculated("not", <<claim.value>>, Exact, FALSE, n)
    BY <1>1 DEF DeriveNot
  <2>3. n.doubts = ideal.doubts
    BY <2>2 DEF ChainInv, OperandOK, IdealForm
  <2>4. \/ UNCHANGED <<claim, ideal>>
        \/ /\ Checks(r.value, OutputType("not"))
           /\ claim' = [value |-> r.value, unc |-> Exact] /\ ideal' = n
    BY <2>1, <2>2 DEF Calculated, Conclude, Commit, Refuse, Stop
  <2>5. CASE UNCHANGED <<claim, ideal>>
    BY <2>5
  <2>6. CASE /\ Checks(r.value, OutputType("not"))
             /\ claim' = [value |-> r.value, unc |-> Exact] /\ ideal' = n
    <3>1. OutputType("not") = "bool"
      BY DEF OutputType, NumOps, QuantityOps
    <3>2. r.value.type = "bool" /\ Exact.kind = "exact"
      BY <2>6, <3>1 DEF Checks, Exact
    <3>3. PICK c : c = [value |-> r.value, unc |-> Exact]
      OBVIOUS
    <3>4. c.value = r.value /\ c.unc = Exact
      BY <3>3
    <3>5. IntervalOK(c, n)
      BY <2>3, <3>2, <3>4 DEF IntervalOK
    <3>6. QED BY <2>6, <3>3, <3>5
  <2>7. QED BY <2>4, <2>5, <2>6
<1>2. CASE Store
  <2>1. claim = [value |-> claim.value, unc |-> claim.unc]
    BY DEF ChainInv, OperandOK
  <2>2. PICK num : claim' = [claim EXCEPT !.value.num = num]
    BY <1>2 DEF Store
  <2>3. PICK old, u, i : old = claim.value /\ u = claim.unc /\ i = ideal
    OBVIOUS
  <2>4. old.type \in {"num", "quantity"} /\ ideal' = i
    BY <1>2, <2>3 DEF Store
  <2>5. old = NumValue(old.num) \/ old = Quantity(old.num, old.unit)
    BY <2>3, <2>4 DEF ChainInv, OperandOK
  <2>6. PICK new : new = [old EXCEPT !.num = num]
    OBVIOUS
  <2>7. claim' = [value |-> new, unc |-> u]
    BY <2>1, <2>2, <2>3, <2>6
  <2>8. new.type = old.type
    BY <2>5, <2>6 DEF NumValue, Quantity
  <2>9. PICK c : c = [value |-> new, unc |-> u]
    OBVIOUS
  <2>10. c.value.type = old.type /\ c.unc = u
    BY <2>8, <2>9
  <2>11. IntervalOK(c, i)
    BY <2>3, <2>10 DEF IntervalOK
  <2>12. QED BY <2>4, <2>7, <2>9, <2>11
<1>3. QED BY <1>1, <1>2

\* Numeric intervals whose bounds can be compared are intersected by arithmetic,
\* and found empty when they are, in whatever order the premises meet and along
\* whatever chain.  The premises may carry any bounds; of a chain that has met
\* two whose comparison leaves the width nothing is said.
THEOREM IntervalTheorem == ChainSpec => []IntervalIsIntersection
<1>1. ChainInit => IntervalOK(claim, ideal)
  <2> SUFFICES ASSUME ChainInit PROVE IntervalOK(claim, ideal)
    OBVIOUS
  <2>1. PICK o \in Operands : claim = o.claim /\ ideal = o.ideal
    BY DEF ChainInit
  <2>2. QED BY <2>1, PremiseInterval
<1>2. ChainInv /\ IntervalOK(claim, ideal) /\ [ChainNext]_chainVars => IntervalOK(claim, ideal)'
  <2> SUFFICES ASSUME ChainInv, IntervalOK(claim, ideal), [ChainNext]_chainVars
               PROVE  IntervalOK(claim, ideal)'
    OBVIOUS
  <2>1. CASE UNCHANGED chainVars
    BY <2>1 DEF chainVars
  <2>2. CASE DeriveBinary
    <3>1. PICK op \in Binary, o \in Operands \cup {Last} :
                 \E sides \in {<<Last, o>>, <<o, Last>>} : Derive(op, sides[1], sides[2])
      BY <2>2 DEF DeriveBinary
    <3>2. Last.claim = claim /\ Last.ideal = ideal
      BY DEF Last
    <3>3. PICK l : l = Last
      OBVIOUS
    <3>4. OperandOK(l.claim, l.ideal) /\ IntervalOK(l.claim, l.ideal)
      BY <3>2, <3>3 DEF ChainInv
    <3>5. OperandOK(o.claim, o.ideal) /\ IntervalOK(o.claim, o.ideal)
      BY <3>3, <3>4, PremiseOK, PremiseInterval
    <3>6. Derive(op, l, o) \/ Derive(op, o, l)
      BY <3>1, <3>3
    <3>7. QED BY <3>4, <3>5, <3>6, DeriveInterval
  <2>3. QED BY <2>1, <2>2, OthersInterval DEF ChainNext
<1>3. ChainInv /\ IntervalOK(claim, ideal) => IntervalIsIntersection
  <2> SUFFICES ASSUME ChainInv, IntervalOK(claim, ideal) PROVE IntervalIsIntersection
    OBVIOUS
  <2>1. NumericDoubts = Numerics(ideal.doubts)
    BY DEF NumericDoubts, Numerics
  <2>2. ASSUME Comparable(NumericDoubts), claim.unc.kind = "numeric"
        PROVE  /\ \A u \in NumericDoubts :
                    /\ ExactOrder(Exactly(u.lo), Exactly(claim.unc.lo)) <= 0
                    /\ ExactOrder(Exactly(claim.unc.hi), Exactly(u.hi)) <= 0
               /\ claim.unc.lo \in {u.lo : u \in NumericDoubts}
               /\ claim.unc.hi \in {u.hi : u \in NumericDoubts}
               /\ Disjoint(NumericDoubts) => NumericDoubts = {claim.unc}
    <3>1. Narrowed(claim.unc, ideal.doubts)
      BY <2>1, <2>2 DEF IntervalOK
    <3>2. QED BY <2>1, <3>1 DEF Narrowed, AtMost
  <2>3. KindsOf(ideal) = {u.kind : u \in ideal.doubts}
    BY DEF KindsOf
  <2>4. QED BY <2>1, <2>2, <2>3 DEF IntervalIsIntersection, IntervalOK, IntervalKept
<1>4. QED BY <1>1, <1>2, <1>3, ChainInvariant, PTL DEF ChainSpec

=============================================================================
