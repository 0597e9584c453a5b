----------------------------- MODULE Uncertainty -----------------------------
(***************************************************************************)
(* The uncertainty algebra of axiom-types: what a claim's uncertainty may  *)
(* be and how two are combined when both claims must hold.  Bounds are     *)
(* compared by cmp_num, whose products are unchecked: an uncertainty is    *)
(* what they give when they wrap, and an operator of its own says whether  *)
(* one left the width, where a build with overflow checks panics.          *)
(***************************************************************************)
EXTENDS Numbers

Exact == [kind |-> "exact"]
Unknown == [kind |-> "unknown"]
Conflicting == [kind |-> "conflicting"]
Probability(lo, hi) == [kind |-> "probability", lo |-> lo, hi |-> hi]
NumericInterval(lo, hi) == [kind |-> "numeric", lo |-> lo, hi |-> hi]
EvidenceWeight(w) == [kind |-> "weight", weight |-> w]
ExternallyAsserted(source) == [kind |-> "external", source |-> source]
Extension(name) == [kind |-> "extension", name |-> name]

\* UncertaintyError: no uncertainty at all.
Rejected == [kind |-> "rejected"]

-----------------------------------------------------------------------------
BoundsOk(u) ==
  /\ ~Less(u.hi, u.lo)
  /\ \A b \in {u.lo, u.hi} : ~Less(b, Whole(0)) /\ ~Less(Whole(1), b)

\* A comparison of bounds_ok that leaves the width before one that rejects.
BoundsOver(u) ==
  \/ Cmp(u.lo, u.hi).over
  \/ /\ ~Less(u.hi, u.lo)
     /\ \E b \in {u.lo, u.hi}, n \in {0, 1} : Cmp(b, Whole(n)).over

ProbabilityOver(u, v) == BoundsOver(u) \/ (BoundsOk(u) /\ BoundsOver(v))

ProbabilityProduct(u, v) ==
  LET lo == Mul(u.lo, v.lo).num
      hi == Mul(u.hi, v.hi).num
  IN IF BoundsOk(u) /\ BoundsOk(v) /\ Error \notin {lo, hi}
     THEN Probability(lo, hi) ELSE Rejected

WeightProduct(u, v) ==
  LET w == Mul(u.weight, v.weight).num
  IN IF w = Error \/ Less(Whole(1), w) THEN Rejected ELSE EvidenceWeight(w)

WeightOver(u, v) ==
  LET w == Mul(u.weight, v.weight).num IN w # Error /\ Cmp(w, Whole(1)).over

\* A plausible bug: the interval that covers both.
Hull(u, v) ==
  NumericInterval(IF Less(v.lo, u.lo) THEN v.lo ELSE u.lo,
                  IF Less(u.hi, v.hi) THEN v.hi ELSE u.hi)

HigherLo(u, v) == IF Less(v.lo, u.lo) THEN u.lo ELSE v.lo
LowerHi(u, v) == IF Less(u.hi, v.hi) THEN u.hi ELSE v.hi

Intersection(u, v) ==
  IF Less(LowerHi(u, v), HigherLo(u, v)) THEN Conflicting
  ELSE NumericInterval(HigherLo(u, v), LowerHi(u, v))

IntersectionOver(u, v) ==
  \/ Cmp(u.lo, v.lo).over \/ Cmp(u.hi, v.hi).over
  \/ Cmp(HigherLo(u, v), LowerHi(u, v)).over

\* A plausible bug: an external assertion comes before every other rule.
CombineExternalFirst(u, v) ==
  IF u.kind = "external" THEN u
  ELSE IF v.kind = "external" THEN v
  ELSE IF u = Exact THEN v
  ELSE IF v = Exact THEN u
  ELSE IF Unknown \in {u, v} THEN Unknown ELSE Conflicting

\* Uncertainty::combine, its arms in the order of the match.
Combine(u, v) ==
  LET kinds == {u.kind, v.kind}
  IN IF u = Exact THEN v
     ELSE IF v = Exact THEN u
     ELSE IF "unknown" \in kinds THEN Unknown
     ELSE IF "conflicting" \in kinds THEN Conflicting
     ELSE IF u.kind = "external" THEN v
     ELSE IF v.kind = "external" THEN u
     ELSE IF kinds = {"probability"} THEN ProbabilityProduct(u, v)
     ELSE IF kinds = {"weight"} THEN WeightProduct(u, v)
     ELSE IF kinds = {"numeric"} THEN Intersection(u, v)
     ELSE Rejected

\* Whether a comparison that combine makes leaves the width.
CombineOver(u, v) ==
  /\ u.kind = v.kind
  /\ CASE u.kind = "probability" -> ProbabilityOver(u, v)
       [] u.kind = "weight" -> WeightOver(u, v)
       [] u.kind = "numeric" -> IntersectionOver(u, v)
       [] OTHER -> FALSE

=============================================================================
