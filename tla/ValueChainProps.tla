-------------------------- MODULE ValueChainProps --------------------------
(* What the builtin operations promise of the values and uncertainties     *)
(* they compute, over any chain of derivations.                            *)
EXTENDS ValueChain

\* Type invariant.  Every number a derivation returns is within the width,
\* with a positive denominator or a scale of at most MaxScale, although the
\* arithmetic of num.rs negates and rescales without checks and divides by a
\* possibly negative numerator; and no derived interval is upside down, as
\* comparisons go: a program may state one that is.  That a fraction is in lowest
\* terms is not part of it: see RationalsReduced.
ChainTypeOK ==
  /\ NumsOf(claim.value) \subseteq Num
  /\ claim.unc # Rejected
  /\ outcome \in {"ok", "refused", "stopped"}
  /\ derives \in 0..MaxDerives
  /\ claim.value.type = "interval" /\ derives > 0
       => ~Less(claim.value.hi, claim.value.lo)

\* Exactness (spec/type-system.md, "All arithmetic is exact"), where the code
\* does keep it: as long as the denominators of each step have a product in
\* the width, no unchecked product or negation overflowed and no least integer
\* was negated, the chain's value is the one unbounded rational arithmetic
\* gives, whatever mixture of integers, rationals and decimals and of
\* unreduced results it went through.
ExactWhileRoomy == ideal.roomy => Meaning(claim.value) = ideal.meaning

\* Dimensional analysis: the unit of a quantity at the end of the chain is,
\* base by base, the exponent the premises' units give, and is canonical, so
\* that quantities of one dimension can always be added (unit.rs same_dimension)
\* and two derivations of one quantity have equal units; not equal magnitudes,
\* for 2/2 is not 1.
UnitsAreDimensions ==
  claim.value.type = "quantity" =>
    /\ Dimension(claim.value) = ideal.dimension
    /\ \A b \in DOMAIN claim.value.unit : claim.value.unit[b] # 0

\* The numeric intervals among the premises' uncertainties.
NumericDoubts == {u \in ideal.doubts : u.kind = "numeric"}

Disjoint(U) == \E u, v \in U : ExactOrder(Exactly(u.hi), Exactly(v.lo)) = -1

\* The strongest doubt of the premises prevails, in whatever order the match of
\* combine meets them: Unknown over Conflicting, that over every other model, and
\* those over Exact.  An external assertion is the weakest of them: the result is
\* one just when some premise is and every other is exact or external too.  What
\* uncertainty.rs:78 says of it is ExternalPassedThrough.
StrongestDoubt ==
  claim.value.type \in {"num", "quantity"} =>
    LET kinds == {u.kind : u \in ideal.doubts}
    IN /\ claim.unc.kind = "exact" <=> kinds = {"exact"}
       /\ claim.unc.kind = "unknown" <=> "unknown" \in kinds
       /\ "conflicting" \in kinds /\ "unknown" \notin kinds =>
            claim.unc.kind = "conflicting"
       /\ claim.unc.kind = "external" <=>
            "external" \in kinds /\ kinds \subseteq {"exact", "external"}

\* The intervals have bounds that can be compared with each other: the products of
\* cmp_num and the product of two denominators stay in the width.
BoundsOf(U) == UNION {{u.lo, u.hi} : u \in U}
Comparable(U) ==
  \A b, c \in BoundsOf(U) :
    Fits(ToRational(b).d * ToRational(c).d) /\ ~Cmp(b, c).over

\* As long as the bounds the chain has met can be compared, a numeric interval
\* at its end lies within each numeric interval among the premises and has one
\* of their bounds at either end: the narrowing of combine is their
\* intersection, in whatever order they met.  If that intersection is empty the
\* result is Conflicting, unless the chain has met one interval only, stated
\* upside down (see IntervalsOrdered).  Arithmetic makes a result Conflicting
\* for no other reason than that or a premise's being so, and drops no numeric
\* interval for a doubt of another kind.
IntervalIsIntersection ==
  Comparable(NumericDoubts) =>
  /\ claim.unc.kind = "numeric" =>
       /\ \A u \in NumericDoubts :
            /\ ExactOrder(Exactly(u.lo), Exactly(claim.unc.lo)) <= 0
            /\ ExactOrder(Exactly(claim.unc.hi), Exactly(u.hi)) <= 0
       /\ claim.unc.lo \in {u.lo : u \in NumericDoubts}
       /\ claim.unc.hi \in {u.hi : u \in NumericDoubts}
       /\ Disjoint(NumericDoubts) => NumericDoubts = {claim.unc}
  /\ claim.value.type \in {"num", "quantity"} =>
       LET kinds == {u.kind : u \in ideal.doubts}
       IN /\ claim.unc.kind = "conflicting" =>
               /\ "unknown" \notin kinds
               /\ "conflicting" \in kinds \/ Disjoint(NumericDoubts)
          /\ "numeric" \in kinds => claim.unc.kind \in {"numeric", "conflicting", "unknown"}

\* The promise of spec/type-system.md:31, "All arithmetic is exact:
\* checked_add, checked_sub, checked_mul, checked_div return a NumError on
\* overflow or division by zero rather than producing an approximate result".
\* It fails: the least common multiple saturates and addition goes on with a
\* denominator that is a multiple of neither.
ExactOrRefused ==
  ideal.known => Meaning(claim.value) = ideal.meaning

\* What num.rs:17 says, "Reduced rational with `den > 0`", num.rs:4 and
\* spec/type-system.md:27, "`gcd(num, den) = 1`".  reduce_to_num divides nothing
\* out: one half and one half are two halves.
RationalsReduced ==
  \A x \in NumsOf(claim.value) : x.kind = "rational" => Gcd(x.n, x.d) = 1

\* What uncertainty.rs:78 says, "External assertion dominates (we do not recompute
\* it)", and spec/uncertainty.md:29, "passed through": only Unknown and
\* Conflicting come before it.  It gives way to every other model.
ExternalPassedThrough ==
  claim.value.type \in {"num", "quantity"} =>
    LET kinds == {u.kind : u \in ideal.doubts}
    IN "external" \in kinds /\ kinds \cap {"unknown", "conflicting"} = {} =>
         claim.unc.kind = "external"

\* What spec/uncertainty.md:55-56 lists among the rejection conditions, "`lo > hi`
\* for any interval": no derived claim carries a numeric interval upside down.
\* Only bounds of probabilities are looked at, and a single interval is passed on
\* as it was stated.
IntervalsOrdered ==
  derives > 0 /\ claim.unc.kind = "numeric" =>
    ExactOrder(Exactly(claim.unc.lo), Exactly(claim.unc.hi)) <= 0

=============================================================================
