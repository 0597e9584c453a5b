---------------------------- MODULE MCValueChain ----------------------------
(***************************************************************************)
(* The instance of ValueChain that TLC checks: eight-bit integers, scales  *)
(* up to 2 as 10^2 is the largest power of ten they hold, and premises of  *)
(* every kind of number, of two base units and of every kind of            *)
(* uncertainty.  1/7 and 3/20 have denominators whose product leaves the   *)
(* width; so does 100 when it is compared with 1/2.                        *)
(***************************************************************************)
EXTENDS ValueChainProps

metre == [b \in {"m"} |-> 1]
second == [b \in {"s"} |-> 1]

Premise(ty, v, u) == [ty |-> ty, value |-> v, unc |-> u]
Half == Ratio(1, 2)

MCPremises ==
  { Premise("int", NumValue(Whole(-3)), Exact),
    Premise("uint", NumValue(Whole(-3)), Exact),
    Premise("rational", NumValue(Rational(2, -4)), Probability(Half, Whole(1))),
    Premise("rational", NumValue(Ratio(1, 7)), ExternallyAsserted("a")),
    Premise("decimal", NumValue(Decimal(15, 2)), EvidenceWeight(Half)),
    Premise("int", NumValue(Whole(MinInt)), Exact),
    Premise("rational", NumValue(Whole(0)), Extension("k")),
    Premise("quantity", Quantity(Whole(2), metre), NumericInterval(Whole(0), Whole(2))),
    Premise("quantity", Quantity(Decimal(5, 1), second), NumericInterval(Whole(1), Whole(3))),
    Premise("quantity", Quantity(Whole(3), metre), NumericInterval(Whole(3), Whole(4))),
    Premise("quantity", Quantity(Whole(1), metre), NumericInterval(Whole(2), Whole(1))),
    Premise("quantity", Quantity(Whole(1), metre), NumericInterval(Half, Whole(100))),
    Premise("quantity", Quantity(Whole(0), metre), Exact),
    Premise("quantity", Quantity(Whole(1), second), Unknown),
    Premise("bool", Truth(TRUE), Conflicting),
    Premise("interval", Interval(Whole(2), Whole(1)), Exact),
    Premise("opaque", Opaque, Exact) }

\* Small fractions only: no step overflows before a denominator saturates.
MCFractions ==
  {Premise("rational", NumValue(Ratio(1, d)), Exact) : d \in {2, 3, 5, 7, 9}}
    \cup {Premise("quantity", Quantity(Ratio(1, d), metre), Exact) : d \in {4, 5}}
=============================================================================
