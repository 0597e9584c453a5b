------------------------------- MODULE Numbers -------------------------------
(***************************************************************************)
(* Num of axiom-types: the exact numbers of claim values, as integers,     *)
(* rationals and decimals over machine integers.  The code's width is      *)
(* i128; here it is any MinInt..MaxInt.                                    *)
(*                                                                         *)
(* The code checks some operations for overflow and leaves others to the   *)
(* build: with overflow checks (the debug profile) they panic, without     *)
(* (the release profile) they wrap.  An operation therefore answers a      *)
(* record: `num` is what it returns when the unchecked steps wrap, or      *)
(* Error, and `over` says whether an unchecked step left the width.        *)
(***************************************************************************)
EXTENDS Integers

CONSTANTS MaxInt,   \* i128::MAX
          MaxScale  \* 38, the largest scale of a decimal

ASSUME WidthAssumption ==
  /\ MaxInt \in Nat \ {0}
  /\ MaxScale \in Nat
  /\ \A s \in 0..MaxScale : 10^s \in 1..MaxInt

MinInt == -MaxInt - 1
Width == MinInt..MaxInt
Fits(x) == x \in Width
Wrap(x) == ((x - MinInt) % (2 * (MaxInt + 1))) + MinInt
Abs(x) == IF x < 0 THEN -x ELSE x

\* Num, and the NumError the operations return instead.  For a decimal, d is
\* the scale.
Whole(n) == [kind |-> "int", n |-> n, d |-> 1]
Ratio(n, d) == [kind |-> "rational", n |-> n, d |-> d]
Decimal(m, s) == [kind |-> "decimal", n |-> m, d |-> s]
Error == [kind |-> "error", n |-> 0, d |-> 1]

\* reduce_to_num calls itself without end on the most negative denominator.
Endless == [kind |-> "endless", n |-> 0, d |-> 1]

\* The fractions are what the code makes of them, in lowest terms or not.
Num ==
  [kind : {"int"}, n : Width, d : {1}]
    \cup [kind : {"rational"}, n : Width, d : 1..MaxInt]
    \cup [kind : {"decimal"}, n : Width, d : 0..MaxScale]

-----------------------------------------------------------------------------
euclid[p \in Nat \X Nat] ==
  IF p[2] = 0 THEN p[1] ELSE euclid[<<p[2], p[1] % p[2]>>]

\* gcd(a, b), at least 1.
Gcd(a, b) ==
  LET g == euclid[<<Abs(a), Abs(b)>>] IN IF g = 0 THEN 1 ELSE g

\* lcm(a, b) of two denominators: the largest integer when their product
\* overflows, which is no multiple of either.
Lcm(a, b) == IF Fits(a * b) THEN (a * b) \div Gcd(a, b) ELSE MaxInt

\* Num::rational: reduced, with a positive denominator.
Rational(n, d) ==
  LET sign == IF d < 0 THEN -1 ELSE 1
      g == Gcd(n, d)
  IN IF d = 0 THEN Error ELSE Ratio(Wrap(sign * n) \div g, (sign * d) \div g)

\* Num::to_rational: the numerator and denominator of a number; only a
\* decimal is reduced.
ToRational(x) ==
  IF x.kind = "decimal"
  THEN LET g == Gcd(x.n, 10^x.d) IN [n |-> x.n \div g, d |-> 10^x.d \div g]
  ELSE [n |-> x.n, d |-> x.d]

IsZero(x) == x.n = 0

\* A plausible bug: a negative denominator is not moved to the numerator.
ReduceUnsigned(n, d) ==
  IF d = 0 THEN Error ELSE IF d = 1 THEN Whole(n) ELSE Ratio(n, d)

\* A plausible bug: the denominator's sign is dropped, not moved.
ReduceDroppingSign(n, d) ==
  IF d = MinInt THEN Endless
  ELSE IF d = 0 THEN Error
  ELSE IF Abs(d) = 1 THEN Whole(n) ELSE Ratio(n, Abs(d))

\* reduce_to_num: an integer for denominator 1, a decimal for a power of ten,
\* and otherwise a rational as it stands: nothing is divided out.
ReduceToNum(n, d) ==
  LET m == IF d < 0 THEN Wrap(-n) ELSE n
      e == Abs(d)
      scales == {s \in 1..MaxScale : 10^s = e}
  IN IF d = MinInt THEN Endless
     ELSE IF d = 0 THEN Error
     ELSE IF e = 1 THEN Whole(m)
     ELSE IF scales # {} THEN Decimal(m, CHOOSE s \in scales : TRUE)
     ELSE Ratio(m, e)

-----------------------------------------------------------------------------
(* The operations.                                                         *)

\* Two fractions over the denominator den; the two products are unchecked.
Rescaled(p, q, den) ==
  LET left == p.n * (den \div p.d)
      right == q.n * (den \div q.d)
  IN [left |-> Wrap(left), right |-> Wrap(right), den |-> den,
      over |-> ~Fits(left) \/ ~Fits(right)]

OverCommon(p, q) == Rescaled(p, q, Lcm(p.d, q.d))

\* Both numbers over their common denominator, as checked_add and cmp_num
\* compute it.
Scaled(x, y) == OverCommon(ToRational(x), ToRational(y))

Add(x, y) ==
  LET s == Scaled(x, y)
  IN [num |-> IF Fits(s.left + s.right)
              THEN ReduceToNum(s.left + s.right, s.den) ELSE Error,
      over |-> s.over]

\* checked_neg: of an integer by wrapping_neg, which is silent in every build.
Neg(x) ==
  [num |-> [x EXCEPT !.n = Wrap(-x.n)],
   over |-> x.kind # "int" /\ x.n = MinInt]

Sub(x, y) ==
  LET minus == Neg(y)
      sum == Add(minus.num, x)
  IN [sum EXCEPT !.over = @ \/ minus.over]

Mul(x, y) ==
  LET p == ToRational(x)
      q == ToRational(y)
  IN [num |-> IF Fits(p.n * q.n) /\ Fits(p.d * q.d)
              THEN ReduceToNum(p.n * q.n, p.d * q.d) ELSE Error,
      over |-> FALSE]

Div(x, y) ==
  LET p == ToRational(x)
      q == ToRational(y)
      n == p.n * q.d
      d == p.d * q.n
  IN [num |-> IF ~IsZero(y) /\ Fits(n) /\ Fits(d)
              THEN ReduceToNum(n, d) ELSE Error,
      over |-> ~IsZero(y) /\ n = MinInt /\ Fits(d) /\ d < 0]

\* cmp_num: -1, 0 or 1.
Cmp(x, y) ==
  LET s == Scaled(x, y)
  IN [ord |-> IF s.left < s.right THEN -1
              ELSE IF s.left > s.right THEN 1 ELSE 0,
      over |-> s.over]

Less(x, y) == Cmp(x, y).ord = -1

\* Serialize, then Deserialize: a rational comes back through Num::rational.
Reload(x) == IF x.kind = "rational" THEN Rational(x.n, x.d) ELSE x

=============================================================================
