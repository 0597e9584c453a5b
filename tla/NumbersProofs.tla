------------------------------ MODULE NumbersProofs ------------------------------
(***************************************************************************)
(* Proofs about numbers of any width: Euclid's algorithm, fractions, and   *)
(* the operations of num.rs, which stay in the width and, where their      *)
(* unchecked steps do, are those of exact arithmetic.                      *)
(***************************************************************************)
EXTENDS ValueChain, RecursionLemmas

-----------------------------------------------------------------------------
(* Euclid's algorithm. *)

\* The pair of the next round.
Remainder(p) == <<p[2], p[1] % p[2]>>

LEMMA RemainderSmaller ==
  ASSUME NEW p \in Nat \X Nat, p[2] # 0
  PROVE  Remainder(p) \in Nat \X Nat /\ Remainder(p)[2] < p[2] /\ Remainder(p)[1] = p[2]
<1>1. PICK a \in Nat, b \in Nat \ {0} : p[1] = a /\ p[2] = b
  OBVIOUS
<1>2. a % b \in Nat /\ a % b < b
  OBVIOUS
<1>3. QED BY <1>1, <1>2 DEF Remainder

\* The recursion is well defined: a round makes the second number smaller.
LEMMA EuclidUnfolds ==
  euclid = [p \in Nat \X Nat |-> IF p[2] = 0 THEN p[1] ELSE euclid[Remainder(p)]]
<1> DEFINE Pairs == Nat \X Nat
           S == [Pairs -> Nat]
           F == [w \in S |-> [p \in Pairs |-> IF p[2] = 0 THEN p[1] ELSE w[Remainder(p)]]]
           start == [p \in Pairs |-> 0]
<1>1. F \in [S -> S] /\ start \in S
  <2>1. ASSUME NEW w \in S, NEW p \in Pairs
        PROVE  (IF p[2] = 0 THEN p[1] ELSE w[Remainder(p)]) \in Nat
    BY RemainderSmaller
  <2>2. QED BY <2>1
<1>2. \A w \in S : \A p \in Pairs :
        F[w][p] = IF p[2] = 0 THEN p[1] ELSE w[Remainder(p)]
  OBVIOUS
<1> HIDE DEF F, start, S
<1>3. PICK g \in [Nat -> S] : \A n \in Nat : g[n + 1] = F[g[n]]
  BY <1>1, IterationExists
<1>4. \A n \in Nat : \A p \in Pairs :
        g[n + 1][p] = IF p[2] = 0 THEN p[1] ELSE g[n][Remainder(p)]
  <2>1. ASSUME NEW n \in Nat, NEW p \in Pairs
        PROVE  g[n + 1][p] = IF p[2] = 0 THEN p[1] ELSE g[n][Remainder(p)]
    <3>1. PICK w \in S : w = g[n]
      BY <1>3
    <3>2. g[n + 1] = F[w]
      BY <1>3, <3>1
    <3>3. F[w][p] = IF p[2] = 0 THEN p[1] ELSE w[Remainder(p)]
      BY <1>2
    <3>4. QED BY <3>1, <3>2, <3>3
  <2>2. QED BY <2>1
<1> DEFINE P == {n \in Nat : \A q \in Pairs : q[2] < n => g[n + 1][q] = g[n][q]}
<1>5. Nat \subseteq P
  <2>1. 0 \in P
    OBVIOUS
  <2>2. ASSUME NEW n \in Nat, n \in P PROVE n + 1 \in P
    <3>1. SUFFICES ASSUME NEW q \in Pairs, q[2] < n + 1
                   PROVE  g[(n + 1) + 1][q] = g[n + 1][q]
      BY DEF P
    <3>2. n + 1 \in Nat
      OBVIOUS
    <3>3. CASE q[2] = 0
      <4>1. g[(n + 1) + 1][q] = q[1]
        BY <1>4, <3>2, <3>3
      <4>2. g[n + 1][q] = q[1]
        BY <1>4, <3>3
      <4>3. QED BY <4>1, <4>2
    <3>4. CASE q[2] # 0
      <4>1. Remainder(q) \in Pairs /\ Remainder(q)[2] < n
        BY <3>1, <3>4, RemainderSmaller
      <4>2. g[n + 1][Remainder(q)] = g[n][Remainder(q)]
        BY <2>2, <4>1
      <4>3. QED BY <1>4, <3>2, <3>4, <4>2
    <3>5. QED BY <3>3, <3>4
  <2> HIDE DEF P
  <2>3. QED BY <2>1, <2>2, InductionNat
<1>6. ASSUME NEW q \in Pairs, NEW m \in Nat, q[2] < m PROVE g[m][q] = g[q[2] + 1][q]
  <2> DEFINE k == q[2] + 1
             Q == {i \in Nat : g[k + i][q] = g[k][q]}
  <2>1. k \in Nat
    OBVIOUS
  <2>2. 0 \in Q
    BY <2>1
  <2>3. ASSUME NEW i \in Nat, i \in Q PROVE i + 1 \in Q
    <3>1. k + i \in Nat /\ q[2] < k + i /\ (k + i) + 1 = k + (i + 1)
      OBVIOUS
    <3>2. g[(k + i) + 1][q] = g[k + i][q]
      BY <1>5, <3>1
    <3>3. QED BY <2>3, <3>1, <3>2
  <2>4. Nat \subseteq Q
    <3> HIDE DEF Q
    <3>1. QED BY <2>2, <2>3, InductionNat
  <2>5. m - k \in Nat /\ k + (m - k) = m
    BY <1>6
  <2>6. QED BY <2>4, <2>5
<1> DEFINE h == [p \in Pairs |-> g[p[2] + 1][p]]
<1>7. ASSUME NEW p \in Pairs
      PROVE  h[p] = IF p[2] = 0 THEN p[1] ELSE h[Remainder(p)]
  <2>1. p[2] \in Nat
    OBVIOUS
  <2>2. h[p] = IF p[2] = 0 THEN p[1] ELSE g[p[2]][Remainder(p)]
    BY <1>4, <2>1
  <2>3. ASSUME p[2] # 0 PROVE g[p[2]][Remainder(p)] = h[Remainder(p)]
    BY <1>6, <2>1, <2>3, RemainderSmaller
  <2>4. QED BY <2>2, <2>3
<1>8. h = [p \in Pairs |-> IF p[2] = 0 THEN p[1] ELSE h[Remainder(p)]]
  <2>1. h = [p \in Pairs |-> h[p]]
    OBVIOUS
  <2> HIDE DEF h
  <2>2. QED BY <1>7, <2>1
<1>9. \E f : f = [p \in Nat \X Nat |-> IF p[2] = 0 THEN p[1] ELSE f[<<p[2], p[1] % p[2]>>]]
  BY <1>8 DEF Remainder
<1>10. euclid = [p \in Nat \X Nat |-> IF p[2] = 0 THEN p[1] ELSE euclid[<<p[2], p[1] % p[2]>>]]
  BY <1>9, Zenon DEF euclid
<1>11. QED BY <1>10 DEF Remainder

\* What a round answers is what the next one does.
LEMMA EuclidRound ==
  ASSUME NEW a \in Nat, NEW b \in Nat
  PROVE  euclid[<<a, b>>] = IF b = 0 THEN a ELSE euclid[<<b, a % b>>]
BY EuclidUnfolds DEF Remainder

\* The divisor is positive unless both numbers are 0, and no larger than the
\* second one unless that is 0.
LEMMA EuclidBounds ==
  ASSUME NEW a \in Nat, NEW b \in Nat
  PROVE  /\ euclid[<<a, b>>] \in Nat
         /\ b > 0 => euclid[<<a, b>>] \in 1..b
<1> DEFINE Fine(x, y) == /\ euclid[<<x, y>>] \in Nat
                         /\ y > 0 => 1 <= euclid[<<x, y>>] /\ euclid[<<x, y>>] <= y
           P == {n \in Nat : \A x, y \in Nat : y <= n => Fine(x, y)}
<1>1. 0 \in P
  <2>1. ASSUME NEW x \in Nat, NEW y \in Nat, y <= 0 PROVE Fine(x, y)
    <3>1. y = 0
      BY <2>1
    <3>2. euclid[<<x, y>>] = x
      BY <3>1, EuclidRound
    <3>3. QED BY <3>1, <3>2
  <2>2. QED BY <2>1
<1>2. ASSUME NEW n \in Nat, n \in P PROVE n + 1 \in P
  <2>1. \A x, y \in Nat : y <= n => Fine(x, y)
    BY <1>2
  <2>2. ASSUME NEW x \in Nat, NEW y \in Nat, y <= n + 1 PROVE Fine(x, y)
    <3>1. CASE y <= n
      BY <2>1, <3>1
    <3>2. CASE y = n + 1
      <4>1. y # 0 /\ x % y \in Nat /\ x % y < y
        BY <3>2
      <4>2. PICK r \in Nat : r = x % y /\ r <= n
        BY <3>2, <4>1
      <4>3. euclid[<<x, y>>] = euclid[<<y, r>>]
        BY <4>1, <4>2, EuclidRound
      <4>4. Fine(y, r)
        <5> HIDE DEF Fine
        <5>1. QED BY <2>1, <4>2
      <4>5. r = 0 => euclid[<<y, r>>] = y
        BY EuclidRound
      <4>6. QED BY <3>2, <4>2, <4>3, <4>4, <4>5
    <3>3. QED BY <2>2, <3>1, <3>2
  <2> HIDE DEF Fine
  <2>3. QED BY <2>2
<1>3. Nat \subseteq P
  <2> HIDE DEF P
  <2>1. QED BY <1>1, <1>2, InductionNat
<1>4. Fine(a, b)
  <2> HIDE DEF Fine
  <2>1. b \in P
    BY <1>3
  <2>2. QED BY <2>1
<1>5. QED BY <1>4

\* The order of the two numbers does not matter.
LEMMA EuclidSymmetric ==
  ASSUME NEW a \in Nat, NEW b \in Nat
  PROVE  euclid[<<a, b>>] = euclid[<<b, a>>]
<1>1. ASSUME NEW x \in Nat, NEW y \in Nat, x < y PROVE euclid[<<x, y>>] = euclid[<<y, x>>]
  <2>1. x % y = x
    BY <1>1
  <2>2. QED BY <1>1, <2>1, EuclidRound
<1>2. CASE a < b
  BY <1>1, <1>2
<1>3. CASE b < a
  BY <1>1, <1>3
<1>4. QED BY <1>2, <1>3

\* gcd is positive, symmetric and no larger than a second number that is not 0.
LEMMA GcdBounds ==
  ASSUME NEW a \in Int, NEW b \in Int
  PROVE  /\ Gcd(a, b) \in Nat \ {0} /\ Gcd(a, b) = Gcd(b, a)
         /\ b > 0 => Gcd(a, b) <= b
<1>1. PICK x \in Nat, y \in Nat : x = Abs(a) /\ y = Abs(b)
  BY DEF Abs
<1>2. euclid[<<x, y>>] \in Nat /\ (y > 0 => euclid[<<x, y>>] \in 1..y)
  BY EuclidBounds
<1>3. euclid[<<x, y>>] = euclid[<<y, x>>]
  BY EuclidSymmetric
<1>4. b > 0 => y = b
  BY <1>1 DEF Abs
<1>5. QED BY <1>1, <1>2, <1>3, <1>4 DEF Gcd

-----------------------------------------------------------------------------
(* Numbers. *)

\* Wrapping brings any integer into the width.
LEMMA WrapFits ==
  ASSUME NEW x \in Int
  PROVE  Wrap(x) \in Width
<1> DEFINE m == 2 * (MaxInt + 1)
<1>1. MaxInt \in Nat /\ m \in Nat /\ m > 0
  BY WidthAssumption
<1>2. x - MinInt \in Int
  BY <1>1 DEF MinInt
<1>3. (x - MinInt) % m \in 0..(m - 1)
  <2> HIDE DEF m
  <2>1. QED BY <1>1, <1>2
<1>4. QED BY <1>1, <1>3 DEF Wrap, Width, MinInt

\* Dividing by a positive number leaves the width only towards 0.
LEMMA QuotientFits ==
  ASSUME NEW n \in Int, NEW g \in Nat \ {0}
  PROVE  /\ n \div g \in Int
         /\ n >= 0 => 0 <= n \div g /\ n \div g <= n
         /\ n < 0 => n <= n \div g /\ n \div g < 0
         /\ n >= g => n \div g >= 1
<1>1. PICK q \in Int, r \in Int : q = n \div g /\ r = n % g
  OBVIOUS
<1>2. n = g * q + r /\ 0 <= r /\ r < g
  BY <1>1
<1>3. n >= 0 => 0 <= q /\ q <= n
  BY <1>2
<1>4. n < 0 => n <= q /\ q < 0
  BY <1>2
<1>5. n >= g => q >= 1
  BY <1>2
<1>6. QED BY <1>1, <1>3, <1>4, <1>5

\* The width is a range of integers about 0.
LEMMA WidthRange ==
  /\ MaxInt \in Nat \ {0} /\ MinInt \in Int /\ Width \subseteq Int
  /\ \A n \in Int : n \in Width <=> MinInt <= n /\ n <= MaxInt
  /\ MinInt < 0 /\ \A d \in 1..MaxInt : d \in Int /\ d > 0
BY WidthAssumption DEF Width, MinInt

LEMMA WidthQuotient ==
  ASSUME NEW n \in Width, NEW g \in Nat \ {0}
  PROVE  n \div g \in Width
<1>1. n \in Int /\ MinInt <= n /\ n <= MaxInt
  BY WidthRange
<1>2. PICK q \in Int : /\ q = n \div g
                       /\ n >= 0 => 0 <= q /\ q <= n
                       /\ n < 0 => n <= q /\ q < 0
  BY <1>1, QuotientFits
<1>3. MinInt <= q /\ q <= MaxInt
  BY <1>1, <1>2, WidthRange
<1>4. QED BY <1>2, <1>3, WidthRange

LEMMA PositiveQuotient ==
  ASSUME NEW d \in 1..MaxInt, NEW g \in Nat \ {0}, g <= d
  PROVE  d \div g \in 1..MaxInt
<1>1. d \in Int /\ MaxInt \in Nat
  BY WidthRange
<1>2. PICK q \in Int : q = d \div g /\ 1 <= q /\ q <= d
  BY <1>1, QuotientFits
<1>3. QED BY <1>1, <1>2

\* The fields of a number.
LEMMA NumFields ==
  ASSUME NEW x \in Num
  PROVE  /\ x.kind \in {"int", "rational", "decimal"} /\ x.n \in Width
         /\ x.kind = "int" => x.d = 1
         /\ x.kind = "rational" => x.d \in 1..MaxInt
         /\ x.kind = "decimal" => x.d \in 0..MaxScale
         /\ x = [kind |-> x.kind, n |-> x.n, d |-> x.d]
BY DEF Num

\* to_rational gives integers and a positive denominator, in the width.
LEMMA RationalForm ==
  ASSUME NEW x \in Num
  PROVE  ToRational(x).n \in Width /\ ToRational(x).d \in 1..MaxInt
<1>1. MaxInt \in Nat \ {0} /\ 1 \in 1..MaxInt
  BY WidthRange
<1>2. CASE x.kind # "decimal"
  BY <1>1, <1>2, NumFields DEF ToRational
<1>3. CASE x.kind = "decimal"
  <2>1. PICK n \in Width, e \in 1..MaxInt : n = x.n /\ e = 10^x.d
    BY <1>3, NumFields, WidthAssumption
  <2>2. n \in Int /\ e \in Int /\ e > 0
    BY WidthRange
  <2>3. PICK g \in Nat \ {0} : g = Gcd(n, e) /\ g <= e
    BY <2>2, GcdBounds
  <2>4. n \div g \in Width /\ e \div g \in 1..MaxInt
    BY <2>3, WidthQuotient, PositiveQuotient
  <2>5. ToRational(x) = [n |-> n \div g, d |-> e \div g]
    BY <1>3, <2>1, <2>3 DEF ToRational
  <2>6. QED BY <2>4, <2>5
<1>4. QED BY <1>2, <1>3

\* The common denominator is in the width, whatever saturates.
LEMMA LcmFits ==
  ASSUME NEW a \in 1..MaxInt, NEW b \in 1..MaxInt
  PROVE  Lcm(a, b) \in Width /\ Lcm(a, b) \in Nat /\ Lcm(a, b) = Lcm(b, a)
<1>1. MaxInt \in Nat \ {0} /\ a \in Nat /\ b \in Nat /\ a \in Int /\ b \in Int
  BY WidthRange
<1>2. PICK p \in Nat : p = a * b /\ p = b * a
  BY <1>1
<1>3. PICK g \in Nat \ {0} : g = Gcd(a, b)
  BY <1>1, GcdBounds
<1>4. g = Gcd(b, a)
  BY <1>1, <1>3, GcdBounds
<1>5. PICK q \in Nat : q = p \div g
  BY <1>2, <1>3, QuotientFits
<1>6. Fits(p) => q \in Width
  BY <1>5, WidthQuotient DEF Fits
<1>7. Lcm(a, b) = (IF Fits(p) THEN q ELSE MaxInt) /\ Lcm(b, a) = Lcm(a, b)
  BY <1>2, <1>3, <1>4, <1>5 DEF Lcm
<1>8. MaxInt \in Width
  BY WidthRange
<1>9. QED BY <1>1, <1>6, <1>7, <1>8

\* Two numbers over a common denominator: machine integers, and the same two
\* the other way round.
LEMMA ScaledForm ==
  ASSUME NEW x \in Num, NEW y \in Num
  PROVE  /\ {Scaled(x, y).left, Scaled(x, y).right, Scaled(x, y).den} \subseteq Width
         /\ Scaled(y, x).left = Scaled(x, y).right
         /\ Scaled(y, x).right = Scaled(x, y).left
<1>1. PICK p, q : p = ToRational(x) /\ q = ToRational(y)
  OBVIOUS
<1>2. /\ p.n \in Width /\ p.d \in 1..MaxInt
      /\ q.n \in Width /\ q.d \in 1..MaxInt
  BY <1>1, RationalForm
<1>3. MaxInt \in Nat \ {0} /\ Width \subseteq Int
  BY WidthAssumption DEF Width, MinInt
<1>4. PICK den \in Nat : den = Lcm(p.d, q.d) /\ den = Lcm(q.d, p.d) /\ den \in Width
  BY <1>2, LcmFits
<1>5. PICK k \in Int, m \in Int : k = den \div p.d /\ m = den \div q.d
  BY <1>2, <1>3
<1>6. PICK l \in Int, r \in Int : l = p.n * k /\ r = q.n * m
  <2>1. PICK a \in Int, b \in Int : a = p.n /\ b = q.n
    BY <1>2, <1>3
  <2>2. a * k \in Int /\ b * m \in Int
    OBVIOUS
  <2>3. QED BY <2>1, <2>2
<1>7. Scaled(x, y) = [left |-> Wrap(l), right |-> Wrap(r), den |-> den,
                      over |-> ~Fits(l) \/ ~Fits(r)]
  BY <1>1, <1>4, <1>5, <1>6 DEF Scaled, OverCommon, Rescaled
<1>8. Scaled(y, x) = [left |-> Wrap(r), right |-> Wrap(l), den |-> den,
                      over |-> ~Fits(r) \/ ~Fits(l)]
  BY <1>1, <1>4, <1>5, <1>6 DEF Scaled, OverCommon, Rescaled
<1>9. Wrap(l) \in Width /\ Wrap(r) \in Width
  BY WrapFits
<1>10. QED BY <1>4, <1>7, <1>8, <1>9

\* What the operations end with is a number, an error or a recursion without
\* end.
LEMMA ReduceFits ==
  ASSUME NEW n \in Width, NEW d \in Width
  PROVE  ReduceToNum(n, d) \in Num \cup {Error, Endless}
<1>1. MaxInt \in Nat \ {0} /\ n \in Int /\ d \in Int
  BY WidthAssumption DEF Width, MinInt
<1>2. PICK m \in Width : m = IF d < 0 THEN Wrap(-n) ELSE n
  <2>1. -n \in Int
    BY <1>1
  <2>2. Wrap(-n) \in Width
    BY <2>1, WrapFits
  <2>3. QED BY <2>2
<1>3. PICK e \in Nat : e = Abs(d)
  BY <1>1 DEF Abs
<1>4. d # MinInt /\ d # 0 => e \in 1..MaxInt
  BY <1>1, <1>3 DEF Abs, Width, MinInt
<1> DEFINE scales == {s \in 1..MaxScale : 10^s = e}
<1>5. ReduceToNum(n, d) =
        IF d = MinInt THEN Endless
        ELSE IF d = 0 THEN Error
        ELSE IF e = 1 THEN Whole(m)
        ELSE IF scales # {} THEN Decimal(m, CHOOSE s \in scales : TRUE)
        ELSE Ratio(m, e)
  BY <1>2, <1>3 DEF ReduceToNum
<1>6. Whole(m) \in Num
  BY DEF Whole, Num
<1>7. e \in 1..MaxInt => Ratio(m, e) \in Num
  BY DEF Ratio, Num
<1>8. scales # {} => Decimal(m, CHOOSE s \in scales : TRUE) \in Num
  <2>1. ASSUME scales # {} PROVE (CHOOSE s \in scales : TRUE) \in scales
    BY <2>1
  <2>2. scales \subseteq 0..MaxScale
    BY WidthAssumption
  <2> HIDE DEF scales
  <2>3. QED BY <2>1, <2>2 DEF Decimal, Num
<1> HIDE DEF scales
<1>9. QED BY <1>4, <1>5, <1>6, <1>7, <1>8

Answers == Num \cup {Error, Endless}

\* Each operation answers with a number of the width or not with a number.
LEMMA AddFits ==
  ASSUME NEW x \in Num, NEW y \in Num
  PROVE  Add(x, y).num \in Answers
<1>1. PICK s : s = Scaled(x, y)
  OBVIOUS
<1>2. s.left \in Width /\ s.right \in Width /\ s.den \in Width
  BY <1>1, ScaledForm
<1>3. Fits(s.left + s.right) => ReduceToNum(s.left + s.right, s.den) \in Answers
  BY <1>2, ReduceFits DEF Fits, Answers
<1>4. Error \in Answers
  BY DEF Answers
<1>5. QED BY <1>1, <1>3, <1>4 DEF Add

LEMMA NegFits ==
  ASSUME NEW x \in Num
  PROVE  Neg(x).num \in Num
<1>1. x.n \in Int
  BY NumFields, WidthAssumption DEF Width, MinInt
<1>2. PICK m \in Width : m = Wrap(-x.n)
  BY <1>1, WrapFits
<1>3. [x EXCEPT !.n = m] \in Num
  BY DEF Num
<1>4. QED BY <1>2, <1>3 DEF Neg

LEMMA SubFits ==
  ASSUME NEW x \in Num, NEW y \in Num
  PROVE  Sub(x, y).num \in Answers
<1>1. PICK minus \in Num : minus = Neg(y).num
  BY NegFits
<1>2. PICK sum : sum = Add(minus, x)
  OBVIOUS
<1>3. sum.num \in Answers
  BY <1>2, AddFits
<1>4. Sub(x, y).num = sum.num
  BY <1>1, <1>2 DEF Sub
<1>5. QED BY <1>3, <1>4

LEMMA MulFits ==
  ASSUME NEW x \in Num, NEW y \in Num
  PROVE  Mul(x, y).num \in Answers
<1>1. Error \in Answers
  BY DEF Answers
<1>2. QED BY <1>1, ReduceFits DEF Mul, Fits, Answers

LEMMA DivFits ==
  ASSUME NEW x \in Num, NEW y \in Num
  PROVE  Div(x, y).num \in Answers
<1>1. Error \in Answers
  BY DEF Answers
<1>2. QED BY <1>1, ReduceFits DEF Div, Fits, Answers

LEMMA ArithmeticFits ==
  ASSUME NEW op \in NumOps \cup QuantityOps, NEW x \in Num, NEW y \in Num
  PROVE  Arithmetic(op, x, y).num \in Answers
BY AddFits, SubFits, MulFits, DivFits DEF Arithmetic, NumOps, QuantityOps

\* A comparison of two numbers is the opposite of that of the second with the
\* first, even if its products wrap.
LEMMA CmpOpposite ==
  ASSUME NEW x \in Num, NEW y \in Num, Cmp(x, y).ord # 1
  PROVE  ~Less(y, x)
<1>1. PICK s, t : s = Scaled(x, y) /\ t = Scaled(y, x)
  OBVIOUS
<1>2. /\ s.left \in Int /\ s.right \in Int
      /\ t.left = s.right /\ t.right = s.left
  BY <1>1, ScaledForm, WidthAssumption DEF Width, MinInt
<1>3. Cmp(x, y).ord = IF s.left < s.right THEN -1 ELSE IF s.left > s.right THEN 1 ELSE 0
  BY <1>1 DEF Cmp
<1>4. Cmp(y, x).ord = IF t.left < t.right THEN -1 ELSE IF t.left > t.right THEN 1 ELSE 0
  BY <1>1 DEF Cmp
<1>5. QED BY <1>2, <1>3, <1>4 DEF Less

\* A receipt log gives a number back, if perhaps another one.
LEMMA ReloadFits ==
  ASSUME NEW x \in Num
  PROVE  Reload(x) \in Num
<1>1. CASE x.kind # "rational"
  BY <1>1 DEF Reload
<1>2. CASE x.kind = "rational"
  <2>1. PICK n \in Width, d \in 1..MaxInt : n = x.n /\ d = x.d
    BY <1>2, NumFields
  <2>2. n \in Int /\ d \in Int /\ d > 0
    BY WidthRange
  <2>3. PICK g \in Nat \ {0} : g = Gcd(n, d) /\ g <= d
    BY <2>2, GcdBounds
  <2>4. PICK w \in Width : w = Wrap(n)
    BY <2>2, WrapFits
  <2>5. w \div g \in Width /\ d \div g \in 1..MaxInt
    BY <2>3, WidthQuotient, PositiveQuotient
  <2>6. 1 * n = n /\ 1 * d = d
    BY <2>2
  <2>7. Reload(x) = Ratio(w \div g, d \div g)
    BY <1>2, <2>1, <2>2, <2>3, <2>4, <2>6 DEF Reload, Rational
  <2>8. QED BY <2>5, <2>7 DEF Ratio, Num
<1>3. QED BY <1>1, <1>2

-----------------------------------------------------------------------------
(* Fractions. *)

\* Quotient and remainder are determined by what they satisfy.
LEMMA DivisionUnique ==
  ASSUME NEW m \in Nat \ {0}, NEW q \in Int, NEW r \in 0..(m - 1)
  PROVE  (m * q + r) % m = r /\ (m * q + r) \div m = q
<1>1. PICK x \in Int : x = m * q + r
  OBVIOUS
<1>2. PICK p \in Int, s \in Int : p = x \div m /\ s = x % m
  OBVIOUS
<1>3. x = m * p + s /\ 0 <= s /\ s < m
  BY <1>2
<1>4. m * (q - p) = s - r
  <2>1. m * (q - p) = m * q - m * p
    OBVIOUS
  <2>2. QED BY <1>1, <1>3, <2>1
<1>5. ~(q - p >= 1)
  <2>1. ASSUME q - p >= 1 PROVE m * (q - p) >= m
    BY <2>1
  <2>2. QED BY <1>3, <1>4, <2>1
<1>6. ~(q - p <= -1)
  <2>1. ASSUME q - p <= -1 PROVE m * (q - p) <= -m
    BY <2>1
  <2>2. QED BY <1>3, <1>4, <2>1
<1>7. q = p
  BY <1>5, <1>6
<1>8. r = s
  BY <1>1, <1>3, <1>7
<1>9. QED BY <1>1, <1>2, <1>7, <1>8

\* A product is divided by one of its factors.
LEMMA ProductQuotient ==
  ASSUME NEW g \in Nat \ {0}, NEW q \in Int
  PROVE  (g * q) \div g = q
<1>1. 0 \in 0..(g - 1) /\ g * q + 0 = g * q
  OBVIOUS
<1>2. QED BY <1>1, DivisionUnique

\* The divisor of a number and 0 is the number.
LEMMA EuclidNothing ==
  ASSUME NEW a \in Nat
  PROVE  euclid[<<a, 0>>] = a
<1>1. PICK z \in Nat : z = 0
  OBVIOUS
<1>2. euclid[<<a, z>>] = a
  BY <1>1, EuclidRound
<1>3. QED BY <1>1, <1>2

\* A common factor of two numbers is one of their divisor.
LEMMA EuclidScales ==
  ASSUME NEW k \in Nat \ {0}, NEW a \in Nat, NEW b \in Nat
  PROVE  euclid[<<k * a, k * b>>] = k * euclid[<<a, b>>]
<1> DEFINE Scales(x, y) == euclid[<<k * x, k * y>>] = k * euclid[<<x, y>>]
           P == {n \in Nat : \A x, y \in Nat : y <= n => Scales(x, y)}
<1>1. \A x \in Nat : Scales(x, 0)
  <2>1. ASSUME NEW x \in Nat PROVE Scales(x, 0)
    <3>1. PICK u \in Nat : u = k * x
      OBVIOUS
    <3>2. euclid[<<u, 0>>] = u /\ euclid[<<x, 0>>] = x
      BY EuclidNothing
    <3>3. k * 0 = 0
      OBVIOUS
    <3>4. QED BY <3>1, <3>2, <3>3
  <2>2. QED BY <2>1
<1>2. 0 \in P
  <2>1. ASSUME NEW x \in Nat, NEW y \in Nat, y <= 0 PROVE y = 0
    BY <2>1
  <2> HIDE DEF Scales
  <2>2. QED BY <1>1, <2>1
<1>3. ASSUME NEW n \in Nat, n \in P PROVE n + 1 \in P
  <2>1. \A x, y \in Nat : y <= n => Scales(x, y)
    BY <1>3
  <2>2. ASSUME NEW x \in Nat, NEW y \in Nat, y <= n + 1, y # 0 PROVE Scales(x, y)
    <3>1. PICK q \in Int, r \in Int : q = x \div y /\ r = x % y
      BY <2>2
    <3>2. x = y * q + r /\ r \in 0..(y - 1) /\ r <= n /\ r \in Nat
      BY <2>2, <3>1
    <3>3. PICK u \in Nat, v \in Nat \ {0}, w \in Nat : u = k * x /\ v = k * y /\ w = k * r
      <4>1. k * y # 0
        BY <2>2
      <4>2. QED BY <3>2, <4>1
    <3>4. w \in 0..(v - 1)
      <4>1. k * (y - r) >= k
        BY <3>2
      <4>2. k * (y - r) = v - w
        BY <3>2, <3>3
      <4>3. QED BY <3>3, <4>1, <4>2
    <3>5. u = v * q + w
      <4>1. k * (y * q + r) = (k * y) * q + k * r
        BY <3>2
      <4>2. QED BY <3>2, <3>3, <4>1
    <3>6. u % v = w
      BY <3>4, <3>5, DivisionUnique
    <3>7. euclid[<<u, v>>] = euclid[<<v, w>>]
      BY <3>6, EuclidRound
    <3>8. euclid[<<x, y>>] = euclid[<<y, r>>]
      BY <2>2, <3>1, EuclidRound
    <3>9. Scales(y, r)
      <4> HIDE DEF Scales
      <4>1. QED BY <2>1, <3>2
    <3>10. QED BY <3>3, <3>7, <3>8, <3>9
  <2> HIDE DEF Scales
  <2>3. ASSUME NEW x \in Nat, NEW y \in Nat, y <= n + 1 PROVE Scales(x, y)
    <3>1. CASE y = 0
      BY <1>1, <3>1
    <3>2. CASE y # 0
      BY <2>2, <2>3, <3>2
    <3>3. QED BY <3>1, <3>2
  <2>4. QED BY <2>3
<1>4. Nat \subseteq P
  <2> HIDE DEF P
  <2>1. QED BY <1>2, <1>3, InductionNat
<1>5. Scales(a, b)
  <2> HIDE DEF Scales
  <2>1. b \in P
    BY <1>4
  <2>2. QED BY <2>1
<1>6. QED BY <1>5

\* The divisor divides both numbers.
LEMMA EuclidDivides ==
  ASSUME NEW a \in Nat, NEW b \in Nat
  PROVE  \E x, y \in Nat : a = euclid[<<a, b>>] * x /\ b = euclid[<<a, b>>] * y
<1> DEFINE Divides(u, v) ==
             \E x, y \in Nat : u = euclid[<<u, v>>] * x /\ v = euclid[<<u, v>>] * y
           P == {n \in Nat : \A u, v \in Nat : v <= n => Divides(u, v)}
<1>1. \A u \in Nat : Divides(u, 0)
  <2>1. ASSUME NEW u \in Nat PROVE Divides(u, 0)
    <3>1. u = u * 1 /\ 0 = u * 0
      OBVIOUS
    <3>2. QED BY <3>1, EuclidNothing
  <2>2. QED BY <2>1
<1>2. 0 \in P
  <2>1. ASSUME NEW v \in Nat, v <= 0 PROVE v = 0
    BY <2>1
  <2> HIDE DEF Divides
  <2>2. QED BY <1>1, <2>1
<1>3. ASSUME NEW n \in Nat, n \in P PROVE n + 1 \in P
  <2>1. \A u, v \in Nat : v <= n => Divides(u, v)
    BY <1>3
  <2>2. ASSUME NEW u \in Nat, NEW v \in Nat, v <= n + 1, v # 0 PROVE Divides(u, v)
    <3>1. PICK q \in Nat, r \in Nat : q = u \div v /\ r = u % v
      <4>1. u \div v \in Nat
        BY <2>2, QuotientFits
      <4>2. u % v \in Nat
        BY <2>2
      <4>3. QED BY <4>1, <4>2
    <3>2. u = v * q + r /\ r < v /\ r <= n
      BY <2>2, <3>1
    <3>3. PICK g \in Nat : g = euclid[<<u, v>>] /\ g = euclid[<<v, r>>]
      BY <2>2, <3>1, EuclidRound, EuclidBounds
    <3>4. Divides(v, r)
      <4> HIDE DEF Divides
      <4>1. QED BY <2>1, <3>2
    <3>5. PICK x \in Nat, y \in Nat : v = g * x /\ r = g * y
      BY <3>3, <3>4
    <3>6. u = g * (x * q + y)
      <4>1. (g * x) * q + g * y = g * (x * q + y)
        OBVIOUS
      <4>2. QED BY <3>2, <3>5, <4>1
    <3>7. x * q + y \in Nat
      OBVIOUS
    <3>8. QED BY <3>3, <3>5, <3>6, <3>7
  <2> HIDE DEF Divides
  <2>3. ASSUME NEW u \in Nat, NEW v \in Nat, v <= n + 1 PROVE Divides(u, v)
    <3>1. CASE v = 0
      BY <1>1, <3>1
    <3>2. CASE v # 0
      BY <2>2, <2>3, <3>2
    <3>3. QED BY <3>1, <3>2
  <2>4. QED BY <2>3
<1>4. Nat \subseteq P
  <2> HIDE DEF P
  <2>1. QED BY <1>2, <1>3, InductionNat
<1>5. Divides(a, b)
  <2> HIDE DEF Divides
  <2>1. b \in P
    BY <1>4
  <2>2. QED BY <2>1
<1>6. QED BY <1>5

\* A common factor that is not 0 may be left out.
LEMMA Cancel ==
  ASSUME NEW k \in Nat \ {0}, NEW a \in Int, NEW b \in Int, k * a = k * b
  PROVE  a = b
BY ProductQuotient

\* gcd divides both numbers, whatever their signs.
LEMMA GcdDivides ==
  ASSUME NEW n \in Int, NEW d \in Int, d # 0
  PROVE  /\ Gcd(n, d) = euclid[<<Abs(n), Abs(d)>>]
         /\ \E x, y \in Int : n = Gcd(n, d) * x /\ d = Gcd(n, d) * y
<1>1. PICK a \in Nat, b \in Nat \ {0} : a = Abs(n) /\ b = Abs(d)
  BY DEF Abs
<1>2. PICK g \in Nat \ {0} : g = euclid[<<a, b>>]
  BY EuclidBounds
<1>3. Gcd(n, d) = g
  BY <1>1, <1>2 DEF Gcd
<1>4. PICK x \in Nat, y \in Nat : a = g * x /\ b = g * y
  BY <1>2, EuclidDivides
<1>5. \E z \in Int : n = g * z
  <2>1. CASE n = a
    BY <1>4, <2>1
  <2>2. CASE n = -a
    <3>1. n = g * (-x) /\ -x \in Int
      BY <1>4, <2>2
    <3>2. QED BY <3>1
  <2>3. QED BY <1>1, <2>1, <2>2 DEF Abs
<1>6. \E z \in Int : d = g * z
  <2>1. CASE d = b
    BY <1>4, <2>1
  <2>2. CASE d = -b
    <3>1. d = g * (-y) /\ -y \in Int
      BY <1>4, <2>2
    <3>2. QED BY <3>1
  <2>3. QED BY <1>1, <2>1, <2>2 DEF Abs
<1>7. QED BY <1>1, <1>2, <1>3, <1>5, <1>6

\* The sign of a fraction may be moved.
LEMMA LowestNegated ==
  ASSUME NEW n \in Int, NEW d \in Int, d < 0
  PROVE  Lowest(n, d) = Lowest(-n, -d)
<1>1. PICK m \in Int, e \in Int : m = -n /\ e = -d
  OBVIOUS
<1>2. Abs(m) = Abs(n) /\ Abs(e) = Abs(d)
  BY <1>1 DEF Abs
<1>3. PICK g : g = Gcd(n, d) /\ g = Gcd(m, e)
  BY <1>2 DEF Gcd
<1>4. (-1) * n = m /\ (-1) * d = e /\ 1 * m = m /\ 1 * e = e /\ ~(e < 0)
  BY <1>1
<1>5. Lowest(n, d) = [n |-> m \div g, d |-> e \div g]
  BY <1>3, <1>4 DEF Lowest
<1>6. Lowest(m, e) = [n |-> m \div g, d |-> e \div g]
  BY <1>3, <1>4 DEF Lowest
<1>7. QED BY <1>1, <1>5, <1>6

\* Lowest terms, of a fraction with a positive denominator.
LEMMA LowestForm ==
  ASSUME NEW n \in Int, NEW d \in Nat \ {0}
  PROVE  \E g \in Nat \ {0}, x \in Int, y \in Nat \ {0} :
           /\ g = euclid[<<Abs(n), d>>] /\ n = g * x /\ d = g * y
           /\ Lowest(n, d) = [n |-> x, d |-> y]
<1>1. d \in Int /\ d # 0 /\ Abs(d) = d
  BY DEF Abs
<1>2. PICK g : g = Gcd(n, d)
  OBVIOUS
<1>3. g \in Nat \ {0}
  BY <1>1, <1>2, GcdBounds
<1>4. g = euclid[<<Abs(n), Abs(d)>>]
  BY <1>1, <1>2, GcdDivides
<1>5. \E x, y \in Int : n = g * x /\ d = g * y
  <2>1. \E x, y \in Int : n = Gcd(n, d) * x /\ d = Gcd(n, d) * y
    BY <1>1, GcdDivides
  <2>2. QED BY <1>2, <2>1
<1>6. PICK x \in Int, y \in Int : n = g * x /\ d = g * y
  BY <1>5
<1>7. y \in Nat \ {0}
  <2>1. ASSUME y <= 0 PROVE g * y <= 0
    BY <1>3, <2>1
  <2>2. QED BY <1>6, <2>1
<1>8. n \div g = x /\ d \div g = y
  BY <1>3, <1>6, ProductQuotient
<1>9. 1 * n = n /\ 1 * d = d /\ ~(d < 0)
  OBVIOUS
<1>10. Lowest(n, d) = [n |-> x, d |-> y]
  BY <1>2, <1>8, <1>9 DEF Lowest
<1>11. g = euclid[<<Abs(n), d>>]
  BY <1>1, <1>4
<1>12. QED BY <1>3, <1>6, <1>7, <1>10, <1>11

\* Equal fractions have the same lowest terms: the divisors of the two differ by
\* the factor by which the fractions do.
LEMMA SamePositive ==
  ASSUME NEW n \in Int, NEW d \in Nat \ {0}, NEW m \in Int, NEW e \in Nat \ {0},
         n * e = m * d
  PROVE  Lowest(n, d) = Lowest(m, e)
<1>1. PICK g \in Nat \ {0}, x \in Int, y \in Nat \ {0} :
           /\ g = euclid[<<Abs(n), d>>] /\ n = g * x /\ d = g * y
           /\ Lowest(n, d) = [n |-> x, d |-> y]
  BY LowestForm
<1>2. PICK h \in Nat \ {0}, u \in Int, v \in Nat \ {0} :
           /\ h = euclid[<<Abs(m), e>>] /\ m = h * u /\ e = h * v
           /\ Lowest(m, e) = [n |-> u, d |-> v]
  BY LowestForm
<1>3. PICK a \in Nat, b \in Nat : a = Abs(n) /\ b = Abs(m)
  BY DEF Abs
<1>4. e * a = d * b
  <2>1. CASE n >= 0
    <3>1. m >= 0
      <4>1. ASSUME m < 0 PROVE m * d < 0
        BY <4>1
      <4>2. n * e >= 0
        BY <2>1
      <4>3. QED BY <4>1, <4>2
    <3>2. QED BY <1>3, <2>1, <3>1 DEF Abs
  <2>2. CASE n < 0
    <3>1. m < 0
      <4>1. ASSUME m >= 0 PROVE m * d >= 0
        BY <4>1
      <4>2. n * e < 0
        BY <2>2
      <4>3. QED BY <4>1, <4>2
    <3>2. a = -n /\ b = -m
      BY <1>3, <2>2, <3>1 DEF Abs
    <3>3. e * (-n) = -(n * e) /\ d * (-m) = -(m * d)
      OBVIOUS
    <3>4. QED BY <3>2, <3>3
  <2>3. QED BY <2>1, <2>2
<1>5. e * g = d * h
  <2> d \in Nat /\ e \in Nat
    OBVIOUS
  <2>1. euclid[<<e * a, e * d>>] = e * g
    <3>1. g = euclid[<<a, d>>]
      BY <1>1, <1>3
    <3>2. euclid[<<e * a, e * d>>] = e * euclid[<<a, d>>]
      BY EuclidScales
    <3>3. QED BY <3>1, <3>2
  <2>2. euclid[<<d * b, d * e>>] = d * h
    <3>1. h = euclid[<<b, e>>]
      BY <1>2, <1>3
    <3>2. euclid[<<d * b, d * e>>] = d * euclid[<<b, e>>]
      BY EuclidScales
    <3>3. QED BY <3>1, <3>2
  <2>3. e * d = d * e
    OBVIOUS
  <2>4. QED BY <1>4, <2>1, <2>2, <2>3
<1>6. PICK k \in Nat \ {0} : k = g * h
  <2>1. g * h # 0
    OBVIOUS
  <2>2. QED BY <2>1
<1>7. y = v
  <2>1. e * g = k * v
    <3>1. (h * v) * g = (g * h) * v
      OBVIOUS
    <3>2. QED BY <1>2, <1>6, <3>1
  <2>2. d * h = k * y
    <3>1. (g * y) * h = (g * h) * y
      OBVIOUS
    <3>2. QED BY <1>1, <1>6, <3>1
  <2>3. QED BY <1>5, <2>1, <2>2, Cancel
<1>8. x = u
  <2>1. n * e = k * (x * v)
    <3>1. (g * x) * (h * v) = (g * h) * (x * v)
      OBVIOUS
    <3>2. QED BY <1>1, <1>2, <1>6, <3>1
  <2>2. m * d = k * (u * y)
    <3>1. (h * u) * (g * y) = (g * h) * (u * y)
      OBVIOUS
    <3>2. QED BY <1>1, <1>2, <1>6, <3>1
  <2>3. PICK p \in Int, q \in Int : p = v * x /\ q = v * u
    OBVIOUS
  <2>4. x * v = p /\ u * y = q
    BY <1>7, <2>3
  <2>5. k * p = k * q
    BY <2>1, <2>2, <2>4
  <2>6. p = q
    BY <2>5, Cancel
  <2>7. QED BY <2>3, <2>6, Cancel
<1>9. QED BY <1>1, <1>2, <1>7, <1>8

\* Products of numbers whose signs are changed.
LEMMA MinusProducts ==
  ASSUME NEW a \in Int, NEW b \in Int
  PROVE  (-a) * b = -(a * b) /\ a * (-b) = -(a * b) /\ (-a) * (-b) = a * b
OBVIOUS

\* Any two fractions that are equal have the same lowest terms.
LEMMA SameFraction ==
  ASSUME NEW n \in Int, NEW d \in Int, d # 0, NEW m \in Int, NEW e \in Int, e # 0,
         n * e = m * d
  PROVE  Lowest(n, d) = Lowest(m, e)
<1>1. PICK a \in Int, b \in Int, p \in Int, q \in Int :
        a = -n /\ b = -d /\ p = -m /\ q = -e
  OBVIOUS
<1>2. /\ a * e = p * d /\ n * q = m * b /\ a * q = p * b
  BY <1>1, MinusProducts
<1>3. CASE d > 0 /\ e > 0
  BY <1>3, SamePositive
<1>4. CASE d < 0 /\ e > 0
  <2>1. Lowest(n, d) = Lowest(a, b)
    BY <1>1, <1>4, LowestNegated
  <2>2. b \in Nat \ {0} /\ e \in Nat \ {0}
    BY <1>1, <1>4
  <2>3. a * e = m * b
    BY <1>1, MinusProducts
  <2>4. Lowest(a, b) = Lowest(m, e)
    BY <2>2, <2>3, SamePositive
  <2>5. QED BY <2>1, <2>4
<1>5. CASE d > 0 /\ e < 0
  <2>1. Lowest(m, e) = Lowest(p, q)
    BY <1>1, <1>5, LowestNegated
  <2>2. q \in Nat \ {0} /\ d \in Nat \ {0}
    BY <1>1, <1>5
  <2>3. n * q = p * d
    BY <1>1, MinusProducts
  <2>4. Lowest(n, d) = Lowest(p, q)
    BY <2>2, <2>3, SamePositive
  <2>5. QED BY <2>1, <2>4
<1>6. CASE d < 0 /\ e < 0
  <2>1. Lowest(n, d) = Lowest(a, b)
    BY <1>1, <1>6, LowestNegated
  <2>2. Lowest(m, e) = Lowest(p, q)
    BY <1>1, <1>6, LowestNegated
  <2>3. b \in Nat \ {0} /\ q \in Nat \ {0}
    BY <1>1, <1>6
  <2>4. a * q = p * b
    BY <1>2
  <2>5. Lowest(a, b) = Lowest(p, q)
    BY <2>3, <2>4, SamePositive
  <2>6. QED BY <2>1, <2>2, <2>5
<1>7. QED BY <1>3, <1>4, <1>5, <1>6

\* Lowest terms are a fraction equal to the one they are of, over a positive
\* denominator.
LEMMA LowestEqual ==
  ASSUME NEW n \in Int, NEW d \in Int, d # 0
  PROVE  \E x \in Int, y \in Nat \ {0} : Lowest(n, d) = [n |-> x, d |-> y] /\ x * d = n * y
<1>1. ASSUME NEW m \in Int, NEW e \in Nat \ {0}
      PROVE  \E x \in Int, y \in Nat \ {0} : Lowest(m, e) = [n |-> x, d |-> y] /\ x * e = m * y
  <2>1. PICK g \in Nat \ {0}, x \in Int, y \in Nat \ {0} :
           /\ g = euclid[<<Abs(m), e>>] /\ m = g * x /\ e = g * y
           /\ Lowest(m, e) = [n |-> x, d |-> y]
    BY LowestForm
  <2>2. x * (g * y) = (g * x) * y
    OBVIOUS
  <2>3. QED BY <2>1, <2>2
<1>2. CASE d > 0
  <2>1. d \in Nat \ {0}
    BY <1>2
  <2>2. QED BY <1>1, <2>1
<1>3. CASE d < 0
  <2>1. PICK m \in Int, e \in Nat \ {0} : m = -n /\ e = -d
    BY <1>3
  <2>2. Lowest(n, d) = Lowest(m, e)
    BY <1>3, <2>1, LowestNegated
  <2>3. PICK x \in Int, y \in Nat \ {0} : Lowest(m, e) = [n |-> x, d |-> y] /\ x * e = m * y
    BY <1>1
  <2>4. x * e = -(x * d) /\ m * y = -(n * y)
    BY <2>1, MinusProducts
  <2>5. x * d = n * y
    BY <2>3, <2>4
  <2>6. QED BY <2>2, <2>3, <2>5
<1>4. QED BY <1>2, <1>3

-----------------------------------------------------------------------------
(* The operations against exact arithmetic. *)

\* An integer of the width wraps to itself.
LEMMA WrapSame ==
  ASSUME NEW n \in Width
  PROVE  Wrap(n) = n
<1>1. PICK m \in Nat \ {0} : m = 2 * (MaxInt + 1)
  BY WidthAssumption
<1>2. n \in Int /\ MinInt \in Int /\ n - MinInt \in 0..(m - 1)
  BY <1>1, WidthAssumption DEF Width, MinInt
<1>3. PICK r \in 0..(m - 1) : r = n - MinInt
  BY <1>2
<1>4. r % m = r
  BY <1>3
<1>5. QED BY <1>1, <1>2, <1>3, <1>4 DEF Wrap

\* Where the least integer is neither negated nor a denominator, what
\* reduce_to_num answers is the fraction it was given.
LEMMA ReduceExact ==
  ASSUME NEW n \in Width, NEW d \in Width, d # 0, d # MinInt, d < 0 => n # MinInt
  PROVE  ReduceToNum(n, d) \in Num /\ Exactly(ReduceToNum(n, d)) = Lowest(n, d)
<1>1. MaxInt \in Nat \ {0} /\ n \in Int /\ d \in Int
  BY WidthRange
<1>2. PICK m \in Int : m = IF d < 0 THEN -n ELSE n
  BY <1>1
<1>3. m \in Width
  BY <1>1, <1>2 DEF Width, MinInt
<1>4. m = IF d < 0 THEN Wrap(-n) ELSE n
  BY <1>2, <1>3, WrapSame
<1>5. PICK e \in Nat \ {0} : e = Abs(d)
  BY <1>1 DEF Abs
<1>6. e \in 1..MaxInt
  BY <1>1, <1>5 DEF Abs, Width, MinInt
<1>7. Lowest(m, e) = Lowest(n, d)
  <2>1. CASE d < 0
    <3>1. m = -n /\ e = -d
      BY <1>1, <1>2, <1>5, <2>1 DEF Abs
    <3>2. Lowest(n, d) = Lowest(-n, -d)
      BY <1>1, <2>1, LowestNegated
    <3>3. QED BY <3>1, <3>2
  <2>2. CASE d > 0
    <3>1. m = n /\ e = d
      BY <1>1, <1>2, <1>5, <2>2 DEF Abs
    <3>2. QED BY <3>1
  <2>3. QED BY <1>1, <2>1, <2>2
<1> DEFINE scales == {s \in 1..MaxScale : 10^s = e}
<1>8. ReduceToNum(n, d) =
        IF e = 1 THEN Whole(m)
        ELSE IF scales # {} THEN Decimal(m, CHOOSE s \in scales : TRUE)
        ELSE Ratio(m, e)
  BY <1>4, <1>5 DEF ReduceToNum
<1>9. Whole(m) \in Num /\ Exactly(Whole(m)) = Lowest(m, 1)
  BY <1>3 DEF Whole, Num, Exactly
<1>10. Ratio(m, e) \in Num /\ Exactly(Ratio(m, e)) = Lowest(m, e)
  BY <1>3, <1>6 DEF Ratio, Num, Exactly
<1>11. ASSUME scales # {}
       PROVE  LET x == Decimal(m, CHOOSE s \in scales : TRUE)
              IN x \in Num /\ Exactly(x) = Lowest(m, e)
  <2>1. PICK s : s = CHOOSE t \in scales : TRUE
    OBVIOUS
  <2>2. s \in scales
    BY <1>11, <2>1
  <2>3. s \in 0..MaxScale /\ 10^s = e
    BY <2>2, WidthAssumption
  <2>4. Decimal(m, s) \in Num /\ Exactly(Decimal(m, s)) = Lowest(m, e)
    BY <1>3, <2>3 DEF Decimal, Num, Exactly
  <2> HIDE DEF scales
  <2>5. QED BY <2>1, <2>4
<1> HIDE DEF scales
<1>12. QED BY <1>7, <1>8, <1>9, <1>10, <1>11

\* to_rational gives a fraction equal to the number.
LEMMA RationalExact ==
  ASSUME NEW x \in Num
  PROVE  Exactly(x) = Lowest(ToRational(x).n, ToRational(x).d)
<1>1. CASE x.kind # "decimal"
  BY <1>1 DEF Exactly, ToRational
<1>2. CASE x.kind = "decimal"
  <2>1. PICK n \in Int, e \in Nat \ {0} : n = x.n /\ e = 10^x.d
    <3>1. x.n \in Int
      BY NumFields, WidthRange
    <3>2. 10^x.d \in 1..MaxInt /\ MaxInt \in Nat
      BY <1>2, NumFields, WidthAssumption
    <3>3. 10^x.d \in Nat \ {0}
      BY <3>2
    <3>4. QED BY <3>1, <3>3
  <2>2. e \in Int /\ e # 0
    OBVIOUS
  <2>3. PICK g \in Nat \ {0} : g = Gcd(n, e)
    BY <2>2, GcdBounds
  <2>4. \E u, v \in Int : n = Gcd(n, e) * u /\ e = Gcd(n, e) * v
    BY <2>2, GcdDivides
  <2>5. PICK u \in Int, v \in Int : n = g * u /\ e = g * v
    BY <2>3, <2>4
  <2>6. n \div g = u /\ e \div g = v
    BY <2>5, ProductQuotient
  <2>7. ToRational(x).n = u /\ ToRational(x).d = v
    BY <1>2, <2>1, <2>3, <2>6 DEF ToRational
  <2>8. v # 0
    BY <2>2, <2>5
  <2>9. n * v = u * e
    <3>1. (g * u) * v = u * (g * v)
      OBVIOUS
    <3>2. QED BY <2>5, <3>1
  <2>10. Lowest(n, e) = Lowest(u, v)
    BY <2>2, <2>8, <2>9, SameFraction
  <2>11. QED BY <1>2, <2>1, <2>7, <2>10 DEF Exactly
<1>3. QED BY <1>1, <1>2

\* A number as its lowest terms, and as the fraction the operations compute
\* with.
LEMMA OperandForm ==
  ASSUME NEW x \in Num
  PROVE  \E n \in Int, d \in Nat \ {0}, a \in Int, b \in Nat \ {0} :
           /\ ToRational(x).n = n /\ ToRational(x).d = d
           /\ Exactly(x) = [n |-> a, d |-> b] /\ a * d = n * b
<1>1. PICK n, d : n = ToRational(x).n /\ d = ToRational(x).d
  OBVIOUS
<1>2. n \in Width /\ d \in 1..MaxInt
  BY <1>1, RationalForm
<1>3. n \in Int /\ d \in Nat \ {0} /\ d \in Int /\ d # 0
  BY <1>2, WidthRange
<1>4. PICK a \in Int, b \in Nat \ {0} : Lowest(n, d) = [n |-> a, d |-> b] /\ a * d = n * b
  BY <1>3, LowestEqual
<1>5. Exactly(x) = Lowest(n, d)
  BY <1>1, RationalExact
<1>6. QED BY <1>1, <1>3, <1>4, <1>5

\* Fractions that are the same give the same sums, products and quotients.
LEMMA SumFraction ==
  ASSUME NEW n \in Int, NEW d \in Nat \ {0}, NEW a \in Int, NEW b \in Nat \ {0}, a * d = n * b,
         NEW m \in Int, NEW e \in Nat \ {0}, NEW u \in Int, NEW v \in Nat \ {0}, u * e = m * v
  PROVE  /\ (n * e + m * d) * (b * v) = (a * v + u * b) * (d * e)
         /\ (n * m) * (b * v) = (a * u) * (d * e)
         /\ (n * e) * (b * u) = (a * v) * (d * m)
<1>1. (n * e + m * d) * (b * v) = (n * b) * (e * v) + (m * v) * (d * b)
  OBVIOUS
<1>2. (a * v + u * b) * (d * e) = (a * d) * (v * e) + (u * e) * (b * d)
  OBVIOUS
<1>3. (n * m) * (b * v) = (n * b) * (m * v) /\ (a * u) * (d * e) = (a * d) * (u * e)
  OBVIOUS
<1>4. (n * e) * (b * u) = (n * b) * (u * e) /\ (a * v) * (d * m) = (a * d) * (m * v)
  OBVIOUS
<1>5. PICK p \in Int, q \in Int : p = n * b /\ q = m * v /\ p = a * d /\ q = u * e
  OBVIOUS
<1>6. e * v = v * e /\ d * b = b * d
  OBVIOUS
<1>7. QED BY <1>1, <1>2, <1>3, <1>4, <1>5, <1>6

LEMMA ProductNonzero ==
  ASSUME NEW b \in Int, NEW d \in Int, b # 0, d # 0
  PROVE  b * d \in Int /\ b * d # 0
OBVIOUS

LEMMA ProductPositive ==
  ASSUME NEW b \in Nat \ {0}, NEW d \in Nat \ {0}
  PROVE  b * d \in Nat \ {0}
OBVIOUS

\* The divisor of two denominators and what is left of each.
CommonFactors(d, e, g, k, l) ==
  /\ d = g * k /\ e = g * l /\ Lcm(d, e) = d * l
  /\ Lcm(d, e) \div d = l /\ Lcm(d, e) \div e = k

\* Two fractions over their common denominator, where the product of their
\* denominators is in the width.
LEMMA CommonForm ==
  ASSUME NEW d \in Nat \ {0}, NEW e \in Nat \ {0}, Fits(d * e)
  PROVE  \E g \in Nat \ {0}, k \in Nat \ {0}, l \in Nat \ {0} : CommonFactors(d, e, g, k, l)
<1>1. d \in Int /\ e \in Int /\ e # 0
  OBVIOUS
<1>2. PICK g \in Nat \ {0} : g = Gcd(d, e)
  BY <1>1, GcdBounds
<1>3. \E k, l \in Int : d = Gcd(d, e) * k /\ e = Gcd(d, e) * l
  BY <1>1, GcdDivides
<1>4. PICK k \in Int, l \in Int : d = g * k /\ e = g * l
  BY <1>2, <1>3
<1>5. ASSUME NEW z \in Int, z <= 0 PROVE g * z <= 0
  BY <1>5
<1>6. k \in Nat \ {0} /\ l \in Nat \ {0}
  BY <1>4, <1>5
<1>7. d * e = g * (d * l)
  <2>1. d * (g * l) = g * (d * l)
    BY <1>6
  <2>2. QED BY <1>4, <2>1
<1>8. PICK q \in Int : q = d * l
  BY <1>6
<1>9. (d * e) \div g = q
  BY <1>7, <1>8, ProductQuotient
<1>10. Lcm(d, e) = q
  BY <1>2, <1>9 DEF Lcm
<1>11. q \div d = l
  BY <1>6, <1>8, ProductQuotient
<1>12. q = e * k
  <2>1. (g * k) * l = (g * l) * k
    BY <1>6
  <2>2. QED BY <1>4, <1>8, <2>1
<1>13. q \div e = k
  BY <1>6, <1>12, ProductQuotient
<1>14. CommonFactors(d, e, g, k, l)
  BY <1>4, <1>8, <1>10, <1>11, <1>13 DEF CommonFactors
<1>15. QED BY <1>6, <1>14

\* What the two products of checked_add and cmp_num are, where none overflows.
LEMMA ScaledExact ==
  ASSUME NEW x \in Num, NEW y \in Num, NEW p, NEW q, NEW s,
         p = ToRational(x), q = ToRational(y), s = Scaled(x, y),
         Fits(p.d * q.d), ~s.over
  PROVE  \E g \in Nat \ {0}, k \in Nat \ {0}, l \in Nat \ {0} :
           /\ p.d = g * k /\ q.d = g * l /\ s.den = p.d * l
           /\ s.left = p.n * l /\ s.right = q.n * k /\ s.den \in Width
<1>1. PICK n \in Int, d \in Nat \ {0} : p.n = n /\ p.d = d
  BY OperandForm
<1>2. PICK m \in Int, e \in Nat \ {0} : q.n = m /\ q.d = e
  BY OperandForm
<1>3. Fits(d * e)
  BY <1>1, <1>2
<1>4. PICK g \in Nat \ {0}, k \in Nat \ {0}, l \in Nat \ {0} :
           /\ d = g * k /\ e = g * l /\ Lcm(d, e) = d * l
           /\ Lcm(d, e) \div d = l /\ Lcm(d, e) \div e = k
  <2>1. PICK g \in Nat \ {0}, k \in Nat \ {0}, l \in Nat \ {0} : CommonFactors(d, e, g, k, l)
    BY <1>3, CommonForm
  <2>2. QED BY <2>1 DEF CommonFactors
<1>5. s = [left |-> Wrap(n * l), right |-> Wrap(m * k), den |-> d * l,
           over |-> ~Fits(n * l) \/ ~Fits(m * k)]
  BY <1>1, <1>2, <1>4 DEF Scaled, OverCommon, Rescaled
<1>6. n * l \in Width /\ m * k \in Width
  <2>1. s.over = (~Fits(n * l) \/ ~Fits(m * k))
    BY <1>5
  <2>2. QED BY <2>1 DEF Fits
<1>7. Wrap(n * l) = n * l /\ Wrap(m * k) = m * k
  BY <1>6, WrapSame
<1>8. d * l \in Width
  <2>1. d \in 1..MaxInt /\ e \in 1..MaxInt
    BY <1>1, <1>2, RationalForm
  <2>2. Lcm(d, e) \in Width
    BY <2>1, LcmFits
  <2>3. QED BY <1>4, <2>2
<1>9. s.left = n * l /\ s.right = m * k /\ s.den = d * l
  BY <1>5, <1>7
<1>10. /\ p.d = g * k /\ q.d = g * l /\ s.den = p.d * l
       /\ s.left = p.n * l /\ s.right = q.n * k /\ s.den \in Width
  BY <1>1, <1>2, <1>4, <1>8, <1>9
<1>11. QED BY <1>10

\* What an operation answers: a number of the width, and which.
AnswersExactly(num, exact) == num \notin {Error, Endless} => num \in Num /\ Exactly(num) = exact

\* A sum is exact where the product of the denominators is in the width and
\* nothing overflows.
LEMMA AddExact ==
  ASSUME NEW x \in Num, NEW y \in Num,
         Fits(ToRational(x).d * ToRational(y).d), ~Add(x, y).over
  PROVE  AnswersExactly(Add(x, y).num, ExactArithmetic("add", Exactly(x), Exactly(y)))
<1>1. PICK p, q, s : p = ToRational(x) /\ q = ToRational(y) /\ s = Scaled(x, y)
  OBVIOUS
<1>2. PICK n \in Int, d \in Nat \ {0}, a \in Int, b \in Nat \ {0} :
           p.n = n /\ p.d = d /\ Exactly(x) = [n |-> a, d |-> b] /\ a * d = n * b
  BY <1>1, OperandForm
<1>3. PICK m \in Int, e \in Nat \ {0}, u \in Int, v \in Nat \ {0} :
           q.n = m /\ q.d = e /\ Exactly(y) = [n |-> u, d |-> v] /\ u * e = m * v
  BY <1>1, OperandForm
<1>4. Fits(p.d * q.d)
  BY <1>1
<1>5. ~s.over
  BY <1>1 DEF Add
<1>6. PICK g \in Nat \ {0}, k \in Nat \ {0}, l \in Nat \ {0} :
           /\ p.d = g * k /\ q.d = g * l /\ s.den = p.d * l
           /\ s.left = p.n * l /\ s.right = q.n * k /\ s.den \in Width
  BY <1>1, <1>4, <1>5, ScaledExact
<1>7. PICK sum \in Int, den \in Nat \ {0} : sum = n * l + m * k /\ den = d * l
  BY ProductPositive
<1>8. s.left + s.right = sum /\ s.den = den /\ den \in Width
  BY <1>2, <1>3, <1>6, <1>7
<1>9. Add(x, y).num = IF Fits(sum) THEN ReduceToNum(sum, den) ELSE Error
  BY <1>1, <1>8 DEF Add
<1>10. ASSUME Fits(sum)
       PROVE  ReduceToNum(sum, den) \in Num /\ Exactly(ReduceToNum(sum, den)) = Lowest(sum, den)
  <2>1. sum \in Width /\ den # 0 /\ ~(den < 0) /\ den # MinInt
    BY <1>10, WidthRange DEF Fits
  <2>2. QED BY <1>8, <2>1, ReduceExact
<1>11. Lowest(sum, den) = Lowest(a * v + u * b, b * v)
  <2>1. PICK mixed \in Int, prod \in Nat \ {0} : mixed = n * e + m * d /\ prod = d * e
    BY ProductPositive
  <2>2. PICK top \in Int, low \in Nat \ {0} : top = a * v + u * b /\ low = b * v
    BY ProductPositive
  <2>3. mixed * low = top * prod
    BY <1>2, <1>3, <2>1, <2>2, SumFraction
  <2>4. Lowest(mixed, prod) = Lowest(top, low)
    BY <2>3, SameFraction
  <2>5. sum * prod = mixed * den
    <3>1. d = g * k /\ e = g * l
      BY <1>2, <1>3, <1>6
    <3>2. (n * l + m * k) * (d * e) = (n * e) * (d * l) + (m * (e * k)) * d
      OBVIOUS
    <3>3. e * k = d * l
      <4>1. (g * l) * k = (g * k) * l
        OBVIOUS
      <4>2. QED BY <3>1, <4>1
    <3>4. (n * e + m * d) * (d * l) = (n * e) * (d * l) + (m * (d * l)) * d
      OBVIOUS
    <3>5. QED BY <1>7, <2>1, <3>2, <3>3, <3>4
  <2>6. Lowest(sum, den) = Lowest(mixed, prod)
    BY <2>5, SameFraction
  <2>7. QED BY <2>2, <2>4, <2>6
<1>12. ExactArithmetic("add", Exactly(x), Exactly(y)) = Lowest(a * v + u * b, b * v)
  BY <1>2, <1>3 DEF ExactArithmetic
<1>13. QED BY <1>9, <1>10, <1>11, <1>12 DEF AnswersExactly

\* The negation of a number other than the least integer.
LEMMA NegExact ==
  ASSUME NEW y \in Num, y.n # MinInt
  PROVE  /\ Neg(y).num \in Num /\ ToRational(Neg(y).num).d = ToRational(y).d
         /\ Exactly(Neg(y).num) = [n |-> -Exactly(y).n, d |-> Exactly(y).d]
<1>1. PICK n \in Int : n = y.n
  BY NumFields, WidthRange
<1>2. n \in Width /\ -n \in Width
  <2>1. MaxInt \in Nat /\ MinInt <= n /\ n <= MaxInt
    BY <1>1, NumFields, WidthRange
  <2>2. QED BY <1>1, <2>1 DEF Width, MinInt
<1>3. PICK m \in Int : m = -n
  OBVIOUS
<1>4. PICK z : z = [y EXCEPT !.n = m]
  OBVIOUS
<1>5. Neg(y).num = z
  BY <1>1, <1>2, <1>3, <1>4, WrapSame DEF Neg
<1>6. z.n = m /\ z.d = y.d /\ z.kind = y.kind
  BY <1>4, NumFields
<1>7. PICK e \in Nat \ {0} : e = IF y.kind = "decimal" THEN 10^y.d ELSE y.d
  <2>1. y.kind = "decimal" => 10^y.d \in 1..MaxInt
    BY NumFields, WidthAssumption
  <2>2. y.kind # "decimal" => y.d \in 1..MaxInt
    BY NumFields, WidthRange
  <2>3. \A c \in 1..MaxInt : c \in Nat \ {0}
    BY WidthRange
  <2>4. QED BY <2>1, <2>2, <2>3
<1>8. Exactly(y) = Lowest(n, e) /\ Exactly(z) = Lowest(m, e)
  BY <1>1, <1>6, <1>7 DEF Exactly
<1>9. Abs(m) = Abs(n) /\ Gcd(m, e) = Gcd(n, e)
  BY <1>1, <1>3 DEF Abs, Gcd
<1>10. ToRational(z).d = ToRational(y).d
  BY <1>1, <1>6, <1>7, <1>9 DEF ToRational
<1>11. PICK g \in Nat \ {0}, a \in Int, b \in Nat \ {0} :
           /\ g = euclid[<<Abs(n), e>>] /\ n = g * a /\ e = g * b
           /\ Lowest(n, e) = [n |-> a, d |-> b]
  BY LowestForm
<1>12. PICK h \in Nat \ {0}, u \in Int, v \in Nat \ {0} :
           /\ h = euclid[<<Abs(m), e>>] /\ m = h * u /\ e = h * v
           /\ Lowest(m, e) = [n |-> u, d |-> v]
  BY LowestForm
<1>13. g = h
  BY <1>9, <1>11, <1>12
<1>14. v = b
  <2>1. g * v = g * b
    BY <1>11, <1>12, <1>13
  <2>2. QED BY <2>1, Cancel
<1>15. u = -a
  <2>1. PICK c \in Int : c = -a
    OBVIOUS
  <2>2. g * c = -(g * a)
    BY <2>1, MinusProducts
  <2>3. g * u = g * c
    BY <1>3, <1>11, <1>12, <1>13, <2>2
  <2>4. u = c
    BY <2>3, Cancel
  <2>5. QED BY <2>1, <2>4
<1>16. QED BY <1>5, <1>8, <1>10, <1>11, <1>12, <1>14, <1>15, NegFits

\* So is a difference, of which the least integer is not subtracted.
LEMMA SubExact ==
  ASSUME NEW x \in Num, NEW y \in Num, y.n # MinInt,
         Fits(ToRational(x).d * ToRational(y).d), ~Sub(x, y).over
  PROVE  AnswersExactly(Sub(x, y).num, ExactArithmetic("sub", Exactly(x), Exactly(y)))
<1>1. PICK minus : minus = Neg(y).num
  OBVIOUS
<1>2. /\ minus \in Num /\ ToRational(minus).d = ToRational(y).d
      /\ Exactly(minus) = [n |-> -Exactly(y).n, d |-> Exactly(y).d]
  BY <1>1, NegExact
<1>3. PICK d \in Nat \ {0}, a \in Int, b \in Nat \ {0} :
           ToRational(x).d = d /\ Exactly(x) = [n |-> a, d |-> b]
  BY OperandForm
<1>4. PICK e \in Nat \ {0}, u \in Int, v \in Nat \ {0} :
           ToRational(y).d = e /\ Exactly(y) = [n |-> u, d |-> v]
  BY OperandForm
<1>5. PICK sum : sum = Add(minus, x)
  OBVIOUS
<1>6. Sub(x, y).num = sum.num /\ ~sum.over
  <2>1. Sub(x, y) = [sum EXCEPT !.over = @ \/ Neg(y).over]
    BY <1>1, <1>5 DEF Sub
  <2>2. sum = [num |-> sum.num, over |-> sum.over]
    BY <1>5 DEF Add
  <2>3. Sub(x, y).over = (sum.over \/ Neg(y).over)
    BY <2>1, <2>2
  <2>4. Sub(x, y).num = sum.num
    BY <2>1, <2>2
  <2>5. QED BY <2>3, <2>4
<1>7. Fits(ToRational(minus).d * ToRational(x).d)
  <2>1. d * e = e * d
    OBVIOUS
  <2>2. QED BY <1>2, <1>3, <1>4, <2>1
<1>8. AnswersExactly(sum.num, ExactArithmetic("add", Exactly(minus), Exactly(x)))
  BY <1>2, <1>5, <1>6, <1>7, AddExact
<1>9. ExactArithmetic("add", Exactly(minus), Exactly(x)) = Lowest((-u) * b + a * v, v * b)
  BY <1>2, <1>3, <1>4 DEF ExactArithmetic
<1>10. ExactArithmetic("sub", Exactly(x), Exactly(y)) = Lowest(a * v - u * b, b * v)
  BY <1>3, <1>4 DEF ExactArithmetic
<1>11. (-u) * b + a * v = a * v - u * b /\ v * b = b * v
  BY MinusProducts
<1>12. QED BY <1>6, <1>8, <1>9, <1>10, <1>11

\* A product whose own numerator and denominator are in the width.
LEMMA MulExact ==
  ASSUME NEW x \in Num, NEW y \in Num
  PROVE  AnswersExactly(Mul(x, y).num, ExactArithmetic("mul", Exactly(x), Exactly(y)))
<1>1. PICK n \in Int, d \in Nat \ {0}, a \in Int, b \in Nat \ {0} :
           /\ ToRational(x).n = n /\ ToRational(x).d = d
           /\ Exactly(x) = [n |-> a, d |-> b] /\ a * d = n * b
  BY OperandForm
<1>2. PICK m \in Int, e \in Nat \ {0}, u \in Int, v \in Nat \ {0} :
           /\ ToRational(y).n = m /\ ToRational(y).d = e
           /\ Exactly(y) = [n |-> u, d |-> v] /\ u * e = m * v
  BY OperandForm
<1>3. PICK top \in Int, low \in Nat \ {0} : top = n * m /\ low = d * e
  BY ProductPositive
<1>4. PICK up \in Int, down \in Nat \ {0} : up = a * u /\ down = b * v
  BY ProductPositive
<1>5. Mul(x, y).num = IF Fits(top) /\ Fits(low) THEN ReduceToNum(top, low) ELSE Error
  BY <1>1, <1>2, <1>3 DEF Mul
<1>6. ASSUME Fits(top), Fits(low)
      PROVE  ReduceToNum(top, low) \in Num /\ Exactly(ReduceToNum(top, low)) = Lowest(top, low)
  <2>1. top \in Width /\ low \in Width /\ low # 0 /\ ~(low < 0) /\ low # MinInt
    BY <1>6, WidthRange DEF Fits
  <2>2. QED BY <2>1, ReduceExact
<1>7. top * down = up * low
  BY <1>1, <1>2, <1>3, <1>4, SumFraction
<1>8. Lowest(top, low) = Lowest(up, down)
  BY <1>7, SameFraction
<1>9. ExactArithmetic("mul", Exactly(x), Exactly(y)) = Lowest(up, down)
  BY <1>1, <1>2, <1>4 DEF ExactArithmetic
<1>10. QED BY <1>5, <1>6, <1>8, <1>9 DEF AnswersExactly

\* A quotient whose own numerator and denominator are in the width, without the
\* negation of the least integer.
LEMMA DivExact ==
  ASSUME NEW x \in Num, NEW y \in Num, ~Div(x, y).over
  PROVE  AnswersExactly(Div(x, y).num, ExactArithmetic("div", Exactly(x), Exactly(y)))
<1>1. PICK n \in Int, d \in Nat \ {0}, a \in Int, b \in Nat \ {0} :
           /\ ToRational(x).n = n /\ ToRational(x).d = d
           /\ Exactly(x) = [n |-> a, d |-> b] /\ a * d = n * b
  BY OperandForm
<1>2. PICK m \in Int, e \in Nat \ {0}, u \in Int, v \in Nat \ {0} :
           /\ ToRational(y).n = m /\ ToRational(y).d = e
           /\ Exactly(y) = [n |-> u, d |-> v] /\ u * e = m * v
  BY OperandForm
<1>3. PICK top \in Int, low \in Int : top = n * e /\ low = d * m
  OBVIOUS
<1>4. PICK up \in Int, down \in Int : up = a * v /\ down = b * u
  OBVIOUS
<1>5. Div(x, y).num = IF ~IsZero(y) /\ Fits(top) /\ Fits(low)
                      THEN ReduceToNum(top, low) ELSE Error
  BY <1>1, <1>2, <1>3 DEF Div
<1>6. Div(x, y).over = (~IsZero(y) /\ top = MinInt /\ Fits(low) /\ low < 0)
  BY <1>1, <1>2, <1>3 DEF Div
<1>7. ASSUME ~IsZero(y) PROVE m # 0
  <2>1. CASE y.kind # "decimal"
    BY <1>2, <1>7, <2>1 DEF ToRational, IsZero
  <2>2. CASE y.kind = "decimal"
    <3>1. y.n \in Int /\ 10^y.d \in 1..MaxInt
      BY <2>2, NumFields, WidthRange, WidthAssumption
    <3>2. PICK p \in Int, q \in Nat \ {0} : p = y.n /\ q = 10^y.d
      BY <3>1, WidthRange
    <3>3. q \in Int /\ q # 0
      OBVIOUS
    <3>4. PICK g \in Nat \ {0} : g = Gcd(p, q)
      BY <3>3, GcdBounds
    <3>5. \E r, s \in Int : p = Gcd(p, q) * r /\ q = Gcd(p, q) * s
      BY <3>3, GcdDivides
    <3>6. PICK r \in Int : p = g * r
      BY <3>4, <3>5
    <3>7. m = r
      <4>1. ToRational(y).n = p \div g
        BY <2>2, <3>2, <3>4 DEF ToRational
      <4>2. p \div g = r
        BY <3>6, ProductQuotient
      <4>3. QED BY <1>2, <4>1, <4>2
    <3>8. g * 0 = 0
      OBVIOUS
    <3>9. QED BY <1>7, <3>2, <3>6, <3>7, <3>8 DEF IsZero
  <2>3. QED BY <2>1, <2>2
<1>8. ASSUME m # 0 PROVE u # 0
  <2>1. m * v # 0
    BY <1>8, ProductNonzero
  <2>2. 0 * e = 0
    OBVIOUS
  <2>3. QED BY <1>2, <2>1, <2>2
<1>9. ASSUME m # 0, Fits(top), Fits(low), ~(top = MinInt /\ low < 0),
             ReduceToNum(top, low) # Endless
      PROVE  /\ ReduceToNum(top, low) \in Num
             /\ Exactly(ReduceToNum(top, low)) = Lowest(up, down)
  <2>1. low # 0
    BY <1>3, <1>9, ProductNonzero
  <2>2. down # 0
    BY <1>4, <1>8, <1>9, ProductNonzero
  <2>3. low # MinInt
    BY <1>9 DEF ReduceToNum
  <2>4. top \in Width /\ low \in Width /\ (low < 0 => top # MinInt)
    BY <1>9 DEF Fits
  <2>5. /\ ReduceToNum(top, low) \in Num
        /\ Exactly(ReduceToNum(top, low)) = Lowest(top, low)
    BY <2>1, <2>3, <2>4, ReduceExact
  <2>6. top * down = up * low
    BY <1>1, <1>2, <1>3, <1>4, SumFraction
  <2>7. Lowest(top, low) = Lowest(up, down)
    BY <2>1, <2>2, <2>6, SameFraction
  <2>8. QED BY <2>5, <2>7
<1>10. ExactArithmetic("div", Exactly(x), Exactly(y)) = Lowest(up, down)
  BY <1>1, <1>2, <1>4 DEF ExactArithmetic
<1>11. QED BY <1>5, <1>6, <1>7, <1>9, <1>10 DEF AnswersExactly

\* The order of two products is that of their other factors.
LEMMA OrderScaled ==
  ASSUME NEW k \in Nat \ {0}, NEW a \in Int, NEW b \in Int
  PROVE  k * a < k * b <=> a < b
<1>1. ASSUME NEW c \in Int, NEW d \in Int, c < d PROVE k * c < k * d
  <2>1. k * (d - c) > 0
    BY <1>1
  <2>2. k * (d - c) = k * d - k * c
    OBVIOUS
  <2>3. k * c \in Int /\ k * d \in Int
    OBVIOUS
  <2>4. QED BY <2>1, <2>2, <2>3
<1>2. CASE a < b
  BY <1>1, <1>2
<1>3. CASE b < a
  <2>1. k * b < k * a
    BY <1>1, <1>3
  <2>2. k * a \in Int /\ k * b \in Int
    OBVIOUS
  <2>3. QED BY <1>3, <2>1, <2>2
<1>4. CASE a = b
  <2>1. k * a \in Int /\ k * b = k * a
    BY <1>4
  <2>2. QED BY <1>4, <2>1
<1>5. QED BY <1>2, <1>3, <1>4

\* So is a comparison.
LEMMA CmpExact ==
  ASSUME NEW x \in Num, NEW y \in Num,
         Fits(ToRational(x).d * ToRational(y).d), ~Cmp(x, y).over
  PROVE  Cmp(x, y).ord = ExactOrder(Exactly(x), Exactly(y))
<1>1. PICK p, q, s : p = ToRational(x) /\ q = ToRational(y) /\ s = Scaled(x, y)
  OBVIOUS
<1>2. PICK n \in Int, d \in Nat \ {0}, a \in Int, b \in Nat \ {0} :
           p.n = n /\ p.d = d /\ Exactly(x) = [n |-> a, d |-> b] /\ a * d = n * b
  BY <1>1, OperandForm
<1>3. PICK m \in Int, e \in Nat \ {0}, u \in Int, v \in Nat \ {0} :
           q.n = m /\ q.d = e /\ Exactly(y) = [n |-> u, d |-> v] /\ u * e = m * v
  BY <1>1, OperandForm
<1>4. Fits(p.d * q.d) /\ ~s.over
  BY <1>1 DEF Cmp
<1>5. PICK g \in Nat \ {0}, k \in Nat \ {0}, l \in Nat \ {0} :
           /\ p.d = g * k /\ q.d = g * l /\ s.den = p.d * l
           /\ s.left = p.n * l /\ s.right = q.n * k /\ s.den \in Width
  BY <1>1, <1>4, ScaledExact
<1>6. PICK left \in Int, right \in Int : left = n * l /\ right = m * k
  OBVIOUS
<1>7. s.left = left /\ s.right = right
  BY <1>2, <1>3, <1>5, <1>6
<1>8. PICK up \in Int, down \in Int : up = a * v /\ down = u * b
  OBVIOUS
<1>9. PICK f \in Nat \ {0}, h \in Nat \ {0} : f = g * (b * v) /\ h = d * e
  BY ProductPositive
<1>10. f * left = h * up
  <2>1. (g * (b * v)) * (n * l) = (n * b) * ((g * l) * v)
    OBVIOUS
  <2>2. (d * e) * (a * v) = (a * d) * (e * v)
    OBVIOUS
  <2>3. QED BY <1>2, <1>3, <1>5, <1>6, <1>8, <1>9, <2>1, <2>2
<1>11. f * right = h * down
  <2>1. (g * (b * v)) * (m * k) = (m * v) * ((g * k) * b)
    OBVIOUS
  <2>2. (d * e) * (u * b) = (u * e) * (d * b)
    OBVIOUS
  <2>3. QED BY <1>2, <1>3, <1>5, <1>6, <1>8, <1>9, <2>1, <2>2
<1>12. (left < right <=> up < down) /\ (right < left <=> down < up)
  BY <1>10, <1>11, OrderScaled
<1>13. Cmp(x, y).ord = IF left < right THEN -1 ELSE IF left > right THEN 1 ELSE 0
  BY <1>1, <1>7 DEF Cmp
<1>14. ExactOrder(Exactly(x), Exactly(y)) = IF up < down THEN -1 ELSE IF up > down THEN 1 ELSE 0
  BY <1>2, <1>3, <1>8 DEF ExactOrder
<1>15. QED BY <1>12, <1>13, <1>14

\* A receipt log gives back a number equal to the one stored.
LEMMA ReloadExact ==
  ASSUME NEW x \in Num
  PROVE  Exactly(Reload(x)) = Exactly(x)
<1>1. CASE x.kind # "rational"
  BY <1>1 DEF Reload
<1>2. CASE x.kind = "rational"
  <2>1. PICK n \in Width, d \in 1..MaxInt : n = x.n /\ d = x.d
    BY <1>2, NumFields
  <2>2. n \in Int /\ d \in Nat \ {0} /\ d \in Int /\ d # 0 /\ ~(d < 0)
    BY WidthRange
  <2>3. 1 * n = n /\ 1 * d = d /\ Wrap(n) = n
    BY <2>2, WrapSame
  <2>4. PICK g \in Nat \ {0} : g = Gcd(n, d)
    BY <2>2, GcdBounds
  <2>5. \E u, v \in Int : n = Gcd(n, d) * u /\ d = Gcd(n, d) * v
    BY <2>2, GcdDivides
  <2>6. PICK u \in Int, v \in Int : n = g * u /\ d = g * v
    BY <2>4, <2>5
  <2>7. n \div g = u /\ d \div g = v
    BY <2>6, ProductQuotient
  <2>8. Reload(x) = Ratio(u, v)
    BY <1>2, <2>1, <2>2, <2>3, <2>4, <2>7 DEF Reload, Rational
  <2>9. v # 0
    BY <2>2, <2>6
  <2>10. n * v = u * d
    <3>1. (g * u) * v = u * (g * v)
      OBVIOUS
    <3>2. QED BY <2>6, <3>1
  <2>11. Lowest(n, d) = Lowest(u, v)
    BY <2>2, <2>9, <2>10, SameFraction
  <2>12. QED BY <1>2, <2>1, <2>8, <2>11 DEF Exactly, Ratio
<1>3. QED BY <1>1, <1>2

=============================================================================
