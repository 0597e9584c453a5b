----------------------------- MODULE ValueChain -----------------------------
(***************************************************************************)
(* A chain of derivations through the builtin operations: a premise, then  *)
(* claims each derived from the one before and a premise (or from the one  *)
(* before twice), with the values and uncertainties derive computes.  A    *)
(* value may pass through a receipt log on the way, as the output of an    *)
(* external call does when a run is replayed.                              *)
(*                                                                         *)
(* `ideal` is a history variable, read by properties only: what exact      *)
(* arithmetic, dimensional analysis and the premises' doubts give for the  *)
(* same chain up to the first step whose intermediate results may not fit  *)
(* the width, and whether there was such a step.                           *)
(***************************************************************************)
EXTENDS ValueOps

CONSTANTS Premises,  \* claims a program may assert: [ty, value, unc]
          Bases,     \* base symbols of the premises' units
          MaxDerives \* bound on the length of the chain

\* The uncertainties a program may state.
Stateable(u) ==
  \/ u \in {Exact, Unknown, Conflicting}
  \/ u.kind \in {"probability", "numeric", "weight", "external", "extension"}

\* The units a program may write: powers of base symbols.
IsUnit(unit) ==
  /\ unit = [b \in DOMAIN unit |-> unit[b]]
  /\ \A b \in DOMAIN unit : unit[b] \in Int \ {0}

NumsOf(value) ==
  CASE value.type \in {"num", "quantity"} -> {value.num}
    [] value.type = "interval" -> {value.lo, value.hi}
    [] OTHER -> {}

ASSUME PremisesAssumption ==
  /\ MaxDerives \in Nat
  /\ \A p \in Premises :
       /\ Stateable(p.unc) /\ NumsOf(p.value) \subseteq Num
       /\ p.value.type \in {"num", "quantity", "bool", "interval", "opaque"}
       /\ p.value.type = "num" => p.value = NumValue(p.value.num)
       /\ p.value.type = "quantity" =>
            p.value = Quantity(p.value.num, p.value.unit) /\ IsUnit(p.value.unit)

\* The two bounds of an interval may be in either order.
ASSUME BoundsAssumption ==
  \A p \in Premises : p.unc.kind = "numeric" =>
    p.unc = NumericInterval(p.unc.lo, p.unc.hi) /\ p.unc.lo \in Num /\ p.unc.hi \in Num

VARIABLES
  claim,   \* the last claim of the chain: its value and uncertainty
  outcome, \* of the last call: "ok", "refused", or "stopped" with the program
  derives, \* derivations so far
  ideal    \* history

chainVars == <<claim, outcome, derives, ideal>>

-----------------------------------------------------------------------------
(* The reference: rationals of unbounded integers in lowest terms. *)

Lowest(n, d) ==
  LET s == IF d < 0 THEN -1 ELSE 1
      g == Gcd(n, d)
  IN [n |-> (s * n) \div g, d |-> (s * d) \div g]

\* The rational a number stands for.
Exactly(x) ==
  IF x.kind = "decimal" THEN Lowest(x.n, 10^x.d) ELSE Lowest(x.n, x.d)

ExactArithmetic(op, p, q) ==
  CASE op \in {"add", "qadd"} -> Lowest(p.n * q.d + q.n * p.d, p.d * q.d)
    [] op \in {"sub", "qsub"} -> Lowest(p.n * q.d - q.n * p.d, p.d * q.d)
    [] op \in {"mul", "qmul"} -> Lowest(p.n * q.n, p.d * q.d)
    [] op \in {"div", "qdiv"} -> Lowest(p.n * q.d, p.d * q.n)

ExactOrder(p, q) ==
  LET l == p.n * q.d
      r == q.n * p.d
  IN IF l < r THEN -1 ELSE IF l > r THEN 1 ELSE 0

Dimension(value) ==
  [b \in Bases |-> IF value.type = "quantity" THEN Exponent(value.unit, b) ELSE 0]

ExactDimension(op, d, e) ==
  CASE op = "qmul" -> [b \in Bases |-> d[b] + e[b]]
    [] op = "qdiv" -> [b \in Bases |-> d[b] - e[b]]
    [] OTHER -> d

\* What a value stands for.
Meaning(value) ==
  CASE value.type \in {"num", "quantity"} -> Exactly(value.num)
    [] value.type = "bool" -> value.truth
    [] value.type = "interval" -> <<Exactly(value.lo), Exactly(value.hi)>>
    [] OTHER -> value

ExactMeaning(op, m) ==
  CASE op \in NumOps \cup QuantityOps -> ExactArithmetic(op, m[1], m[2])
    [] op \in ComparisonOps -> Ordered(op, ExactOrder(m[1], m[2]))
    [] op = "interval" -> m
    [] op = "not" -> ~m[1]

\* Whether the operation leaves room: the denominators have a product in the
\* width, no unchecked step overflows, and no least integer is negated.
Roomy(op, inputs) ==
  \/ op = "not"
  \/ /\ Fits(ToRational(inputs[1].num).d * ToRational(inputs[2].num).d)
     /\ ~Exec(op, inputs).over
     /\ op \in {"sub", "qsub"} => inputs[2].num.n # MinInt

Ideal(premise) ==
  [known |-> TRUE, meaning |-> Meaning(premise.value), dimension |-> Dimension(premise.value),
   doubts |-> {premise.unc}, roomy |-> TRUE]

\* The meaning is not known after a step that left no room.
Lost == [n |-> 0, d |-> 1]

IdealDerive(op, inputs, i, j) ==
  [known |-> i.roomy /\ j.roomy,
   meaning |-> IF i.roomy /\ j.roomy
               THEN ExactMeaning(op, <<i.meaning, j.meaning>>) ELSE Lost,
   dimension |-> IF ConjoinsInputs(op)
                 THEN ExactDimension(op, i.dimension, j.dimension)
                 ELSE [b \in Bases |-> 0],
   doubts |-> i.doubts \cup j.doubts,
   roomy |-> i.roomy /\ j.roomy /\ Roomy(op, inputs)]

-----------------------------------------------------------------------------
Claim(premise) == [value |-> premise.value, unc |-> premise.unc]

\* An operand: a claim and its ideal.
Operands ==
  {[claim |-> Claim(p), ideal |-> Ideal(p)] :
     p \in {q \in Premises : Checks(q.value, q.ty)}}

Last == [claim |-> claim, ideal |-> ideal]

ChainInit ==
  \E o \in Operands :
    /\ claim = o.claim
    /\ ideal = o.ideal
    /\ outcome = "ok"
    /\ derives = 0

TypeChecks(op, values) ==
  /\ Len(values) = Len(InputTypes(op))
  /\ \A k \in DOMAIN values : Checks(values[k], InputTypes(op)[k])

Refuse ==
  /\ outcome' = "refused"
  /\ UNCHANGED <<claim, derives, ideal>>

\* A panic of an overflow check, or a recursion without end.
Stop ==
  /\ outcome' = "stopped"
  /\ UNCHANGED <<claim, derives, ideal>>

Commit(value, unc, newIdeal) ==
  /\ claim' = [value |-> value, unc |-> unc]
  /\ ideal' = newIdeal
  /\ outcome' = "ok"
  /\ derives' = derives + 1

Ends(r) ==
  ~(r.value.type \in {"num", "quantity"} /\ r.value.num = Endless)

\* What derive does with the executor's result, and then with the inputs'
\* uncertainties; an overflow stops it only in a build with overflow checks.
Conclude(op, r, unc, over, newIdeal) ==
  LET checked == Ends(r) /\ Checks(r.value, OutputType(op))
  IN \/ (r.over \/ ~Ends(r)) /\ Stop
     \/ checked /\ over /\ Stop
     \/ checked /\ unc # Rejected /\ Commit(r.value, unc, newIdeal)
     \/ Ends(r) /\ (checked => unc = Rejected) /\ Refuse

\* derive: type check, execution, output check, combined uncertainty.  A
\* refused derive leaves the module as it was.
Calculated(op, values, unc, over, newIdeal) ==
  \/ ~TypeChecks(op, values) /\ Refuse
  \/ TypeChecks(op, values) /\ Conclude(op, Exec(op, values), unc, over, newIdeal)

Derive(op, x, y) ==
  LET values == <<x.claim.value, y.claim.value>>
      uncs == <<x.claim.unc, y.claim.unc>>
  IN Calculated(op, values, ConjoinedUncertainty(op, uncs), ConjoinedOver(op, uncs),
                IdealDerive(op, values, x.ideal, y.ideal))

Binary == Ops \ {"not"}

DeriveBinary ==
  \E op \in Binary, o \in Operands \cup {Last} :
    \E sides \in {<<Last, o>>, <<o, Last>>} : Derive(op, sides[1], sides[2])

DeriveNot ==
  LET values == <<claim.value>>
  IN Calculated("not", values, Exact, FALSE,
                [ideal EXCEPT !.known = ideal.roomy,
                          !.meaning = IF ideal.roomy THEN ~@ ELSE Lost])

\* Through a receipt log: to JSON and back.
Store ==
  /\ claim.value.type \in {"num", "quantity"}
  /\ claim' = [claim EXCEPT !.value.num = Reload(@)]
  /\ outcome' = "ok"
  /\ UNCHANGED <<derives, ideal>>

ChainNext ==
  /\ outcome # "stopped"
  /\ derives < MaxDerives
  /\ DeriveBinary \/ DeriveNot \/ Store

ChainSpec == ChainInit /\ [][ChainNext]_chainVars

=============================================================================
