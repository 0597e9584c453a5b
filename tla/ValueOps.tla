------------------------------ MODULE ValueOps ------------------------------
(***************************************************************************)
(* Units, typed values and the builtin operations: what axiom-types and    *)
(* the BuiltinExecutor of axiom-core compute when a pure operation is      *)
(* derived.  Strings, symbols, relations and extension values, which no    *)
(* builtin operation takes, stand as one opaque value.  An abstraction:    *)
(* exponents of units, 64 bits wide and added unchecked in the code, are   *)
(* integers of any size.                                                   *)
(***************************************************************************)
EXTENDS Uncertainty, Sequences

-----------------------------------------------------------------------------
(* Units: base symbol -> exponent; a canonical unit has no zero exponent.  *)

Exponent(unit, base) == IF base \in DOMAIN unit THEN unit[base] ELSE 0

\* A plausible bug: zero exponents stay.
Uncancelled(unit) == unit

Canonical(unit) == [b \in {c \in DOMAIN unit : unit[c] # 0} |-> unit[b]]

UnitMultiply(u, v) ==
  Canonical([b \in (DOMAIN u) \cup (DOMAIN v) |-> Exponent(u, b) + Exponent(v, b)])

UnitDivide(u, v) ==
  Canonical([b \in (DOMAIN u) \cup (DOMAIN v) |-> Exponent(u, b) - Exponent(v, b)])

SameDimension(u, v) == Canonical(u) = Canonical(v)

-----------------------------------------------------------------------------
(* Values and the types that accept them. *)

NumValue(x) == [type |-> "num", num |-> x]
Quantity(x, unit) == [type |-> "quantity", num |-> x, unit |-> unit]
Truth(b) == [type |-> "bool", truth |-> b]
Interval(lo, hi) == [type |-> "interval", lo |-> lo, hi |-> hi]
Opaque == [type |-> "opaque"]

\* Value::check on the types the values above may have.  An unsigned integer
\* refuses negative integers, no other negative number.
Checks(value, ty) ==
  \/ ty = "uint" /\ value.type = "num"
       /\ ~(value.num.kind = "int" /\ value.num.n < 0)
  \/ ty \in {"int", "decimal", "rational"} /\ value.type = "num"
  \/ ty \in {"quantity", "bool", "interval", "opaque"} /\ value.type = ty

-----------------------------------------------------------------------------
(* The registry: the operations, what they take and give, and whether the  *)
(* output conjoins the uncertainties of the inputs or is Exact.            *)

NumOps == {"add", "sub", "mul", "div"}
QuantityOps == {"qadd", "qsub", "qmul", "qdiv"}
ComparisonOps == {"eq", "neq", "lt", "le", "gt", "ge"}
Ops == NumOps \cup QuantityOps \cup ComparisonOps \cup {"interval", "not"}

\* builtin_operations: the inputs, output and uncertainty_rule of each.
InputTypes(op) ==
  IF op \in NumOps \cup {"interval"} THEN <<"rational", "rational">>
  ELSE IF op = "not" THEN <<"bool">>
  ELSE <<"quantity", "quantity">>

OutputType(op) ==
  IF op \in NumOps THEN "rational"
  ELSE IF op \in QuantityOps THEN "quantity"
  ELSE IF op = "interval" THEN "interval"
  ELSE "bool"

ConjoinsInputs(op) == op \in NumOps \cup QuantityOps

-----------------------------------------------------------------------------
(* Execution.  A result holds the value, or NoValue for an ExecError, and  *)
(* what Numbers says of the steps that compute it.                         *)

NoValue == [type |-> "none"]

Result(value, over) == [value |-> value, over |-> over]

Arithmetic(op, x, y) ==
  CASE op \in {"add", "qadd"} -> Add(x, y)
    [] op \in {"sub", "qsub"} -> Sub(x, y)
    [] op \in {"mul", "qmul"} -> Mul(x, y)
    [] op \in {"div", "qdiv"} -> Div(x, y)

\* arith on two numbers.
ExecNum(op, x, y) ==
  LET r == Arithmetic(op, x.num, y.num)
  IN Result(IF r.num = Error THEN NoValue ELSE NumValue(r.num), r.over)

\* Quantity::add, sub, mul and div: a sum keeps the unit of its left operand.
ExecQuantity(op, x, y) ==
  LET r == Arithmetic(op, x.num, y.num)
      unit == CASE op = "qmul" -> UnitMultiply(x.unit, y.unit)
                [] op = "qdiv" -> UnitDivide(x.unit, y.unit)
                [] OTHER -> x.unit
  IN IF op \in {"qadd", "qsub"} /\ ~SameDimension(x.unit, y.unit)
     THEN Result(NoValue, FALSE)
     ELSE Result(IF r.num = Error THEN NoValue ELSE Quantity(r.num, unit), r.over)

Ordered(op, ord) ==
  CASE op = "eq" -> ord = 0
    [] op = "neq" -> ord # 0
    [] op = "lt" -> ord = -1
    [] op = "le" -> ord # 1
    [] op = "gt" -> ord = 1
    [] op = "ge" -> ord # -1

\* compare: two quantities are ordered by magnitude, whatever their units.
Compare(op, x, y) ==
  LET c == Cmp(x.num, y.num) IN Result(Truth(Ordered(op, c.ord)), c.over)

MakeInterval(x, y) ==
  LET c == Cmp(x.num, y.num)
  IN Result(IF c.ord = 1 THEN NoValue ELSE Interval(x.num, y.num), c.over)

\* BuiltinExecutor::exec on inputs of the operation's types.
Exec(op, inputs) ==
  CASE op \in NumOps -> ExecNum(op, inputs[1], inputs[2])
    [] op \in QuantityOps -> ExecQuantity(op, inputs[1], inputs[2])
    [] op \in ComparisonOps -> Compare(op, inputs[1], inputs[2])
    [] op = "interval" -> MakeInterval(inputs[1], inputs[2])
    [] op = "not" -> Result(Truth(~inputs[1].truth), FALSE)

\* The uncertainty derive gives the output: the inputs' combined in order.
ConjoinedUncertainty(op, uncertainties) ==
  IF ~ConjoinsInputs(op) THEN Exact
  ELSE Combine(uncertainties[1], uncertainties[2])

\* Whether a comparison on the way leaves the width.
ConjoinedOver(op, uncertainties) ==
  ConjoinsInputs(op) /\ CombineOver(uncertainties[1], uncertainties[2])

=============================================================================
