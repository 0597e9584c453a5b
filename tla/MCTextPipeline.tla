--------------------------- MODULE MCTextPipeline ---------------------------
(***************************************************************************)
(* The instance of TextPipeline that TLC checks: modules of one or two     *)
(* statements.  The statements are of all fifteen kinds with no clause and *)
(* with all of them, over values and types of every kind; nesting is cut   *)
(* off at two.  The texts written by hand nest records and calls deeper.   *)
(***************************************************************************)
EXTENDS TextPipelineProps

MCBytes == [c \in {"e-acute"} |-> <<"A-tilde", "copyright">>]

MCLiterals ==
  [n \in {"0", "1", "2", "-1", "least", "00", "1/2", "1/0", "wide"} |->
     CASE n \in {"1", "2"} -> "positive"
       [] n \in {"0", "00"} -> "zero"
       [] n = "-1" -> "negative"
       [] n = "least" -> "least"
       [] n = "1/2" -> "fraction"
       [] OTHER -> "none"]

x == <<"x">>
y == <<"y">>
int == NamedType(<<"int">>)
ext == ExtensionType(<<"ns">>, <<"kind">>, <<"2">>)
figure == <<"2", "x">>
one == NumLit("1")
half == RatLit("1", "2")

PlainValues ==
  { BoolLit("true"), one, half, StrLit(<<"text">>), SymLit(x), Ref(y),
    Quant(half, <<"C">>), Quant(StrLit(x), <<"C">>), Interval(one, half),
    Interval(Ref(x), Record(<<>>, <<>>)), Record(<<>>, <<>>),
    Relation("eq", <<one, half>>), Relation("le", <<one, Relation("lt", <<one, one>>)>>),
    Relation("inset", <<one>>), Relation("notinset", <<>>), Relation("gt", <<one>>),
    NumLit("1/0"), Quant(NumLit("wide"), <<"C">>), Interval(one, NumLit("1/0")),
    RatLit("1", "-1"), RatLit("1/2", "1"), RatLit("1", "00"),
    RatLit("-1", "least"), RatLit("least", "-1") }

OtherValues ==
  { Ref(<<"true">>), StrLit(<<"caf", "e-acute">>), Record(<<x>>, <<one>>),
    Relation("inset", <<SymLit(x), one>>), Relation("eq", <<one, SymLit(x)>>),
    Interval(SymLit(x), SymLit(y)), SymLit(<<"x", "'">>), SymLit(<<"x", " ">>),
    SymLit(<<"x", "'", "y">>), Ref(<<"2">>), Ref(figure), Relation("eq", <<Ref(figure)>>),
    Relation("eq", <<one, Ref(figure)>>), Relation("lt", <<Ref(x), Ref(<<"2">>)>>),
    Interval(Ref(figure), one), Relation("ge", <<one, Relation("ge", <<half, half>>)>>),
    Relation("ge", <<one, Quant(one, <<"C">>)>>), Relation("ge", <<one, Quant(half, <<"C">>)>>),
    Interval(one, Ref(<<"2", ":", "x">>)), RatLit("1", "0"),
    Relation("ge", <<one, Relation("ge", <<one, Relation("ge", <<one,
                Relation("ge", <<one, one>>)>>)>>)>>) }

Types ==
  {int, NamedType(<<"nothing">>), ext, RecordType(<<>>, <<>>), RecordType(<<x>>, <<int>>),
   NamedType(<<"record">>), NamedType(figure), NamedType(<<"ns", ":", "kind">>),
   NamedType(<<"kind", "@", "2">>), ExtensionType(figure, <<"kind">>, <<"2">>),
   ExtensionType(<<"n", ":", "s">>, <<"kind">>, <<"2">>),
   ExtensionType(<<"n", "@", "s">>, <<"ki", ":", "nd", "@", "x">>, <<"2">>),
   ExtensionType(<<"ns">>, <<"kind">>, <<"2", "@", "3">>)}

AllDoubts ==
  {Doubt(k, <<>>) : k \in {"exact", "unknown", "conflicting"}}
    \cup {Doubt(k, <<"0", "1">>) : k \in {"probability", "numeric"}}
    \cup {Doubt("numeric", <<"0", "wide">>), Doubt("weight", <<"1">>),
          Doubt("external", <<"lab">>)}

Asserted(e, t, evidence, u, c) ==
  Stmt("assert", [label |-> x, value |-> e, ty |-> t, evidence |-> evidence,
                  uncertainty |-> u, ctx |-> c])
Observe(e, evidence, u) ==
  Stmt("observe", [label |-> x, value |-> e, ty |-> int, evidence |-> evidence,
                   uncertainty |-> u])

Claims ==
  {Asserted(e, int, <<>>, <<>>, <<>>) : e \in PlainValues \cup OtherValues}
    \cup {Asserted(one, t, <<x, y>>, <<Doubt("exact", <<>>)>>, <<y>>) : t \in Types}
    \cup {Observe(one, <<y>>, <<u>>) : u \in AllDoubts}

Evidences ==
  {Stmt("evidence", [label |-> x, media |-> <<"m">>, content |-> c, trust |-> t,
                     provider |-> p, signature |-> p]) :
     c \in {<<>>, << <<"text">> >>}, t \in {<<"trusted">>, <<"unverified">>},
     p \in {<<>>, << <<"lab">> >>}}

Options == {<<>>, <<x>>}

Others ==
  {Stmt("assume", [label |-> x, value |-> one, ty |-> int, scope |-> <<"default">>,
                   ctx |-> c]) : c \in Options}
    \cup {Stmt("derive", [label |-> x, op |-> <<"core.add">>, inputs |-> i,
                          ty |-> int, receipt |-> r, ctx |-> c]) :
            i \in {<<>>, <<x, y>>}, r \in Options, c \in Options}
    \cup {Stmt("call", [label |-> x, op |-> <<"f">>, inputs |-> <<y>>, ty |-> int,
                        capability |-> <<"net">>, ctx |-> c]) : c \in Options}
    \cup {Stmt("discharge", [obligation |-> x, by |-> y, state |-> s]) : s \in Options}
    \cup {Stmt("branch", [label |-> x, parent |-> y, assumptions |-> a]) :
            a \in {<<>>, <<x>>, <<x, y>>}}
    \cup {Stmt(k, [target |-> x]) : k \in {"verify", "challenge", "attest"}}
    \cup {Stmt("verify", [target |-> figure]),
          Stmt("branch", [label |-> x, parent |-> y, assumptions |-> <<y, figure>>]),
          Stmt("derive", [label |-> x, op |-> x, inputs |-> <<x, figure>>, ty |-> ext,
                          receipt |-> <<>>, ctx |-> <<>>]),
          Stmt("contradict", [a |-> x, b |-> figure, kind |-> x]),
          Stmt("discharge", [obligation |-> x, by |-> y, state |-> <<figure>>])}
    \cup {Stmt("require", [kind |-> y, target |-> x]),
          Stmt("contradict", [a |-> x, b |-> y, kind |-> x]),
          Stmt("merge", [label |-> x, a |-> x, b |-> y]),
          Stmt("invalidate", [target |-> x, reason |-> <<"because">>])}

Of(stmts) == [name |-> x, version |-> <<"1">>, stmts |-> stmts]

\* Those that may follow or precede any statement: the parser must find where
\* one ends and the next begins.
Neighbours == Evidences \cup {Stmt("verify", [target |-> y]),
                              Asserted(Ref(y), int, <<>>, <<>>, <<>>)}
All == Claims \cup Evidences \cup Others

MCModules ==
  {Of(<<>>), [Of(<<>>) EXCEPT !.name = figure]} \cup {Of(<<s>>) : s \in All}
    \cup {Of(<<s, n>>) : s \in All, n \in Neighbours}
    \cup {Of(<<n, s>>) : s \in All, n \in Neighbours}

\* Written by hand: values of records and calls one in the other, with a blank
\* before each colon.
Field(inner) == Mark("{") \o Name(x) \o Gap \o Mark(":") \o Gap \o inner \o Mark("}")
Call(inner) == Word("ge") \o Mark("(") \o Number("1") \o Gap \o inner \o Mark(")")
nested[wraps \in UNION {[1..n -> {"field", "call"}] : n \in 0..4}] ==
  IF wraps = <<>> THEN Number("1")
  ELSE LET inner == nested[Tail(wraps)]
       IN IF Head(wraps) = "field" THEN Field(inner) ELSE Call(inner)

MCTexts ==
  {Spaced(<<Word("module"), Name(x), Quoted(<<"1">>)>>) \o Newline
     \o Spaced(<<Word("assert"), Name(x), Mark("="), nested[w], Mark(":"), Name(<<"int">>)>>)
     \o Newline : w \in DOMAIN nested}
=============================================================================
