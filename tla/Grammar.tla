------------------------------- MODULE Grammar -------------------------------
(***************************************************************************)
(* The statements of the textual language as axiom-parser reads them, and  *)
(* the conversion of their expressions, types and uncertainties to values  *)
(* that axiom-runtime makes when it executes them.                         *)
(*                                                                         *)
(* A statement's syntax is a sequence of items.  An item reads something   *)
(* into a field, or demands a mark or a keyword, or is an optional clause, *)
(* or is a loop of clauses in any order.                                   *)
(***************************************************************************)
EXTENDS Parser

CONSTANT Literals \* number literals: the class of what each denotes

Item(do, as, sub) == [do |-> do, as |-> as, sub |-> sub]
Id(field) == Item("ident", field, <<>>)
Text(field) == Item("str", field, <<>>)
SomeId(field) == Item("some ident", field, <<>>)
SomeText(field) == Item("some str", field, <<>>)
MaybeText(field) == Item("maybe str", field, <<>>)
Value(field) == Item("expr", field, <<>>)
Type(field) == Item("type", field, <<>>)
SomeDoubt(field) == Item("uncertainty", field, <<>>)
Args(field) == Item("inputs", field, <<>>)
Bracketed(field) == Item("bracketed", field, <<>>)
Commas(field) == Item("commas", field, <<>>)
Sign(mark) == Item("mark", mark, <<>>)
Key(word) == Item("word", word, <<>>)
Option(word, items) == Item("option", word, items)
Loop(options) == Item("loop", "", options)

Typed == <<Sign(":"), Type("ty")>>
Applied == <<Sign("="), Id("op"), Sign("("), Args("inputs"), Sign(")")>> \o Typed
Context == Option("ctx", <<SomeId("ctx")>>)

\* The items after the keyword of a statement of phase 1,
PremiseSyntax(kw) ==
  CASE kw = "evidence" ->
         <<Id("label"), Text("media"), MaybeText("content"),
           Loop(<<Option("trust", <<Sign("="), Id("trust")>>),
                  Option("provider", <<Sign("="), SomeText("provider")>>),
                  Option("signature", <<Sign("="), SomeText("signature")>>)>>)>>
    [] kw \in {"assert", "observe"} ->
         <<Id("label"), Sign("="), Value("value")>> \o Typed
           \o <<Loop(<<Option("evidence", <<Sign("["), Bracketed("evidence"),
                                             Sign("]")>>),
                       Option("uncertainty", <<SomeDoubt("uncertainty")>>),
                       Context>>)>>
    [] kw = "assume" ->
         <<Id("label"), Sign("="), Value("value")>> \o Typed
           \o <<Loop(<<Option("scope", <<Text("scope")>>), Context>>)>>

\* of a derivation and its obligations,
StepSyntax(kw) ==
  CASE kw = "derive" ->
         <<Id("label")>> \o Applied
           \o <<Option("receipt", <<SomeId("receipt")>>), Context>>
    [] kw = "require" -> <<Id("kind"), Key("on"), Id("target")>>
    [] kw = "discharge" ->
         <<Id("obligation"), Key("by"), Id("by"), Option("as", <<SomeId("state")>>)>>

\* of a statement about a status,
StatusSyntax(kw) == <<Id("target")>>

\* and of the others.
OtherSyntax(kw) ==
  CASE kw = "contradict" -> <<Id("a"), Id("b"), Key("as"), Id("kind")>>
    [] kw = "branch" ->
         <<Id("label"), Key("from"), Id("parent"),
           Option("with", <<Commas("assumptions")>>)>>
    [] kw = "merge" -> <<Id("label"), Sign("="), Id("a"), Sign("+"), Id("b")>>
    [] kw = "invalidate" -> <<Id("target"), Key("because"), Text("reason")>>
    [] kw = "call" ->
         <<Id("label")>> \o Applied
           \o <<Key("cap"), Text("capability"), Context>>

Syntax(kw) ==
  CASE kw \in {"evidence", "assert", "observe", "assume"} -> PremiseSyntax(kw)
    [] kw \in {"derive", "require", "discharge"} -> StepSyntax(kw)
    [] kw \in {"verify", "challenge", "attest"} -> StatusSyntax(kw)
    [] OTHER -> OtherSyntax(kw)

Keywords ==
  {"evidence", "assert", "observe", "assume", "derive", "call", "require",
   "discharge", "verify", "challenge", "attest", "contradict", "branch",
   "merge", "invalidate"}

\* What the optional fields are when no clause gives them.
Defaults(kw) ==
  CASE kw = "evidence" ->
         [content |-> <<>>, trust |-> <<"unverified">>, provider |-> <<>>,
          signature |-> <<>>]
    [] kw = "assert" -> [evidence |-> <<>>, uncertainty |-> <<>>, ctx |-> <<>>]
    [] kw = "observe" -> [evidence |-> <<>>, uncertainty |-> <<>>]
    [] kw = "assume" -> [scope |-> <<"default">>, ctx |-> <<>>]
    [] kw = "derive" -> [receipt |-> <<>>, ctx |-> <<>>]
    [] kw = "call" -> [ctx |-> <<>>]
    [] kw = "discharge" -> [state |-> <<>>]
    [] kw = "branch" -> [assumptions |-> <<>>]
    [] OTHER -> <<>>

-----------------------------------------------------------------------------
(* Reading items. *)

Set(env, field, x) == (field :> x) @@ env

\* The result of reading x into a field, or of reading without a field.
Into(r, env, field) == Then(r, LAMBDA x : Accept(x.at, Set(env, field, x.out)))
IntoSome(r, env, field) ==
  Then(r, LAMBDA x : Accept(x.at, Set(env, field, <<x.out>>)))
Past(r, env) == Then(r, LAMBDA x : Accept(x.at, env))

RECURSIVE ReadItem(_, _, _, _), ReadItems(_, _, _, _), ReadLoop(_, _, _, _)

ReadItems(ts, i, env, items) ==
  IF items = <<>> THEN Accept(i, env)
  ELSE Then(ReadItem(ts, i, env, Head(items)), LAMBDA r :
         ReadItems(ts, r.at, r.out, Tail(items)))

\* A plausible bug: at most one clause is read.
ReadOneClause(ts, i, env, options) ==
  LET chosen == {j \in DOMAIN options : IsWord(ts, i, options[j].as)}
  IN IF chosen = {} THEN Accept(i, env)
     ELSE ReadItems(ts, i + 1, env, options[CHOOSE j \in chosen : TRUE].sub)

\* Clauses in any order; a later one of a kind replaces an earlier one.
ReadLoop(ts, i, env, options) ==
  LET chosen == {j \in DOMAIN options : IsWord(ts, i, options[j].as)}
  IN IF chosen = {} THEN Accept(i, env)
     ELSE Then(ReadItems(ts, i + 1, env, options[CHOOSE j \in chosen : TRUE].sub),
               LAMBDA r : ReadLoop(ts, r.at, r.out, options))

ReadItem(ts, i, env, item) ==
  CASE item.do \in {"ident", "str"} -> Into(Expect(ts, i, item.do), env, item.as)
    [] item.do = "some ident" -> IntoSome(Expect(ts, i, "ident"), env, item.as)
    [] item.do = "some str" -> IntoSome(Expect(ts, i, "str"), env, item.as)
    [] item.do = "maybe str" ->
         IF ts[i].k = "str" THEN IntoSome(Expect(ts, i, "str"), env, item.as)
         ELSE Accept(i, env)
    [] item.do = "expr" -> Into(ParseExpr(ts, i, 0), env, item.as)
    [] item.do = "type" -> Into(ParseType(ts, i), env, item.as)
    [] item.do = "uncertainty" -> IntoSome(ParseUncertainty(ts, i), env, item.as)
    [] item.do = "inputs" -> Into(Inputs(ts, i), env, item.as)
    [] item.do = "bracketed" -> Into(CommaNames(ts, i, "]", <<>>), env, item.as)
    [] item.do = "commas" -> Into(CommaNames(ts, i, "none", <<>>), env, item.as)
    [] item.do = "mark" -> Past(Expect(ts, i, item.as), env)
    [] item.do = "word" ->
         IF IsWord(ts, i, item.as) THEN Accept(i + 1, env) ELSE Refuse
    [] item.do = "option" ->
         IF IsWord(ts, i, item.as) THEN ReadItems(ts, i + 1, env, item.sub)
         ELSE Accept(i, env)
    [] item.do = "loop" -> ReadLoop(ts, i, env, item.sub)

\* parse_stmt.  An observation takes a context clause and drops it.
ParseStmt(ts, i) ==
  Then(Expect(ts, i, "ident"), LAMBDA kw :
    IF Len(kw.out) # 1 \/ kw.out[1] \notin Keywords THEN Refuse
    ELSE LET k == kw.out[1]
         IN Then(ReadItems(ts, kw.at, Defaults(k), Syntax(k)), LAMBDA r :
              Accept(r.at, Stmt(k,
                IF k = "observe"
                THEN [x \in (DOMAIN r.out) \ {"ctx"} |-> r.out[x]]
                ELSE r.out))))

\* The header: module <name> "version".
ParseHeader(ts, i) ==
  Then(IF IsWord(ts, i, "module") THEN Accept(i + 1, <<>>) ELSE Refuse, LAMBDA m :
  Then(Expect(ts, m.at, "ident"), LAMBDA name :
  Then(Expect(ts, name.at, "str"), LAMBDA version :
    Accept(version.at, [name |-> name.out, version |-> version.out]))))

-----------------------------------------------------------------------------
(* Conversion to values: what the value is, or that there is none.         *)

\* What Num::parse and i128's parse make of a literal: an integer, the least
\* one and zero apart; another number; or none, where it is out of the width,
\* has too many decimals or a denominator of zero.
Integers == {"least", "negative", "zero", "positive"}
ASSUME LiteralsAssumption ==
  \A n \in DOMAIN Literals : Literals[n] \in Integers \cup {"fraction", "none"}

Failures == {"error", "panic"}

\* The first failure of a sequence of conversions, or "value".
FirstFailure(outcomes) ==
  LET bad == {i \in DOMAIN outcomes : outcomes[i] \in Failures}
  IN IF bad = {} THEN "value"
     ELSE outcomes[CHOOSE i \in bad : \A j \in bad : i <= j]

ConvertNum(n) == IF Literals[n] = "none" THEN "error" ELSE "num"

\* rat(n, d): Num::rational negates both of a fraction with a negative
\* denominator, unchecked.
ConvertRat(n, d, checked) ==
  IF ~({Literals[n], Literals[d]} \subseteq Integers) \/ Literals[d] = "zero" THEN "error"
  ELSE IF checked /\ Literals[d] \in {"negative", "least"}
            /\ "least" \in {Literals[n], Literals[d]} THEN "panic"
  ELSE "num"

\* How many operands a relation takes from its arguments, unchecked.
Operands(op) == IF op \in {"inset", "notinset"} THEN 1 ELSE 2

\* convert_expr: "num" for a number, "value" for another value; `checked` says
\* whether the build checks arithmetic for overflow.
RECURSIVE ConvertExpr(_, _)
ConvertExpr(e, checked) ==
  LET args == [i \in DOMAIN e.args |-> ConvertExpr(e.args[i], checked)]
      failure == FirstFailure(args)
  IN CASE e.k \in {"bool", "str", "sym"} -> "value"
       [] e.k = "num" -> ConvertNum(e.v[1])
       [] e.k = "rat" -> ConvertRat(e.v[1], e.v[2], checked)
       [] e.k \in {"q", "interval"} ->
            FirstFailure([i \in DOMAIN args |->
                           IF args[i] = "value" THEN "error" ELSE args[i]])
       [] e.k = "record" -> failure
       [] e.k \in RelationOps ->
            IF failure # "value" THEN failure
            ELSE IF Len(args) < Operands(e.k) THEN "panic" ELSE "value"
       [] e.k = "ref" -> "error"

TypeNames ==
  {"bool", "int", "uint", "rational", "decimal", "string", "symbol",
   "quantity", "interval", "relation", "temporal"}

RECURSIVE ConvertType(_)
ConvertType(t) ==
  CASE t.k = "name" -> IF t.v \in {<<n>> : n \in TypeNames} THEN "value" ELSE "error"
    [] t.k = "recordtype" ->
         FirstFailure([i \in DOMAIN t.args |-> ConvertType(t.args[i])])
    [] t.k = "extension" -> "value"

\* convert_uncertainty
ConvertUncertainty(u) ==
  IF u.k = "external" THEN "value"
  ELSE FirstFailure([i \in DOMAIN u.v |-> ConvertNum(u.v[i])])

Premises == {"assert", "observe", "assume"}

\* What execution converts of a premise, and of another statement, in its order.
ConvertPremise(s, checked) ==
  FirstFailure(<<ConvertType(s.f.ty), ConvertExpr(s.f.value, checked)>>
    \o (IF s.k = "assume" THEN <<>>
        ELSE [i \in DOMAIN s.f.uncertainty |-> ConvertUncertainty(s.f.uncertainty[i])]))
ConvertStep(s) == IF s.k \in {"derive", "call"} THEN ConvertType(s.f.ty) ELSE "value"

\* The premises come first, in the module's order, then the worklist; what fails
\* there fails alike in any order.
ConvertModule(stmts, checked) ==
  LET premises == SelectSeq(stmts, LAMBDA s : s.k \in Premises)
      steps == SelectSeq(stmts, LAMBDA s : s.k \notin Premises)
  IN FirstFailure([i \in DOMAIN premises |-> ConvertPremise(premises[i], checked)]
                    \o [i \in DOMAIN steps |-> ConvertStep(steps[i])])

=============================================================================
