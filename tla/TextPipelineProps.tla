-------------------------- MODULE TextPipelineProps --------------------------
(* What the textual form promises of a module that is written and read.    *)
EXTENDS TextPipeline

-----------------------------------------------------------------------------
(* The trees that survive. *)

RECURSIVE SubNodes(_)
SubNodes(e) == {e} \cup UNION {SubNodes(e.args[i]) : i \in DOMAIN e.args}

Has(s, field) == field \in DOMAIN s.f
Value1(s) == IF Has(s, "value") THEN {s.f.value} ELSE {}
Nodes(s) ==
  UNION {SubNodes(e) : e \in Value1(s) \cup (IF Has(s, "ty") THEN {s.f.ty} ELSE {})}
Doubts(s) ==
  IF Has(s, "uncertainty") THEN {s.f.uncertainty[i] : i \in DOMAIN s.f.uncertainty}
  ELSE {}

\* Strings that are written in quotes.
Strings(s) ==
  {n.v : n \in {m \in Nodes(s) : m.k \in {"str", "sym", "q"}}}
    \cup {u.v : u \in {d \in Doubts(s) : d.k = "external"}}
    \cup {s.f[x] : x \in (DOMAIN s.f) \cap {"media", "scope", "reason", "capability"}}
    \cup UNION {{s.f[x][i] : i \in DOMAIN s.f[x]} :
                  x \in (DOMAIN s.f) \cap {"content", "provider", "signature"}}

Ascii(s) == \A v \in Strings(s) : \A i \in DOMAIN v : v[i] \notin DOMAIN Bytes

\* A symbol that is not a whole value: the text goes on right after it.
NoInnerSymbol(s) ==
  \A e \in Value1(s) : \A n \in SubNodes(e) : n.k = "sym" => n = e

\* A record with fields: its names are written against their colons.
NoFields(s) ==
  \A n \in Nodes(s) : n.k \in {"record", "recordtype"} => n.args = <<>>

\* A reference that is spelled like a Boolean.
NoBooleanRef(s) ==
  \A n \in Nodes(s) : n.k = "ref" => n.v \notin {<<"true">>, <<"false">>}

\* A reference that is read as a number, and perhaps as another reference too.
NoFigureRef(s) ==
  \A n \in Nodes(s) : n.k = "ref" => n.v[1] \notin Figures

\* A symbol that is cut off before its end.
PlainSymbols(s) ==
  \A n \in Nodes(s) : n.k = "sym" => \A i \in DOMAIN n.v : n.v[i] \notin SymbolMarks

\* A type whose name is read as an extension's, or an extension's parts that
\* are split elsewhere.
PlainTypes(s) ==
  \A n \in Nodes(s) :
    /\ n.k = "name" => \A i \in DOMAIN n.v : n.v[i] \notin InnerMarks
    /\ n.k = "extension" =>
         /\ \A i \in DOMAIN n.names[1] : n.names[1][i] # ":"
         /\ \A i \in DOMAIN n.names[3] : n.names[3][i] # "@"

NoRecordName(s) == \A n \in Nodes(s) : n.k = "name" => n.v # <<"record">>

\* The names that stand alone in a statement.
NamesIn(s) ==
  {s.f[x] : x \in (DOMAIN s.f) \cap
     {"label", "target", "kind", "obligation", "by", "a", "b", "op", "parent", "trust"}}
    \cup UNION {{s.f[x][i] : i \in DOMAIN s.f[x]} :
           x \in (DOMAIN s.f) \cap
             {"inputs", "evidence", "ctx", "receipt", "state", "assumptions"}}
    \cup {n.v : n \in {m \in Nodes(s) : m.k \in {"ref", "name"}}}
    \cup {n.names[1] : n \in {m \in Nodes(s) : m.k = "extension"}}

NoFigureFirst(s) == \A n \in NamesIn(s) : n[1] \notin Figures

NoSpecialDoubt(s) == \A u \in Doubts(s) : u.k \notin {"weight", "external"}

\* How many constructor calls enclose a part of a value.  The numbers of a rat
\* are read as the arguments of one.
RECURSIVE Calls(_)
Calls(e) ==
  LET inner == {Calls(e.args[i]) : i \in DOMAIN e.args}
  IN IF e.k = "rat" THEN 1
     ELSE IF inner = {} THEN 0
     ELSE (IF e.k = "record" THEN 0 ELSE 1)
            + (CHOOSE d \in inner : \A c \in inner : c <= d)

Shallow(s) == \A e \in Value1(s) : Calls(e) <= MaxDepth

NoZeroRat(s) == \A n \in Nodes(s) : n.k = "rat" => n.v[2] # "0"

Holds(P(_)) == \A i \in DOMAIN source.stmts : P(source.stmts[i])
Formatted == source # Nameless
Read == phase \in {"convert", "converted", "rejected", "panicked"}

\* Type invariant.
TextTypeOK ==
  /\ phase \in Phases
  /\ at \in 1..Len(tokens) + 1
  /\ \A i \in DOMAIN tokens : tokens[i].k \in
       (TokenMarks \ {"'"}) \cup {"ident", "num", "str", "sym", "newline", "eof",
                                  "unexpected"}
  /\ Read => tokens[at].k = "eof"

\* The round trip of formatter.rs:3-4, for the trees it holds of: every kind of
\* statement with any of its clauses comes back as it was, statement for
\* statement, provided that its strings are ASCII, its symbols stand alone and
\* have no quote or blank, its records are empty, its uncertainty is not a
\* weight or an external source, its value is not too deep and has no rat over
\* 0 and no reference spelled like a Boolean, no type is named record or has a
\* mark where it would be split, and no name begins with a digit.
PlainRoundTrips ==
  Formatted /\ source.name[1] \notin Figures /\ Holds(NoFigureFirst) /\ Holds(Ascii)
    /\ Holds(NoInnerSymbol) /\ Holds(PlainSymbols) /\ Holds(NoFields)
    /\ Holds(NoSpecialDoubt) /\ Holds(Shallow) /\ Holds(NoZeroRat) /\ Holds(NoBooleanRef)
    /\ Holds(PlainTypes) /\ Holds(NoRecordName)
  => phase # "refused" /\ (Read => parsed = source)

\* Of the others, those that come back as something else without a diagnostic
\* have a wide string; a symbol inside another value or with a quote or a blank;
\* a reference spelled like a Boolean or beginning with a digit, as eq(2x) is
\* read with two operands; or a type's name with a mark at which it is split
\* otherwise.  What the parser accepts of the formatter's output is otherwise
\* what was formatted.
LoudOrEqual ==
  Formatted /\ Read /\ Holds(Ascii) /\ Holds(NoInnerSymbol) /\ Holds(PlainSymbols)
    /\ Holds(NoBooleanRef) /\ Holds(NoFigureRef) /\ Holds(PlainTypes)
  => parsed = source

Values == {parsed.stmts[i].f.value : i \in {j \in DOMAIN parsed.stmts :
                                              Has(parsed.stmts[j], "value")}}

\* The bound of parser.rs:11-14 as far as it holds: whatever records lie between
\* them, and whoever wrote the text, calls of constructors are never nested
\* deeper than MAX_EXPR_DEPTH in a value that is accepted.
CallsBounded == \A e \in Values : Calls(e) <= MaxDepth

\* How deep a value is nested.
RECURSIVE Depth(_)
Depth(e) ==
  LET deepest == {Depth(e.args[i]) : i \in DOMAIN e.args}
  IN IF deepest = {} THEN 0
     ELSE 1 + (CHOOSE d \in deepest : \A c \in deepest : c <= d)

\* What parser.rs:11-14 says, "Maximum nesting depth for expressions/records",
\* and docs/security/threat-model.md:77-88.  It fails: parse_record passes its
\* depth on unchanged.
NestingBounded == \A e \in Values : Depth(e) <= MaxDepth

\* What fuzz/README.md:16-17 says, "Parsing arbitrary bytes and (non-privileged)
\* execution of any parsed module must never panic or abort".  It fails: a
\* relation with too few operands parses, and its conversion takes them out of
\* an empty list; so does a fraction with the least integer, in a build with
\* overflow checks.
NeverPanics == phase # "panicked"

\* The promise of formatter.rs:3-4, "`parse(format(ast))` reproduces a
\* structurally equal AST (round-trip)", also spec/language.md, section 6.  It
\* fails for the trees above.
RoundTrip == Formatted => phase # "refused" /\ (Read => parsed = source)

=============================================================================
