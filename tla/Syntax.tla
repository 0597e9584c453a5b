------------------------------- MODULE Syntax -------------------------------
(***************************************************************************)
(* axiom-parser's syntax trees and its canonical formatter.                *)
(*                                                                         *)
(* A name, a symbol or a string is a sequence of characters or words, of   *)
(* which the marks `:` and `@` stand alone, and in a symbol a quote and a  *)
(* blank.  Of a name's other characters it matters only whether the first  *)
(* is a figure: all of them are an identifier's.  Text is a sequence of    *)
(* atoms:                                                                  *)
(* words, numbers, quoted strings, marks, gaps and line ends, which the    *)
(* lexer may still glue together.  Escaping a string and reading it back   *)
(* cancel, so a quoted string is one atom.  Spans are left out.            *)
(***************************************************************************)
EXTENDS Integers, SequencesExt

-----------------------------------------------------------------------------
(* Trees: expressions, types and uncertainties are nodes of one shape.  *)

Node(k, v, args, names) == [k |-> k, v |-> v, args |-> args, names |-> names]
Leaf(k, v) == Node(k, v, <<>>, <<>>)

\* Expr
BoolLit(b) == Leaf("bool", <<b>>)
NumLit(n) == Leaf("num", <<n>>)
StrLit(s) == Leaf("str", s)
SymLit(s) == Leaf("sym", s)
Ref(l) == Leaf("ref", l)
RatLit(n, d) == Leaf("rat", <<n, d>>)
Quant(x, unit) == Node("q", unit, <<x>>, <<>>)
Interval(lo, hi) == Node("interval", <<>>, <<lo, hi>>, <<>>)
Record(names, values) == Node("record", <<>>, values, names)
Relation(op, args) == Node(op, <<>>, args, <<>>)

RelationOps == {"eq", "neq", "lt", "le", "gt", "ge", "inset", "notinset"}

\* TypeExpr
NamedType(n) == Leaf("name", n)
RecordType(names, types) == Node("recordtype", <<>>, types, names)
ExtensionType(ns, name, version) ==
  Node("extension", <<>>, <<>>, <<ns, name, version>>)

\* UncertaintyExpr: exact, unknown, conflicting, probability, numeric, weight
\* and external, with their numbers or their source.
Doubt(k, v) == Leaf(k, v)

\* Stmt: a keyword and its fields; an optional field is a sequence of at most
\* one value.
Stmt(k, f) == [k |-> k, f |-> f]

-----------------------------------------------------------------------------
(* Atoms of text. *)

Atom(k, v) == [k |-> k, v |-> v]
Word(w) == <<Atom("word", <<w>>)>>
Mark(m) == <<Atom(m, <<m>>)>>
Number(n) == <<Atom("num", <<n>>)>>
Quoted(s) == <<Atom("str", s)>>
Gap == Mark(" ")
Newline == Mark("newline")

InnerMarks == {":", "@"}
SymbolMarks == {"'", " "}

Figures == {"2"} \* the words of names that begin with a digit

\* A name is written as it is.
Name(s) ==
  [i \in DOMAIN s |->
    Atom(CASE s[i] \in InnerMarks \cup SymbolMarks -> s[i]
           [] s[i] \in Figures -> "num"
           [] OTHER -> "word", <<s[i]>>)]

Joined(parts, separator) ==
  FlattenSeq([i \in DOMAIN parts |->
               IF i = 1 THEN parts[i] ELSE separator \o parts[i]])

CommaList(parts) == Joined(parts, Mark(",") \o Gap)
Names(list) == CommaList([i \in DOMAIN list |-> Name(list[i])])
Parens(inner) == Mark("(") \o inner \o Mark(")")
Braces(inner) == Mark("{") \o Gap \o inner \o Gap \o Mark("}")

-----------------------------------------------------------------------------
(* The formatter. *)

RECURSIVE FmtExpr(_), FmtType(_)

Fields(names, values) ==
  Braces(CommaList([i \in DOMAIN names |->
                     Name(names[i]) \o Mark(":") \o Gap \o values[i]]))

FmtExpr(e) ==
  LET args == [i \in DOMAIN e.args |-> FmtExpr(e.args[i])]
  IN CASE e.k = "bool" -> Word(e.v[1])
       [] e.k = "num" -> Number(e.v[1])
       [] e.k = "str" -> Quoted(e.v)
       [] e.k = "sym" -> Mark("'") \o Name(e.v)
       [] e.k = "ref" -> Name(e.v)
       [] e.k = "rat" ->
            Word("rat") \o Parens(Number(e.v[1]) \o Gap \o Number(e.v[2]))
       [] e.k = "q" -> Word("q") \o Parens(args[1] \o Gap \o Quoted(e.v))
       [] e.k = "interval" -> Word("interval") \o Parens(Joined(args, Gap))
       [] e.k = "record" -> Fields(e.names, args)
       [] e.k \in RelationOps -> Word(e.k) \o Parens(CommaList(args))

FmtType(t) ==
  CASE t.k = "name" -> Name(t.v)
    [] t.k = "recordtype" ->
         Word("record") \o Gap
           \o Fields(t.names, [i \in DOMAIN t.args |-> FmtType(t.args[i])])
    [] t.k = "extension" ->
         Name(t.names[1]) \o Mark(":") \o Name(t.names[2])
           \o Mark("@") \o Name(t.names[3])

FmtUncertainty(u) ==
  CASE u.k \in {"exact", "unknown", "conflicting"} -> Word(u.k)
    [] u.k \in {"probability", "numeric", "weight"} ->
         Word(u.k) \o Parens(CommaList([i \in DOMAIN u.v |-> Number(u.v[i])]))
    [] u.k = "external" -> Word(u.k) \o Parens(Quoted(u.v))

\* An optional clause: a keyword and its text, separated by a gap.
Clause(keyword, option, Text(_)) ==
  FlattenSeq([i \in DOMAIN option |->
               Gap \o Word(keyword) \o Gap \o Text(option[i])])

\* An optional setting, written keyword="text".
Setting(keyword, option) ==
  FlattenSeq([i \in DOMAIN option |->
               Gap \o Word(keyword) \o Mark("=") \o Quoted(option[i])])

Spaced(parts) == Joined(parts, Gap)

\* fmt_assert_like, for assert and observe; only assert has a context.
FmtAssertLike(s, ctx) ==
  LET f == s.f
  IN Spaced(<<Word(s.k), Name(f.label), Mark("="), FmtExpr(f.value), Mark(":"),
              FmtType(f.ty)>>)
       \o (IF f.evidence = <<>> THEN <<>>
           ELSE Gap \o Word("evidence") \o Gap
                  \o Mark("[") \o Names(f.evidence) \o Mark("]"))
       \o Clause("uncertainty", f.uncertainty, FmtUncertainty)
       \o Clause("ctx", ctx, Name)

\* op(inputs) of derive and call.
Application(f) == Name(f.op) \o Parens(Names(f.inputs))

FmtStmt(s) ==
  LET f == s.f
  IN CASE s.k = "evidence" ->
            Spaced(<<Word(s.k), Name(f.label), Quoted(f.media)>>)
              \o FlattenSeq([i \in DOMAIN f.content |-> Gap \o Quoted(f.content[i])])
              \o Gap \o Word("trust") \o Mark("=") \o Name(f.trust)
              \o Setting("provider", f.provider)
              \o Setting("signature", f.signature)
       [] s.k = "assert" -> FmtAssertLike(s, f.ctx)
       [] s.k = "observe" -> FmtAssertLike(s, <<>>)
       [] s.k = "assume" ->
            Spaced(<<Word(s.k), Name(f.label), Mark("="), FmtExpr(f.value),
                     Mark(":"), FmtType(f.ty), Word("scope"), Quoted(f.scope)>>)
              \o Clause("ctx", f.ctx, Name)
       [] s.k = "derive" ->
            Spaced(<<Word(s.k), Name(f.label), Mark("="), Application(f),
                     Mark(":"), FmtType(f.ty)>>)
              \o Clause("receipt", f.receipt, Name) \o Clause("ctx", f.ctx, Name)
       [] s.k = "call" ->
            Spaced(<<Word(s.k), Name(f.label), Mark("="), Application(f),
                     Mark(":"), FmtType(f.ty), Word("cap"), Quoted(f.capability)>>)
              \o Clause("ctx", f.ctx, Name)
       [] s.k = "require" ->
            Spaced(<<Word(s.k), Name(f.kind), Word("on"), Name(f.target)>>)
       [] s.k = "discharge" ->
            Spaced(<<Word(s.k), Name(f.obligation), Word("by"), Name(f.by)>>)
              \o Clause("as", f.state, Name)
       [] s.k \in {"verify", "challenge", "attest"} ->
            Spaced(<<Word(s.k), Name(f.target)>>)
       [] s.k = "contradict" ->
            Spaced(<<Word(s.k), Name(f.a), Name(f.b), Word("as"), Name(f.kind)>>)
       [] s.k = "branch" ->
            Spaced(<<Word(s.k), Name(f.label), Word("from"), Name(f.parent)>>)
              \o (IF f.assumptions = <<>> THEN <<>>
                  ELSE Gap \o Word("with") \o Gap \o Names(f.assumptions))
       [] s.k = "merge" ->
            Spaced(<<Word(s.k), Name(f.label), Mark("="), Name(f.a), Mark("+"),
                     Name(f.b)>>)
       [] s.k = "invalidate" ->
            Spaced(<<Word(s.k), Name(f.target), Word("because"), Quoted(f.reason)>>)

FormatModule(ast) ==
  Spaced(<<Word("module"), Name(ast.name), Quoted(ast.version)>>) \o Newline
    \o FlattenSeq([i \in DOMAIN ast.stmts |-> FmtStmt(ast.stmts[i]) \o Newline])

=============================================================================
