------------------------------- MODULE Parser -------------------------------
(***************************************************************************)
(* axiom-parser's lexer and recursive-descent parser.                      *)
(*                                                                         *)
(* A parsing operator takes the tokens and a position and answers the set  *)
(* of its results: none when it refuses, otherwise the one with the        *)
(* position after what it read and the tree.                               *)
(***************************************************************************)
EXTENDS Syntax

CONSTANTS MaxDepth, \* MAX_EXPR_DEPTH
          Bytes     \* the two Latin-1 characters a wide character's bytes spell

-----------------------------------------------------------------------------
(* The lexer. *)

\* lex_string and lex_symbol push each byte as a character.
AsRead(s) ==
  FlattenSeq([i \in DOMAIN s |->
               IF s[i] \in DOMAIN Bytes THEN Bytes[s[i]] ELSE <<s[i]>>])

\* The first position from i on whose atom is not of these kinds.
RunEnd(text, i, kinds) ==
  LET stops == {j \in i..Len(text) : text[j].k \notin kinds}
  IN IF stops = {} THEN Len(text) + 1 ELSE CHOOSE j \in stops : \A k \in stops : j <= k

\* The characters of the atoms from i up to j, without j.
Glued(text, i, j) == FlattenSeq([k \in 1..j - i |-> text[i + k - 1].v])

TokenMarks == {"=", ",", "(", ")", "{", "}", "[", "]", "+", ":"}
AtomKinds == TokenMarks \cup {"word", "num", "str", "@", "'", " ", "newline"}

\* A name goes on through colons and at-signs, a symbol through everything up
\* to a blank or the closing quote.
LexAll(text) ==
  LET lex[i \in 1..Len(text) + 1] ==
        IF i > Len(text) THEN <<Atom("eof", <<>>)>>
        ELSE LET k == text[i].k
             IN CASE k = " " -> lex[i + 1]
                  [] k \in TokenMarks \cup {"newline", "num"} -> <<text[i]>> \o lex[i + 1]
                  [] k = "str" -> <<Atom("str", AsRead(text[i].v))>> \o lex[i + 1]
                  [] k = "word" ->
                       LET j == RunEnd(text, i, {"word", "num", ":", "@"})
                       IN <<Atom("ident", Glued(text, i, j))>> \o lex[j]
                  [] k = "'" ->
                       LET j == RunEnd(text, i + 1, AtomKinds \ {" ", "newline", "'"})
                           closed == j <= Len(text) /\ text[j].k = "'"
                       IN <<Atom("sym", AsRead(Glued(text, i + 1, j)))>>
                            \o lex[IF closed THEN j + 1 ELSE j]
                  [] OTHER -> <<Atom("unexpected", text[i].v)>> \o lex[i + 1]
  IN lex[1]

-----------------------------------------------------------------------------
(* Positions and results. *)

Accept(at, out) == {[at |-> at, out |-> out]}
Refuse == {}

IsWord(ts, i, w) == ts[i].k = "ident" /\ ts[i].v = <<w>>

\* expect, expect_ident, expect_num and expect_str.
Expect(ts, i, k) == IF ts[i].k = k THEN Accept(i + 1, ts[i].v) ELSE Refuse

\* Goes on from a result, if there is one.
Then(results, Next(_)) == UNION {Next(r) : r \in results}

RECURSIVE SkipNewlines(_, _)
SkipNewlines(ts, i) ==
  IF ts[i].k = "newline" THEN SkipNewlines(ts, i + 1) ELSE i

\* peek_token_is_call
IsCall(ts, i) ==
  ts[i].k # "eof" /\ ts[SkipNewlines(ts, i + 1)].k = "("

-----------------------------------------------------------------------------
(* Lists. *)

\* parse_ident_list: up to the closing parenthesis, commas optional.
RECURSIVE IdentList(_, _, _)
IdentList(ts, i, list) ==
  Then(Expect(ts, i, "ident"), LAMBDA r :
    LET longer == Append(list, r.out)
    IN CASE ts[r.at].k = "," -> IdentList(ts, r.at + 1, longer)
         [] ts[r.at].k = "ident" -> IdentList(ts, r.at, longer)
         [] OTHER -> Accept(r.at, longer))

Inputs(ts, i) ==
  IF ts[i].k = ")" THEN Accept(i, <<>>) ELSE IdentList(ts, i, <<>>)

\* Names separated by commas, up to the closing mark if there is one.
RECURSIVE CommaNames(_, _, _, _)
CommaNames(ts, i, close, list) ==
  IF ts[i].k = close THEN Accept(i, list)
  ELSE Then(Expect(ts, i, "ident"), LAMBDA r :
    IF ts[r.at].k = "," THEN CommaNames(ts, r.at + 1, close, Append(list, r.out))
    ELSE Accept(r.at, Append(list, r.out)))

-----------------------------------------------------------------------------
(* Expressions and types.  A record passes its depth on unchanged and a   *)
(* type has none, so that only constructor calls are counted.              *)

RECURSIVE ParseExpr(_, _, _), ArgList(_, _, _, _), ParseType(_, _),
          FieldList(_, _, _, _, _, _)

\* The fields of a record value (of this depth) or of a record type, after the
\* opening brace: names and values or types.
FieldList(ts, i, isType, depth, names, values) ==
  Then(Expect(ts, i, "ident"), LAMBDA name :
  Then(Expect(ts, name.at, ":"), LAMBDA colon :
  Then(IF isType THEN ParseType(ts, colon.at) ELSE ParseExpr(ts, colon.at, depth),
       LAMBDA r :
    LET ns == Append(names, name.out)
        vs == Append(values, r.out)
    IN IF ts[r.at].k = ","
       THEN FieldList(ts, r.at + 1, isType, depth, ns, vs)
       ELSE Accept(r.at, <<ns, vs>>))))

Braced(ts, i, isType, depth) ==
  Then(Expect(ts, i, "{"), LAMBDA open :
  Then(IF ts[open.at].k = "}" THEN Accept(open.at, <<<<>>, <<>>>>)
       ELSE FieldList(ts, open.at, isType, depth, <<>>, <<>>), LAMBDA fields :
  Then(Expect(ts, fields.at, "}"), LAMBDA close :
    Accept(close.at,
      Node(IF isType THEN "recordtype" ELSE "record", <<>>,
           fields.out[2], fields.out[1])))))

\* parse_arg_list: commas are optional before a token that starts a value.
ArgList(ts, i, depth, list) ==
  Then(ParseExpr(ts, i, depth), LAMBDA r :
    LET longer == Append(list, r.out)
    IN CASE ts[r.at].k = "," -> ArgList(ts, r.at + 1, depth, longer)
         [] ts[r.at].k \in {"num", "str", "sym", "{", "(", "ident"} ->
              ArgList(ts, r.at, depth, longer)
         [] OTHER -> Accept(r.at, longer))

\* The value a constructor makes of its arguments, which are read at a depth.
Construct(name, args) ==
  LET pair == Len(args) = 2
  IN CASE name = "q" /\ pair /\ args[2].k = "str" ->
            <<Quant(args[1], args[2].v)>>
       [] name = "interval" /\ pair -> <<Interval(args[1], args[2])>>
       [] name = "rat" /\ pair /\ args[1].k = "num" /\ args[2].k = "num"
            /\ args[2].v # <<"0">> -> <<RatLit(args[1].v[1], args[2].v[1])>>
       [] name \in RelationOps -> <<Relation(name, args)>>
       [] OTHER -> <<>>

Called(ts, i, depth) ==
  Then(Expect(ts, i + 1, "("), LAMBDA open :
  Then(IF ts[open.at].k = ")" THEN Accept(open.at, <<>>)
       ELSE ArgList(ts, open.at, depth, <<>>), LAMBDA args :
  Then(Expect(ts, args.at, ")"), LAMBDA close :
    LET name == ts[i].v
        made == IF Len(name) = 1 THEN Construct(name[1], args.out) ELSE <<>>
    IN IF made = <<>> THEN Refuse ELSE Accept(close.at, made[1]))))

\* A plausible bug: the arguments are read at the constructor's own depth.
ConstructorUncounted(ts, i, depth) == Called(ts, i, depth)

Constructor(ts, i, depth) == Called(ts, i, depth + 1)

ParseExpr(ts, i, depth) ==
  LET v == ts[i].v
      k == ts[i].k
  IN IF depth > MaxDepth THEN Refuse
     ELSE CASE k \in {"num", "str", "sym"} -> Accept(i + 1, Leaf(k, v))
            [] k = "ident" /\ v \in {<<"true">>, <<"false">>} ->
                 Accept(i + 1, BoolLit(v[1]))
            [] k = "ident" /\ v \notin {<<"true">>, <<"false">>} ->
                 IF IsCall(ts, i) THEN Constructor(ts, i, depth)
                 ELSE Accept(i + 1, Ref(v))
            [] k = "{" -> Braced(ts, i, FALSE, depth)
            [] OTHER -> Refuse

\* Where a name's version and namespace are split off.
LastAt(v) ==
  LET ats == {i \in DOMAIN v : v[i] = "@"}
  IN IF ats = {} THEN Len(v) + 1 ELSE CHOOSE i \in ats : \A j \in ats : j <= i
FirstColon(v) ==
  LET colons == {i \in DOMAIN v : v[i] = ":"}
  IN IF colons = {} THEN 0 ELSE CHOOSE i \in colons : \A j \in colons : i <= j

\* A plausible bug: the version is cut off and never kept.
SplitTypeUnversioned(v) ==
  LET path == SubSeq(v, 1, LastAt(v) - 1)
      colon == FirstColon(path)
  IN ExtensionType(IF colon = 0 THEN <<"ext">> ELSE SubSeq(path, 1, colon - 1),
                   SubSeq(path, colon + 1, Len(path)), <<"1">>)

SplitType(v) ==
  LET at == LastAt(v)
      path == SubSeq(v, 1, at - 1)
      colon == FirstColon(path)
  IN ExtensionType(IF colon = 0 THEN <<"ext">> ELSE SubSeq(path, 1, colon - 1),
                   SubSeq(path, colon + 1, Len(path)),
                   IF at > Len(v) THEN <<"1">> ELSE SubSeq(v, at + 1, Len(v)))

ParseType(ts, i) ==
  Then(Expect(ts, i, "ident"), LAMBDA r :
    IF r.out = <<"record">> THEN Braced(ts, r.at, TRUE, 0)
    ELSE IF \E j \in DOMAIN r.out : r.out[j] \in InnerMarks
         THEN Accept(r.at, SplitType(r.out))
         ELSE Accept(r.at, NamedType(r.out)))

\* parse_uncertainty: probability, numeric and weight all want two numbers,
\* and external a string without parentheses.
ParseUncertainty(ts, i) ==
  LET word(ks) == \E k \in ks : IsWord(ts, i, k)
      k == ts[i].v[1]
  IN CASE word({"exact", "unknown", "conflicting"}) -> Accept(i + 1, Doubt(k, <<>>))
       [] word({"probability", "numeric", "weight"}) ->
            Then(Expect(ts, i + 1, "("), LAMBDA open :
            Then(Expect(ts, open.at, "num"), LAMBDA a :
            Then(Expect(ts, a.at, ","), LAMBDA comma :
            Then(Expect(ts, comma.at, "num"), LAMBDA b :
            Then(Expect(ts, b.at, ")"), LAMBDA close :
              Accept(close.at,
                Doubt(k, IF k = "weight" THEN a.out ELSE a.out \o b.out)))))))
       [] word({"external"}) ->
            Then(Expect(ts, i + 1, "str"), LAMBDA s :
              Accept(s.at, Doubt("external", s.out)))
       [] OTHER -> Refuse

=============================================================================
