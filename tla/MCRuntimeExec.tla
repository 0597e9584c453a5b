---------------------------- MODULE MCRuntimeExec ----------------------------
(***************************************************************************)
(* The instance of RuntimeExec that TLC checks: small modules, each with   *)
(* its worklist statements in every order, some executed again on the same *)
(* Runtime, and those that end without error replayed.                     *)
(***************************************************************************)
EXTENDS RuntimeExecProps, ProducerProps

CONSTANTS v0, v1, trusted, untrusted, unverified, neg, div, tool, short, calc

Orders(S) == Seqs!SetToSeqs(S)
After(prefix, S) == {prefix \o order : order \in Orders(S)}

\* Statements.
EvidenceOf(l, e, ok) ==
  [verb |-> "evidence", label |-> l, evidence |-> e, provider |-> calc, signed |-> ok]
Premise3(v, l, c, val, ev) ==
  [verb |-> v, label |-> l, ctx |-> c, value |-> val, evidence |-> ev]
Let(l, op, ins, c) ==
  [verb |-> "derive", label |-> l, op |-> op, inputs |-> ins, ctx |-> c, receipt |-> FALSE]
CallOp(l, op, ins, cap) ==
  [verb |-> "call", label |-> l, op |-> op, inputs |-> ins, capability |-> cap, ctx |-> "root"]
CallOf(l, ins, cap) == CallOp(l, tool, ins, cap)
On(verb, l) == [verb |-> verb, target |-> l]
Requires(k, l) == [verb |-> "require", kind |-> k, target |-> l]
Discharges(l, by) == [verb |-> "discharge", target |-> l, by |-> by]
BranchOf(l, p, as) == [verb |-> "branch", label |-> l, parent |-> p, assumptions |-> as]
MergeOf(l, p, q) == [verb |-> "merge", label |-> l, a |-> p, b |-> q]
Against(l, k) == [verb |-> "contradict", a |-> l, b |-> k]

AssertX == Premise3("assert", "x", "root", v0, {})
Untrustworthy == EvidenceOf("e", untrusted, FALSE)

\* A required obligation, its discharge and the verification.
Required ==
  After(<<Premise3("assert", "x", "root", v0, {"e"}), Untrustworthy>>,
        {Let("y", div, <<"x", "x">>, "root"), Requires("Custom", "y"),
         Discharges("y", "e"), On("verify", "y")})

\* Calls of one tool, for two inputs or one, and what follows from one of them.
Called ==
  After(<<AssertX>>,
        {CallOf("c", <<"x">>, "tool:calculator"), CallOf("d", <<"y">>, "tool:calculator"),
         Let("y", neg, <<"x">>, "root"), Let("z", neg, <<"c">>, "root"), On("verify", "d")})
  \cup {<<AssertX, CallOf("c", <<"x">>, "tool:calculator"),
          CallOf("d", <<"x">>, "tool:calculator")>>}

\* Calls under a builtin's name, in full and without its prefix, around a
\* derivation by the builtin and its verification.
Replacing ==
  After(<<AssertX>>,
        {Let("y", short, <<"x">>, "root"), On("verify", "y"),
         CallOp("c", neg, <<"x">>, "tool:calculator")})
  \cup After(<<AssertX>>,
             {Let("y", short, <<"x">>, "root"), Let("z", neg, <<"x">>, "root"),
              CallOp("c", short, <<"x">>, "tool:calculator")})

\* A derivation in a branch, a merge, and the other status statements.
Branched ==
  After(<<Premise3("assume", "x", "root", v0, {}), Premise3("observe", "h", "root", v1, {})>>,
        {BranchOf("b", "root", {"x"}), MergeOf("m", "b", "root"),
         Let("y", neg, <<"x">>, "b"), Against("x", "y"), On("challenge", "y")})

\* Executions that end with an error, half-way.
Broken ==
  {<<EvidenceOf("t", trusted, FALSE), AssertX>>,
   <<Premise3("assert", "x", "root", v0, {"nowhere"})>>,
   <<Premise3("assert", "x", "b", v0, {}), BranchOf("b", "root", {})>>,
   <<BranchOf("b", "root", {"z"}), AssertX>>,
   <<AssertX, Let("y", neg, <<"x">>, "b"), BranchOf("b", "root", {})>>,
   <<AssertX, CallOf("c", <<"x">>, "tool:other")>>,
   <<AssertX, Let("y", tool, <<"x">>, "root")>>,
   <<EvidenceOf("t", trusted, FALSE), Premise3("assert", "x", "root", v0, {"t"})>>,
   <<AssertX, [Let("y", neg, <<"x">>, "root") EXCEPT !.receipt = TRUE]>>,
   <<AssertX, On("attest", "x"), Discharges("x", "x"), On("invalidate", "x")>>,
   [i \in 1..13 |-> On("challenge", "x")]}
  \cup After(<<AssertX>>, {Let("y", neg, <<"z">>, "root"), Let("z", neg, <<"y">>, "root"),
                           Let("h", neg, <<"x">>, "root"), On("verify", "h")})

\* Plans: y from a premise with evidence by an operation that owes a bounds
\* check or not, z from y, in both orders; one label that sanitizes to another.
PlanStep(l, op, ins, req, by, v) ==
  [label |-> l, op |-> op, inputs |-> ins, requires |-> req, dischargeBy |-> by,
   ty |-> NoType, verify |-> v]
MCPlan ==
  LET yDiv == {PlanStep("y", "div", <<"x", "x">>, req, by, TRUE) :
                 req \in BOOLEAN, by \in {NoLabel, "ev_x", "x"}}
      zNeg == {PlanStep("z", "core.neg", <<"y">>, req, NoLabel, v) :
                 req, v \in BOOLEAN}
      odd == {PlanStep("y!", "core.neg", <<"y">>, FALSE, NoLabel, TRUE),
              PlanStep("h", "sqrt", <<"y">>, FALSE, NoLabel, TRUE),
              PlanStep("h", "neg", <<"y", "y">>, FALSE, NoLabel, TRUE)}
  IN [premises : {<<[label |-> "x", value |-> v1, evidence |-> unverified]>>,
                  <<[label |-> "x", value |-> v0, evidence |-> NoEvidence]>>},
      assumptions : {<<>>, <<[label |-> "c", value |-> v0]>>},
      steps : {<<s, t>> : s \in yDiv, t \in zNeg \cup odd}
                \cup {<<t, s>> : s \in yDiv, t \in zNeg}]
MCSanitize(l) == IF l = "y!" THEN "y" ELSE l
MCEvidenceLabel(l) == IF l = "x" THEN "ev_x" ELSE "ev_other"
MCResolve(name) ==
  CASE name \in {"neg", "core.neg"} -> neg [] name = "div" -> div [] OTHER -> NoType
MCArity == [op \in {neg, div} |-> IF op = neg THEN 1 ELSE 2]
MCOutputType == [op \in {neg, div} |-> "rational"]

MCProgram == Required \cup Called \cup Replacing \cup Branched \cup Broken \cup ProducedPrograms
MCFollowup ==
  {<<Premise3("assert", "x", "root", v1, {"t"}), Let("y", neg, <<"x">>, "root"),
     On("verify", "y")>>,
   <<Let("y", neg, <<"h">>, "root"), Premise3("assert", "h", "root", v1, {}),
     On("invalidate", "y"), On("attest", "h")>>}

MCNode == {"x", "y", "z", "h", "c", "d"} \X {"root"} \cup {"x", "y"} \X {"b"}
MCReceipt ==
  [op : {tool}, inputs : {<<v0>>, <<v1>>}, output : {v0, v1}, provider : {calc}]
  \cup [op : {neg, short}, inputs : {<<v0>>}, output : {v1}, provider : {calc}]
MCCore(name) == IF name = short THEN neg ELSE NoType
\* A list of types is its length.
MCCallTypes(s, vals) == Len(vals)
MCBuiltin ==
  {[id |-> op, class |-> "PureInternal", types |-> MCArity[op],
    generates |-> IF op = div THEN {"TypeCompat", "NumericBounds"} ELSE {"TypeCompat"},
    capabilities |-> FALSE] : op \in {neg, div}}
MCAccepts(types, vals) == Len(vals) = types
MCYields(types, val) == TRUE
MCExec(op, vals) ==
  CASE op = neg -> IF vals[1] = v0 THEN v1 ELSE v0
    [] op = div -> vals[1]
    [] OTHER -> "no executor"

\* The calls of the calculus these programs make, whatever their labels mean.
Executed == UNION {Seqs!ToSet(p) : p \in MCProgram \cup MCFollowup}
MCStatement ==
  {[verb |-> s.verb, node |-> <<s.label, s.ctx>>, value |-> s.value, evidence |-> ev] :
     s \in {s \in Executed : s.verb \in Premises},
     ev \in SUBSET {trusted, untrusted, unverified}}
Meanings(labels) ==
  {ins \in [DOMAIN labels -> MCNode] : \A i \in DOMAIN ins : ins[i][1] = labels[i]}
MCApplication ==
  UNION {{[op |-> op, inputs |-> ins, output |-> <<s.label, s.ctx>>] :
            ins \in Meanings(s.inputs), op \in {s.op, MCCore(s.op)} \ {NoType}} :
           s \in {s \in Executed : s.verb \in {"derive", "call"}}}
MCDefinition ==
  UNION {{CallDefinition(s, vals) : vals \in [DOMAIN s.inputs -> {v0, v1}]} :
           s \in {s \in Executed : s.verb = "call"}}
MCRequirable ==
  [kind : {"Custom", "NumericBounds"},
   target : {n \in MCNode : n[1] \in {"y", "z", "h", "x"}}, severity : {"Mandatory"}]
=============================================================================
