--------------------------- MODULE MCAxiomModule ---------------------------
(***************************************************************************)
(* The instance of AxiomModule that TLC checks: a premise x and a          *)
(* conclusion y; a division that fails on one value and owes a numeric     *)
(* bounds check, a receipted tool, an external probe without capabilities  *)
(* (`derive` lets it pass without a receipt), and a tool that takes the    *)
(* division's name and gives a narrower type than the division's results.  *)
(***************************************************************************)
EXTENDS AxiomModuleProps

CONSTANTS x, y, v0, v1, eu, div, tool, probe, p, wide, narrow

MCNode == {x, y}
MCValue == {v0, v1}
MCDefinition ==
  {[id |-> div, class |-> "PureInternal", types |-> wide,
    generates |-> {"NumericBounds"}, capabilities |-> FALSE],
   [id |-> tool, class |-> "VerifiedExternal", types |-> wide,
    generates |-> {"ToolReceiptValidation"}, capabilities |-> TRUE],
   [id |-> probe, class |-> "UnverifiedExternal", types |-> wide,
    generates |-> {}, capabilities |-> FALSE],
   [id |-> div, class |-> "UnverifiedExternal", types |-> narrow,
    generates |-> {}, capabilities |-> FALSE]}
MCReceipt == {[inputs |-> <<v0>>, output |-> v1, provider |-> p]}
MCApplication ==
  {[op |-> div, inputs |-> <<x>>, output |-> y],
   [op |-> tool, inputs |-> <<x>>, output |-> y],
   [op |-> probe, inputs |-> <<x>>, output |-> y]}
MCStatement ==
  {[verb |-> "assert", node |-> x, value |-> v0, evidence |-> {eu}],
   [verb |-> "assume", node |-> x, value |-> v1, evidence |-> {}],
   [verb |-> "observe", node |-> y, value |-> v0, evidence |-> {eu}]}
MCRequirable ==
  {[kind |-> "NumericBounds", target |-> y, severity |-> "Mandatory"]}
MCAccepts(types, vals) == Len(vals) = 1
MCYields(types, val) == types = wide
MCExec(op, vals) == IF op = div /\ vals[1] = v0 THEN "division by zero" ELSE v0
=============================================================================
