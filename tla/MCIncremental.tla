---------------------------- MODULE MCIncremental ----------------------------
(***************************************************************************)
(* The instance of Incremental that TLC checks: a premise x, with and      *)
(* without evidence; a conclusion y from x; a conclusion z from x and y by *)
(* a division that fails on one value and owes a bounds check; and y from  *)
(* z, which closes a dependency cycle.  The negation's name may be taken   *)
(* over by an external operation (MCReplacing).  In MCIncrementalReceipt,  *)
(* y comes from a tool's receipt.                                          *)
(***************************************************************************)
EXTENDS IncrementalProps

CONSTANTS x, y, z, v0, v1, e, p, neg, div, tool

MCNode == {x, y, z}
Defined(op, class, kinds, capable) ==
  [id |-> op, class |-> class, types |-> op, generates |-> kinds,
   capabilities |-> capable]
MCBuiltin ==
  {Defined(neg, "PureInternal", {}, FALSE),
   Defined(div, "PureInternal", {"NumericBounds"}, FALSE)}
MCReplacing == {Defined(neg, "UnverifiedExternal", {}, FALSE)}
MCTool == {Defined(tool, "VerifiedExternal", {"ToolReceiptValidation"}, TRUE)}
MCReceipt == {[inputs |-> <<v0>>, output |-> v1, provider |-> p]}
MCApplication ==
  {[op |-> neg, inputs |-> <<x>>, output |-> y],
   [op |-> div, inputs |-> <<x, y>>, output |-> z],
   [op |-> neg, inputs |-> <<z>>, output |-> y]}
MCToolApplication == {[op |-> tool, inputs |-> <<x>>, output |-> y]}
MCStatement ==
  {[verb |-> "assert", node |-> x, value |-> v0, evidence |-> {e}],
   [verb |-> "assert", node |-> x, value |-> v1, evidence |-> {}],
   [verb |-> "assume", node |-> x, value |-> v1, evidence |-> {}]}
MCRequirable == {[kind |-> "Custom", target |-> y, severity |-> "Mandatory"]}
MCAccepts(types, vals) == Len(vals) = (IF types = div THEN 2 ELSE 1)
MCYields(types, val) == TRUE
MCExec(op, vals) ==
  CASE op = neg -> IF vals[1] = v0 THEN v1 ELSE v0
    [] op = div -> IF vals[2] = v0 THEN "division by zero" ELSE vals[1]
    [] op = tool -> "no executor"
=============================================================================
