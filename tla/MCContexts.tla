------------------------------ MODULE MCContexts ------------------------------
(***************************************************************************)
(* The instances of Contexts that TLC checks: two branches a and b of the  *)
(* root, their merge ab and, in the second configuration, a branch ax of   *)
(* the merge.  x is assumed in the root and in b, with values that clash   *)
(* under one scope, and asserted in a; y is derived in ab from the first   *)
(* two.  A context may be stated in before it is made and be made twice.   *)
(***************************************************************************)
EXTENDS ContextsProps

CONSTANTS x, y, s, root, a, b, ab, ax, none, elsewhere

MCBranchId(p, label, as) ==
  CASE p = root /\ as = <<>> /\ label = "a" -> a
    [] p = root /\ as = <<>> /\ label = "b" -> b
    [] p = ab /\ as = <<>> /\ label = "a" -> ax
    [] OTHER -> elsewhere
MCMergeId(p, q, label) == IF p = a /\ q = b /\ label = "a" THEN ab ELSE elsewhere
true == [kind |-> "bool", of |-> TRUE]
false == [kind |-> "bool", of |-> FALSE]
MCValue == {true, false}
MCAsserted == {<<x, a, false>>}
MCAssumed == {<<x, root, true, s>>, <<x, b, false, s>>}
MCDerived == {<<{<<x, root>>, <<x, b>>}, y, ab>>}
MCRaised == {<<<<x, a>>, <<x, b>>, ab>>}
MCJudged == {<<y, ab>>}
MCCombine(S) == IF S = {true} THEN false ELSE true
=============================================================================
