-------------------------- MODULE IncrementalProps --------------------------
(***************************************************************************)
(* The properties of incremental invalidation.                             *)
(***************************************************************************)
EXTENDS Incremental

IncTypeOK ==
  /\ phase \in {"idle", "search", "mark", "recompute", "verify", "done"}
  /\ changed \in Changeable \cup {Nothing}
  /\ roots \subseteq Provider
  /\ rev \in [Changeable -> SUBSET Node]
  /\ affected \subseteq DOMAIN claims
  /\ queue \subseteq DOMAIN claims
  /\ invalidated \subseteq affected
  /\ worklist \subseteq affected
  /\ next \subseteq affected
  /\ current \in affected \cup {NoNode}
  /\ recomputed \subseteq affected
  /\ progressed \in BOOLEAN
  /\ DOMAIN before \subseteq DOMAIN claims
  /\ failed \subseteq affected

\* Every step of a call, the direct writes of status included, is a call of the
\* calculus or leaves the module alone, so what holds of every calculus step
\* holds of incremental invalidation.
StepsAreCalls == [][Next]_vars

-----------------------------------------------------------------------------
(* The frontier. *)

FrontierKnown == phase \in {"mark", "recompute", "verify", "done"}

\* The claims that named `id` when the call began, as an assumption, as
\* evidence or as an input of their derivation: the links the code follows.
Dependents(id) ==
  {n \in DOMAIN before :
     \/ id \in before[n].assumptions \cup before[n].evidence
     \/ /\ before[n].derivation # NoDerivation
        /\ id \in InputNodes(before[n].derivation.inputs)}

\* No dependent of what changed, or of an affected claim, is left out.
Closed ==
  \A id \in affected \cup {changed} :
    Dependents(id) \subseteq affected \cup {changed}

\* The frontier of a changed claim or evidence is exactly its transitive
\* dependents, a changed conclusion included and a changed premise not: every
\* one of them, and, a retracted assumption's own claim apart, no claim that
\* some set closed under dependency can do without.  Receipts and operations
\* are left to ReceiptDependentsFound: the code follows no link to them.
FrontierExact ==
  FrontierKnown /\ changed \in Node \cup Evidence \cup Assumption =>
    /\ changed \notin assumptions => Closed
    /\ \A S \in SUBSET Node :
         /\ Dependents(changed) \subseteq S
         /\ \A n \in S : Dependents(n) \subseteq S
         => \A n \in affected : n \in S \/ n = changed \/ [claim |-> n] = changed
    /\ changed \in affected => before[changed].derivation # NoDerivation

\* Removing an assumption must invalidate every verified claim whose dependency
\* chain reaches it (spec/semantics.md:64-65).  The code puts the assumption's
\* claim in the frontier before the search, which therefore does not expand it.
AssumptionFrontierClosed ==
  /\ FrontierKnown
  /\ changed \in assumptions
  /\ changed \in before[changed.claim].assumptions
  => \A id \in affected \cup {changed} : \A n \in Dependents(id) :
       before[n].status = "Verified" => n \in affected

\* A receipt that changes puts the claims derived from it in the frontier (the
\* engine's header and its comment on `changed`; spec/semantics.md, section 5).
\* The dependency graph has no link from a claim to its derivation's receipt,
\* so the code finds none of them; nor the claims of a changed operation.
ReceiptDependentsFound ==
  FrontierKnown /\ changed \in receipts =>
    \A n \in DOMAIN before :
      /\ before[n].status = "Verified"
      /\ before[n].derivation.receipt = changed
      => n \in affected

\* The report lists as `recomputed` the claims successfully recomputed
\* (InvalidationReport's comment).  The code ignores the result of derive: a
\* claim whose re-derivation is refused is listed too, and its old value is
\* verified again.
RecomputedSucceeded ==
  phase = "done" =>
    \A n \in recomputed : claims[n].status = "Verified" => n \notin failed

\* A mandatory obligation attached to a claim blocks `verify` until it is
\* discharged (add_obligation's comment).  A re-derived claim starts from its
\* operation's obligations, so one attached by `require` no longer blocks it.
AttachedObligationsBlock ==
  phase = "done" =>
    \A n \in recomputed : claims[n].status = "Verified" =>
      \A o \in before[n].obligations :
        o.severity = "Mandatory" => obligations[o] \in Discharged

\* INV-MINIMALITY: at no moment does a claim outside the frontier differ from
\* what it was when the call began, whatever is re-derived inside it.
OutsideKept ==
  phase # "idle" =>
    /\ DOMAIN claims = DOMAIN before
    /\ \A n \in DOMAIN claims \ affected : claims[n] = before[n]

-----------------------------------------------------------------------------
(* Recomputation. *)

Rederivable == {n \in affected : IsDerived(n)}

\* The claims of the frontier that are ready once those of T are gone through.
Settles(T) ==
  {n \in Rederivable : \A i \in Inputs(n) :
     /\ i \notin affected \/ i \in T
     /\ claims[i].status # "Invalidated"}

\* The claims gone through are exactly those whose inputs can be settled first,
\* in whatever order each round visits them: none too early, none on a
\* dependency cycle, and none left behind.  They are the least set that is
\* closed under readiness.
RecomputeExact ==
  phase = "done" =>
    /\ Settles(recomputed) \subseteq recomputed
    /\ \A T \in SUBSET Rederivable : Settles(T) \subseteq T => recomputed \subseteq T

\* A claim that was re-derived agrees with the final values of its inputs, and
\* none of them is Invalidated when the call returns.
RecomputedCoherent ==
  phase = "done" =>
    \A n \in recomputed \ failed :
      LET d == claims[n].derivation IN
        /\ CanDerive(d.op, d.inputs, d.receipt, roots)
        /\ claims[n].value = Output(d.op, d.inputs, d.receipt)
        /\ \A i \in Inputs(n) : claims[i].status # "Invalidated"

\* Every claim of the frontier that ends Verified went through the gate after
\* its inputs were settled; whatever the call did not get to is Invalidated.
UnsettledInvalidated ==
  phase = "done" =>
    /\ \A n \in affected \ recomputed : claims[n].status = "Invalidated"
    /\ \A n \in recomputed : claims[n].status = "Verified" => GateOpen(n)

\* Every call returns: the rounds end, also over cyclic dependencies.
CallReturns == phase # "idle" ~> phase = "idle"
=============================================================================
