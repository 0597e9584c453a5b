----------------------------- MODULE Incremental -----------------------------
(***************************************************************************)
(* axiom-incremental: one invalidate_and_recompute call at a time on the   *)
(* module of a Runtime, between edits of that module by the calls of       *)
(* AxiomModule.  The call is broken into its loops' iterations: breadth-   *)
(* first search of the frontier, marking, and rounds of recomputation.     *)
(*                                                                         *)
(* The code's HashSets are iterated in arbitrary order; here every loop    *)
(* picks any element of a set that is left to visit.  (From the second     *)
(* round on the code keeps the order of the first, one of those orders.)   *)
(* `before` and `failed` are history variables, read by properties only.   *)
(***************************************************************************)
EXTENDS AxiomModule

CONSTANTS Builtin, \* the operations Runtime::new registers
          Nothing, \* no node: what changed when no call is running
          NoNode   \* no claim is between its derive and its verify

\* The callers of the calculus verify and invalidate any claim, as this one does.
ASSUME IncAssumption ==
  /\ Builtin \subseteq OperationDef
  /\ Judged = Node /\ {"verify", "invalidate"} \subseteq Verdict
  /\ NoNode \notin Node

VARIABLES
  phase,       \* "idle", or the loop the call is in
  changed,     \* the id the call was given
  roots,       \* the trust roots it was given
  rev,         \* reverse_dependents(m): id -> claims that depend on it
  affected,    \* the frontier, growing during "search"
  queue,       \* claims still to visit during "search"
  invalidated, \* report: claims marked Invalidated
  worklist,    \* claims left in this round of "recompute"
  next,        \* claims put off to the next round
  current,     \* the claim between its derive and its verify
  recomputed,  \* report: claims the loop has been through
  progressed,  \* whether this round recomputed anything
  before,      \* history: the claims when the call began
  failed       \* history: claims whose derive was refused

searchVars == <<changed, roots, rev, before>>
reportVars == <<invalidated, recomputed, failed>>
roundVars == <<worklist, next, current, progressed>>
callVars == <<phase, affected, queue, searchVars, reportVars, roundVars>>
incVars == <<vars, callVars>>

-----------------------------------------------------------------------------
(* The dependency graph. *)

\* Ids `changed` may be: claims, evidence, assumptions, receipts, operations.
Changeable == Node \cup Evidence \cup Assumption \cup Receipt \cup Operation

\* Those the module holds; for any other id the call does nothing.
Recorded ==
  DOMAIN claims \cup evidence \cup assumptions \cup receipts
    \cup DOMAIN operations

Inputs(n) == InputNodes(claims[n].derivation.inputs)

IsDerived(n) == claims[n].derivation # NoDerivation

\* Claim::depends_on: the receipt and the operation of the derivation are not
\* among what a claim depends on.
DependsOn(n) ==
  claims[n].assumptions \cup claims[n].evidence
    \cup (IF IsDerived(n) THEN Inputs(n) ELSE {})

ReverseDependents ==
  [id \in Changeable |-> {n \in DOMAIN claims : id \in DependsOn(n)}]

-----------------------------------------------------------------------------

\* No call is running.
Idle ==
  /\ phase = "idle"
  /\ changed = Nothing
  /\ roots = {}
  /\ rev = [id \in Changeable |-> {}]
  /\ affected = {} /\ queue = {}
  /\ invalidated = {} /\ recomputed = {}
  /\ worklist = {} /\ next = {}
  /\ current = NoNode
  /\ progressed = FALSE
  /\ before = <<>> /\ failed = {}

\* Runtime::new registers the operations before anything else happens.
IncInit ==
  /\ claims = <<>>
  /\ localClaims = {} /\ assumptions = {} /\ evidence = {} /\ receipts = {}
  /\ operations = Registry(Builtin)
  /\ derivations = {} /\ obligations = <<>> /\ lastEvent = <<>>
  /\ Idle

\* Any call of the calculus, while no invalidation is running.
Edit == phase = "idle" /\ Next /\ UNCHANGED callVars

-----------------------------------------------------------------------------
(* The frontier. *)

\* A plausible bug: any changed id is put in the frontier.
SeedsUnchecked(id) == {a.claim : a \in assumptions \cap {id}} \cup {id}

\* What `affected` holds before the search: a retracted assumption's claim, and
\* the changed claim itself.
Seeds(id) ==
  {a.claim : a \in assumptions \cap {id}} \cup (DOMAIN claims \cap {id})

Begin(id, trusted) ==
  /\ phase = "idle"
  /\ phase' = "search"
  /\ changed' = id
  /\ roots' = trusted
  /\ rev' = ReverseDependents
  /\ affected' = Seeds(id)
  /\ queue' = ReverseDependents[id]
  /\ before' = claims
  /\ UNCHANGED <<vars, reportVars, roundVars>>

\* A plausible bug: the search stops at direct dependents.
VisitOnly(n) ==
  /\ affected' = affected \cup {n}
  /\ queue' = queue \ {n}

\* A claim that is already affected is not expanded again.
Visit(n) ==
  /\ affected' = affected \cup {n}
  /\ queue' = (queue \ {n}) \cup
                (IF n \in affected THEN {} ELSE rev[n] \ affected')

Search ==
  /\ phase = "search"
  /\ \E n \in queue : Visit(n)
  /\ UNCHANGED <<vars, phase, searchVars, reportVars, roundVars>>

\* A changed premise is the corrected input and stays; so does what is no claim.
Frontier ==
  IF changed \in DOMAIN claims /\ IsDerived(changed)
    THEN affected ELSE affected \ {changed}

SearchDone ==
  /\ phase = "search" /\ queue = {}
  /\ phase' = "mark"
  /\ affected' = Frontier
  /\ UNCHANGED <<vars, queue, searchVars, reportVars, roundVars>>

-----------------------------------------------------------------------------
(* Invalidation. *)

\* A plausible bug: every conclusion of the module is invalidated.
UnmarkedAnywhere ==
  {n \in DOMAIN claims : IsDerived(n) /\ claims[n].status # "Invalidated"}

Unmarked == {n \in affected : claims[n].status # "Invalidated"}

Mark(n) ==
  /\ phase = "mark"
  /\ SetStatus(n, "Invalidated", "Invalidate")
  /\ invalidated' = invalidated \cup {n}
  /\ UNCHANGED <<phase, affected, queue, searchVars, recomputed, failed, roundVars>>

MarkDone ==
  /\ phase = "mark" /\ Unmarked = {}
  /\ phase' = "recompute"
  /\ worklist' = {n \in affected : IsDerived(n)}
  /\ UNCHANGED <<vars, affected, queue, searchVars, reportVars, next, current,
                 progressed>>

-----------------------------------------------------------------------------
(* Recomputation. *)

\* A plausible bug: the frontier is recomputed in any order.
ReadyAtOnce(n) == TRUE

\* Every input is recomputed or was never affected, and none is Invalidated.
Ready(n) ==
  \A i \in Inputs(n) :
    /\ i \notin affected \/ i \in recomputed
    /\ claims[i].status # "Invalidated"

PutOff(n) ==
  /\ phase = "recompute" /\ n \in worklist /\ ~Ready(n)
  /\ worklist' = worklist \ {n}
  /\ next' = next \cup {n}
  /\ UNCHANGED <<vars, phase, affected, queue, searchVars, reportVars, current,
                 progressed>>

\* The result of the derive is ignored: if it is refused the claim keeps its
\* value and derivation, Invalidated.
Rederive(n) ==
  /\ phase = "recompute" /\ n \in worklist /\ Ready(n)
  /\ phase' = "verify"
  /\ current' = n
  /\ LET d == claims[n].derivation IN
       \/ /\ Derive(d.op, d.inputs, n, d.receipt, roots)
          /\ UNCHANGED failed
       \/ /\ ~CanDerive(d.op, d.inputs, d.receipt, roots)
          /\ failed' = failed \cup {n}
          /\ UNCHANGED vars
  /\ UNCHANGED <<affected, queue, searchVars, invalidated, recomputed, worklist,
                 next, progressed>>

\* A plausible bug: a recomputed claim is restored to Verified.
RestoreVerified(n) == SetStatus(n, "Verified", "Verify")

\* verify, its result ignored: refused if the gate is shut.
TryVerify(n) == IF GateOpen(n) THEN Verify(n) ELSE UNCHANGED vars

Reverify ==
  /\ phase = "verify"
  /\ phase' = "recompute"
  /\ TryVerify(current)
  /\ worklist' = worklist \ {current}
  /\ recomputed' = recomputed \cup {current}
  /\ current' = NoNode
  /\ progressed' = TRUE
  /\ UNCHANGED <<affected, queue, searchVars, invalidated, failed, next>>

\* A plausible bug: what was put off in the first round is forgotten.
RoundOnce ==
  /\ phase = "recompute" /\ worklist = {}
  /\ phase' = "done"
  /\ worklist' = next /\ next' = {}
  /\ progressed' = FALSE
  /\ UNCHANGED <<vars, affected, queue, searchVars, reportVars, current>>

\* A plausible bug: `progressed` is not reset between rounds.
RoundForever ==
  /\ phase = "recompute" /\ worklist = {}
  /\ phase' = IF progressed THEN "recompute" ELSE "done"
  /\ worklist' = next /\ next' = {}
  /\ UNCHANGED <<vars, affected, queue, searchVars, reportVars, current,
                 progressed>>

\* The end of a round: another one follows if this one recomputed anything.
Round ==
  /\ phase = "recompute" /\ worklist = {}
  /\ phase' = IF progressed THEN "recompute" ELSE "done"
  /\ worklist' = next /\ next' = {}
  /\ progressed' = FALSE
  /\ UNCHANGED <<vars, affected, queue, searchVars, reportVars, current>>

\* The report goes to the caller and the call's locals are gone.
Return ==
  /\ phase = "done"
  /\ phase' = "idle"
  /\ changed' = Nothing
  /\ rev' = [id \in Changeable |-> {}]
  /\ before' = <<>>
  /\ roots' = {} /\ affected' = {} /\ invalidated' = {} /\ recomputed' = {}
  /\ worklist' = {} /\ failed' = {}
  /\ UNCHANGED <<vars, queue, next, current, progressed>>

-----------------------------------------------------------------------------

CallStep ==
  \/ Search
  \/ SearchDone
  \/ \E n \in Unmarked : Mark(n)
  \/ MarkDone
  \/ \E n \in worklist : PutOff(n) \/ Rederive(n)
  \/ Reverify
  \/ Round
  \/ Return

IncNext ==
  \/ Edit
  \/ \E id \in Recorded, trusted \in {{}, Provider} : Begin(id, trusted)
  \/ CallStep

\* The call is sequential code that runs until it returns.
IncSpec == IncInit /\ [][IncNext]_incVars /\ WF_incVars(CallStep)
=============================================================================
