------------------------- MODULE IncrementalProofs -------------------------
(***************************************************************************)
(* Proofs about incremental invalidation: every step of a call is a call   *)
(* of the calculus, the frontier is exact, and nothing outside it moves.   *)
(* Nothing is assumed of the order in which the loops visit the claims.    *)
(***************************************************************************)
EXTENDS IncrementalProps, AxiomModuleProofs

-----------------------------------------------------------------------------
(* The invariants. *)

\* Callers and re-derivations alike only ever apply what callers state.
Applied ==
  \A d \in derivations : \E a \in Application :
    a.op = d.op /\ a.inputs = d.inputs /\ a.output = d.output

ModuleInv == TypeOK /\ Grounded /\ Applied

\* What is empty in which phase, and where the loops' variables live.
Control ==
  /\ phase \in {"idle", "search", "mark", "recompute", "verify", "done"}
  /\ changed \in Changeable \cup {Nothing}
  /\ phase # "idle" => changed \in Changeable
  /\ roots \in {{}, Provider}
  /\ rev \in [Changeable -> SUBSET DOMAIN claims]
  /\ affected \subseteq DOMAIN claims
  /\ queue \subseteq DOMAIN claims
  /\ invalidated \subseteq affected
  /\ worklist \subseteq affected
  /\ next \subseteq affected
  /\ recomputed \subseteq affected
  /\ failed \subseteq affected
  /\ progressed \in BOOLEAN
  /\ DOMAIN before \subseteq DOMAIN claims
  /\ phase \in {"idle", "search"} => invalidated = {}
  /\ phase \in {"idle", "search", "mark"} =>
       worklist = {} /\ next = {} /\ recomputed = {} /\ failed = {}
  /\ phase = "done" => next = {}
  /\ IF phase = "verify" THEN current \in worklist ELSE current = NoNode

\* The rounds share out the conclusions of the frontier.
Shares ==
  /\ \A n \in worklist \cup next : IsDerived(n)
  /\ worklist \cap next = {}
  /\ recomputed \cap (worklist \cup next) = {}

\* What the call was given, and what it must leave alone.
Remembered ==
  phase # "idle" =>
    /\ DOMAIN claims = DOMAIN before
    /\ \A n \in DOMAIN claims : claims[n].derivation = before[n].derivation
    /\ \A n \in DOMAIN claims \ affected : claims[n] = before[n]
    /\ \A id \in Changeable : rev[id] = Dependents(id)
    /\ phase = "search" => claims = before

\* A set that holds the direct dependents of what changed and those of its own
\* members.
ClosedSet(S) ==
  Dependents(changed) \subseteq S /\ \A n \in S : Dependents(n) \subseteq S

\* Claims that need not be dependents of what changed: itself, and the claim of
\* a retracted assumption.
Origin(n) == n = changed \/ [claim |-> n] = changed

\* The search misses nothing it will not visit, and visits nothing that a set
\* closed under dependency can do without.
Searching ==
  phase = "search" =>
    /\ changed \notin assumptions =>
         \A id \in affected \cup {changed} : Dependents(id) \subseteq affected \cup queue
    /\ \A S \in SUBSET Node : ClosedSet(S) =>
         queue \subseteq S /\ \A n \in affected : n \in S \/ Origin(n)

IncInv == ModuleInv /\ Control /\ Shares /\ Remembered /\ Searching /\ FrontierExact

-----------------------------------------------------------------------------
(* What a call does to the module. *)

\* The step writes the claim of node n only, and keeps its derivation.
Touches(n) ==
  /\ Concerns(n)
  /\ DOMAIN claims' = DOMAIN claims
  /\ \A m \in DOMAIN claims : claims'[m].derivation = claims[m].derivation
  /\ derivations' = derivations
  /\ UNCHANGED supportVars

\* A change of status touches its claim only, and keeps its value.
LEMMA SetStatusTouches ==
  ASSUME TypeOK, NEW n \in DOMAIN claims, NEW status, NEW event,
         SetStatus(n, status, event)
  PROVE  /\ Touches(n)
         /\ claims'[n].status = status /\ claims'[n].value = claims[n].value
         /\ GateOpen(n)' = GateOpen(n)
<1>1. \A m \in DOMAIN claims : claims[m] \in Claim
  BY DEF TypeOK, IsMap
<1>2. /\ DOMAIN claims' = DOMAIN claims
      /\ claims'[n].status = status /\ claims'[n].value = claims[n].value
      /\ \A m \in DOMAIN claims : claims'[m].derivation = claims[m].derivation
  BY <1>1 DEF SetStatus, Claim
<1>3. QED BY <1>2, SetStatusMoves DEF Touches, SetStatus

\* So does applying the derivation of a claim again.
LEMMA DeriveTouches ==
  ASSUME TypeOK, Grounded, NEW n \in DOMAIN claims, IsDerived(n), NEW trusted,
         Derive(claims[n].derivation.op, claims[n].derivation.inputs, n,
                claims[n].derivation.receipt, trusted)
  PROVE  /\ Touches(n)
         /\ claims'[n].status = "Pending"
         /\ claims'[n].value = Output(claims[n].derivation.op,
                claims[n].derivation.inputs, claims[n].derivation.receipt)
<1> DEFINE d == claims[n].derivation
<1>1. d \in derivations /\ d \in Derivation /\ d.output = n
  BY DEF IsDerived, Grounded, ClaimGrounded, TypeOK, IsMap
<1>2. d = [op |-> d.op, inputs |-> d.inputs, output |-> n, receipt |-> d.receipt]
  BY <1>1 DEF Derivation
<1>3. /\ d.op \in Operation /\ d.inputs \in Seq(Node) /\ n \in Node
      /\ d.receipt \in Receipt \cup {NoReceipt}
  BY <1>1 DEF Derivation, TypeOK, IsMap
<1>4. DerivedClaim(d.op, d.inputs, n, d.receipt).derivation = d
  BY <1>2 DEF DerivedClaim
<1>5. /\ claims' = Put(claims, n, DerivedClaim(d.op, d.inputs, n, d.receipt))
      /\ derivations' = derivations \cup {d}
      /\ UNCHANGED supportVars
  BY <1>4 DEF Derive
<1>6. /\ DOMAIN claims' = DOMAIN claims
      /\ claims'[n] = DerivedClaim(d.op, d.inputs, n, d.receipt)
      /\ \A m \in DOMAIN claims : m # n => claims'[m] = claims[m]
  BY <1>5 DEF Put
<1>7. Concerns(n) /\ claims'[n].status = "Pending"
  BY <1>3, DeriveMoves
<1>8. \A m \in DOMAIN claims : claims'[m].derivation = claims[m].derivation
  BY <1>4, <1>6
<1>9. claims'[n].value = Output(d.op, d.inputs, d.receipt)
  BY <1>6 DEF DerivedClaim
<1>10. QED BY <1>1, <1>5, <1>6, <1>7, <1>8, <1>9 DEF Touches

\* Leaving the module alone touches nothing.
LEMMA QuietTouches ==
  ASSUME UNCHANGED vars, NEW n
  PROVE  Touches(n)
BY DEF Touches, Concerns, Exists, vars, supportVars

\* A claim the call verifies, or does not.
LEMMA TryVerifyTouches ==
  ASSUME TypeOK, NEW n \in DOMAIN claims, TryVerify(n)
  PROVE  /\ Touches(n)
         /\ claims'[n].status \in {"Verified", claims[n].status}
         /\ claims'[n].value = claims[n].value
         /\ GateOpen(n)' = GateOpen(n)
         /\ claims'[n].status # claims[n].status => GateOpen(n)
<1>1. CASE GateOpen(n)
  BY <1>1, SetStatusTouches DEF TryVerify, Verify
<1>2. CASE ~GateOpen(n)
  <2>1. UNCHANGED vars
    BY <1>2 DEF TryVerify
  <2>2. GateOpen(n)' = GateOpen(n)
    BY <2>1 DEF vars, GateOpen, Exists, ObligationsDischarged, DerivationComplete
  <2>3. QED BY <2>1, <2>2, QuietTouches DEF vars
<1>3. QED BY <1>1, <1>2

-----------------------------------------------------------------------------
(* Every step of a call is a call of the calculus. *)

\* Every derivation recorded is one callers apply.
LEMMA AppliedStep == Applied /\ [Next]_vars => Applied'
<1> SUFFICES ASSUME Applied, [Next]_vars PROVE Applied'
  OBVIOUS
<1>1. ASSUME NEW a \in Application, DeriveSome(a) PROVE Applied'
  <2>1. PICK receipt \in Receipt \cup {NoReceipt}, trusted \in {{}, Provider} :
             Derive(a.op, a.inputs, a.output, receipt, trusted)
    BY <1>1 DEF DeriveSome
  <2> DEFINE d == [op |-> a.op, inputs |-> a.inputs, output |-> a.output,
                   receipt |-> receipt]
  <2>2. derivations' = derivations \cup {d}
    BY <2>1 DEF Derive, DerivedClaim
  <2>3. a.op = d.op /\ a.inputs = d.inputs /\ a.output = d.output
    OBVIOUS
  <2> HIDE DEF d
  <2>4. QED BY <2>2, <2>3 DEF Applied
<1>2. CASE derivations' = derivations
  BY <1>2 DEF Applied
<1>3. CASE AddSupport
  BY <1>2, <1>3 DEF AddSupport, RegisterOp, AddEvidence, AddReceipt
<1>4. CASE \E s \in Statement : AddPremise(s)
  BY <1>2, <1>4 DEF AddPremise, Assert, Observe, Assume, Premise
<1>5. CASE ObligationCall
  BY <1>2, <1>5 DEF ObligationCall, AddObligation, Discharge
<1>6. CASE \E n \in Judged : ChangeStatus(n)
  BY <1>2, <1>6 DEF ChangeStatus, Verify, Challenge, Invalidate, Attest, SetStatus
<1>7. QED BY <1>1, <1>2, <1>3, <1>4, <1>5, <1>6 DEF Next, vars

\* What holds of the calculus is kept by its steps.
LEMMA ModuleStep == ModuleInv /\ [Next]_vars => ModuleInv'
BY TypeStep, GroundedStep, AppliedStep DEF ModuleInv

\* A step of a call is a call of the calculus that touches one claim of the
\* frontier, or leaves the module alone.
LEMMA CallTouches ==
  ASSUME ModuleInv, Control, Shares, CallStep
  PROVE  [Next]_vars /\ (UNCHANGED vars \/ \E n \in affected : Touches(n))
<1>1. DOMAIN claims \subseteq Node /\ affected \subseteq DOMAIN claims
  BY DEF ModuleInv, TypeOK, IsMap, Control
<1>2. ASSUME NEW n \in Unmarked, Mark(n)
      PROVE  Next /\ n \in affected /\ Touches(n)
  <2>1. n \in affected /\ SetStatus(n, "Invalidated", "Invalidate")
    BY <1>2 DEF Unmarked, Mark
  <2>2. Invalidate(n)
    BY <1>1, <2>1 DEF Invalidate, Exists
  <2>3. Next
    BY <1>1, <2>1, <2>2, IncAssumption DEF Next, ChangeStatus
  <2>4. QED BY <1>1, <2>1, <2>3, SetStatusTouches DEF ModuleInv
<1>3. ASSUME NEW n \in worklist, Rederive(n)
      PROVE  [Next]_vars /\ (UNCHANGED vars \/ Touches(n))
  <2> DEFINE d == claims[n].derivation
  <2>1. n \in DOMAIN claims /\ IsDerived(n)
    BY <1>1 DEF Control, Shares
  <2>2. ASSUME Derive(d.op, d.inputs, n, d.receipt, roots)
        PROVE  Next /\ Touches(n)
    <3>1. d \in derivations /\ d \in Derivation /\ d.output = n
      BY <2>1 DEF ModuleInv, IsDerived, Grounded, ClaimGrounded, TypeOK
    <3>2. PICK a \in Application :
               a.op = d.op /\ a.inputs = d.inputs /\ a.output = n
      BY <3>1 DEF ModuleInv, Applied
    <3>3. DeriveSome(a)
      BY <2>2, <3>1, <3>2 DEF DeriveSome, Derivation, Control
    <3>4. Next
      BY <3>3 DEF Next
    <3>5. QED BY <2>1, <2>2, <3>4, DeriveTouches DEF ModuleInv
  <2>3. QED BY <1>3, <2>2 DEF Rederive
<1>4. ASSUME Reverify
      PROVE  [Next]_vars /\ current \in affected /\ Touches(current)
  <2>1. current \in affected /\ TryVerify(current)
    BY <1>4 DEF Reverify, Control
  <2>2. [Next]_vars
    BY <1>1, <2>1, IncAssumption DEF TryVerify, Next, ChangeStatus
  <2>3. QED BY <1>1, <2>1, <2>2, TryVerifyTouches DEF ModuleInv
<1>5. CASE \/ Search \/ SearchDone \/ MarkDone
           \/ \E n \in worklist : PutOff(n)
           \/ Round \/ Return
  BY <1>5 DEF Search, SearchDone, MarkDone, PutOff, Round, Return
<1>6. worklist \subseteq affected
  BY DEF Control
<1>7. QED BY <1>2, <1>3, <1>4, <1>5, <1>6 DEF CallStep

\* So is every step of incremental invalidation.
LEMMA IncStepCalls ==
  ASSUME ModuleInv, Control, Shares, [IncNext]_incVars
  PROVE  [Next]_vars
<1>1. CASE UNCHANGED incVars
  BY <1>1 DEF incVars
<1>2. CASE Edit
  BY <1>2 DEF Edit
<1>3. CASE \E id \in Recorded, trusted \in {{}, Provider} : Begin(id, trusted)
  BY <1>3 DEF Begin
<1>4. CASE CallStep
  BY <1>4, CallTouches
<1>5. QED BY <1>1, <1>2, <1>3, <1>4 DEF IncNext

-----------------------------------------------------------------------------
(* The control of the call. *)

\* No call of the calculus removes a claim.
LEMMA ClaimsGrow == [Next]_vars => DOMAIN claims \subseteq DOMAIN claims'
<1> SUFFICES ASSUME [Next]_vars PROVE DOMAIN claims \subseteq DOMAIN claims'
  OBVIOUS
<1>1. CASE AddSupport
  BY <1>1 DEF AddSupport, RegisterOp, AddEvidence, AddReceipt
<1>2. CASE \E s \in Statement : AddPremise(s)
  BY <1>2 DEF AddPremise, Assert, Observe, Assume, Premise, Put
<1>3. CASE \E a \in Application : DeriveSome(a)
  BY <1>3 DEF DeriveSome, Derive, Put
<1>4. CASE ObligationCall
  BY <1>4 DEF ObligationCall, AddObligation, Discharge
<1>5. CASE \E n \in Judged : ChangeStatus(n)
  BY <1>5 DEF ChangeStatus, Verify, Challenge, Invalidate, Attest, SetStatus
<1>6. QED BY <1>1, <1>2, <1>3, <1>4, <1>5 DEF Next, vars

\* A step of a call keeps the claims that exist and what they derive from.
LEMMA CallKeeps ==
  ASSUME ModuleInv, Control, Shares, CallStep
  PROVE  /\ DOMAIN claims' = DOMAIN claims
         /\ \A n \in DOMAIN claims : claims'[n].derivation = claims[n].derivation
         /\ UNCHANGED <<derivations, supportVars>>
BY CallTouches DEF Touches, vars, supportVars

\* The reverse dependents of an id are claims.
LEMMA ReverseType ==
  ReverseDependents \in [Changeable -> SUBSET DOMAIN claims]
BY DEF ReverseDependents

\* What an id seeds the frontier with are claims.
LEMMA SeedsType == Grounded => \A id : Seeds(id) \subseteq DOMAIN claims
BY DEF Grounded, Seeds

\* A call starts with what its loops need.
LEMMA BeginControl ==
  ASSUME ModuleInv, Control, Shares, NEW id \in Recorded,
         NEW trusted \in {{}, Provider}, Begin(id, trusted)
  PROVE  Control' /\ Shares'
<1>1. id \in Changeable
  BY DEF Recorded, Changeable, ModuleInv, TypeOK, IsMap
<1>2. Seeds(id) \subseteq DOMAIN claims
  BY SeedsType DEF ModuleInv
<1>3. /\ claims' = claims /\ phase = "idle" /\ phase' = "search"
      /\ changed' = id /\ roots' = trusted /\ rev' = ReverseDependents
      /\ affected' = Seeds(id) /\ queue' = ReverseDependents[id]
      /\ before' = claims
      /\ UNCHANGED <<reportVars, roundVars>>
  BY DEF Begin, vars
<1>4. Control'
  BY <1>1, <1>2, <1>3, ReverseType DEF Control, reportVars, roundVars
<1>5. Shares'
  BY <1>3 DEF Shares, Control, reportVars, roundVars
<1>6. QED BY <1>4, <1>5

\* Every step keeps the control of the call.
LEMMA ControlStep ==
  ASSUME ModuleInv, Control, Shares, [IncNext]_incVars
  PROVE  Control' /\ Shares'
<1>1. CASE UNCHANGED incVars
  BY <1>1 DEF incVars, vars, callVars, searchVars, reportVars, roundVars,
     Control, Shares, IsDerived
<1>2. CASE Edit
  <2>1. DOMAIN claims \subseteq DOMAIN claims'
    BY <1>2, ClaimsGrow DEF Edit
  <2>2. phase = "idle" /\ UNCHANGED callVars
    BY <1>2 DEF Edit
  <2>3. Control'
    BY <2>1, <2>2 DEF Control, callVars, searchVars, reportVars, roundVars
  <2>4. worklist' = {} /\ next' = {} /\ recomputed' = {}
    BY <2>2 DEF Control, callVars, reportVars, roundVars
  <2>5. QED BY <2>3, <2>4 DEF Shares
<1>3. ASSUME NEW id \in Recorded, NEW trusted \in {{}, Provider},
             Begin(id, trusted)
      PROVE  Control' /\ Shares'
  BY <1>3, BeginControl
<1>4. CASE CallStep
  <2>1. /\ DOMAIN claims' = DOMAIN claims
        /\ \A n \in DOMAIN claims : IsDerived(n)' = IsDerived(n)
    BY <1>4, CallKeeps DEF IsDerived
  <2>2. DOMAIN claims \subseteq Changeable
    BY DEF ModuleInv, TypeOK, IsMap, Changeable
  <2> USE DEF searchVars, reportVars, roundVars
  <2>3. CASE Search
    <3>1. PICK n \in queue : Visit(n)
      BY <2>3 DEF Search
    <3>2. rev[n] \subseteq DOMAIN claims
      BY <2>2 DEF Control
    <3>3. affected' \subseteq DOMAIN claims /\ queue' \subseteq DOMAIN claims
      BY <3>1, <3>2 DEF Visit, Control
    <3>4. Control'
      BY <2>1, <2>3, <3>3 DEF Search, Control
    <3>5. QED BY <2>1, <2>3, <3>4 DEF Search, Control, Shares
  <2>4. CASE SearchDone
    <3>1. affected' \subseteq affected
      BY <2>4 DEF SearchDone, Frontier
    <3>2. QED BY <2>1, <2>4, <3>1 DEF SearchDone, Control, Shares
  <2>5. ASSUME NEW n \in Unmarked, Mark(n) PROVE Control' /\ Shares'
    BY <2>1, <2>5 DEF Mark, Unmarked, Control, Shares
  <2>6. CASE MarkDone
    <3>1. Control'
      BY <2>1, <2>6 DEF MarkDone, Control
    <3>2. \A n \in worklist' : IsDerived(n)'
      BY <2>1, <2>6 DEF MarkDone, Control
    <3>3. QED BY <2>6, <3>1, <3>2 DEF MarkDone, Control, Shares
  <2>7. ASSUME NEW n \in worklist, PutOff(n) PROVE Control' /\ Shares'
    <3>1. Control'
      BY <2>1, <2>7 DEF PutOff, Control
    <3>2. \A m \in worklist \cup next : IsDerived(m)'
      BY <2>1 DEF Control, Shares
    <3>3. QED BY <2>7, <3>1, <3>2 DEF PutOff, Shares
  <2>8. ASSUME NEW n \in worklist, Rederive(n) PROVE Control' /\ Shares'
    <3>1. failed' \in {failed, failed \cup {n}}
      BY <2>8 DEF Rederive
    <3>2. Control'
      BY <2>1, <2>8, <3>1 DEF Rederive, Control
    <3>3. \A m \in worklist \cup next : IsDerived(m)'
      BY <2>1 DEF Control, Shares
    <3>4. QED BY <2>8, <3>2, <3>3 DEF Rederive, Shares
  <2>9. CASE Reverify
    <3>1. Control'
      BY <2>1, <2>9 DEF Reverify, Control
    <3>2. \A m \in worklist \cup next : IsDerived(m)'
      BY <2>1 DEF Control, Shares
    <3>3. QED BY <2>9, <3>1, <3>2 DEF Reverify, Control, Shares
  <2>10. CASE Round
    <3>1. Control'
      BY <2>1, <2>10 DEF Round, Control
    <3>2. \A m \in worklist \cup next : IsDerived(m)'
      BY <2>1 DEF Control, Shares
    <3>3. QED BY <2>10, <3>1, <3>2 DEF Round, Shares
  <2>11. CASE Return
    BY <2>1, <2>11 DEF Return, Control, Shares
  <2>12. QED
    BY <1>4, <2>3, <2>4, <2>5, <2>6, <2>7, <2>8, <2>9, <2>10, <2>11 DEF CallStep
<1>5. QED BY <1>1, <1>2, <1>3, <1>4 DEF IncNext

-----------------------------------------------------------------------------
(* The frontier. *)

\* A call starts with the graph of the claims it found.
LEMMA BeginRemembers ==
  ASSUME ModuleInv, NEW id, NEW trusted, Begin(id, trusted)
  PROVE  Remembered'
<1>1. claims' = claims /\ before' = claims /\ rev' = ReverseDependents
  BY DEF Begin, vars
<1>2. ASSUME NEW i \in Changeable PROVE rev'[i] = Dependents(i)'
  BY <1>1 DEF ReverseDependents, Dependents, DependsOn, IsDerived, Inputs
<1>3. QED BY <1>1, <1>2 DEF Remembered

\* A step within a call keeps what it was given, and outside its frontier the
\* claims.
LEMMA RememberedStep ==
  ASSUME ModuleInv, Control, Shares, Remembered, [IncNext]_incVars
  PROVE  Remembered'
<1>1. CASE UNCHANGED incVars
  BY <1>1 DEF incVars, vars, callVars, searchVars, Remembered, Dependents
<1>2. CASE Edit
  BY <1>2 DEF Edit, callVars, Remembered
<1>3. CASE \E id \in Recorded, trusted \in {{}, Provider} : Begin(id, trusted)
  BY <1>3, BeginRemembers
<1>4. CASE CallStep
  <2> SUFFICES ASSUME phase' # "idle" PROVE Remembered'
    BY DEF Remembered
  <2>1. phase # "idle" /\ UNCHANGED searchVars
    BY <1>4 DEF CallStep, Search, SearchDone, Mark, MarkDone, PutOff, Rederive,
       Reverify, Round, Return, Control
  <2>2. \A id : Dependents(id)' = Dependents(id)
    BY <2>1 DEF Dependents, searchVars
  <2>3. /\ DOMAIN claims' = DOMAIN claims
        /\ \A n \in DOMAIN claims : claims'[n].derivation = claims[n].derivation
    BY <1>4, CallKeeps
  <2>4. /\ phase' = "search" => claims' = before
        /\ \A n \in DOMAIN claims \ affected' : claims'[n] = before[n]
    <3>1. CASE Search \/ SearchDone
      BY <2>1, <3>1 DEF Search, SearchDone, Remembered, vars
    <3>2. CASE ~Search /\ ~SearchDone
      <4>1. affected' = affected /\ phase' # "search"
        BY <1>4, <2>1, <3>2 DEF CallStep, Mark, MarkDone, PutOff, Rederive,
           Reverify, Round, Return, Control
      <4>2. \A n \in DOMAIN claims \ affected : claims'[n] = claims[n]
        BY <1>4, CallTouches DEF Touches, Concerns, vars
      <4>3. QED BY <2>1, <4>1, <4>2 DEF Remembered
    <3>3. QED BY <3>1, <3>2
  <2>5. QED BY <2>1, <2>2, <2>3, <2>4 DEF Remembered, searchVars
<1>5. QED BY <1>1, <1>2, <1>3, <1>4 DEF IncNext

\* The search starts from the direct dependents of what changed.
LEMMA BeginSearching ==
  ASSUME ModuleInv, NEW id \in Recorded, NEW trusted, Begin(id, trusted)
  PROVE  Searching'
<1>1. id \in Changeable
  BY DEF Recorded, Changeable, ModuleInv, TypeOK, IsMap
<1>2. /\ claims' = claims /\ assumptions' = assumptions
      /\ changed' = id /\ affected' = Seeds(id) /\ queue' = ReverseDependents[id]
      /\ rev' = ReverseDependents /\ phase' = "search"
  BY DEF Begin, vars
<1>3. queue' = Dependents(id)'
  BY <1>1, <1>2, BeginRemembers DEF Remembered
<1>4. \A n \in Seeds(id) : n = id \/ [claim |-> n] = id
  <2>1. assumptions \subseteq Assumption
    BY DEF ModuleInv, TypeOK
  <2>2. \A a \in Assumption : a = [claim |-> a.claim]
    BY DEF Assumption
  <2>3. QED BY <2>1, <2>2 DEF Seeds
<1>5. id \notin assumptions => Seeds(id) \subseteq {id}
  BY DEF Seeds
<1>6. id \notin assumptions =>
        \A i \in Seeds(id) \cup {id} : Dependents(i)' \subseteq queue'
  BY <1>3, <1>5
<1>7. ASSUME NEW S \in SUBSET Node, ClosedSet(S)'
      PROVE  queue' \subseteq S /\ \A n \in affected' : n \in S \/ Origin(n)'
  BY <1>2, <1>3, <1>4, <1>7 DEF ClosedSet, Origin
<1>8. QED BY <1>2, <1>6, <1>7 DEF Searching

\* A visit puts off no dependent of what it adds, and adds only what a closed
\* set has.
LEMMA VisitSearching ==
  ASSUME ModuleInv, Control, Remembered, Searching, Search
  PROVE  Searching'
<1>1. phase = "search" /\ UNCHANGED <<vars, searchVars>>
  BY DEF Search
<1>2. /\ claims' = claims /\ before' = before /\ changed' = changed
      /\ assumptions' = assumptions
  BY <1>1 DEF vars, searchVars
<1>3. \A id : Dependents(id)' = Dependents(id)
  BY <1>2 DEF Dependents
<1>4. PICK n \in queue : Visit(n)
  BY DEF Search
<1>5. n \in Node /\ rev[n] = Dependents(n)
  BY <1>1 DEF Control, ModuleInv, TypeOK, IsMap, Remembered, Changeable
<1>6. ASSUME changed \notin assumptions, NEW id \in affected' \cup {changed}
      PROVE  Dependents(id) \subseteq affected' \cup queue'
  <2>1. CASE id \in affected \cup {changed}
    <3>1. Dependents(id) \subseteq affected \cup queue
      BY <1>1, <1>6, <2>1 DEF Searching
    <3>2. QED BY <1>4, <3>1 DEF Visit
  <2>2. CASE id = n /\ n \notin affected
    BY <1>4, <1>5, <2>2 DEF Visit
  <2>3. QED BY <1>4, <1>6, <2>1, <2>2 DEF Visit
<1>7. ASSUME NEW S \in SUBSET Node, ClosedSet(S)
      PROVE  queue' \subseteq S /\ \A m \in affected' : m \in S \/ Origin(m)
  <2>1. queue \subseteq S /\ \A m \in affected : m \in S \/ Origin(m)
    BY <1>1, <1>7 DEF Searching
  <2>2. rev[n] \subseteq S
    BY <1>4, <1>5, <1>7, <2>1 DEF ClosedSet
  <2>3. QED BY <1>4, <2>1, <2>2 DEF Visit
<1>8. \A S : ClosedSet(S)' = ClosedSet(S)
  BY <1>2, <1>3 DEF ClosedSet
<1>9. \A m : Origin(m)' = Origin(m)
  BY <1>2 DEF Origin
<1>10. QED BY <1>2, <1>3, <1>6, <1>7, <1>8, <1>9 DEF Searching

\* When nothing is left to visit the frontier is exact.
LEMMA SearchDoneExact ==
  ASSUME Remembered, Searching, SearchDone
  PROVE  FrontierExact'
<1>1. /\ phase = "search" /\ queue = {} /\ affected' = Frontier
      /\ claims' = claims /\ before' = before /\ changed' = changed
      /\ assumptions' = assumptions
  BY DEF SearchDone, vars, searchVars
<1>2. \A id : Dependents(id)' = Dependents(id)
  BY <1>1 DEF Dependents
<1>3. Frontier \subseteq affected /\ affected \subseteq Frontier \cup {changed}
  BY DEF Frontier
<1>4. ASSUME changed \notin assumptions PROVE Closed'
  BY <1>1, <1>2, <1>3, <1>4 DEF Searching, Closed
<1>5. ASSUME NEW S \in SUBSET Node, Dependents(changed) \subseteq S,
             \A n \in S : Dependents(n) \subseteq S
      PROVE  \A n \in Frontier : n \in S \/ n = changed \/ [claim |-> n] = changed
  BY <1>1, <1>3, <1>5 DEF Searching, ClosedSet, Origin
<1>6. changed \in Frontier => before[changed].derivation # NoDerivation
  BY <1>1 DEF Frontier, Remembered, IsDerived
<1>7. QED BY <1>1, <1>2, <1>4, <1>5, <1>6 DEF FrontierExact

\* From then on it does not move.
LEMMA FrontierStep ==
  ASSUME ModuleInv, Control, Shares, Remembered, Searching, FrontierExact,
         [IncNext]_incVars
  PROVE  Searching' /\ FrontierExact'
<1>1. ASSUME UNCHANGED <<phase, changed, affected, queue, before, assumptions>>
      PROVE  Searching' /\ FrontierExact'
  BY <1>1 DEF Searching, FrontierExact, FrontierKnown, Closed, Dependents,
     ClosedSet, Origin
<1>2. CASE UNCHANGED incVars
  BY <1>1, <1>2 DEF incVars, vars, callVars, searchVars
<1>3. CASE Edit
  BY <1>3 DEF Edit, callVars, Searching, FrontierExact, FrontierKnown
<1>4. CASE \E id \in Recorded, trusted \in {{}, Provider} : Begin(id, trusted)
  BY <1>4, BeginSearching DEF Begin, FrontierExact, FrontierKnown
<1>5. CASE CallStep
  <2>1. CASE Search
    BY <2>1, VisitSearching DEF Search, FrontierExact, FrontierKnown
  <2>2. CASE SearchDone
    BY <2>2, SearchDoneExact DEF SearchDone, Searching
  <2>3. CASE Return
    BY <2>3 DEF Return, Searching, FrontierExact, FrontierKnown
  <2>4. CASE ~Search /\ ~SearchDone /\ ~Return
    <3>1. /\ FrontierKnown /\ FrontierKnown' /\ phase' # "search"
          /\ UNCHANGED <<changed, affected, before>>
      BY <1>5, <2>4 DEF CallStep, Mark, MarkDone, PutOff, Rederive, Reverify,
         Round, searchVars, FrontierKnown
    <3>2. assumptions' = assumptions
      BY <1>5, CallKeeps DEF supportVars
    <3>3. QED
      BY <3>1, <3>2 DEF Searching, FrontierExact, Closed, Dependents
  <2>5. QED BY <2>1, <2>2, <2>3, <2>4
<1>6. QED BY <1>2, <1>3, <1>4, <1>5 DEF IncNext

-----------------------------------------------------------------------------
(* The theorems. *)

\* The invariant along every behaviour.
THEOREM IncInvariant == IncSpec => []IncInv
<1>1. IncInit => IncInv
  <2> SUFFICES ASSUME IncInit PROVE IncInv
    OBVIOUS
  <2>1. ModuleInv
    <3>1. IsMap(operations, Operation, OperationDef)
      BY RegistryType, IncAssumption DEF IncInit
    <3>2. QED BY <3>1 DEF IncInit, ModuleInv, TypeOK, IsMap, Grounded, Applied
  <2>2. Control /\ Shares
    BY DEF IncInit, Idle, Control, Shares
  <2>3. Remembered /\ Searching /\ FrontierExact
    BY DEF IncInit, Idle, Remembered, Searching, FrontierExact, FrontierKnown
  <2>4. QED BY <2>1, <2>2, <2>3 DEF IncInv
<1>2. IncInv /\ [IncNext]_incVars => IncInv'
  BY IncStepCalls, ModuleStep, ControlStep, RememberedStep, FrontierStep
     DEF IncInv
<1>3. QED BY <1>1, <1>2, PTL DEF IncSpec

\* Every step of incremental invalidation is a call of the calculus.
THEOREM StepsAreCallsTheorem == IncSpec => StepsAreCalls
<1>1. IncInv /\ [IncNext]_incVars => [Next]_vars
  BY IncStepCalls DEF IncInv
<1>2. QED BY <1>1, IncInvariant, PTL DEF IncSpec, StepsAreCalls

\* The types hold, the inclusions between the call's sets among them.
THEOREM IncTypeInvariant == IncSpec => []IncTypeOK
<1>1. IncInv => IncTypeOK
  <2> SUFFICES ASSUME IncInv PROVE IncTypeOK
    OBVIOUS
  <2>1. Control /\ DOMAIN claims \subseteq Node
    BY DEF IncInv, ModuleInv, TypeOK, IsMap
  <2>2. rev \in [Changeable -> SUBSET Node]
    BY <2>1 DEF Control
  <2>3. roots \subseteq Provider /\ current \in affected \cup {NoNode}
    BY <2>1 DEF Control
  <2>4. QED BY <2>1, <2>2, <2>3 DEF Control, IncTypeOK
<1>2. QED BY <1>1, IncInvariant, PTL

\* The frontier is exact, for every dependency graph, cyclic ones included, and
\* whatever order the search visits it in.
THEOREM FrontierTheorem == IncSpec => []FrontierExact
<1>1. IncInv => FrontierExact
  BY DEF IncInv
<1>2. QED BY <1>1, IncInvariant, PTL

\* No claim outside the frontier moves.
THEOREM OutsideTheorem == IncSpec => []OutsideKept
<1>1. IncInv => OutsideKept
  BY DEF IncInv, Remembered, OutsideKept
<1>2. QED BY <1>1, IncInvariant, PTL

\* What the calculus guarantees holds of a module under invalidation too, in
\* the middle of a call as well.
THEOREM CalculusKept ==
  IncSpec => [](TypeOK /\ Grounded /\ LogExplainsStatus /\ VerifiedIsSupported)
<1> DEFINE Kept == LogExplainsStatus /\ SupportInv
<1>1. IncInit => Kept
  BY DEF IncInit, LogExplainsStatus, SupportInv, VerifiedIsSupported,
     PremiseUnderived, ReceiptsHonoured
<1>2. IncInv /\ Kept /\ [IncNext]_incVars => Kept'
  <2> SUFFICES ASSUME IncInv, Kept, [IncNext]_incVars PROVE Kept'
    OBVIOUS
  <2>1. [Next]_vars /\ TypeOK /\ Grounded
    BY IncStepCalls DEF IncInv, ModuleInv
  <2>2. QED BY <2>1, LogKept, SupportStep
<1>3. IncInv /\ Kept =>
        TypeOK /\ Grounded /\ LogExplainsStatus /\ VerifiedIsSupported
  BY DEF IncInv, ModuleInv, SupportInv
<1>4. QED BY <1>1, <1>2, <1>3, IncInvariant, PTL DEF IncSpec

-----------------------------------------------------------------------------
(* The rounds of recomputation: which claims of the frontier they go         *)
(* through, and what those claims are worth when the call returns.  Nothing  *)
(* is assumed of the order in which a round visits its claims, nor that the  *)
(* dependency graph is acyclic.                                              *)

\* The claim's re-derivation would succeed again, with the same value.
Coherent(n) ==
  LET d == claims[n].derivation IN
    /\ CanDerive(d.op, d.inputs, d.receipt, roots)
    /\ claims[n].value = Output(d.op, d.inputs, d.receipt)

\* The inputs of a claim gone through are settled, its value follows from
\* theirs, and if it is Verified its gate is open.
Settled(n) ==
  /\ Ready(n)
  /\ n \notin failed => Coherent(n)
  /\ claims[n].status = "Verified" => GateOpen(n)

\* A set of conclusions of the frontier that holds all it makes ready.
ReadyClosed(T) == T \subseteq Rederivable /\ Settles(T) \subseteq T

\* The conclusions of the frontier are gone through or left for later; those
\* left are Invalidated; those gone through are settled, and are in every set
\* that is closed under readiness.
Accounted ==
  /\ recomputed \subseteq Rederivable
  /\ Rederivable \subseteq recomputed \cup worklist \cup next
  /\ \A n \in affected \ recomputed :
       n # current => claims[n].status = "Invalidated"
  /\ \A n \in recomputed : Settled(n)
  /\ \A T : ReadyClosed(T) => recomputed \subseteq T

\* The claim between its derive and its verify.
CurrentSettled ==
  phase = "verify" => Settled(current) /\ claims[current].status # "Verified"

\* What a round that recomputed nothing has put off is not ready.
PutOffUnready ==
  /\ phase = "recompute" /\ ~progressed => \A n \in next : ~Ready(n)
  /\ phase = "done" => \A n \in worklist : ~Ready(n)

RoundInv ==
  phase \in {"recompute", "verify", "done"} =>
    Accounted /\ CurrentSettled /\ PutOffUnready

-----------------------------------------------------------------------------
(* What a step leaves settled. *)

\* Inputs of a conclusion are claims.
LEMMA InputsExist ==
  ASSUME ModuleInv, NEW m \in DOMAIN claims, IsDerived(m)
  PROVE  /\ Inputs(m) \subseteq DOMAIN claims
         /\ \A j \in DOMAIN claims[m].derivation.inputs :
              claims[m].derivation.inputs[j] \in Inputs(m)
BY DEF ModuleInv, IsDerived, Grounded, ClaimGrounded, DerivationGrounded,
   Inputs, InputNodes

\* Whether an operation applies depends on the values of its inputs only.
LEMMA SameDerive ==
  ASSUME NEW op, NEW inputs, NEW receipt, NEW trusted,
         DOMAIN claims' = DOMAIN claims, operations' = operations,
         receipts' = receipts, Vals(inputs)' = Vals(inputs)
  PROVE  CanDerive(op, inputs, receipt, trusted)' =
           CanDerive(op, inputs, receipt, trusted)
BY DEF CanDerive, Exists, ReceiptAccepted, Executes

\* Touching a claim that is not gone through leaves alone what a ready claim is
\* computed from.
LEMMA InputsKept ==
  ASSUME ModuleInv, NEW n \in affected \ recomputed, Touches(n),
         affected' = affected, roots' = roots, recomputed \subseteq recomputed',
         NEW m \in DOMAIN claims, IsDerived(m), Ready(m)
  PROVE  LET d == claims[m].derivation IN
           /\ Ready(m)'
           /\ CanDerive(d.op, d.inputs, d.receipt, roots)
                /\ claims'[m].value = Output(d.op, d.inputs, d.receipt)
                => Coherent(m)'
<1> DEFINE d == claims[m].derivation
<1>1. claims'[m].derivation = d /\ Inputs(m)' = Inputs(m)
  BY DEF Touches, Inputs
<1>2. ASSUME NEW i \in Inputs(m)
      PROVE  i \in DOMAIN claims /\ i # n /\ claims'[i] = claims[i]
  BY InputsExist DEF Ready, Touches, Concerns
<1>3. Ready(m)'
  BY <1>1, <1>2 DEF Ready
<1>4. /\ DOMAIN claims' = DOMAIN claims
      /\ operations' = operations /\ receipts' = receipts
  BY DEF Touches, supportVars
<1>5. ASSUME CanDerive(d.op, d.inputs, d.receipt, roots),
             claims'[m].value = Output(d.op, d.inputs, d.receipt)
      PROVE  Coherent(m)'
  <2>1. PICK c : c = d
    OBVIOUS
  <2>2. Vals(c.inputs)' = Vals(c.inputs)
    BY <1>2, <2>1, InputsExist DEF Vals
  <2>3. CanDerive(c.op, c.inputs, c.receipt, roots)'
    BY <1>4, <1>5, <2>1, <2>2, SameDerive
  <2>4. claims'[m].value = Output(c.op, c.inputs, c.receipt)'
    BY <1>5, <2>1, <2>2 DEF Output
  <2>5. claims'[m].derivation = c
    BY <1>1, <2>1
  <2>6. QED BY <2>3, <2>4, <2>5 DEF Coherent
<1>6. QED BY <1>3, <1>5

\* So what is settled stays settled.
LEMMA SettledKept ==
  ASSUME ModuleInv, ModuleInv', NEW n \in affected \ recomputed, Touches(n),
         affected \subseteq DOMAIN claims,
         affected' = affected, roots' = roots, recomputed \subseteq recomputed',
         NEW m \in recomputed, m \in Rederivable, Settled(m),
         failed' \subseteq failed \cup {n}, failed \subseteq failed'
  PROVE  Settled(m)'
<1>1. /\ m \in DOMAIN claims /\ m \in Node /\ IsDerived(m) /\ m # n
      /\ claims'[m] = claims[m]
  BY DEF Rederivable, Touches, Concerns, ModuleInv, TypeOK, IsMap
<1>2. Ready(m)' /\ (m \notin failed => Coherent(m)')
  BY <1>1, InputsKept DEF Settled, Coherent
<1>3. GateOpen(m)' = GateOpen(m)
  BY <1>1, OthersKept DEF ModuleInv, Touches
<1>4. QED BY <1>1, <1>2, <1>3 DEF Settled

\* Touching a claim, unless it becomes Invalidated, makes no set closed under
\* readiness that was not.
LEMMA ClosedBefore ==
  ASSUME ModuleInv, NEW n \in affected, Touches(n), affected' = affected,
         affected \subseteq DOMAIN claims,
         claims'[n].status = "Invalidated" => claims[n].status = "Invalidated",
         NEW T, ReadyClosed(T)'
  PROVE  ReadyClosed(T)
<1>1. \A m \in affected : IsDerived(m)' = IsDerived(m) /\ Inputs(m)' = Inputs(m)
  BY DEF Touches, IsDerived, Inputs
<1>2. Rederivable' = Rederivable
  BY <1>1 DEF Rederivable
<1>3. ASSUME NEW m \in Settles(T) PROVE m \in Settles(T)'
  <2>1. m \in Rederivable /\ m \in DOMAIN claims /\ IsDerived(m)
    BY DEF Settles, Rederivable
  <2>2. ASSUME NEW i \in Inputs(m) PROVE claims'[i].status # "Invalidated"
    <3>1. i \in DOMAIN claims /\ claims[i].status # "Invalidated"
      BY <2>1, InputsExist DEF Settles
    <3>2. QED BY <3>1 DEF Touches, Concerns
  <2>3. QED BY <1>1, <1>2, <2>1, <2>2 DEF Settles, Rederivable
<1>4. QED BY <1>2, <1>3 DEF ReadyClosed

\* A step that leaves the module and the report alone settles nothing and
\* unsettles nothing.
LEMMA QuietSettled ==
  ASSUME UNCHANGED <<vars, affected, recomputed, failed, roots>>
  PROVE  /\ Rederivable' = Rederivable
         /\ \A n : Ready(n)' = Ready(n)
         /\ \A n : Settled(n)' = Settled(n)
         /\ \A T : ReadyClosed(T)' = ReadyClosed(T)
<1> USE DEF vars
<1>1. Rederivable' = Rederivable
  BY DEF Rederivable, IsDerived
<1>2. \A n : Ready(n)' = Ready(n)
  BY DEF Ready, Inputs
<1>3. \A n : Coherent(n)' = Coherent(n)
  BY DEF Coherent, CanDerive, Executes, Exists, Vals, ReceiptAccepted, Output
<1>4. \A n : GateOpen(n)' = GateOpen(n)
  BY DEF GateOpen, Exists, ObligationsDischarged, DerivationComplete
<1>5. \A n : Settled(n)' = Settled(n)
  BY <1>2, <1>3, <1>4 DEF Settled
<1>6. \A T : ReadyClosed(T)' = ReadyClosed(T)
  BY <1>1 DEF ReadyClosed, Settles, Inputs
<1>7. QED BY <1>1, <1>2, <1>5, <1>6

-----------------------------------------------------------------------------
(* The steps of the rounds. *)

\* When all is marked every conclusion of the frontier is left for the round.
LEMMA MarkDoneRound ==
  ASSUME Control, MarkDone
  PROVE  RoundInv'
<1>1. /\ phase' = "recompute" /\ current' = NoNode
      /\ recomputed' = {} /\ next' = {} /\ affected' = affected
      /\ worklist' = {n \in affected : IsDerived(n)}
      /\ claims' = claims
  BY DEF MarkDone, Control, vars, reportVars
<1>2. \A n \in affected : claims[n].status = "Invalidated"
  BY DEF MarkDone, Unmarked
<1>3. Rederivable' = worklist'
  BY <1>1 DEF Rederivable, IsDerived
<1>4. Accounted'
  BY <1>1, <1>2, <1>3 DEF Accounted
<1>5. QED BY <1>1, <1>4 DEF RoundInv, CurrentSettled, PutOffUnready

\* Putting a claim off moves it to the next round.
LEMMA PutOffRound ==
  ASSUME Control, RoundInv, NEW n \in worklist, PutOff(n)
  PROVE  RoundInv'
<1>1. /\ phase = "recompute" /\ phase' = "recompute" /\ ~Ready(n)
      /\ worklist' = worklist \ {n} /\ next' = next \cup {n}
      /\ UNCHANGED <<vars, affected, searchVars, reportVars, current, progressed>>
  BY DEF PutOff
<1>2. UNCHANGED <<vars, affected, recomputed, failed, roots>>
  BY <1>1 DEF reportVars, searchVars
<1>3. /\ Rederivable' = Rederivable
      /\ \A m : Ready(m)' = Ready(m) /\ Settled(m)' = Settled(m)
      /\ \A T : ReadyClosed(T)' = ReadyClosed(T)
  BY <1>2, QuietSettled
<1>4. Accounted /\ PutOffUnready
  BY <1>1 DEF RoundInv
<1>5. Accounted'
  BY <1>1, <1>2, <1>3, <1>4 DEF Accounted, vars
<1>6. PutOffUnready'
  BY <1>1, <1>3, <1>4 DEF PutOffUnready
<1>7. QED BY <1>1, <1>5, <1>6 DEF RoundInv, CurrentSettled

\* The end of a round that recomputed nothing leaves only what is not ready.
LEMMA RoundRound ==
  ASSUME Control, RoundInv, Round
  PROVE  RoundInv'
<1>1. /\ phase = "recompute" /\ worklist = {} /\ worklist' = next /\ next' = {}
      /\ phase' = (IF progressed THEN "recompute" ELSE "done")
      /\ UNCHANGED <<vars, affected, searchVars, reportVars, current>>
  BY DEF Round
<1>2. UNCHANGED <<vars, affected, recomputed, failed, roots>>
  BY <1>1 DEF reportVars, searchVars
<1>3. /\ Rederivable' = Rederivable
      /\ \A m : Ready(m)' = Ready(m) /\ Settled(m)' = Settled(m)
      /\ \A T : ReadyClosed(T)' = ReadyClosed(T)
  BY <1>2, QuietSettled
<1>4. Accounted /\ PutOffUnready
  BY <1>1 DEF RoundInv
<1>5. Accounted'
  BY <1>1, <1>2, <1>3, <1>4 DEF Accounted, vars
<1>6. PutOffUnready'
  BY <1>1, <1>3, <1>4 DEF PutOffUnready
<1>7. QED BY <1>1, <1>5, <1>6 DEF RoundInv, CurrentSettled

\* A claim re-derived, or refused, is settled but for its verification.
LEMMA RederiveRound ==
  ASSUME ModuleInv, ModuleInv', Control, Shares, RoundInv, NEW n \in worklist,
         Rederive(n)
  PROVE  RoundInv'
<1> DEFINE d == claims[n].derivation
<1>1. /\ phase = "recompute" /\ phase' = "verify" /\ current' = n /\ Ready(n)
      /\ UNCHANGED <<affected, roots, recomputed, worklist, next>>
      /\ \/ Derive(d.op, d.inputs, n, d.receipt, roots) /\ failed' = failed
         \/ UNCHANGED vars /\ failed' = failed \cup {n}
  BY DEF Rederive, searchVars
<1>2. /\ affected \subseteq DOMAIN claims
      /\ n \in affected \ recomputed /\ n \in DOMAIN claims /\ IsDerived(n)
      /\ current = NoNode /\ NoNode \notin affected
  BY <1>1, IncAssumption DEF Control, Shares, ModuleInv, TypeOK, IsMap
<1>3. Accounted /\ claims[n].status = "Invalidated"
  BY <1>1, <1>2 DEF RoundInv, Accounted
<1>4. /\ Touches(n) /\ claims'[n].status \in {"Pending", "Invalidated"}
      /\ failed \subseteq failed' /\ failed' \subseteq failed \cup {n}
  <2>1. CASE Derive(d.op, d.inputs, n, d.receipt, roots)
    BY <1>1, <1>2, <1>3, <2>1, DeriveTouches DEF ModuleInv, Derive
  <2>2. CASE UNCHANGED vars /\ failed' = failed \cup {n}
    BY <1>3, <2>2, QuietTouches DEF vars
  <2>3. QED BY <1>1, <1>3, <2>1, <2>2, DeriveTouches, <1>2 DEF ModuleInv
<1>5. Rederivable' = Rederivable
  BY <1>1, <1>2, <1>4 DEF Touches, Rederivable, IsDerived
<1>6. \A m \in recomputed : Settled(m)'
  BY <1>1, <1>2, <1>3, <1>4, SettledKept DEF Accounted
<1>7. \A T : ReadyClosed(T)' => recomputed \subseteq T
  BY <1>1, <1>2, <1>3, <1>4, ClosedBefore DEF Accounted
<1>8. \A m \in affected \ recomputed : m # n => claims'[m].status = "Invalidated"
  BY <1>2, <1>3, <1>4 DEF Accounted, Touches, Concerns
<1>9. Accounted'
  BY <1>1, <1>3, <1>5, <1>6, <1>7, <1>8 DEF Accounted
<1>10. Settled(n)'
  <2>1. Ready(n)'
    BY <1>1, <1>2, <1>4, InputsKept
  <2>2. ASSUME n \notin failed' PROVE Coherent(n)'
    <3>1. Derive(d.op, d.inputs, n, d.receipt, roots)
      BY <1>1, <2>2
    <3>2. /\ CanDerive(d.op, d.inputs, d.receipt, roots)
          /\ claims'[n].value = Output(d.op, d.inputs, d.receipt)
      BY <1>2, <3>1, DeriveTouches DEF ModuleInv, Derive
    <3>3. QED BY <1>1, <1>2, <1>4, <3>2, InputsKept
  <2>3. QED BY <1>4, <2>1, <2>2 DEF Settled
<1>11. QED
  BY <1>1, <1>4, <1>9, <1>10 DEF RoundInv, CurrentSettled, PutOffUnready

\* A claim tried at the gate has been gone through, and every set closed under
\* readiness has it.
LEMMA ReverifyRound ==
  ASSUME ModuleInv, ModuleInv', Control, Shares, RoundInv, Reverify
  PROVE  RoundInv'
<1>0. PICK n : n = current
  OBVIOUS
<1>1. /\ phase = "verify" /\ phase' = "recompute" /\ current' = NoNode
      /\ worklist' = worklist \ {n} /\ recomputed' = recomputed \cup {n}
      /\ progressed' = TRUE /\ TryVerify(n)
      /\ UNCHANGED <<affected, roots, failed, next>>
  BY <1>0 DEF Reverify, searchVars
<1>2. /\ affected \subseteq DOMAIN claims
      /\ n \in affected \ recomputed /\ n \in DOMAIN claims /\ IsDerived(n)
  BY <1>0, <1>1 DEF Control, Shares
<1>3. Accounted /\ Settled(n) /\ claims[n].status # "Verified"
  BY <1>0, <1>1 DEF RoundInv, CurrentSettled
<1>4. /\ Touches(n)
      /\ claims'[n].status \in {"Verified", claims[n].status}
      /\ claims'[n].value = claims[n].value
      /\ claims'[n].status = "Verified" => GateOpen(n)'
  BY <1>1, <1>2, <1>3, TryVerifyTouches DEF ModuleInv
<1>5. Rederivable' = Rederivable /\ n \in Rederivable
  BY <1>1, <1>2, <1>4 DEF Touches, Rederivable, IsDerived
<1>6. ASSUME NEW m \in recomputed PROVE Settled(m)'
  <2>1. m \in Rederivable /\ Settled(m)
    BY <1>3 DEF Accounted
  <2>2. QED BY <1>1, <1>2, <1>4, <2>1, SettledKept
<1>7. Settled(n)'
  <2>1. Ready(n)' /\ (n \notin failed => Coherent(n)')
    BY <1>1, <1>2, <1>3, <1>4, InputsKept DEF Settled, Coherent
  <2>2. QED BY <1>1, <1>4, <2>1 DEF Settled
<1>8. ASSUME NEW T, ReadyClosed(T)' PROVE recomputed' \subseteq T
  <2>1. ReadyClosed(T)
    BY <1>1, <1>2, <1>4, <1>8, ClosedBefore
  <2>2. recomputed \subseteq T
    BY <1>3, <2>1 DEF Accounted
  <2>3. n \in Settles(T)
    BY <1>3, <1>5, <2>2 DEF Settles, Settled, Ready
  <2>4. QED BY <1>1, <2>1, <2>2, <2>3 DEF ReadyClosed
<1>9. \A m \in affected \ recomputed : m # n =>
        m \in DOMAIN claims /\ claims'[m].status = "Invalidated"
  BY <1>0, <1>2, <1>3, <1>4 DEF Accounted, Touches, Concerns
<1>10. recomputed' \subseteq Rederivable'
  BY <1>1, <1>3, <1>5 DEF Accounted
<1>11. Rederivable' \subseteq recomputed' \cup worklist' \cup next'
  BY <1>1, <1>3, <1>5 DEF Accounted
<1>12. Accounted'
  BY <1>1, <1>6, <1>7, <1>8, <1>9, <1>10, <1>11 DEF Accounted
<1>13. QED
  BY <1>1, <1>12 DEF RoundInv, CurrentSettled, PutOffUnready

\* Every step keeps the account of the rounds.
LEMMA RoundStep ==
  ASSUME IncInv, IncInv', RoundInv, [IncNext]_incVars
  PROVE  RoundInv'
<1>1. CASE UNCHANGED incVars
  <2>1. /\ UNCHANGED <<vars, affected, recomputed, failed, roots>>
        /\ UNCHANGED <<phase, current, worklist, next, progressed>>
    BY <1>1 DEF incVars, callVars, searchVars, reportVars, roundVars
  <2>2. /\ Rederivable' = Rederivable
        /\ \A m : Ready(m)' = Ready(m) /\ Settled(m)' = Settled(m)
        /\ \A T : ReadyClosed(T)' = ReadyClosed(T)
    BY <2>1, QuietSettled
  <2>3. QED
    BY <2>1, <2>2 DEF RoundInv, Accounted, CurrentSettled, PutOffUnready, vars
<1>2. CASE \/ Edit \/ Search \/ SearchDone \/ Return
           \/ \E n \in Unmarked : Mark(n)
           \/ \E id \in Recorded, trusted \in {{}, Provider} : Begin(id, trusted)
  BY <1>2 DEF Edit, Search, SearchDone, Return, Mark, Begin, callVars, RoundInv
<1>3. CASE MarkDone
  BY <1>3, MarkDoneRound DEF IncInv
<1>4. CASE \E n \in worklist : PutOff(n) \/ Rederive(n)
  BY <1>4, PutOffRound, RederiveRound DEF IncInv
<1>5. CASE Reverify
  BY <1>5, ReverifyRound DEF IncInv
<1>6. CASE Round
  BY <1>6, RoundRound DEF IncInv
<1>7. QED
  BY <1>1, <1>2, <1>3, <1>4, <1>5, <1>6 DEF IncNext, CallStep

-----------------------------------------------------------------------------
(* The theorems. *)

\* The account of the rounds along every behaviour.
THEOREM RoundInvariant == IncSpec => []RoundInv
<1>1. IncInit => RoundInv
  BY DEF IncInit, Idle, RoundInv
<1>2. IncInv /\ IncInv' /\ RoundInv /\ [IncNext]_incVars => RoundInv'
  BY RoundStep
<1>3. QED BY <1>1, <1>2, IncInvariant, PTL DEF IncSpec

\* When the call returns the claims it went through are the least set closed
\* under readiness: none too early, none on a cycle, none left behind.
THEOREM RecomputeTheorem == IncSpec => []RecomputeExact
<1>1. IncInv /\ RoundInv => RecomputeExact
  <2> SUFFICES ASSUME IncInv, RoundInv, phase = "done"
               PROVE  /\ Settles(recomputed) \subseteq recomputed
                      /\ \A T \in SUBSET Rederivable :
                           Settles(T) \subseteq T => recomputed \subseteq T
    BY DEF RecomputeExact
  <2>1. Accounted /\ PutOffUnready /\ next = {}
    BY DEF RoundInv, IncInv, Control
  <2>2. \A n \in Settles(recomputed) : Ready(n) /\ n \in Rederivable
    BY DEF Settles, Ready
  <2>3. Settles(recomputed) \subseteq recomputed
    BY <2>1, <2>2 DEF Accounted, PutOffUnready
  <2>4. QED BY <2>1, <2>3 DEF Accounted, ReadyClosed
<1>2. QED BY <1>1, IncInvariant, RoundInvariant, PTL

\* When the call returns, a claim whose re-derivation was not refused has the
\* value its inputs give it, and none of them is Invalidated.
THEOREM CoherentTheorem == IncSpec => []RecomputedCoherent
<1>1. RoundInv => RecomputedCoherent
  BY DEF RoundInv, Accounted, Settled, Ready, Coherent, RecomputedCoherent
<1>2. QED BY <1>1, RoundInvariant, PTL

\* When the call returns, a claim of the frontier is Invalidated, or was gone
\* through and is Verified only if its gate is open.
THEOREM UnsettledTheorem == IncSpec => []UnsettledInvalidated
<1>1. IncInv /\ RoundInv => UnsettledInvalidated
  <2> SUFFICES ASSUME IncInv, RoundInv, phase = "done"
               PROVE  /\ \A n \in affected \ recomputed :
                           claims[n].status = "Invalidated"
                      /\ \A n \in recomputed :
                           claims[n].status = "Verified" => GateOpen(n)
    BY DEF UnsettledInvalidated
  <2>1. current = NoNode /\ NoNode \notin affected
    BY IncAssumption DEF IncInv, Control, ModuleInv, TypeOK, IsMap
  <2>2. QED BY <2>1 DEF RoundInv, Accounted, Settled
<1>2. QED BY <1>1, IncInvariant, RoundInvariant, PTL
=============================================================================
