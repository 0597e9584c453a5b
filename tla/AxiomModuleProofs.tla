------------------------- MODULE AxiomModuleProofs -------------------------
(***************************************************************************)
(* Proofs about the transition calculus, for every set of nodes, values,   *)
(* operations and receipts: its invariants, and that it implements the     *)
(* verification gate.                                                      *)
(***************************************************************************)
EXTENDS AxiomModuleProps, TLAPS

-----------------------------------------------------------------------------
(* The maps. *)

\* Inserting a typed binding keeps a map typed.
LEMMA PutIsMap ==
  ASSUME NEW map, NEW K, NEW V, IsMap(map, K, V), NEW k \in K, NEW v \in V
  PROVE  IsMap(Put(map, k, v), K, V)
BY DEF IsMap, Put

\* Inserting a typed map into a typed map keeps it typed.
LEMMA PutAllIsMap ==
  ASSUME NEW map, NEW new, NEW K, NEW V, IsMap(map, K, V), IsMap(new, K, V)
  PROVE  IsMap(PutAll(map, new), K, V)
BY DEF IsMap, PutAll

\* Replacing the value of a binding keeps a map typed.
LEMMA ExceptIsMap ==
  ASSUME NEW map, NEW K, NEW V, IsMap(map, K, V), NEW k \in DOMAIN map, NEW v \in V
  PROVE  IsMap([map EXCEPT ![k] = v], K, V)
BY DEF IsMap

\* A registry binds the ids of its definitions, each to one of them.
LEMMA RegistryType ==
  ASSUME NEW defs, defs \subseteq OperationDef
  PROVE  /\ IsMap(Registry(defs), Operation, OperationDef)
         /\ DOMAIN Registry(defs) = {d.id : d \in defs}
         /\ \A op \in DOMAIN Registry(defs) :
              Registry(defs)[op] \in defs /\ Registry(defs)[op].id = op
<1>1. DOMAIN Registry(defs) = {d.id : d \in defs}
  BY DEF Registry
<1>2. ASSUME NEW op \in DOMAIN Registry(defs)
      PROVE  Registry(defs)[op] \in defs /\ Registry(defs)[op].id = op
  <2>1. \E d \in defs : d.id = op
    BY <1>1
  <2>2. Registry(defs)[op] = CHOOSE d \in defs : d.id = op
    BY <1>1 DEF Registry
  <2>3. QED BY <2>1, <2>2
<1>3. {d.id : d \in defs} \subseteq Operation
  BY DEF OperationDef
<1>4. Registry(defs) \in [DOMAIN Registry(defs) -> OperationDef]
  <2>1. Registry(defs) = [op \in DOMAIN Registry(defs) |-> Registry(defs)[op]]
    BY DEF Registry
  <2> HIDE DEF Registry
  <2>2. QED BY <1>2, <2>1
<1>5. QED BY <1>1, <1>2, <1>3, <1>4 DEF IsMap

-----------------------------------------------------------------------------
(* Types. *)

\* What assert, observe and assume insert is a claim.
LEMMA PremiseClaimType ==
  ASSUME NEW n \in Node, NEW v \in Value, NEW ev \in SUBSET Evidence,
         NEW status \in ClaimStatus, NEW as \in SUBSET Assumption
  PROVE  /\ PremiseClaim(n, v, ev, status, as) \in Claim
         /\ AssertedObligations(n, ev) \subseteq Obligation
<1>1. AssertedObligations(n, ev) \subseteq Obligation
  BY DEF AssertedObligations, SourceSupport, Obligation, ObligationKind
<1>2. PremiseClaim(n, v, ev, status, as) \in Claim
  BY <1>1 DEF PremiseClaim, Claim
<1>3. QED BY <1>1, <1>2

\* A premise keeps every collection it writes well typed.
LEMMA PremiseType ==
  ASSUME TypeOK, NEW n \in Node, NEW v \in Value, NEW ev \in SUBSET Evidence,
         NEW status \in ClaimStatus, NEW as \in SUBSET Assumption,
         NEW event \in EventKind, Premise(n, v, ev, status, as, event)
  PROVE  /\ IsMap(claims', Node, Claim)
         /\ localClaims' \subseteq Node
         /\ evidence' \subseteq Evidence
         /\ receipts' \subseteq Receipt
         /\ IsMap(operations', Operation, OperationDef)
         /\ derivations' \subseteq Derivation
         /\ IsMap(obligations', Obligation, ObligationState)
         /\ IsMap(lastEvent', Node, EventKind)
<1>1. IsMap(claims', Node, Claim)
  BY PremiseClaimType, PutIsMap DEF TypeOK, Premise
<1>2. IsMap(obligations', Obligation, ObligationState)
  <2> DEFINE new == [o \in AssertedObligations(n, ev) |-> "Pending"]
  <2>1. IsMap(new, Obligation, ObligationState)
    BY PremiseClaimType DEF IsMap, ObligationState
  <2> HIDE DEF new
  <2>2. obligations' = PutAll(obligations, new)
    BY DEF Premise, new
  <2>3. QED BY <2>1, <2>2, PutAllIsMap DEF TypeOK
<1>3. IsMap(lastEvent', Node, EventKind)
  BY PutIsMap DEF TypeOK, Premise
<1>4. QED BY <1>1, <1>2, <1>3 DEF TypeOK, Premise

\* What derive inserts is a claim, with a derivation and obligations of the
\* operation.
LEMMA DerivedClaimType ==
  ASSUME TypeOK, NEW op \in Operation, NEW inputs \in Seq(Node),
         NEW out \in Node, NEW receipt \in Receipt \cup {NoReceipt}, NEW roots,
         CanDerive(op, inputs, receipt, roots)
  PROVE  /\ DerivedClaim(op, inputs, out, receipt) \in Claim
         /\ DerivedClaim(op, inputs, out, receipt).derivation \in Derivation
         /\ GeneratedObligations(op, out) \subseteq Obligation
<1>1. GeneratedObligations(op, out) \subseteq Obligation
  <2>1. operations[op] \in OperationDef
    BY DEF TypeOK, IsMap, CanDerive
  <2>2. operations[op].generates \subseteq ObligationKind
    BY <2>1 DEF OperationDef
  <2>3. QED BY <2>2 DEF GeneratedObligations, Obligation
<1>2. Output(op, inputs, receipt) \in Value
  BY ModuleAssumption DEF Output, CanDerive, Executes
<1>3. \A i \in InputNodes(inputs) : claims[i] \in Claim
  BY DEF InputNodes, CanDerive, Exists, TypeOK, IsMap
<1>4. UNION {claims[i].assumptions : i \in InputNodes(inputs)} \subseteq Assumption
  BY <1>3 DEF Claim
<1>5. UNION {claims[i].evidence : i \in InputNodes(inputs)} \subseteq Evidence
  BY <1>3 DEF Claim
<1>6. [op |-> op, inputs |-> inputs, output |-> out, receipt |-> receipt]
        \in Derivation
  BY DEF Derivation
<1>7. "Pending" \in ClaimStatus
  BY DEF ClaimStatus
<1>8. QED
  BY <1>1, <1>2, <1>4, <1>5, <1>6, <1>7 DEF DerivedClaim, Claim

\* A derivation keeps the module well typed.
LEMMA DeriveType ==
  ASSUME TypeOK, NEW op \in Operation, NEW inputs \in Seq(Node),
         NEW out \in Node, NEW receipt \in Receipt \cup {NoReceipt}, NEW roots,
         Derive(op, inputs, out, receipt, roots)
  PROVE  TypeOK'
<1> DEFINE c == DerivedClaim(op, inputs, out, receipt)
           new == [o \in GeneratedObligations(op, out) |->
                     GeneratedState(o, receipt)]
<1>1. /\ c \in Claim
      /\ c.derivation \in Derivation
      /\ GeneratedObligations(op, out) \subseteq Obligation
  BY DerivedClaimType DEF Derive
<1>2. IsMap(new, Obligation, ObligationState)
  BY <1>1 DEF IsMap, GeneratedState, ObligationState
<1>3. /\ claims' = Put(claims, out, c)
      /\ derivations' = derivations \cup {c.derivation}
      /\ obligations' = PutAll(obligations, new)
      /\ lastEvent' = Put(lastEvent, out, "Derive")
  BY DEF Derive
<1> HIDE DEF c, new
<1>4. IsMap(claims', Node, Claim)
  BY <1>1, <1>3, PutIsMap DEF TypeOK
<1>5. IsMap(obligations', Obligation, ObligationState)
  BY <1>2, <1>3, PutAllIsMap DEF TypeOK
<1>6. IsMap(lastEvent', Node, EventKind)
  BY <1>3, PutIsMap DEF TypeOK, EventKind
<1>7. QED
  BY <1>1, <1>3, <1>4, <1>5, <1>6 DEF TypeOK, Derive, supportVars

\* A change of status keeps the module well typed.
LEMMA SetStatusType ==
  ASSUME TypeOK, NEW n \in DOMAIN claims, NEW status \in ClaimStatus,
         NEW event \in EventKind, SetStatus(n, status, event)
  PROVE  TypeOK'
<1>1. n \in Node /\ claims[n] \in Claim
  BY DEF TypeOK, IsMap
<1>2. [claims[n] EXCEPT !.status = status] \in Claim
  BY <1>1 DEF Claim
<1>3. claims' = [claims EXCEPT ![n] = [claims[n] EXCEPT !.status = status]]
  BY DEF SetStatus
<1>4. IsMap(claims', Node, Claim)
  BY <1>2, <1>3, ExceptIsMap DEF TypeOK
<1>5. IsMap(lastEvent', Node, EventKind)
  BY <1>1, PutIsMap DEF TypeOK, SetStatus
<1>6. QED
  BY <1>4, <1>5 DEF TypeOK, SetStatus, supportVars

\* Attaching an obligation keeps the module well typed.
LEMMA AddObligationType ==
  ASSUME TypeOK, NEW o \in Obligation, NEW auto \in BOOLEAN, AddObligation(o, auto)
  PROVE  TypeOK'
<1>1. IsMap(obligations', Obligation, ObligationState)
  BY PutIsMap DEF TypeOK, AddObligation, ObligationState
<1>2. IsMap(claims', Node, Claim)
  <2>1. CASE Exists(o.target)
    <3> DEFINE c == claims[o.target]
               d == [c EXCEPT !.obligations = c.obligations \cup {o}]
    <3>1. c \in Claim
      BY <2>1 DEF TypeOK, IsMap, Exists
    <3>2. d \in Claim
      BY <3>1 DEF Claim
    <3>3. claims' = [claims EXCEPT ![o.target] = d]
      BY <2>1 DEF AddObligation
    <3> HIDE DEF d
    <3>4. QED BY <2>1, <3>2, <3>3, ExceptIsMap DEF TypeOK, Exists
  <2>2. CASE ~Exists(o.target)
    BY <2>2 DEF TypeOK, AddObligation
  <2>3. QED BY <2>1, <2>2
<1>3. QED
  BY <1>1, <1>2 DEF TypeOK, AddObligation, supportVars

\* Discharging an obligation keeps the module well typed.
LEMMA DischargeType ==
  ASSUME TypeOK, NEW o, NEW by, NEW state \in ObligationState,
         Discharge(o, by, state)
  PROVE  TypeOK'
<1>1. IsMap(obligations', Obligation, ObligationState)
  BY ExceptIsMap DEF TypeOK, Discharge
<1>2. QED
  BY <1>1 DEF TypeOK, Discharge, supportVars

-----------------------------------------------------------------------------
(* The ways a call can change the module, with the types of its arguments. *)

\* A step that is no obligation call is a call of another method, on arguments
\* of the right types.
LEMMA OtherStepCases ==
  ASSUME Next, ~ObligationCall
  PROVE  \/ \E def \in Definition : RegisterOp(def)
         \/ \E e \in Evidence : AddEvidence(e)
         \/ \E r \in Receipt : AddReceipt(r)
         \/ \E n \in Node, v \in Value, ev \in SUBSET Evidence :
              Assert(n, v, ev) \/ Observe(n, v, ev)
         \/ \E n \in Node, v \in Value : Assume(n, v)
         \/ \E op \in Operation, inputs \in Seq(Node), out \in Node,
               receipt \in Receipt \cup {NoReceipt}, roots \in {{}, Provider} :
              Derive(op, inputs, out, receipt, roots)
         \/ \E n \in Node :
              Verify(n) \/ Challenge(n) \/ Invalidate(n) \/ Attest(n)
<1> USE ModuleAssumption
<1>1. CASE AddSupport
  BY <1>1 DEF AddSupport
<1>2. CASE \E s \in Statement : AddPremise(s)
  <2>1. PICK s \in Statement : AddPremise(s)
    BY <1>2
  <2>2. s.node \in Node /\ s.value \in Value /\ s.evidence \in SUBSET Evidence
    OBVIOUS
  <2>3. QED BY <2>1, <2>2 DEF AddPremise
<1>3. CASE \E a \in Application : DeriveSome(a)
  <2>1. PICK a \in Application : DeriveSome(a)
    BY <1>3
  <2>2. a.op \in Operation /\ a.inputs \in Seq(Node) /\ a.output \in Node
    OBVIOUS
  <2>3. QED BY <2>1, <2>2 DEF DeriveSome
<1>4. CASE \E n \in Judged : ChangeStatus(n)
  BY <1>4 DEF ChangeStatus
<1>5. QED BY <1>1, <1>2, <1>3, <1>4 DEF Next

\* Every step is a call of one method on arguments of the right types.
LEMMA StepCases ==
  ASSUME Next
  PROVE  \/ \E def \in OperationDef : RegisterOp(def)
         \/ \E e \in Evidence : AddEvidence(e)
         \/ \E r \in Receipt : AddReceipt(r)
         \/ \E n \in Node, v \in Value, ev \in SUBSET Evidence :
              Assert(n, v, ev) \/ Observe(n, v, ev)
         \/ \E n \in Node, v \in Value : Assume(n, v)
         \/ \E op \in Operation, inputs \in Seq(Node), out \in Node,
               receipt \in Receipt \cup {NoReceipt}, roots \in {{}, Provider} :
              Derive(op, inputs, out, receipt, roots)
         \/ \E o \in Obligation, auto \in BOOLEAN : AddObligation(o, auto)
         \/ \E o \in DOMAIN obligations, by \in evidence \cup receipts,
               state \in ObligationState : Discharge(o, by, state)
         \/ \E n \in Node :
              Verify(n) \/ Challenge(n) \/ Invalidate(n) \/ Attest(n)
<1>1. CASE ObligationCall
  BY <1>1, ModuleAssumption DEF ObligationCall
<1>2. CASE ~ObligationCall
  BY <1>2, OtherStepCases, ModuleAssumption
<1>3. QED BY <1>1, <1>2

\* Every step keeps the types.
LEMMA TypeStep == TypeOK /\ [Next]_vars => TypeOK'
<1> SUFFICES ASSUME TypeOK, [Next]_vars PROVE TypeOK'
  OBVIOUS
<1>1. CASE UNCHANGED vars
  BY <1>1 DEF vars, TypeOK, IsMap
<1>2. ASSUME NEW def \in OperationDef, RegisterOp(def) PROVE TypeOK'
  <2>1. IsMap(operations', Operation, OperationDef)
    BY <1>2, PutIsMap DEF RegisterOp, TypeOK, OperationDef
  <2>2. QED BY <1>2, <2>1 DEF RegisterOp, TypeOK
<1>3. ASSUME NEW e \in Evidence, AddEvidence(e) PROVE TypeOK'
  BY <1>3 DEF AddEvidence, TypeOK
<1>4. ASSUME NEW r \in Receipt, AddReceipt(r) PROVE TypeOK'
  BY <1>4 DEF AddReceipt, TypeOK
<1>5. ASSUME NEW n \in Node, NEW v \in Value, NEW ev \in SUBSET Evidence,
             Assert(n, v, ev) \/ Observe(n, v, ev)
      PROVE  TypeOK'
  BY <1>5, PremiseType DEF Assert, Observe, TypeOK, ClaimStatus, EventKind
<1>6. ASSUME NEW n \in Node, NEW v \in Value, Assume(n, v) PROVE TypeOK'
  <2>1. {[claim |-> n]} \subseteq Assumption
    BY DEF Assumption
  <2>2. QED
    BY <1>6, <2>1, PremiseType DEF Assume, TypeOK, ClaimStatus, EventKind
<1>7. ASSUME NEW op \in Operation, NEW inputs \in Seq(Node), NEW out \in Node,
             NEW receipt \in Receipt \cup {NoReceipt}, NEW roots,
             Derive(op, inputs, out, receipt, roots)
      PROVE  TypeOK'
  BY <1>7, DeriveType
<1>8. ASSUME NEW o \in Obligation, NEW auto \in BOOLEAN, AddObligation(o, auto)
      PROVE  TypeOK'
  BY <1>8, AddObligationType
<1>9. ASSUME NEW o, NEW by, NEW state \in ObligationState,
             Discharge(o, by, state)
      PROVE  TypeOK'
  BY <1>9, DischargeType
<1>10. ASSUME NEW n \in Node,
              Verify(n) \/ Challenge(n) \/ Invalidate(n) \/ Attest(n)
       PROVE  TypeOK'
  BY <1>10, SetStatusType DEF Verify, GateOpen, Challenge, Invalidate, Attest,
     Exists, ClaimStatus, EventKind
<1>11. QED
  BY <1>1, <1>2, <1>3, <1>4, <1>5, <1>6, <1>7, <1>8, <1>9, <1>10, StepCases

\* The types hold along every behaviour of the calculus.
THEOREM TypeInvariant == Spec => []TypeOK
<1>1. Init => TypeOK
  BY DEF Init, TypeOK, IsMap
<1>2. TypeOK /\ [Next]_vars => TypeOK'
  BY TypeStep
<1>3. QED BY <1>1, <1>2, PTL DEF Spec

-----------------------------------------------------------------------------
(* No id dangles.  Nothing is ever removed from a module, so it is enough  *)
(* to look at what a step writes.                                          *)

SameLinks(c, d) ==
  /\ c.assumptions = d.assumptions
  /\ c.evidence = d.evidence
  /\ c.derivation = d.derivation
  /\ c.obligations = d.obligations

Grows ==
  /\ DOMAIN claims \subseteq DOMAIN claims'
  /\ localClaims \subseteq localClaims'
  /\ assumptions \subseteq assumptions'
  /\ evidence \subseteq evidence'
  /\ receipts \subseteq receipts'
  /\ DOMAIN operations \subseteq DOMAIN operations'
  /\ derivations \subseteq derivations'
  /\ DOMAIN obligations \subseteq DOMAIN obligations'

\* A step that only adds, and whose new claims, derivations and assumptions
\* are grounded, leaves no id dangling.
LEMMA GroundedGrows ==
  ASSUME Grounded, Grows,
         \A n \in DOMAIN claims' :
           \/ n \in DOMAIN claims /\ SameLinks(claims'[n], claims[n])
           \/ ClaimGrounded(n)',
         \A d \in derivations' : d \in derivations \/ DerivationGrounded(d)',
         \A a \in assumptions' : a \in assumptions \/ a.claim \in DOMAIN claims'
  PROVE  Grounded'
<1>1. ASSUME NEW n \in DOMAIN claims' PROVE ClaimGrounded(n)'
  BY <1>1 DEF Grounded, Grows, ClaimGrounded, SameLinks
<1>2. ASSUME NEW d \in derivations' PROVE DerivationGrounded(d)'
  BY <1>2 DEF Grounded, Grows, DerivationGrounded, InputNodes
<1>3. ASSUME NEW a \in assumptions' PROVE (a.claim \in DOMAIN claims)'
  BY <1>3 DEF Grounded, Grows
<1>4. QED BY <1>1, <1>2, <1>3 DEF Grounded

\* Stating a premise leaves no id dangling: its evidence was checked, its
\* obligation and its assumption are recorded with it.
LEMMA PremiseGrounded ==
  ASSUME TypeOK, Grounded, NEW n \in Node, NEW v, NEW ev, NEW status, NEW as,
         NEW event, Premise(n, v, ev, status, as, event),
         assumptions' = assumptions \cup as,
         as \subseteq {[claim |-> n]}
  PROVE  Grounded'
<1>1. DOMAIN claims' = DOMAIN claims \cup {n}
  BY DEF Premise, Put
<1>2. Grows
  BY <1>1 DEF Grows, Premise, PutAll
<1>3. ClaimGrounded(n)'
  <2>1. claims'[n] = PremiseClaim(n, v, ev, status, as)
    BY DEF Premise, Put
  <2>2. AssertedObligations(n, ev) \subseteq DOMAIN obligations'
    BY DEF Premise, PutAll
  <2>3. \A o \in AssertedObligations(n, ev) : o.target = n
    BY DEF AssertedObligations, SourceSupport
  <2>4. /\ claims'[n].assumptions = as
        /\ claims'[n].evidence = ev
        /\ claims'[n].derivation = NoDerivation
        /\ claims'[n].obligations = AssertedObligations(n, ev)
    BY <2>1 DEF PremiseClaim
  <2>5. n \in localClaims' /\ ev \subseteq evidence' /\ as \subseteq assumptions'
    BY DEF Premise
  <2>6. QED
    BY <2>2, <2>3, <2>4, <2>5 DEF ClaimGrounded
<1>4. ASSUME NEW m \in DOMAIN claims', m # n
      PROVE  m \in DOMAIN claims /\ SameLinks(claims'[m], claims[m])
  BY <1>4, <1>1 DEF Premise, Put, SameLinks
<1>5. \A a \in assumptions' : a \in assumptions \/ a.claim \in DOMAIN claims'
  <2>1. [claim |-> n].claim = n
    OBVIOUS
  <2>2. \A a \in as : a.claim = n
    <3> SUFFICES ASSUME NEW a \in as PROVE a.claim = n
      OBVIOUS
    <3>1. a \in {[claim |-> n]}
      OBVIOUS
    <3>2. a = [claim |-> n]
      BY <3>1
    <3>3. QED BY <3>2, <2>1
  <2>3. QED BY <1>1, <2>2
<1>6. derivations' = derivations
  BY DEF Premise
<1>7. QED BY <1>2, <1>3, <1>4, <1>5, <1>6, GroundedGrows

\* Deriving leaves no id dangling: the inputs are claims, what is inherited
\* from them was recorded, and so are the derivation and its obligations.
LEMMA DeriveGrounded ==
  ASSUME TypeOK, Grounded, NEW op \in Operation, NEW inputs \in Seq(Node),
         NEW out \in Node, NEW receipt \in Receipt \cup {NoReceipt}, NEW roots,
         Derive(op, inputs, out, receipt, roots)
  PROVE  Grounded'
<1> DEFINE c == DerivedClaim(op, inputs, out, receipt)
           d == [op |-> op, inputs |-> inputs, output |-> out,
                 receipt |-> receipt]
<1>1. /\ claims' = Put(claims, out, c)
      /\ derivations' = derivations \cup {d}
      /\ CanDerive(op, inputs, receipt, roots)
  BY DEF Derive, DerivedClaim
<1>2. /\ DOMAIN claims' = DOMAIN claims \cup {out}
      /\ claims'[out] = c
      /\ \A m \in DOMAIN claims : m # out => claims'[m] = claims[m]
  BY <1>1 DEF Put
<1>3. Grows
  BY <1>1, <1>2 DEF Grows, Derive, PutAll, supportVars
<1>4. InputNodes(inputs) \subseteq DOMAIN claims
  BY <1>1 DEF CanDerive, Exists, InputNodes
<1>5. ClaimGrounded(out)'
  <2>1. c.assumptions \subseteq assumptions /\ c.evidence \subseteq evidence
    BY <1>4 DEF DerivedClaim, Grounded, ClaimGrounded
  <2>2. c.derivation = d /\ d.output = out /\ d \in derivations'
    BY <1>1 DEF DerivedClaim
  <2>3. GeneratedObligations(op, out) \subseteq DOMAIN obligations'
    BY DEF Derive, PutAll
  <2>4. \A o \in GeneratedObligations(op, out) : o.target = out
    BY DEF GeneratedObligations
  <2>5. c.obligations = GeneratedObligations(op, out)
    BY DEF DerivedClaim
  <2>6. out \in localClaims' /\ UNCHANGED supportVars
    BY DEF Derive
  <2> HIDE DEF c, d
  <2>7. QED
    BY <1>2, <2>1, <2>2, <2>3, <2>4, <2>5, <2>6 DEF ClaimGrounded, supportVars
<1>6. DerivationGrounded(d)'
  <2>1. receipt # NoReceipt => receipt \in receipts
    BY <1>1 DEF CanDerive, ReceiptAccepted
  <2>2. op \in DOMAIN operations
    BY <1>1 DEF CanDerive
  <2>3. UNCHANGED supportVars
    BY DEF Derive
  <2>4. QED
    BY <1>2, <1>4, <2>1, <2>2, <2>3 DEF DerivationGrounded, supportVars, InputNodes
<1>7. assumptions' = assumptions
  BY DEF Derive, supportVars
<1>8. \A m \in DOMAIN claims' :
        \/ m \in DOMAIN claims /\ SameLinks(claims'[m], claims[m])
        \/ ClaimGrounded(m)'
  BY <1>2, <1>5 DEF SameLinks
<1> HIDE DEF c, d
<1>9. QED BY <1>1, <1>3, <1>6, <1>7, <1>8, GroundedGrows

\* A change of status writes no id.
LEMMA SetStatusGrounded ==
  ASSUME TypeOK, Grounded, NEW n \in DOMAIN claims, NEW status, NEW event,
         SetStatus(n, status, event)
  PROVE  Grounded'
<1>1. Grows
  BY DEF Grows, SetStatus, supportVars
<1>2. \A m \in DOMAIN claims' :
        m \in DOMAIN claims /\ SameLinks(claims'[m], claims[m])
  <2>1. \A m \in DOMAIN claims : claims[m] \in Claim
    BY DEF TypeOK, IsMap
  <2>2. QED BY <2>1 DEF SetStatus, SameLinks, Claim
<1>3. derivations' = derivations /\ assumptions' = assumptions
  BY DEF SetStatus, supportVars
<1>4. QED BY <1>1, <1>2, <1>3, GroundedGrows

\* An attached obligation is recorded, and targets the claim it is attached to.
LEMMA AddObligationGrounded ==
  ASSUME TypeOK, Grounded, NEW o \in Obligation, NEW auto, AddObligation(o, auto)
  PROVE  Grounded'
<1>1. DOMAIN obligations' = DOMAIN obligations \cup {o}
  BY DEF AddObligation, Put
<1>2. DOMAIN claims' = DOMAIN claims
  BY DEF AddObligation
<1>3. Grows
  BY <1>1, <1>2 DEF Grows, AddObligation, supportVars
<1>4. ASSUME NEW m \in DOMAIN claims
      PROVE  ClaimGrounded(m)'
  <2>1. claims[m] \in Claim
    BY DEF TypeOK, IsMap
  <2>2. /\ claims'[m].assumptions = claims[m].assumptions
        /\ claims'[m].evidence = claims[m].evidence
        /\ claims'[m].derivation = claims[m].derivation
        /\ \/ claims'[m].obligations = claims[m].obligations
           \/ m = o.target /\ claims'[m].obligations = claims[m].obligations \cup {o}
    BY <2>1 DEF AddObligation, Exists, Claim
  <2>3. QED
    BY <1>1, <1>2, <2>2 DEF ClaimGrounded, Grounded, AddObligation, supportVars
<1>5. derivations' = derivations /\ assumptions' = assumptions
  BY DEF AddObligation, supportVars
<1>6. QED BY <1>2, <1>3, <1>4, <1>5, GroundedGrows

\* Every step leaves no id dangling.
LEMMA GroundedStep == TypeOK /\ Grounded /\ [Next]_vars => Grounded'
<1> SUFFICES ASSUME TypeOK, Grounded, [Next]_vars PROVE Grounded'
  OBVIOUS
<1>1. CASE UNCHANGED vars
  BY <1>1 DEF vars, Grounded, ClaimGrounded, DerivationGrounded, InputNodes
<1>2. ASSUME NEW def \in OperationDef, RegisterOp(def) PROVE Grounded'
  BY <1>2, GroundedGrows DEF RegisterOp, Grows, SameLinks, Put
<1>3. ASSUME NEW e \in Evidence, AddEvidence(e) PROVE Grounded'
  BY <1>3, GroundedGrows DEF AddEvidence, Grows, SameLinks
<1>4. ASSUME NEW r \in Receipt, AddReceipt(r) PROVE Grounded'
  BY <1>4, GroundedGrows DEF AddReceipt, Grows, SameLinks
<1>5. ASSUME NEW n \in Node, NEW v \in Value, NEW ev \in SUBSET Evidence,
             Assert(n, v, ev) \/ Observe(n, v, ev)
      PROVE  Grounded'
  <2>1. assumptions' = assumptions \cup {}
    BY <1>5 DEF Assert, Observe
  <2>2. QED BY <1>5, <2>1, PremiseGrounded DEF Assert, Observe
<1>6. ASSUME NEW n \in Node, NEW v \in Value, Assume(n, v) PROVE Grounded'
  BY <1>6, PremiseGrounded DEF Assume
<1>7. ASSUME NEW op \in Operation, NEW inputs \in Seq(Node), NEW out \in Node,
             NEW receipt \in Receipt \cup {NoReceipt}, NEW roots,
             Derive(op, inputs, out, receipt, roots)
      PROVE  Grounded'
  BY <1>7, DeriveGrounded
<1>8. ASSUME NEW o \in Obligation, NEW auto \in BOOLEAN, AddObligation(o, auto)
      PROVE  Grounded'
  BY <1>8, AddObligationGrounded
<1>9. ASSUME NEW o, NEW by, NEW state \in ObligationState,
             Discharge(o, by, state)
      PROVE  Grounded'
  BY <1>9, GroundedGrows DEF Discharge, Grows, SameLinks, supportVars
<1>10. ASSUME NEW n \in Node,
              Verify(n) \/ Challenge(n) \/ Invalidate(n) \/ Attest(n)
       PROVE  Grounded'
  BY <1>10, SetStatusGrounded DEF Verify, GateOpen, Challenge, Invalidate,
     Attest, Exists
<1>11. QED
  BY <1>1, <1>2, <1>3, <1>4, <1>5, <1>6, <1>7, <1>8, <1>9, <1>10, StepCases

\* No id dangles along any behaviour of the calculus.
THEOREM GroundedInvariant == Spec => []Grounded
<1>1. Init => Grounded
  BY DEF Init, Grounded
<1>2. TypeOK /\ Grounded /\ [Next]_vars => Grounded'
  BY GroundedStep
<1>3. QED BY <1>1, <1>2, TypeInvariant, PTL DEF Spec

-----------------------------------------------------------------------------
(* The log and the standing of claims. *)

\* A step that gives one claim a status and logs the event of that status
\* leaves the log in agreement with the claims.
LEMMA LogStep ==
  ASSUME LogExplainsStatus, NEW n, NEW event, NEW c,
         claims' = Put(claims, n, c), lastEvent' = Put(lastEvent, n, event),
         c.status = StatusOf(event)
  PROVE  LogExplainsStatus'
BY DEF LogExplainsStatus, Put

\* So does a change of status.
LEMMA LogSetStatus ==
  ASSUME TypeOK, LogExplainsStatus, NEW n \in DOMAIN claims, NEW status,
         NEW event, SetStatus(n, status, event), status = StatusOf(event)
  PROVE  LogExplainsStatus'
<1>1. claims[n] \in Claim
  BY DEF TypeOK, IsMap
<1>2. DOMAIN claims' = DOMAIN claims /\ DOMAIN lastEvent' = DOMAIN lastEvent
  BY DEF SetStatus, Put, LogExplainsStatus
<1>3. claims'[n].status = status /\ lastEvent'[n] = event
  BY <1>1 DEF SetStatus, Put, Claim, LogExplainsStatus
<1>4. \A m \in DOMAIN claims : m # n =>
        claims'[m] = claims[m] /\ lastEvent'[m] = lastEvent[m]
  BY DEF SetStatus, Put, LogExplainsStatus
<1>5. QED BY <1>2, <1>3, <1>4 DEF LogExplainsStatus

\* Every step keeps the log in agreement with the claims.
LEMMA LogKept == TypeOK /\ LogExplainsStatus /\ [Next]_vars => LogExplainsStatus'
<1> SUFFICES ASSUME TypeOK, LogExplainsStatus, [Next]_vars
             PROVE  LogExplainsStatus'
  OBVIOUS
<1>1. CASE UNCHANGED vars
  BY <1>1 DEF vars, LogExplainsStatus
<1>2. ASSUME NEW def \in OperationDef, RegisterOp(def)
      PROVE  LogExplainsStatus'
  BY <1>2 DEF RegisterOp, LogExplainsStatus
<1>3. ASSUME NEW e \in Evidence, AddEvidence(e) PROVE LogExplainsStatus'
  BY <1>3 DEF AddEvidence, LogExplainsStatus
<1>4. ASSUME NEW r \in Receipt, AddReceipt(r) PROVE LogExplainsStatus'
  BY <1>4 DEF AddReceipt, LogExplainsStatus
<1>5. ASSUME NEW n \in Node, NEW v \in Value, NEW ev \in SUBSET Evidence,
             Assert(n, v, ev) \/ Observe(n, v, ev)
      PROVE  LogExplainsStatus'
  BY <1>5, LogStep DEF Assert, Observe, Premise, PremiseClaim, StatusOf
<1>6. ASSUME NEW n \in Node, NEW v \in Value, Assume(n, v)
      PROVE  LogExplainsStatus'
  BY <1>6, LogStep DEF Assume, Premise, PremiseClaim, StatusOf
<1>7. ASSUME NEW op \in Operation, NEW inputs \in Seq(Node), NEW out \in Node,
             NEW receipt \in Receipt \cup {NoReceipt}, NEW roots,
             Derive(op, inputs, out, receipt, roots)
      PROVE  LogExplainsStatus'
  BY <1>7, LogStep DEF Derive, DerivedClaim, StatusOf
<1>8. ASSUME NEW o \in Obligation, NEW auto \in BOOLEAN, AddObligation(o, auto)
      PROVE  LogExplainsStatus'
  <2>1. DOMAIN claims' = DOMAIN claims /\ lastEvent' = lastEvent
    BY <1>8 DEF AddObligation
  <2>2. ASSUME NEW m \in DOMAIN claims PROVE claims'[m].status = claims[m].status
    <3>1. claims[m] \in Claim
      BY DEF TypeOK, IsMap
    <3>2. QED BY <1>8, <3>1 DEF AddObligation, Exists, Claim
  <2>3. QED BY <2>1, <2>2 DEF LogExplainsStatus
<1>9. ASSUME NEW o, NEW by, NEW state, Discharge(o, by, state)
      PROVE  LogExplainsStatus'
  BY <1>9 DEF Discharge, LogExplainsStatus
<1>10. ASSUME NEW n \in Node,
              Verify(n) \/ Challenge(n) \/ Invalidate(n) \/ Attest(n)
       PROVE  LogExplainsStatus'
  BY <1>10, LogSetStatus DEF Verify, GateOpen, Challenge, Invalidate,
     Attest, Exists, StatusOf
<1>11. QED
  BY <1>1, <1>2, <1>3, <1>4, <1>5, <1>6, <1>7, <1>8, <1>9, <1>10, StepCases

\* The last event about a claim determines its status in every behaviour.
THEOREM LogInvariant == Spec => []LogExplainsStatus
<1>1. Init => LogExplainsStatus
  BY DEF Init, LogExplainsStatus
<1>2. TypeOK /\ LogExplainsStatus /\ [Next]_vars => LogExplainsStatus'
  BY LogKept
<1>3. QED BY <1>1, <1>2, TypeInvariant, PTL DEF Spec

-----------------------------------------------------------------------------
(* What verified claims rest on. *)

\* What VerifiedIsSupported says of a claim.
Supported(n) ==
  LET d == claims[n].derivation IN
    /\ d # NoDerivation
    /\ d \in derivations /\ d.output = n
    /\ d.op \in DOMAIN operations
    /\ d.receipt # NoReceipt =>
         d.receipt \in receipts /\ claims[n].value = d.receipt.output

\* A claim backed by a receipt has the value recorded there.
ReceiptsHonoured ==
  \A n \in DOMAIN claims :
    /\ claims[n].derivation # NoDerivation
    /\ claims[n].derivation.receipt # NoReceipt
    => claims[n].value = claims[n].derivation.receipt.output

\* A premise has no derivation until it is replaced by a conclusion.
PremiseUnderived ==
  \A n \in DOMAIN claims :
    claims[n].status \in {"Asserted", "Observed", "Assumed"} =>
      claims[n].derivation = NoDerivation

SupportInv == VerifiedIsSupported /\ PremiseUnderived /\ ReceiptsHonoured

\* A step that only adds, and verifies only what is supported, keeps verified
\* claims supported.
LEMMA SupportGrows ==
  ASSUME VerifiedIsSupported, Grows,
         \A n \in DOMAIN claims' : claims'[n].status = "Verified" =>
           \/ /\ n \in DOMAIN claims
              /\ claims[n].status = "Verified"
              /\ claims'[n].derivation = claims[n].derivation
              /\ claims'[n].value = claims[n].value
           \/ Supported(n)'
  PROVE  VerifiedIsSupported'
<1> SUFFICES ASSUME NEW n \in DOMAIN claims', claims'[n].status = "Verified"
             PROVE  Supported(n)'
  BY DEF VerifiedIsSupported, Supported
<1>1. CASE /\ n \in DOMAIN claims
           /\ claims[n].status = "Verified"
           /\ claims'[n].derivation = claims[n].derivation
           /\ claims'[n].value = claims[n].value
  BY <1>1 DEF VerifiedIsSupported, Grows, Supported
<1>2. QED BY <1>1

\* Every step keeps verified claims supported, premises underived and the
\* values of receipts.
LEMMA SupportStep == TypeOK /\ Grounded /\ SupportInv /\ [Next]_vars => SupportInv'
<1> SUFFICES ASSUME TypeOK, Grounded, SupportInv, [Next]_vars
             PROVE  SupportInv'
  OBVIOUS
<1> DEFINE Inv == SupportInv
<1>0. VerifiedIsSupported /\ PremiseUnderived /\ ReceiptsHonoured
  BY DEF SupportInv
<1>a. ASSUME VerifiedIsSupported', PremiseUnderived', ReceiptsHonoured' PROVE Inv'
  BY <1>a DEF SupportInv
<1>b. ASSUME claims' = claims, Grows PROVE Inv'
  BY <1>0, <1>a, <1>b, SupportGrows DEF PremiseUnderived, ReceiptsHonoured
<1> HIDE DEF Inv
<1>1. ASSUME UNCHANGED vars PROVE Inv'
  BY <1>1, <1>b DEF vars, Grows
<1>2. ASSUME NEW def \in OperationDef, RegisterOp(def) PROVE Inv'
  BY <1>2, <1>b DEF RegisterOp, Grows, Put
<1>3. ASSUME NEW e \in Evidence, AddEvidence(e) PROVE Inv'
  BY <1>3, <1>b DEF AddEvidence, Grows
<1>4. ASSUME NEW r \in Receipt, AddReceipt(r) PROVE Inv'
  BY <1>4, <1>b DEF AddReceipt, Grows
<1>5. ASSUME NEW n \in Node, NEW v, NEW ev, NEW as, NEW event,
             NEW status \in {"Asserted", "Observed", "Assumed"},
             Premise(n, v, ev, status, as, event),
             assumptions \subseteq assumptions'
      PROVE  Inv'
  <2>1. /\ DOMAIN claims' = DOMAIN claims \cup {n}
        /\ claims'[n].status # "Verified"
        /\ claims'[n].derivation = NoDerivation
        /\ \A m \in DOMAIN claims : m # n => claims'[m] = claims[m]
    BY <1>5 DEF Premise, Put, PremiseClaim
  <2>2. Grows
    BY <1>5, <2>1 DEF Grows, Premise, PutAll
  <2>3. VerifiedIsSupported'
    BY <1>0, <2>1, <2>2, SupportGrows
  <2>4. PremiseUnderived' /\ ReceiptsHonoured'
    BY <1>0, <2>1 DEF PremiseUnderived, ReceiptsHonoured
  <2>5. QED BY <1>a, <2>3, <2>4
<1>6. ASSUME NEW op \in Operation, NEW inputs \in Seq(Node), NEW out \in Node,
             NEW receipt \in Receipt \cup {NoReceipt}, NEW roots,
             Derive(op, inputs, out, receipt, roots)
      PROVE  Inv'
  <2>1. /\ DOMAIN claims' = DOMAIN claims \cup {out}
        /\ claims'[out].status = "Pending"
        /\ claims'[out].value = Output(op, inputs, receipt)
        /\ claims'[out].derivation.receipt = receipt
        /\ \A m \in DOMAIN claims : m # out => claims'[m] = claims[m]
    BY <1>6 DEF Derive, Put, DerivedClaim
  <2>2. Grows
    BY <1>6, <2>1 DEF Grows, Derive, PutAll, supportVars
  <2>3. VerifiedIsSupported'
    BY <1>0, <2>1, <2>2, SupportGrows
  <2>4. PremiseUnderived' /\ ReceiptsHonoured'
    BY <1>0, <2>1 DEF PremiseUnderived, ReceiptsHonoured, Output
  <2>5. QED BY <1>a, <2>3, <2>4
<1>7. ASSUME NEW o \in Obligation, NEW auto \in BOOLEAN, AddObligation(o, auto)
      PROVE  Inv'
  <2>1. Grows /\ DOMAIN claims' = DOMAIN claims
    BY <1>7 DEF Grows, AddObligation, supportVars, Put
  <2>2. ASSUME NEW m \in DOMAIN claims
        PROVE  /\ claims'[m].status = claims[m].status
               /\ claims'[m].derivation = claims[m].derivation
               /\ claims'[m].value = claims[m].value
    <3>1. claims[m] \in Claim
      BY DEF TypeOK, IsMap
    <3>2. QED BY <1>7, <3>1 DEF AddObligation, Exists, Claim
  <2>3. VerifiedIsSupported'
    BY <1>0, <2>1, <2>2, SupportGrows
  <2>4. PremiseUnderived' /\ ReceiptsHonoured'
    BY <1>0, <2>1, <2>2 DEF PremiseUnderived, ReceiptsHonoured
  <2>5. QED BY <1>a, <2>3, <2>4
<1>8. ASSUME NEW o, NEW by, NEW state, Discharge(o, by, state) PROVE Inv'
  BY <1>8, <1>b DEF Discharge, Grows, supportVars
<1>9. ASSUME NEW n \in DOMAIN claims, NEW event,
             NEW status \in {"Verified", "Challenged", "Invalidated",
                             "ExternallyAttested"},
             SetStatus(n, status, event),
             status = "Verified" => GateOpen(n)
      PROVE  Inv'
  <2>1. Grows /\ DOMAIN claims' = DOMAIN claims
    BY <1>9 DEF Grows, SetStatus, supportVars
  <2>2. \A m \in DOMAIN claims : claims[m] \in Claim
    BY DEF TypeOK, IsMap
  <2>3. /\ \A m \in DOMAIN claims : claims'[m].derivation = claims[m].derivation
        /\ \A m \in DOMAIN claims : claims'[m].value = claims[m].value
        /\ \A m \in DOMAIN claims : m # n => claims'[m] = claims[m]
        /\ claims'[n].status = status
    BY <1>9, <2>2 DEF SetStatus, Claim
  <2>4. status = "Verified" => Supported(n)
    BY <1>0, <1>9 DEF GateOpen, Supported, Grounded, ClaimGrounded,
       DerivationGrounded, ReceiptsHonoured
  <2>5. status = "Verified" => Supported(n)'
    <3>1. /\ derivations' = derivations
          /\ operations' = operations
          /\ receipts' = receipts
          /\ claims'[n].derivation = claims[n].derivation
          /\ claims'[n].value = claims[n].value
      BY <1>9, <2>3 DEF SetStatus, supportVars
    <3>2. QED BY <2>4, <3>1 DEF Supported
  <2>6. VerifiedIsSupported'
    BY <1>0, <2>1, <2>3, <2>5, SupportGrows
  <2>7. PremiseUnderived'
    BY <1>0, <1>9, <2>1, <2>3 DEF PremiseUnderived
  <2>8. ReceiptsHonoured'
    BY <1>0, <2>1, <2>3 DEF ReceiptsHonoured
  <2>9. QED BY <1>a, <2>6, <2>7, <2>8
<1>10. ASSUME NEW n \in Node, NEW v \in Value, NEW ev \in SUBSET Evidence,
              Assert(n, v, ev) \/ Observe(n, v, ev)
       PROVE  Inv'
  BY <1>10, <1>5 DEF Assert, Observe
<1>11. ASSUME NEW n \in Node, NEW v \in Value, Assume(n, v) PROVE Inv'
  BY <1>11, <1>5 DEF Assume
<1>12. ASSUME NEW n \in Node,
              Verify(n) \/ Challenge(n) \/ Invalidate(n) \/ Attest(n)
       PROVE  Inv'
  BY <1>12, <1>9 DEF Verify, GateOpen, Challenge, Invalidate, Attest, Exists
<1>13. Inv'
  BY <1>1, <1>2, <1>3, <1>4, <1>6, <1>7, <1>8, <1>10, <1>11, <1>12, StepCases
<1>14. QED BY <1>13 DEF Inv

\* The calculus keeps verified claims supported, premises underived and the
\* values of receipts, operations registered again at any moment included.
THEOREM SupportInvariant ==
  Spec => [](VerifiedIsSupported /\ PremiseUnderived /\ ReceiptsHonoured)
<1>1. Init => SupportInv
  BY DEF Init, SupportInv, VerifiedIsSupported, PremiseUnderived, ReceiptsHonoured
<1>2. TypeOK /\ Grounded /\ SupportInv /\ [Next]_vars => SupportInv'
  BY SupportStep
<1>3. SupportInv =>
        VerifiedIsSupported /\ PremiseUnderived /\ ReceiptsHonoured
  BY DEF SupportInv
<1>4. QED BY <1>1, <1>2, <1>3, TypeInvariant, GroundedInvariant, PTL DEF Spec

-----------------------------------------------------------------------------
(* The gate: the calculus implements it, and INV-VERIFY is broken only by    *)
(* obligation calls and operations made external, because every other call   *)
(* touches one claim and the obligations that target it.                     *)

\* The step writes the claim of node n only, of the obligations it writes only
\* those that target n, forgets no derivation and registers no operation.
Concerns(n) ==
  /\ \A m \in Node : m # n => Exists(m)' = Exists(m)
  /\ \A m \in DOMAIN claims : m # n => claims'[m] = claims[m]
  /\ \A o \in DOMAIN obligations : o.target # n =>
       o \in DOMAIN obligations' /\ obligations'[o] = obligations[o]
  /\ derivations \subseteq derivations'
  /\ operations' = operations

\* A grounded claim's gate is shut only by its obligations or by the lack of a
\* derivation or receipt.
LEMMA GateOfGrounded ==
  ASSUME Grounded, NEW m \in DOMAIN claims
  PROVE  GateOpen(m) <=>
           /\ claims[m].derivation # NoDerivation
           /\ \A o \in claims[m].obligations :
                o.severity = "Mandatory" => obligations[o] \in Discharged
           /\ External(operations[claims[m].derivation.op]) =>
                claims[m].derivation.receipt # NoReceipt
BY DEF GateOpen, Exists, Grounded, ClaimGrounded, DerivationGrounded,
   ObligationsDischarged, DerivationComplete

\* A step about one claim moves neither the standing nor the gate of another.
LEMMA OthersKept ==
  ASSUME Grounded, Grounded', NEW n, Concerns(n), NEW m \in Node, m # n
  PROVE  /\ Standing(m)' = Standing(m) /\ Basis(m)' = Basis(m)
         /\ GateOpen(m)' = GateOpen(m)
<1>1. CASE ~Exists(m)
  BY <1>1 DEF Concerns, Standing, Basis, GateOpen
<1>2. CASE Exists(m)
  <2>1. m \in DOMAIN claims /\ m \in DOMAIN claims' /\ claims'[m] = claims[m]
    BY <1>2 DEF Concerns, Exists
  <2>2. Standing(m)' = Standing(m) /\ Basis(m)' = Basis(m)
    BY <2>1 DEF Standing, Basis, Exists
  <2>3. \A o \in claims[m].obligations : obligations'[o] = obligations[o]
    BY <2>1 DEF Concerns, Grounded, ClaimGrounded
  <2>4. GateOpen(m)' <=>
           /\ claims'[m].derivation # NoDerivation
           /\ \A o \in claims'[m].obligations :
                o.severity = "Mandatory" => obligations'[o] \in Discharged
           /\ External(operations'[claims'[m].derivation.op]) =>
                claims'[m].derivation.receipt # NoReceipt
    BY <2>1 DEF GateOpen, Exists, External, Grounded, ClaimGrounded, DerivationGrounded,
       ObligationsDischarged, DerivationComplete
  <2>5. GateOpen(m)' <=> GateOpen(m)
    <3>1. operations' = operations
      BY DEF Concerns
    <3>2. QED BY <2>1, <2>3, <2>4, <3>1, GateOfGrounded
  <2>6. GateOpen(m) \in BOOLEAN /\ GateOpen(m)' \in BOOLEAN
    BY DEF GateOpen
  <2>7. QED BY <2>2, <2>5, <2>6
<1>3. QED BY <1>1, <1>2

\* So the abstract state moves at that claim at most.
LEMMA GateStep ==
  ASSUME Grounded, Grounded', NEW n \in Node, Concerns(n)
  PROVE  /\ [m \in Node |-> Standing(m)]' =
              [[m \in Node |-> Standing(m)] EXCEPT ![n] = Standing(n)']
         /\ [m \in Node |-> GateOpen(m)]' =
              [[m \in Node |-> GateOpen(m)] EXCEPT ![n] = GateOpen(n)']
         /\ [m \in Node |-> Basis(m)]' =
              [[m \in Node |-> Basis(m)] EXCEPT ![n] = Basis(n)']
BY OthersKept

-----------------------------------------------------------------------------
(* What each call does to its claim. *)

\* Stating a premise shuts the gate of its node.
LEMMA PremiseMoves ==
  ASSUME NEW n \in Node, NEW v, NEW ev, NEW as, NEW event,
         NEW status \in {"Asserted", "Observed", "Assumed"},
         Premise(n, v, ev, status, as, event)
  PROVE  /\ Concerns(n)
         /\ Exists(n)' /\ claims'[n].status = status
         /\ Standing(n)' = "premise" /\ GateOpen(n)' = FALSE /\ Basis(n)' = {}
<1>1. /\ DOMAIN claims' = DOMAIN claims \cup {n}
      /\ claims'[n].status = status
      /\ claims'[n].derivation = NoDerivation
      /\ \A m \in DOMAIN claims : m # n => claims'[m] = claims[m]
  BY DEF Premise, Put, PremiseClaim
<1>2. \A o \in DOMAIN obligations : o.target # n =>
        o \in DOMAIN obligations' /\ obligations'[o] = obligations[o]
  BY DEF Premise, PutAll, AssertedObligations, SourceSupport
<1>3. derivations' = derivations /\ operations' = operations
  BY DEF Premise
<1>4. Concerns(n)
  BY <1>1, <1>2, <1>3 DEF Concerns, Exists
<1>5. Exists(n)'
  BY <1>1 DEF Exists
<1>6. Standing(n)' = "premise"
  BY <1>1, <1>5 DEF Standing
<1>7. GateOpen(n)' = FALSE
  BY <1>1 DEF GateOpen
<1>8. Basis(n)' = {}
  BY <1>1, <1>5 DEF Basis
<1>9. QED BY <1>1, <1>4, <1>5, <1>6, <1>7, <1>8

\* A conclusion waits for its gate.
LEMMA DeriveMoves ==
  ASSUME TypeOK, NEW op \in Operation, NEW inputs \in Seq(Node), NEW out \in Node,
         NEW receipt \in Receipt \cup {NoReceipt}, NEW roots,
         Derive(op, inputs, out, receipt, roots)
  PROVE  /\ Concerns(out)
         /\ claims'[out].status = "Pending"
         /\ Standing(out)' = "pending" /\ GateOpen(out)' \in BOOLEAN
         /\ Basis(out)' = {op}
<1>1. /\ DOMAIN claims' = DOMAIN claims \cup {out}
      /\ claims'[out].status = "Pending"
      /\ claims'[out].derivation = [op |-> op, inputs |-> inputs, output |-> out,
                                    receipt |-> receipt]
      /\ \A m \in DOMAIN claims : m # out => claims'[m] = claims[m]
  BY DEF Derive, Put, DerivedClaim
<1>2. \A o \in DOMAIN obligations : o.target # out =>
        o \in DOMAIN obligations' /\ obligations'[o] = obligations[o]
  BY DEF Derive, PutAll, GeneratedObligations
<1>3. derivations \subseteq derivations' /\ operations' = operations
  BY DEF Derive, supportVars
<1>4. Concerns(out)
  BY <1>1, <1>2, <1>3 DEF Concerns, Exists
<1>5. Standing(out)' = "pending"
  BY <1>1 DEF Standing, Exists
<1>6. GateOpen(out)' \in BOOLEAN
  BY DEF GateOpen
<1>7. Basis(out)' = {op}
  <2>1. claims'[out].derivation \in Derivation
    BY <1>1 DEF Derivation
  <2>2. claims'[out].derivation # NoDerivation
    BY <2>1, ModuleAssumption
  <2>3. QED BY <1>1, <2>2 DEF Basis, Exists
<1>8. QED BY <1>1, <1>4, <1>5, <1>6, <1>7

\* Attaching an obligation keeps the standing of its target, and the gate of a
\* premise or of no claim shut.
LEMMA AddObligationMoves ==
  ASSUME TypeOK, PremiseUnderived, NEW o \in Obligation, NEW auto,
         AddObligation(o, auto)
  PROVE  /\ Concerns(o.target)
         /\ Standing(o.target)' = Standing(o.target)
         /\ Basis(o.target)' = Basis(o.target)
         /\ GateOpen(o.target)' \in BOOLEAN
         /\ Standing(o.target) \in {"none", "premise"} =>
              GateOpen(o.target)' = GateOpen(o.target)
<1> DEFINE n == o.target
<1>1. DOMAIN claims' = DOMAIN claims
  BY DEF AddObligation
<1>2. \A m \in DOMAIN claims : m # n => claims'[m] = claims[m]
  BY DEF AddObligation
<1>3. ASSUME n \in DOMAIN claims
      PROVE  /\ claims'[n].status = claims[n].status
             /\ claims'[n].derivation = claims[n].derivation
  <2>1. claims[n] \in Claim
    BY <1>3 DEF TypeOK, IsMap
  <2>2. QED BY <1>3, <2>1 DEF AddObligation, Exists, Claim
<1>4. \A q \in DOMAIN obligations : q.target # n =>
        q \in DOMAIN obligations' /\ obligations'[q] = obligations[q]
  BY DEF AddObligation, Put
<1>5. derivations' = derivations /\ operations' = operations
  BY DEF AddObligation, supportVars
<1>6. Concerns(n)
  BY <1>1, <1>2, <1>4, <1>5 DEF Concerns, Exists
<1>7. Standing(n)' = Standing(n) /\ Basis(n)' = Basis(n)
  BY <1>1, <1>3 DEF Standing, Basis, Exists
<1>8. GateOpen(n)' \in BOOLEAN
  BY DEF GateOpen
<1>9. ASSUME Standing(n) = "none" PROVE GateOpen(n)' = GateOpen(n)
  <2>1. ~Exists(n)
    BY <1>9 DEF Standing
  <2>2. ~Exists(n)'
    BY <1>1, <2>1 DEF Exists
  <2>3. QED BY <2>1, <2>2 DEF GateOpen
<1>10. ASSUME Standing(n) = "premise" PROVE GateOpen(n)' = GateOpen(n)
  <2>1. n \in DOMAIN claims /\ claims[n].status \in {"Asserted", "Observed", "Assumed"}
    BY <1>10 DEF Standing, Exists
  <2>2. claims[n].derivation = NoDerivation /\ claims'[n].derivation = NoDerivation
    BY <1>3, <2>1 DEF PremiseUnderived
  <2>3. QED BY <2>2 DEF GateOpen
<1>11. QED BY <1>6, <1>7, <1>8, <1>9, <1>10

\* So does discharging one.
LEMMA DischargeMoves ==
  ASSUME PremiseUnderived, NEW o, NEW by, NEW state, Discharge(o, by, state)
  PROVE  /\ Concerns(o.target)
         /\ Standing(o.target)' = Standing(o.target)
         /\ Basis(o.target)' = Basis(o.target)
         /\ GateOpen(o.target)' \in BOOLEAN
         /\ Standing(o.target) \in {"none", "premise"} =>
              GateOpen(o.target)' = GateOpen(o.target)
<1> DEFINE n == o.target
<1>1. /\ claims' = claims
      /\ derivations' = derivations /\ operations' = operations
      /\ \A q \in DOMAIN obligations : q.target # n =>
           q \in DOMAIN obligations' /\ obligations'[q] = obligations[q]
  BY DEF Discharge, supportVars
<1>2. Concerns(n)
  BY <1>1 DEF Concerns, Exists
<1>3. Standing(n)' = Standing(n) /\ Basis(n)' = Basis(n)
  BY <1>1 DEF Standing, Basis, Exists
<1>4. GateOpen(n)' \in BOOLEAN
  BY DEF GateOpen
<1>5. ASSUME Standing(n) \in {"none", "premise"} PROVE GateOpen(n)' = GateOpen(n)
  <2>1. ~Exists(n) \/ claims[n].derivation = NoDerivation
    BY <1>5 DEF Standing, Exists, PremiseUnderived
  <2>2. QED BY <1>1, <2>1 DEF GateOpen, Exists
<1>6. QED BY <1>2, <1>3, <1>4, <1>5

\* A change of status leaves the gate where it is.
LEMMA SetStatusMoves ==
  ASSUME TypeOK, NEW n \in DOMAIN claims, NEW status, NEW event,
         SetStatus(n, status, event)
  PROVE  /\ Concerns(n)
         /\ Exists(n)' /\ claims'[n].status = status
         /\ GateOpen(n)' = GateOpen(n) /\ Basis(n)' = Basis(n)
<1>1. claims[n] \in Claim
  BY DEF TypeOK, IsMap
<1>2. /\ DOMAIN claims' = DOMAIN claims
      /\ claims'[n].status = status
      /\ claims'[n].derivation = claims[n].derivation
      /\ claims'[n].obligations = claims[n].obligations
      /\ \A m \in DOMAIN claims : m # n => claims'[m] = claims[m]
  BY <1>1 DEF SetStatus, Claim
<1>3. /\ derivations' = derivations /\ operations' = operations
      /\ obligations' = obligations
  BY DEF SetStatus, supportVars
<1>4. Concerns(n)
  BY <1>2, <1>3 DEF Concerns, Exists
<1>5. Exists(n) /\ Exists(n)'
  BY <1>2 DEF Exists
<1>6. ObligationsDischarged(claims[n])' <=> ObligationsDischarged(claims[n])
  BY <1>2, <1>3 DEF ObligationsDischarged
<1>7. DerivationComplete(claims[n])' <=> DerivationComplete(claims[n])
  BY <1>2, <1>3 DEF DerivationComplete
<1>8. GateOpen(n)' = GateOpen(n)
  BY <1>2, <1>5, <1>6, <1>7 DEF GateOpen
<1>9. Basis(n)' = Basis(n)
  BY <1>2, <1>5 DEF Basis
<1>10. QED BY <1>2, <1>4, <1>5, <1>8, <1>9

-----------------------------------------------------------------------------
(* INV-VERIFY is broken by an obligation or an operation made external. *)

\* A step about one claim that does not leave it verified through a shut gate
\* keeps INV-VERIFY.
LEMMA ConcernsKeepsInvVerify ==
  ASSUME TypeOK', Grounded, Grounded', VerificationInvariant,
         NEW n \in Node, Concerns(n),
         Exists(n)' /\ claims'[n].status = "Verified" => GateOpen(n)'
  PROVE  VerificationInvariant'
<1> SUFFICES ASSUME NEW m \in DOMAIN claims', claims'[m].status = "Verified"
             PROVE  GateOpen(m)'
  BY DEF VerificationInvariant
<1>1. m \in Node
  BY DEF TypeOK, IsMap
<1>2. CASE m = n
  BY <1>2 DEF Exists
<1>3. CASE m # n
  <2>1. m \in DOMAIN claims /\ claims[m].status = "Verified"
    BY <1>1, <1>3 DEF Concerns, Exists
  <2>2. GateOpen(m)
    BY <2>1 DEF VerificationInvariant
  <2>3. QED BY <1>1, <1>3, <2>2, OthersKept
<1>4. QED BY <1>2, <1>3

\* Recording evidence or a receipt keeps every gate and every standing.
LEMMA SupportKeeps ==
  ASSUME claims' = claims, obligations' = obligations,
         derivations' = derivations, operations' = operations
  PROVE  /\ \A n \in Node : /\ Standing(n)' = Standing(n)
                           /\ GateOpen(n)' = GateOpen(n)
                           /\ Basis(n)' = Basis(n)
         /\ VerificationInvariant => VerificationInvariant'
<1>1. ASSUME NEW n PROVE Standing(n)' = Standing(n) /\ Basis(n)' = Basis(n)
  BY DEF Standing, Basis, Exists
<1>2. ASSUME NEW n PROVE GateOpen(n)' = GateOpen(n)
  BY DEF GateOpen, Exists, ObligationsDischarged, DerivationComplete
<1>3. VerificationInvariant => VerificationInvariant'
  BY <1>2 DEF VerificationInvariant
<1>4. QED BY <1>1, <1>2, <1>3

\* A new definition of an operation keeps every standing and every basis, and
\* the gates of the claims concluded by other operations.
LEMMA RegisterKeeps ==
  ASSUME NEW def, RegisterOp(def), NEW n
  PROVE  /\ Standing(n)' = Standing(n) /\ Basis(n)' = Basis(n)
         /\ def.id \notin Basis(n) => GateOpen(n)' = GateOpen(n)
         /\ GateOpen(n)' \in BOOLEAN
<1>1. /\ claims' = claims /\ obligations' = obligations
      /\ derivations' = derivations /\ operations' = Put(operations, def.id, def)
  BY DEF RegisterOp
<1>2. Standing(n)' = Standing(n) /\ Basis(n)' = Basis(n)
  BY <1>1 DEF Standing, Basis, Exists
<1>3. ASSUME def.id \notin Basis(n) PROVE GateOpen(n)' = GateOpen(n)
  <2>1. CASE ~Exists(n) \/ claims[n].derivation = NoDerivation
    BY <1>1, <2>1 DEF GateOpen, Exists
  <2>2. CASE Exists(n) /\ claims[n].derivation # NoDerivation
    <3>1. claims[n].derivation.op # def.id
      BY <1>3, <2>2 DEF Basis
    <3>2. DerivationComplete(claims[n])' <=> DerivationComplete(claims[n])
      BY <1>1, <3>1 DEF DerivationComplete, Put
    <3>3. ObligationsDischarged(claims[n])' <=> ObligationsDischarged(claims[n])
      BY <1>1 DEF ObligationsDischarged
    <3>4. QED BY <1>1, <3>2, <3>3 DEF GateOpen, Exists
  <2>3. QED BY <2>1, <2>2
<1>4. GateOpen(n)' \in BOOLEAN
  BY DEF GateOpen
<1>5. QED BY <1>2, <1>3, <1>4

\* It keeps every gate that is open if it does not make the operation need a
\* receipt it did not need before.
LEMMA RegisterKeepsInvVerify ==
  ASSUME Grounded, VerificationInvariant, NEW def, RegisterOp(def),
         External(def) => def.id \notin DOMAIN operations
                          \/ External(operations[def.id])
  PROVE  VerificationInvariant'
<1> SUFFICES ASSUME NEW n \in DOMAIN claims', claims'[n].status = "Verified"
             PROVE  GateOpen(n)'
  BY DEF VerificationInvariant
<1>1. /\ claims' = claims /\ obligations' = obligations
      /\ derivations' = derivations /\ operations' = Put(operations, def.id, def)
  BY DEF RegisterOp
<1>2. GateOpen(n)
  BY <1>1 DEF VerificationInvariant
<1> DEFINE op == claims[n].derivation.op
<1>3. CASE op = def.id
  <2>1. op \in DOMAIN operations
    BY <1>2 DEF GateOpen, DerivationComplete
  <2>2. External(def) => External(operations[op])
    BY <1>3, <2>1
  <2>3. operations'[op] = def /\ op \in DOMAIN operations'
    BY <1>1, <1>3 DEF Put
  <2>4. DerivationComplete(claims[n])'
    BY <1>1, <1>2, <2>2, <2>3 DEF GateOpen, DerivationComplete, External
  <2>5. ObligationsDischarged(claims[n])'
    BY <1>1, <1>2 DEF GateOpen, ObligationsDischarged
  <2>6. QED BY <1>1, <1>2, <2>4, <2>5 DEF GateOpen, Exists
<1>4. CASE op # def.id
  <2>1. def.id \notin Basis(n)
    BY <1>4 DEF Basis
  <2>2. QED BY <1>2, <2>1, RegisterKeeps
<1>5. QED BY <1>3, <1>4

\* No call but an obligation's or a registration that makes an operation
\* external breaks INV-VERIFY: not a re-derivation, a replaced premise, a
\* definition that changes otherwise, a receipt recorded later.
THEOREM BreakTheorem == Spec => GateBreaksHaveCause
<1>1. ASSUME TypeOK, TypeOK', Grounded, Grounded', Next, ~ObligationCall,
             ~MakesExternal, VerificationInvariant
      PROVE  VerificationInvariant'
  <2>1. ASSUME NEW def \in Definition, RegisterOp(def)
        PROVE  VerificationInvariant'
    BY <1>1, <2>1, RegisterKeepsInvVerify DEF MakesExternal
  <2>2. ASSUME NEW e \in Evidence, AddEvidence(e) PROVE VerificationInvariant'
    BY <1>1, <2>2, SupportKeeps DEF AddEvidence
  <2>3. ASSUME NEW r \in Receipt, AddReceipt(r) PROVE VerificationInvariant'
    BY <1>1, <2>3, SupportKeeps DEF AddReceipt
  <2>4. ASSUME NEW n \in Node, NEW v, NEW ev, NEW as, NEW event,
               NEW status \in {"Asserted", "Observed", "Assumed"},
               Premise(n, v, ev, status, as, event)
        PROVE  VerificationInvariant'
    BY <1>1, <2>4, PremiseMoves, ConcernsKeepsInvVerify
  <2>5. ASSUME NEW n \in Node, NEW v \in Value, NEW ev \in SUBSET Evidence,
               Assert(n, v, ev) \/ Observe(n, v, ev)
        PROVE  VerificationInvariant'
    BY <2>4, <2>5 DEF Assert, Observe
  <2>6. ASSUME NEW n \in Node, NEW v \in Value, Assume(n, v)
        PROVE  VerificationInvariant'
    BY <2>4, <2>6 DEF Assume
  <2>7. ASSUME NEW op \in Operation, NEW inputs \in Seq(Node), NEW out \in Node,
               NEW receipt \in Receipt \cup {NoReceipt}, NEW roots,
               Derive(op, inputs, out, receipt, roots)
        PROVE  VerificationInvariant'
    BY <1>1, <2>7, DeriveMoves, ConcernsKeepsInvVerify
  <2>8. ASSUME NEW n \in Node,
               Verify(n) \/ Challenge(n) \/ Invalidate(n) \/ Attest(n)
        PROVE  VerificationInvariant'
    <3>1. n \in DOMAIN claims
      BY <2>8 DEF Verify, GateOpen, Challenge, Invalidate, Attest, Exists
    <3>2. CASE Verify(n)
      <4>1. Concerns(n) /\ GateOpen(n)'
        BY <1>1, <3>1, <3>2, SetStatusMoves DEF Verify
      <4>2. QED BY <1>1, <4>1, ConcernsKeepsInvVerify
    <3>3. CASE Challenge(n) \/ Invalidate(n) \/ Attest(n)
      <4>1. Concerns(n) /\ claims'[n].status # "Verified"
        BY <1>1, <3>1, <3>3, SetStatusMoves DEF Challenge, Invalidate, Attest
      <4>2. QED BY <1>1, <4>1, ConcernsKeepsInvVerify
    <3>4. QED BY <2>8, <3>2, <3>3
  <2>9. QED
    BY <1>1, <2>1, <2>2, <2>3, <2>5, <2>6, <2>7, <2>8, OtherStepCases
<1>2. TypeOK /\ TypeOK' /\ Grounded /\ Grounded' /\ [Next]_vars =>
        [VerificationInvariant /\ ~VerificationInvariant' =>
           ObligationCall \/ MakesExternal]_vars
  BY <1>1
<1>3. QED
  BY <1>2, TypeInvariant, GroundedInvariant, PTL
     DEF Spec, GateBreaksHaveCause

-----------------------------------------------------------------------------
(* The refinement. *)

\* Every behaviour of the calculus is a behaviour of the verification gate.
THEOREM GateRefinement == Spec => ImplementsGate
<1> DEFINE standing == [n \in Node |-> Standing(n)]
           gate == [n \in Node |-> GateOpen(n)]
           basis == [n \in Node |-> Basis(n)]
           Same == standing' = standing /\ gate' = gate /\ basis' = basis
           Good == TypeOK /\ Grounded /\ PremiseUnderived
<1>1. Init => Gate!GateInit
  BY DEF Init, Gate!GateInit, Standing, GateOpen, Basis, Exists
<1>2. Good /\ Good' /\ [Next]_vars => [Gate!GateNext]_(Gate!gateVars)
  <2> SUFFICES ASSUME Good, Good', [Next]_vars
               PROVE  Gate!GateNext \/ Same
    BY DEF Gate!gateVars
  <2>1. CASE UNCHANGED vars
    <3>1. \A n \in Node : /\ Standing(n)' = Standing(n)
                         /\ GateOpen(n)' = GateOpen(n)
                         /\ Basis(n)' = Basis(n)
      BY <2>1, SupportKeeps DEF vars
    <3>2. QED BY <3>1
  <2>2. ASSUME NEW n \in Node, Concerns(n)
        PROVE  /\ standing' = [standing EXCEPT ![n] = Standing(n)']
               /\ gate' = [gate EXCEPT ![n] = GateOpen(n)']
               /\ basis' = [basis EXCEPT ![n] = Basis(n)']
               /\ standing[n] = Standing(n) /\ gate[n] = GateOpen(n)
               /\ basis[n] = Basis(n)
    BY <2>2, GateStep
  <2>3. ASSUME claims' = claims, obligations' = obligations,
               derivations' = derivations, operations' = operations
        PROVE  Same
    BY <2>3, SupportKeeps
  <2>4. ASSUME NEW n \in Node, NEW v, NEW ev, NEW as, NEW event,
               NEW status \in {"Asserted", "Observed", "Assumed"},
               Premise(n, v, ev, status, as, event)
        PROVE  Gate!GateNext
    <3>1. /\ Concerns(n) /\ Standing(n)' = "premise" /\ GateOpen(n)' = FALSE
          /\ Basis(n)' = {}
      BY <2>4, PremiseMoves
    <3>2. /\ standing' = [standing EXCEPT ![n] = "premise"]
          /\ gate' = [gate EXCEPT ![n] = FALSE]
          /\ basis' = [basis EXCEPT ![n] = {}]
      BY <2>2, <3>1
    <3>3. Gate!Introduce(n)
      BY <3>2 DEF Gate!Introduce
    <3>4. QED BY <3>3 DEF Gate!GateNext
  <2>5. ASSUME NEW op \in Operation, NEW inputs \in Seq(Node), NEW out \in Node,
               NEW receipt \in Receipt \cup {NoReceipt}, NEW roots,
               Derive(op, inputs, out, receipt, roots)
        PROVE  Gate!GateNext
    <3>1. /\ Concerns(out) /\ Standing(out)' = "pending"
          /\ GateOpen(out)' \in BOOLEAN /\ Basis(out)' = {op}
      BY <2>5, DeriveMoves
    <3>2. /\ standing' = [standing EXCEPT ![out] = "pending"]
          /\ gate' = [gate EXCEPT ![out] = GateOpen(out)']
          /\ basis' = [basis EXCEPT ![out] = {op}]
      BY <2>2, <3>1
    <3>3. Gate!Conclude(out, op)
      BY <3>1, <3>2 DEF Gate!Conclude
    <3>4. QED BY <3>3 DEF Gate!GateNext
  <2>6. ASSUME NEW n \in Node, Concerns(n), Standing(n)' = Standing(n),
               Basis(n)' = Basis(n), GateOpen(n)' \in BOOLEAN,
               Standing(n) \in {"none", "premise"} => GateOpen(n)' = GateOpen(n)
        PROVE  Gate!GateNext \/ Same
    <3> HIDE DEF standing, gate, basis
    <3>0. basis' = basis
      <4>1. basis' = [basis EXCEPT ![n] = basis[n]]
        BY <2>2, <2>6
      <4>2. QED BY <4>1 DEF basis
    <3>1. CASE Standing(n) \in {"none", "premise"}
      <4>1. standing' = [standing EXCEPT ![n] = standing[n]]
        BY <2>2, <2>6
      <4>2. gate' = [gate EXCEPT ![n] = gate[n]]
        BY <2>2, <2>6, <3>1
      <4>3. QED BY <3>0, <4>1, <4>2 DEF standing, gate
    <3>2. CASE Standing(n) \notin {"none", "premise"}
      <4>1. standing' = standing
        BY <2>2, <2>6 DEF standing
      <4>2. Gate!MoveGate(n)
        BY <2>2, <2>6, <3>0, <3>2, <4>1 DEF Gate!MoveGate, standing, gate,
           basis
      <4>3. QED BY <4>2 DEF Gate!GateNext
    <3>3. QED BY <3>1, <3>2
  <2>7. ASSUME NEW n \in Node,
               Verify(n) \/ Challenge(n) \/ Invalidate(n) \/ Attest(n)
        PROVE  Gate!GateNext
    <3>1. n \in DOMAIN claims
      BY <2>7 DEF Verify, GateOpen, Challenge, Invalidate, Attest, Exists
    <3>2. CASE Verify(n)
      <4>1. GateOpen(n) /\ SetStatus(n, "Verified", "Verify")
        BY <3>2 DEF Verify
      <4>2. /\ Concerns(n) /\ GateOpen(n)' = GateOpen(n)
            /\ Basis(n)' = Basis(n) /\ Standing(n)' = "verified"
        <5>1. /\ Concerns(n) /\ GateOpen(n)' = GateOpen(n) /\ Basis(n)' = Basis(n)
              /\ Exists(n)' /\ claims'[n].status = "Verified"
          BY <3>1, <4>1, SetStatusMoves
        <5>2. QED BY <5>1 DEF Standing
      <4>3. Gate!Admit(n)
        BY <2>2, <4>1, <4>2 DEF Gate!Admit
      <4>4. QED BY <4>3 DEF Gate!GateNext
    <3>3. CASE Challenge(n) \/ Invalidate(n) \/ Attest(n)
      <4>1. PICK status \in {"Challenged", "Invalidated", "ExternallyAttested"} :
                 \E event : SetStatus(n, status, event)
        BY <3>3 DEF Challenge, Invalidate, Attest
      <4>2. /\ Concerns(n) /\ GateOpen(n)' = GateOpen(n)
            /\ Basis(n)' = Basis(n) /\ Standing(n)' = "withdrawn"
        <5>1. /\ Concerns(n) /\ GateOpen(n)' = GateOpen(n) /\ Basis(n)' = Basis(n)
              /\ Exists(n)' /\ claims'[n].status = status
          <6>1. PICK event : SetStatus(n, status, event)
            BY <4>1
          <6>2. QED BY <3>1, <6>1, SetStatusMoves
        <5>2. QED BY <5>1 DEF Standing
      <4>3. Standing(n) # "none"
        BY <3>1 DEF Standing, Exists
      <4>4. Gate!Withdraw(n)
        BY <2>2, <4>2, <4>3 DEF Gate!Withdraw
      <4>5. QED BY <4>4 DEF Gate!GateNext
    <3>4. QED BY <2>7, <3>2, <3>3
  <2>9. ASSUME NEW def \in OperationDef, RegisterOp(def) PROVE Gate!GateNext
    <3>1. standing' = standing /\ basis' = basis
      BY <2>9, RegisterKeeps
    <3>2. /\ gate' \in [Node -> BOOLEAN]
          /\ \A n \in Node : def.id \notin basis[n] => gate'[n] = gate[n]
      BY <2>9, RegisterKeeps
    <3>3. Gate!Redefine(def.id)
      BY <3>1, <3>2 DEF Gate!Redefine
    <3>4. def.id \in Operation
      BY DEF OperationDef
    <3>5. QED BY <3>3, <3>4 DEF Gate!GateNext
  <2> HIDE DEF standing, gate, basis
  <2>8. QED
    <3>1. ASSUME (\E e \in Evidence : AddEvidence(e)) \/ (\E r \in Receipt : AddReceipt(r))
          PROVE Same
      BY <2>3, <3>1 DEF AddEvidence, AddReceipt
    <3>2. ASSUME NEW o \in Obligation, NEW auto \in BOOLEAN, AddObligation(o, auto)
          PROVE  Gate!GateNext \/ Same
      BY <2>6, <3>2, AddObligationMoves DEF Obligation
    <3>3. ASSUME NEW o \in DOMAIN obligations, NEW by, NEW state,
                 Discharge(o, by, state)
          PROVE  Gate!GateNext \/ Same
      <4>1. o.target \in Node
        BY DEF TypeOK, IsMap, Obligation
      <4>2. QED BY <2>6, <3>3, <4>1, DischargeMoves
    <3>4. ASSUME NEW n \in Node, NEW v \in Value, NEW ev \in SUBSET Evidence,
                 Assert(n, v, ev) \/ Observe(n, v, ev) \/ Assume(n, v)
          PROVE  Gate!GateNext
      BY <2>4, <3>4 DEF Assert, Observe, Assume
    <3>5. QED
      BY <2>1, <2>5, <2>7, <2>9, <3>1, <3>2, <3>3, <3>4, StepCases
<1>3. QED
  BY <1>1, <1>2, TypeInvariant, GroundedInvariant, SupportInvariant, PTL
     DEF Spec, ImplementsGate, Gate!GateSpec
=============================================================================
