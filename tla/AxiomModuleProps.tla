-------------------------- MODULE AxiomModuleProps --------------------------
(***************************************************************************)
(* The properties of the transition calculus.                              *)
(***************************************************************************)
EXTENDS AxiomModule

IsMap(map, K, V) == DOMAIN map \subseteq K /\ map \in [DOMAIN map -> V]

\* Every collection of a Module holds what its Rust type says.
TypeOK ==
  /\ IsMap(claims, Node, Claim)
  /\ localClaims \subseteq Node
  /\ assumptions \subseteq Assumption
  /\ evidence \subseteq Evidence
  /\ receipts \subseteq Receipt
  /\ IsMap(operations, Operation, OperationDef)
  /\ derivations \subseteq Derivation
  /\ IsMap(obligations, Obligation, ObligationState)
  /\ IsMap(lastEvent, Node, EventKind)

-----------------------------------------------------------------------------
(* No id dangles, whatever is overwritten in whatever order. *)

ClaimGrounded(n) ==
  LET c == claims[n] IN
    /\ n \in localClaims
    /\ c.assumptions \subseteq assumptions
    /\ c.evidence \subseteq evidence
    /\ c.derivation # NoDerivation =>
         c.derivation \in derivations /\ c.derivation.output = n
    /\ \A o \in c.obligations : o \in DOMAIN obligations /\ o.target = n

DerivationGrounded(d) ==
  /\ d.op \in DOMAIN operations
  /\ InputNodes(d.inputs) \subseteq DOMAIN claims
  /\ d.output \in DOMAIN claims
  /\ d.receipt # NoReceipt => d.receipt \in receipts

\* Every id a claim or a derivation carries resolves: recorded evidence and
\* assumptions, its own derivation, its own obligations, inputs that are still
\* claims, a recorded receipt.  Claims replace each other, obligations of an
\* operation replace required ones, and `explain`, `verify` and the dependency
\* graph all look these ids up.
Grounded ==
  /\ \A n \in DOMAIN claims : ClaimGrounded(n)
  /\ \A d \in derivations : DerivationGrounded(d)
  /\ \A a \in assumptions : a.claim \in DOMAIN claims

\* A claim that is Verified rests on a derivation of its own that is still
\* recorded, by an operation that is still registered; and if a receipt backs
\* it, the receipt is recorded and the claim's value is the output recorded
\* there, however often the claim, its inputs and the operation were replaced
\* since.  This is the part of INV-VERIFY that no call can take away again:
\* whether an external operation has its receipt is not, since `register_op`
\* may make an operation external after the fact.
VerifiedIsSupported ==
  \A n \in DOMAIN claims : claims[n].status = "Verified" =>
    LET d == claims[n].derivation IN
      /\ d # NoDerivation
      /\ d \in derivations /\ d.output = n
      /\ d.op \in DOMAIN operations
      /\ d.receipt # NoReceipt =>
           d.receipt \in receipts /\ claims[n].value = d.receipt.output

-----------------------------------------------------------------------------
(* The event log. *)

StatusOf(event) ==
  CASE event = "Assert" -> "Asserted"
    [] event = "Observe" -> "Observed"
    [] event = "Assume" -> "Assumed"
    [] event = "Derive" -> "Pending"
    [] event = "Verify" -> "Verified"
    [] event = "Challenge" -> "Challenged"
    [] event = "Invalidate" -> "Invalidated"
    [] event = "Attest" -> "ExternallyAttested"

\* The log alone tells the standing of every claim: the last event about a
\* claim determines its status, and there is no claim without an event.
LogExplainsStatus ==
  /\ DOMAIN lastEvent = DOMAIN claims
  /\ \A n \in DOMAIN claims : claims[n].status = StatusOf(lastEvent[n])

-----------------------------------------------------------------------------
(* The gate. *)

\* check_verification_invariant: INV-VERIFY for every claim.
VerificationInvariant ==
  \A n \in DOMAIN claims : claims[n].status = "Verified" => GateOpen(n)

\* `register_op` over an operation that needed no receipt makes it need one.
MakesExternal ==
  \E def \in Definition :
    /\ RegisterOp(def)
    /\ def.id \in DOMAIN operations
    /\ External(def) /\ ~External(operations[def.id])

\* INV-VERIFY is not an invariant of the calculus: until
\* check_verification_invariant runs, it is broken by an obligation attached
\* to, or failed on, a verified claim, and by an operation registered again as
\* an external one.  But nothing else breaks it: not a re-derivation, a
\* replaced premise, a definition that changes otherwise, a new receipt.
GateBreaksHaveCause ==
  [][VerificationInvariant /\ ~VerificationInvariant' =>
       ObligationCall \/ MakesExternal]_vars

Standing(n) ==
  IF ~Exists(n) THEN "none"
  ELSE CASE claims[n].status \in {"Asserted", "Observed", "Assumed"} -> "premise"
         [] claims[n].status = "Pending" -> "pending"
         [] claims[n].status = "Verified" -> "verified"
         [] OTHER -> "withdrawn"

\* The operations a claim was concluded by: one, or none.
Basis(n) ==
  IF ~Exists(n) THEN {}
  ELSE {d.op : d \in {claims[n].derivation} \ {NoDerivation}}

Gate == INSTANCE VerificationGate WITH
  standing <- [n \in Node |-> Standing(n)],
  gate <- [n \in Node |-> GateOpen(n)],
  basis <- [n \in Node |-> Basis(n)]

\* The calculus implements the gate: a claim becomes Verified only through the
\* complete support of that same claim.  Obligations, derivations and
\* operations live in maps all claims share, and yet no call on one claim
\* moves the standing or the gate of another; a definition registered again
\* moves the gates of the claims concluded by that operation and of no others.
ImplementsGate == Gate!GateSpec
=============================================================================
