---------------------------- MODULE AxiomModule ----------------------------
(***************************************************************************)
(* The semantic state of axiom-core's `Module` and its transition          *)
(* calculus: one action per method that changes it.  A method that returns *)
(* an error has changed nothing by then (every early return precedes the   *)
(* first insert), so a failing call is a stuttering step and has no action *)
(* of its own: its error paths are the guards.                             *)
(*                                                                         *)
(* Identities are content hashes in the code; here the hashed content IS   *)
(* the identity: a derivation is the record of what its id hashes, an      *)
(* obligation the record [kind, target, severity], an assumption the       *)
(* record [claim] (one scope and context), a receipt its record.  A claim  *)
(* node is identified by label and context; Node is the set of nodes in    *)
(* contexts that exist.  What depends on the contexts is in Contexts.      *)
(***************************************************************************)
EXTENDS Naturals, Sequences

CONSTANTS
  Node,          \* claim nodes, (label, context)
  Value,         \* claim values, with their type
  Evidence,      \* evidence nodes
  Untrusted,     \* those of TrustClass::Untrusted
  Operation,     \* (name, version) pairs, all an operation's id hashes
  Signature,     \* lists of input types with an output type
  Definition,    \* bound: the operation definitions callers register
  Receipt,       \* receipts, [inputs : values, output : value, provider]
  Provider,
  Statement,     \* bound: [verb, node, value, evidence] premises callers state
  Application,   \* bound: [op, inputs, output] combinations callers try
  Judged,        \* bound: claims whose status and obligations callers change
  Verdict,       \* bound: the status changes callers ask for
  Requirable,    \* bound: obligations callers attach with add_obligation
  DischargeState,\* bound: states callers discharge to
  NoReceipt, NoDerivation,
  Accepts(_, _), \* Accepts(types, vals): arity and input types check
  Yields(_, _),  \* Yields(types, val): the output type checks
  Exec(_, _)     \* Exec(op, vals): the executor's output; not a Value if it fails

ObligationKind ==
  {"TypeCompat", "DimensionalConsistency", "NumericBounds", "SchemaValidation",
   "SourceSupport", "Normalization", "PremiseAvailable", "SignatureValidation",
   "ToolReceiptValidation", "ContextConsistency", "OpPostcondition", "Custom"}

ClaimStatus ==
  {"Asserted", "Assumed", "Observed", "Pending", "Disputed", "Challenged",
   "Verified", "Invalidated", "ExternallyAttested"}

ObligationState == {"Pending", "Satisfied", "Failed", "Waived", "Unsupported"}

Discharged == {"Satisfied", "Waived"}

OpClass ==
  {"PureInternal", "VerifiedExternal", "UnverifiedExternal",
   "NonDeterministic", "Privileged"}

\* `capabilities` says whether the definition lists any.
OperationDef ==
  [id : Operation, class : OpClass, types : Signature,
   generates : SUBSET ObligationKind, capabilities : BOOLEAN]

Obligation ==
  [kind : ObligationKind, target : Node, severity : {"Mandatory", "Advisory"}]

Assumption == [claim : Node]

Derivation ==
  [op : Operation, inputs : Seq(Node), output : Node,
   receipt : Receipt \cup {NoReceipt}]

Claim ==
  [status : ClaimStatus, value : Value, assumptions : SUBSET Assumption,
   evidence : SUBSET Evidence, derivation : Derivation \cup {NoDerivation},
   obligations : SUBSET Obligation]

\* The kinds of log entry that have a claim as their subject.
EventKind ==
  {"Assert", "Observe", "Assume", "Derive", "Verify", "Challenge", "Invalidate",
   "Attest"}

ASSUME ModuleAssumption ==
  /\ Untrusted \subseteq Evidence
  /\ Definition \subseteq OperationDef
  /\ \A r \in Receipt : r.output \in Value /\ r.provider \in Provider
  /\ Statement \subseteq [verb : {"assert", "observe", "assume"}, node : Node,
                          value : Value, evidence : SUBSET Evidence]
  /\ Judged \subseteq Node
  /\ \A a \in Application :
       a.op \in Operation /\ a.inputs \in Seq(Node) /\ a.output \in Node
  /\ Requirable \subseteq Obligation
  /\ DischargeState \subseteq ObligationState
  /\ NoReceipt \notin Receipt
  /\ NoDerivation \notin Derivation

VARIABLES
  claims,       \* the IndexMap of claims: node -> Claim
  localClaims,  \* the claims in their contexts' local_claims (as a set)
  assumptions,  \* recorded assumptions
  evidence,     \* recorded evidence nodes
  receipts,     \* recorded receipts
  operations,   \* the IndexMap of operations: operation -> OperationDef
  derivations,  \* recorded derivations
  obligations,  \* the IndexMap of obligations: obligation -> its state
  lastEvent     \* node -> kind of the last event in the log about that node

vars == <<claims, localClaims, assumptions, evidence, receipts, operations,
          derivations, obligations, lastEvent>>

supportVars == <<assumptions, evidence, receipts, operations>>

-----------------------------------------------------------------------------
(* The code's maps. *)

\* IndexMap::insert: a new binding, or the replacement of an old one.
Put(map, key, val) ==
  [k \in DOMAIN map \cup {key} |-> IF k = key THEN val ELSE map[k]]

\* Several inserts at once: those of `new`.
PutAll(map, new) ==
  [k \in DOMAIN map \cup DOMAIN new |-> IF k \in DOMAIN new THEN new[k] ELSE map[k]]

Exists(n) == n \in DOMAIN claims

\* The map of a list of definitions with different ids.
Registry(defs) ==
  [op \in {d.id : d \in defs} |-> CHOOSE d \in defs : d.id = op]

Init ==
  /\ claims = <<>>
  /\ localClaims = {}
  /\ assumptions = {}
  /\ evidence = {}
  /\ receipts = {}
  /\ operations = <<>>
  /\ derivations = {}
  /\ obligations = <<>>
  /\ lastEvent = <<>>

-----------------------------------------------------------------------------
(* Supporting records. *)

\* A definition replaces the one registered under its id, whatever that was
\* and whatever was derived by it.
RegisterOp(def) ==
  /\ operations' = Put(operations, def.id, def)
  /\ UNCHANGED <<claims, localClaims, assumptions, evidence, receipts,
                 derivations, obligations, lastEvent>>

AddEvidence(e) ==
  /\ e \notin evidence
  /\ evidence' = evidence \cup {e}
  /\ UNCHANGED <<claims, localClaims, assumptions, receipts, operations,
                 derivations, obligations, lastEvent>>

AddReceipt(r) ==
  /\ r \notin receipts
  /\ receipts' = receipts \cup {r}
  /\ UNCHANGED <<claims, localClaims, assumptions, evidence, operations,
                 derivations, obligations, lastEvent>>

-----------------------------------------------------------------------------
(* Premises.  An assertion replaces whatever claim the node held, its      *)
(* derivation included, and carries a pending mandatory source-support     *)
(* obligation when some of its evidence is untrusted.                      *)

SourceSupport(n) ==
  [kind |-> "SourceSupport", target |-> n, severity |-> "Mandatory"]

AssertedObligations(n, ev) ==
  IF ev \cap Untrusted = {} THEN {} ELSE {SourceSupport(n)}

\* A plausible bug: a restated claim keeps its old derivation.
PremiseClaimKeepingDerivation(n, v, ev, status, as) ==
  [status |-> status, value |-> v, assumptions |-> as, evidence |-> ev,
   derivation |-> IF Exists(n) THEN claims[n].derivation ELSE NoDerivation,
   obligations |-> AssertedObligations(n, ev)]

PremiseClaim(n, v, ev, status, as) ==
  [status |-> status, value |-> v, assumptions |-> as, evidence |-> ev,
   derivation |-> NoDerivation, obligations |-> AssertedObligations(n, ev)]

\* A plausible bug: evidence ids are taken on trust.
PremiseOfAnyEvidence(n, v, ev, status, as, event) ==
  /\ claims' = Put(claims, n, PremiseClaim(n, v, ev, status, as))
  /\ localClaims' = localClaims \cup {n}
  /\ obligations' =
       PutAll(obligations, [o \in AssertedObligations(n, ev) |-> "Pending"])
  /\ lastEvent' = Put(lastEvent, n, event)
  /\ UNCHANGED <<evidence, receipts, operations, derivations>>

\* What assert, observe and assume do alike.
Premise(n, v, ev, status, as, event) ==
  /\ ev \subseteq evidence
  /\ claims' = Put(claims, n, PremiseClaim(n, v, ev, status, as))
  /\ localClaims' = localClaims \cup {n}
  /\ obligations' =
       PutAll(obligations, [o \in AssertedObligations(n, ev) |-> "Pending"])
  /\ lastEvent' = Put(lastEvent, n, event)
  /\ UNCHANGED <<evidence, receipts, operations, derivations>>

Assert(n, v, ev) ==
  /\ Premise(n, v, ev, "Asserted", {}, "Assert")
  /\ UNCHANGED assumptions

Observe(n, v, ev) ==
  /\ Premise(n, v, ev, "Observed", {}, "Observe")
  /\ UNCHANGED assumptions

Assume(n, v) ==
  /\ Premise(n, v, {}, "Assumed", {[claim |-> n]}, "Assume")
  /\ assumptions' = assumptions \cup {[claim |-> n]}

-----------------------------------------------------------------------------
(* Derivation. *)

Vals(inputs) == [i \in DOMAIN inputs |-> claims[inputs[i]].value]

InputNodes(inputs) == {inputs[i] : i \in DOMAIN inputs}

\* A receipt is accepted for its inputs and its provider's signature; the
\* operation it was issued for is not compared.
ReceiptAccepted(r, inputs, roots) ==
  /\ r \in receipts
  /\ r.inputs = Vals(inputs)
  /\ r.provider \in roots

\* An operation `derive` refuses without a receipt.
ReceiptGated(def) ==
  /\ def.class \in {"VerifiedExternal", "UnverifiedExternal", "Privileged"}
  /\ def.capabilities

\* The executor knows an operation by its name alone; its output is checked
\* against the definition.
Executes(op, vals) ==
  /\ Exec(op, vals) \in Value
  /\ Yields(operations[op].types, Exec(op, vals))

\* A plausible bug: the executor's failure falls through.
CanDeriveFailing(op, inputs, receipt, roots) ==
  /\ op \in DOMAIN operations
  /\ \A i \in DOMAIN inputs : Exists(inputs[i])
  /\ Accepts(operations[op].types, Vals(inputs))
  /\ IF receipt = NoReceipt
       THEN ~ReceiptGated(operations[op])
       ELSE ReceiptAccepted(receipt, inputs, roots)

CanDerive(op, inputs, receipt, roots) ==
  /\ op \in DOMAIN operations
  /\ \A i \in DOMAIN inputs : Exists(inputs[i])
  /\ Accepts(operations[op].types, Vals(inputs))
  /\ IF receipt = NoReceipt
       THEN ~ReceiptGated(operations[op]) /\ Executes(op, Vals(inputs))
       ELSE ReceiptAccepted(receipt, inputs, roots)

\* A plausible bug: the tool is run although its result was recorded.
OutputExecuted(op, inputs, receipt) ==
  IF Exec(op, Vals(inputs)) \in Value
    THEN Exec(op, Vals(inputs)) ELSE receipt.output

Output(op, inputs, receipt) ==
  IF receipt = NoReceipt THEN Exec(op, Vals(inputs)) ELSE receipt.output

MandatoryKinds ==
  {"TypeCompat", "DimensionalConsistency", "NumericBounds",
   "ToolReceiptValidation", "SourceSupport", "OpPostcondition"}

GeneratedObligations(op, out) ==
  {[kind |-> k, target |-> out,
    severity |-> IF k \in MandatoryKinds THEN "Mandatory" ELSE "Advisory"] :
     k \in operations[op].generates}

\* Types and dimensions were checked by now, a receipt if there was one.
GeneratedState(o, receipt) ==
  IF \/ o.kind \in {"TypeCompat", "DimensionalConsistency"}
     \/ o.kind = "ToolReceiptValidation" /\ receipt # NoReceipt
    THEN "Satisfied" ELSE "Pending"

DerivedClaim(op, inputs, out, receipt) ==
  [status |-> "Pending",
   value |-> Output(op, inputs, receipt),
   assumptions |-> UNION {claims[i].assumptions : i \in InputNodes(inputs)},
   evidence |-> UNION {claims[i].evidence : i \in InputNodes(inputs)},
   derivation |-> [op |-> op, inputs |-> inputs, output |-> out,
                   receipt |-> receipt],
   obligations |-> GeneratedObligations(op, out)]

\* The output claim replaces whatever the node held, and its obligations are
\* those of the operation only.
Derive(op, inputs, out, receipt, roots) ==
  /\ CanDerive(op, inputs, receipt, roots)
  /\ LET c == DerivedClaim(op, inputs, out, receipt) IN
       /\ claims' = Put(claims, out, c)
       /\ derivations' = derivations \cup {c.derivation}
  /\ localClaims' = localClaims \cup {out}
  /\ obligations' =
       PutAll(obligations, [o \in GeneratedObligations(op, out) |->
                              GeneratedState(o, receipt)])
  /\ lastEvent' = Put(lastEvent, out, "Derive")
  /\ UNCHANGED supportVars

-----------------------------------------------------------------------------
(* Obligations. *)

\* The obligation is recorded even if its target is not a claim, and a second
\* attachment of the same obligation resets its state.
AddObligation(o, auto) ==
  /\ obligations' =
       Put(obligations, o, IF auto THEN "Satisfied" ELSE "Pending")
  /\ claims' = IF Exists(o.target)
                 THEN [claims EXCEPT ![o.target].obligations = @ \cup {o}]
                 ELSE claims
  /\ UNCHANGED <<localClaims, supportVars, derivations, lastEvent>>

Discharge(o, by, state) ==
  /\ o \in DOMAIN obligations
  /\ by \in evidence \cup receipts
  /\ obligations' = [obligations EXCEPT ![o] = state]
  /\ UNCHANGED <<claims, localClaims, supportVars, derivations, lastEvent>>

-----------------------------------------------------------------------------
(* The gate and the other status transitions. *)

ObligationsDischarged(c) ==
  \A o \in c.obligations :
    /\ o \in DOMAIN obligations
    /\ o.severity = "Mandatory" => obligations[o] \in Discharged

\* An operation `verify` refuses without a receipt.
External(def) == def.class \in {"VerifiedExternal", "UnverifiedExternal"}

DerivationComplete(c) ==
  /\ c.derivation \in derivations
  /\ c.derivation.op \in DOMAIN operations
  /\ External(operations[c.derivation.op]) => c.derivation.receipt # NoReceipt

\* What `verify` requires and check_verification_invariant re-checks.
GateOpen(n) ==
  /\ Exists(n)
  /\ claims[n].derivation # NoDerivation
  /\ ObligationsDischarged(claims[n])
  /\ DerivationComplete(claims[n])

\* A plausible bug: a status written past the log.
SetStatusSilently(n, status, event) ==
  /\ claims' = [claims EXCEPT ![n].status = status]
  /\ UNCHANGED <<localClaims, supportVars, derivations, obligations, lastEvent>>

SetStatus(n, status, event) ==
  /\ claims' = [claims EXCEPT ![n].status = status]
  /\ lastEvent' = Put(lastEvent, n, event)
  /\ UNCHANGED <<localClaims, supportVars, derivations, obligations>>

\* A plausible bug: any derived claim can be verified.
VerifyDerived(n) ==
  /\ Exists(n)
  /\ claims[n].derivation # NoDerivation
  /\ SetStatus(n, "Verified", "Verify")

\* Neither the claim's current status nor its inputs' is looked at.
Verify(n) == GateOpen(n) /\ SetStatus(n, "Verified", "Verify")

Challenge(n) == Exists(n) /\ SetStatus(n, "Challenged", "Challenge")

Invalidate(n) == Exists(n) /\ SetStatus(n, "Invalidated", "Invalidate")

Attest(n) == Exists(n) /\ SetStatus(n, "ExternallyAttested", "Attest")

-----------------------------------------------------------------------------

AddPremise(s) ==
  \/ s.verb = "assert" /\ Assert(s.node, s.value, s.evidence)
  \/ s.verb = "observe" /\ Observe(s.node, s.value, s.evidence)
  \/ s.verb = "assume" /\ Assume(s.node, s.value)

AddSupport ==
  \/ \E def \in Definition : RegisterOp(def)
  \/ \E e \in Evidence : AddEvidence(e)
  \/ \E r \in Receipt : AddReceipt(r)

DeriveSome(a) ==
  \E receipt \in Receipt \cup {NoReceipt}, roots \in {{}, Provider} :
    Derive(a.op, a.inputs, a.output, receipt, roots)

ObligationCall ==
  \/ \E o \in Requirable, auto \in BOOLEAN : AddObligation(o, auto)
  \/ \E o \in DOMAIN obligations, by \in evidence \cup receipts,
        state \in DischargeState : o.target \in Judged /\ Discharge(o, by, state)

ChangeStatus(n) ==
  \/ "verify" \in Verdict /\ Verify(n)
  \/ "challenge" \in Verdict /\ Challenge(n)
  \/ "invalidate" \in Verdict /\ Invalidate(n)
  \/ "attest" \in Verdict /\ Attest(n)

Next ==
  \/ AddSupport
  \/ \E s \in Statement : AddPremise(s)
  \/ \E a \in Application : DeriveSome(a)
  \/ ObligationCall
  \/ \E n \in Judged : ChangeStatus(n)

Spec == Init /\ [][Next]_vars
=============================================================================
