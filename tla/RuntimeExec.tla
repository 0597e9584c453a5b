----------------------------- MODULE RuntimeExec -----------------------------
(***************************************************************************)
(* axiom-runtime: Runtime::execute on the Module of AxiomModule.  Evidence *)
(* statements run first, then premises in source order, then a worklist    *)
(* runs the first statement whose labels are bound until none is left, and *)
(* the module is checked.  An error stops the execution and takes nothing  *)
(* back; the Runtime, its module and its labels can be executed on again.  *)
(* A finished live execution can be replayed on a new Runtime, whose calls *)
(* take the receipts the live one was issued.                              *)
(*                                                                         *)
(* The steps of `call` and the discharges of one `discharge` are steps of  *)
(* their own.  What branch, merge and contradict do to the module is in    *)
(* Contexts; here they bind a context label or nothing and claims are      *)
(* stated in contexts.  An abstraction: a context is its label, so of two  *)
(* contexts of one label the later is the earlier.  Texts, types and their *)
(* conversion errors are left out.  `issued` and `live` are history.       *)
(***************************************************************************)
EXTENDS AxiomModule

Seqs == INSTANCE SequencesExt

CONSTANTS
  Program,      \* bound: the modules executed first, sequences of statements
  Followup,     \* bound: the modules executed on the same Runtime afterwards
  MaxExecutions,\* bound: executions on one Runtime
  MaxStmts,     \* MAX_MODULE_STMTS
  Builtin,      \* the definitions Runtime::new registers
  Core(_),      \* the operation of a name with the prefix `core.`, if one is
  CallTypes(_, _), \* CallTypes(s, vals): the types of vals and the one s declares
  Trusted,      \* evidence of TrustClass::Trusted
  TrustRoots,   \* providers the host configured a trust root for
  Granted,      \* capabilities the host granted
  RootLabel,    \* the root context's label
  NoStmt

VARIABLES
  phase,          \* "idle", "evidence", "premises", "worklist", "discharge",
                  \* "call", "register", "apply", "ok" or "error"
  error,          \* which error ended the execution
  program,        \* the module being executed
  left,           \* indices of the statements left in this phase
  busy,           \* the discharge or call under way
  receipt,        \* the receipt the call under way uses
  claimLabels,    \* claim label -> node
  contextLabels,  \* bound context labels
  evidenceLabels, \* evidence label -> evidence
  forged,         \* trusted evidence recorded with a signature that fails
  verifyFailures, \* claims whose verify statement failed
  preloaded,      \* the receipts of replay mode, in order
  replaying,      \* whether this Runtime is in replay mode
  executions,     \* how often execute was called on this Runtime
  issued,         \* history: receipts in the order they were issued
  live            \* history: the claims when the live execution ended

labelVars == <<claimLabels, contextLabels, evidenceLabels>>
modeVars == <<preloaded, replaying, executions, live>>
callVars == <<busy, receipt, issued>>
execVars == <<vars, phase, error, program, left, callVars, labelVars, forged,
              verifyFailures, modeVars>>

Premises == {"assert", "observe", "assume"}

\* What a call registers under the name it was given, builtin or not.
CallDefinition(s, vals) ==
  [id |-> s.op, class |-> "VerifiedExternal", types |-> CallTypes(s, vals),
   generates |-> {"ToolReceiptValidation"}, capabilities |-> TRUE]

\* The bounds of the calculus admit the calls that a statement makes, whatever
\* its labels are bound to.
Admitted(s) ==
  /\ s.verb = "evidence" => s.evidence \in Evidence
  /\ s.verb \in Premises =>
       \A ev \in SUBSET Evidence :
         [verb |-> s.verb, node |-> <<s.label, s.ctx>>, value |-> s.value,
          evidence |-> ev] \in Statement
  /\ s.verb \in {"derive", "call"} =>
       \A ins \in [DOMAIN s.inputs -> Node] :
         (\A i \in DOMAIN ins : ins[i][1] = s.inputs[i]) =>
           \A op \in {s.op, Core(s.op)} \cap Operation :
             [op |-> op, inputs |-> ins, output |-> <<s.label, s.ctx>>] \in Application
  /\ s.verb = "call" =>
       \A vals \in [DOMAIN s.inputs -> Value] : CallDefinition(s, vals) \in Definition
  /\ s.verb = "require" =>
       \A n \in Node : n[1] = s.target =>
         [kind |-> s.kind, target |-> n, severity |-> "Mandatory"] \in Requirable

\* Evidence has one trust class; what is trusted and built in is known; and the
\* runtime is a caller of the calculus like any other.
ASSUME RuntimeAssumption ==
  /\ Trusted \subseteq Evidence /\ Trusted \cap Untrusted = {}
  /\ TrustRoots \subseteq Provider
  /\ Builtin \subseteq OperationDef
  /\ MaxStmts \in Nat /\ MaxExecutions \in Nat
  /\ \A p \in Program \cup Followup :
       DOMAIN p = 1..Len(p) /\ \A i \in DOMAIN p : Admitted(p[i])
  /\ Judged = Node /\ "Satisfied" \in DischargeState
  /\ {"verify", "challenge", "invalidate", "attest"} \subseteq Verdict

-----------------------------------------------------------------------------

FreshModule(ops, recs) ==
  /\ claims' = <<>> /\ localClaims' = {} /\ assumptions' = {} /\ evidence' = {}
  /\ receipts' = recs /\ operations' = ops /\ derivations' = {}
  /\ obligations' = <<>> /\ lastEvent' = <<>>

\* Runtime::new, with the receipts of replay_mode.
FreshLabels ==
  /\ claimLabels' = <<>> /\ contextLabels' = {RootLabel} /\ evidenceLabels' = <<>>
  /\ forged' = {} /\ verifyFailures' = {}

ExecInit ==
  /\ claims = <<>> /\ localClaims = {} /\ assumptions = {} /\ evidence = {}
  /\ receipts = {} /\ operations = Registry(Builtin) /\ derivations = {}
  /\ obligations = <<>> /\ lastEvent = <<>>
  /\ phase = "idle" /\ error = "none" /\ program = <<>> /\ left = {}
  /\ busy = NoStmt /\ receipt = NoReceipt
  /\ claimLabels = <<>> /\ contextLabels = {RootLabel} /\ evidenceLabels = <<>>
  /\ forged = {} /\ verifyFailures = {}
  /\ preloaded = <<>> /\ replaying = FALSE /\ executions = 0
  /\ issued = <<>> /\ live = <<>>

IsEvidence(s) == s.verb = "evidence"
IsPremise(s) == s.verb \in Premises
IsPending(s) == s.verb \notin {"module", "evidence"} \cup Premises

Bound(l) == l \in DOMAIN claimLabels
Claimed(l) == claimLabels[l]

\* The execution ends with an error; what it did so far stays.
Fail(why) ==
  /\ phase' = "error" /\ error' = why
  /\ UNCHANGED <<vars, callVars, labelVars>>

Bind(l, n) == claimLabels' = Put(claimLabels, l, n)

-----------------------------------------------------------------------------
(* Executions. *)

Which(p, Is(_)) == {i \in DOMAIN p : Is(p[i])}

\* The statement whose turn it is, as its index.
FirstLeft == {i \in left : \A j \in left : i <= j}

\* Runtime::execute: the size check, and phase 1 begins.
Begin(p) ==
  /\ program' = p
  /\ left' = Which(p, IsEvidence)
  /\ IF Len(p) > MaxStmts
       THEN phase' = "error" /\ error' = "ModuleTooLarge"
       ELSE phase' = "evidence" /\ error' = "none"

Execute(p) ==
  /\ executions < MaxExecutions
  /\ phase \in {"idle", "ok", "error"}
  /\ Begin(p)
  /\ executions' = executions + 1
  /\ busy' = NoStmt /\ receipt' = NoReceipt
  /\ UNCHANGED <<vars, labelVars, forged, verifyFailures, preloaded, replaying,
                 live, issued>>

\* The program that a new Runtime executed is replayed by another.
Replay ==
  /\ phase = "ok" /\ executions = 1 /\ ~replaying
  /\ Begin(program)
  /\ FreshModule(Registry(Builtin), Seqs!ToSet(issued)) /\ FreshLabels
  /\ replaying' = TRUE /\ executions' = MaxExecutions
  /\ preloaded' = issued /\ live' = claims
  /\ UNCHANGED callVars

NextPhase ==
  /\ left = {}
  /\ \/ /\ phase = "evidence" /\ phase' = "premises"
        /\ left' = Which(program, IsPremise)
     \/ /\ phase = "premises" /\ phase' = "worklist"
        /\ left' = Which(program, IsPending)
  /\ UNCHANGED <<vars, error, program, callVars, labelVars, forged,
                 verifyFailures, modeVars>>

-----------------------------------------------------------------------------
(* Phase 1. *)

Record(e) ==
  \/ AddEvidence(e)
  \/ e \in evidence /\ UNCHANGED vars

\* A plausible bug: a bad signature is noted and left to the final check.
DeclareNoted(s) ==
  LET bad == s.evidence \in Trusted /\ ~(s.signed /\ s.provider \in TrustRoots) IN
    /\ Record(s.evidence)
    /\ evidenceLabels' = Put(evidenceLabels, s.label, s.evidence)
    /\ forged' = (forged \ {s.evidence}) \cup (IF bad THEN {s.evidence} ELSE {})
    /\ UNCHANGED <<phase, error>>

\* Trusted evidence is recorded and labelled before its signature is checked.
Declare(s) ==
  LET bad == s.evidence \in Trusted /\ ~(s.signed /\ s.provider \in TrustRoots) IN
    /\ Record(s.evidence)
    /\ evidenceLabels' = Put(evidenceLabels, s.label, s.evidence)
    /\ forged' = (forged \ {s.evidence}) \cup (IF bad THEN {s.evidence} ELSE {})
    /\ IF bad THEN phase' = "error" /\ error' = "EvidenceForgery"
              ELSE UNCHANGED <<phase, error>>

DeclareEvidence ==
  /\ phase = "evidence"
  /\ \E i \in FirstLeft : Declare(program[i]) /\ left' = left \ {i}
  /\ UNCHANGED <<program, callVars, claimLabels, contextLabels, verifyFailures,
                 modeVars>>

\* The claim's context must be bound by now, and only `root` is by this program.
StatePremise(s) ==
  LET n == <<s.label, s.ctx>>
      ev == {evidenceLabels[l] : l \in s.evidence}
  IN /\ CASE s.verb = "assert" -> Assert(n, s.value, ev)
          [] s.verb = "observe" -> Observe(n, s.value, ev)
          [] s.verb = "assume" -> Assume(n, s.value)
     /\ Bind(s.label, n)
     /\ UNCHANGED <<phase, error, callVars, contextLabels, evidenceLabels>>

PremiseStmt(s) ==
  IF ~(s.evidence \subseteq DOMAIN evidenceLabels) THEN Fail("UnknownEvidenceLabel")
  ELSE IF s.ctx \notin contextLabels THEN Fail("UnknownContextLabel")
  ELSE StatePremise(s)

RunPremise ==
  /\ phase = "premises"
  /\ \E i \in FirstLeft : PremiseStmt(program[i]) /\ left' = left \ {i}
  /\ UNCHANGED <<program, forged, verifyFailures, modeVars>>

-----------------------------------------------------------------------------
(* Phase 2: which statement runs. *)

\* stmt_ready.  No statement binds a receipt label; a context clause and a
\* branch's assumptions are not looked at.
Ready(s) ==
  CASE s.verb = "derive" -> ~s.receipt /\ \A i \in DOMAIN s.inputs : Bound(s.inputs[i])
    [] s.verb = "call" -> \A i \in DOMAIN s.inputs : Bound(s.inputs[i])
    [] s.verb = "discharge" ->
         Bound(s.target) /\ s.by \in DOMAIN evidenceLabels \cup DOMAIN claimLabels
    [] s.verb = "contradict" -> Bound(s.a) /\ Bound(s.b)
    [] s.verb = "branch" -> s.parent \in contextLabels
    [] s.verb = "merge" -> s.a \in contextLabels /\ s.b \in contextLabels
    [] OTHER -> Bound(s.target)

\* A plausible bug: the worklist waits for its first statement.
FirstOnly == {i \in FirstLeft : Ready(program[i])}

\* The index of the first ready statement, if there is one.
FirstReady ==
  {i \in left : Ready(program[i]) /\ \A j \in left : j < i => ~Ready(program[j])}

\* unready_error.
Stuck ==
  /\ phase = "worklist" /\ left # {} /\ FirstReady = {}
  /\ Fail("Unready")
  /\ UNCHANGED <<left, program, forged, verifyFailures, modeVars>>

-----------------------------------------------------------------------------
(* Phase 2: the statements. *)

Quiet == UNCHANGED <<phase, error, callVars>>
NoLabels == UNCHANGED labelVars

Nodes(labels) == [i \in DOMAIN labels |-> Claimed(labels[i])]

\* resolve_op: the name as it stands, or as a builtin's.
Resolved(op) ==
  IF op \in DOMAIN operations THEN {op} ELSE {Core(op)} \cap DOMAIN operations

\* The output is bound, and in whatever context the statement named.
DeriveTo(s, op, rcpt) ==
  IF CanDerive(op, Nodes(s.inputs), rcpt, TrustRoots)
    THEN /\ Derive(op, Nodes(s.inputs), <<s.label, s.ctx>>, rcpt, TrustRoots)
         /\ Bind(s.label, <<s.label, s.ctx>>)
         /\ UNCHANGED <<error, contextLabels, evidenceLabels>>
         /\ phase' = "worklist" /\ busy' = NoStmt /\ receipt' = NoReceipt
         /\ UNCHANGED issued
    ELSE Fail("CannotDerive")

\* A plausible bug: the context clause is taken on trust.
DeriveAnywhere(s) ==
  /\ s.verb = "derive"
  /\ IF Resolved(s.op) = {} THEN Fail("UnknownOperation")
     ELSE \E op \in Resolved(s.op) : DeriveTo(s, op, NoReceipt)
  /\ UNCHANGED verifyFailures

DeriveStmt(s) ==
  /\ s.verb = "derive"
  /\ IF Resolved(s.op) = {} THEN Fail("UnknownOperation")
     ELSE IF s.ctx \notin contextLabels THEN Fail("UnknownContextLabel")
     ELSE \E op \in Resolved(s.op) : DeriveTo(s, op, NoReceipt)
  /\ UNCHANGED verifyFailures

\* A required obligation is mandatory and pending, even if it was settled.
RequireStmt(s) ==
  /\ s.verb = "require"
  /\ AddObligation([kind |-> s.kind, target |-> Claimed(s.target),
                    severity |-> "Mandatory"], FALSE)
  /\ Quiet /\ NoLabels /\ UNCHANGED verifyFailures

\* The statement's `as` clause is ignored; a claim as authority is an error.
DischargeStmt(s) ==
  /\ s.verb = "discharge"
  /\ IF s.by \in DOMAIN evidenceLabels
       THEN /\ phase' = "discharge" /\ busy' = s
            /\ UNCHANGED <<vars, error, receipt, issued, labelVars>>
       ELSE Fail("UnknownLabel")
  /\ UNCHANGED verifyFailures

\* A plausible bug: a verify statement is the verification.
VerifyOnRequest(s) ==
  /\ s.verb = "verify"
  /\ SetStatus(Claimed(s.target), "Verified", "Verify")
  /\ Quiet /\ NoLabels /\ UNCHANGED verifyFailures

\* A plausible bug: a refused verification leaves no trace.
VerifyQuietly(s) ==
  /\ s.verb = "verify"
  /\ \/ Verify(Claimed(s.target))
     \/ ~GateOpen(Claimed(s.target)) /\ UNCHANGED vars
  /\ Quiet /\ NoLabels /\ UNCHANGED verifyFailures

\* A refused verification leaves the claim as it is and is no error.
VerifyStmt(s) ==
  /\ s.verb = "verify"
  /\ IF GateOpen(Claimed(s.target))
       THEN Verify(Claimed(s.target)) /\ UNCHANGED verifyFailures
       ELSE /\ verifyFailures' = verifyFailures \cup {s.target}
            /\ UNCHANGED vars
  /\ Quiet /\ NoLabels

StatusStmt(s) ==
  /\ \/ s.verb = "challenge" /\ Challenge(Claimed(s.target))
     \/ s.verb = "invalidate" /\ Invalidate(Claimed(s.target))
     \/ s.verb = "attest" /\ Attest(Claimed(s.target))
  /\ Quiet /\ NoLabels /\ UNCHANGED verifyFailures

\* contradict records a contradiction in the root context and leaves claims.
ContradictStmt(s) ==
  /\ s.verb = "contradict"
  /\ UNCHANGED vars /\ Quiet /\ NoLabels /\ UNCHANGED verifyFailures

ContextStmt(s) ==
  /\ s.verb \in {"branch", "merge"}
  /\ IF s.verb = "branch" /\ ~(s.assumptions \subseteq DOMAIN claimLabels)
       THEN Fail("UnknownLabel")
       ELSE /\ contextLabels' = contextLabels \cup {s.label}
            /\ UNCHANGED <<vars, claimLabels, evidenceLabels>> /\ Quiet
  /\ UNCHANGED verifyFailures

CallStmt(s) ==
  /\ s.verb = "call"
  /\ IF s.ctx \notin contextLabels
       THEN Fail("UnknownContextLabel")
       ELSE /\ phase' = "call" /\ busy' = s
            /\ UNCHANGED <<vars, error, receipt, issued, labelVars>>
  /\ UNCHANGED verifyFailures

ExecStmt(s) ==
  \/ DeriveStmt(s) \/ RequireStmt(s) \/ DischargeStmt(s) \/ VerifyStmt(s)
  \/ StatusStmt(s) \/ ContradictStmt(s) \/ ContextStmt(s) \/ CallStmt(s)

\* A plausible bug: an executed statement stays in the worklist.
RunReadyKeeping ==
  /\ phase = "worklist"
  /\ \E i \in FirstReady : ExecStmt(program[i])
  /\ UNCHANGED <<left, program, forged, modeVars>>

RunReady ==
  /\ phase = "worklist"
  /\ \E i \in FirstReady : ExecStmt(program[i]) /\ left' = left \ {i}
  /\ UNCHANGED <<program, forged, modeVars>>

\* One pending obligation after the other.
DischargeNext ==
  /\ phase = "discharge"
  /\ LET n == Claimed(busy.target)
         open == {o \in claims[n].obligations :
                    o \in DOMAIN obligations /\ obligations[o] = "Pending"}
     IN IF open = {}
          THEN phase' = "worklist" /\ busy' = NoStmt /\ UNCHANGED vars
          ELSE /\ \E o \in open : Discharge(o, evidenceLabels[busy.by], "Satisfied")
               /\ UNCHANGED <<phase, busy>>
  /\ UNCHANGED <<error, program, left, receipt, issued, labelVars, forged,
                 verifyFailures, modeVars>>

-----------------------------------------------------------------------------
(* External calls: a receipt, the operation, the derivation.  What comes   *)
(* before an error stays: the receipt, and the operation.                  *)

CallInputs == Vals(Nodes(busy.inputs))

Fits(r) == r.op = busy.op /\ r.inputs = CallInputs /\ r.provider \in TrustRoots

\* A plausible bug: replay compares the operation only.
PreloadedByName ==
  LET at == {i \in DOMAIN preloaded : preloaded[i].op = busy.op} IN
  {preloaded[i] : i \in {i \in at : \A j \in at : i <= j}}

\* The first preloaded receipt for the operation and its inputs' values.
Preloaded ==
  LET at == {i \in DOMAIN preloaded : Fits(preloaded[i])} IN
  {preloaded[i] : i \in {i \in at : \A j \in at : i <= j}}

TakeReceipt(r) ==
  /\ phase' = "register" /\ receipt' = r
  /\ UNCHANGED <<error, busy, labelVars>>

ReplayCall ==
  /\ phase = "call" /\ replaying
  /\ IF Preloaded = {}
       THEN Fail("ReplayMissingReceipt")
       ELSE \E r \in Preloaded : TakeReceipt(r) /\ UNCHANGED <<vars, issued>>
  /\ UNCHANGED <<program, left, forged, verifyFailures, modeVars>>

\* The tool may answer with any receipt for the inputs, or fail.
LiveCall ==
  /\ phase = "call" /\ ~replaying
  /\ IF busy.capability \notin Granted
       THEN Fail("CapabilityDenied")
       ELSE \/ Fail("External")
            \/ \E r \in Receipt :
                 /\ Fits(r) /\ TakeReceipt(r)
                 /\ \/ AddReceipt(r)
                    \/ r \in receipts /\ UNCHANGED vars
                 /\ issued' = IF Seqs!Contains(issued, r) THEN issued ELSE Append(issued, r)
  /\ UNCHANGED <<program, left, forged, verifyFailures, modeVars>>

RegisterCall ==
  /\ phase = "register" /\ phase' = "apply"
  /\ RegisterOp(CallDefinition(busy, CallInputs))
  /\ UNCHANGED <<error, program, left, callVars, labelVars, forged,
                 verifyFailures, modeVars>>

ApplyCall ==
  /\ phase = "apply"
  /\ DeriveTo(busy, busy.op, receipt)
  /\ UNCHANGED <<program, left, forged, verifyFailures, modeVars>>

-----------------------------------------------------------------------------

\* check_verification_invariant, then verify_evidence_authenticity, which
\* accepts everything when no trust root is configured.
Finish ==
  /\ phase = "worklist" /\ left = {}
  /\ IF \E n \in DOMAIN claims : claims[n].status = "Verified" /\ ~GateOpen(n)
       THEN Fail("Invariant")
     ELSE IF forged # {} /\ TrustRoots # {} THEN Fail("EvidenceForgery")
     ELSE phase' = "ok" /\ UNCHANGED <<vars, error, callVars, labelVars>>
  /\ UNCHANGED <<program, left, forged, verifyFailures, modeVars>>

\* One step of the execution under way.
Step ==
  \/ NextPhase \/ DeclareEvidence \/ RunPremise
  \/ RunReady \/ Stuck \/ DischargeNext
  \/ ReplayCall \/ LiveCall \/ RegisterCall \/ ApplyCall
  \/ Finish

ExecNext ==
  \/ \E p \in (IF executions = 0 THEN Program ELSE Followup) : Execute(p)
  \/ Replay
  \/ Step

ExecSpec == ExecInit /\ [][ExecNext]_execVars /\ WF_execVars(Step)
=============================================================================
