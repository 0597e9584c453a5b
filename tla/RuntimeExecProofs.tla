-------------------------- MODULE RuntimeExecProofs --------------------------
(***************************************************************************)
(* Proofs about the runtime: its steps are calls of the calculus, its      *)
(* labels name what is recorded, no claim of a new Runtime rests on forged  *)
(* evidence, and an execution that gets stuck had to.                       *)
(***************************************************************************)
EXTENDS RuntimeExecProps, AxiomModuleProofs, RecursionLemmas

-----------------------------------------------------------------------------
(* The inductive invariant. *)

\* The programs are the ones the bounds admit, and each phase works through
\* statements of its own.
ProgramOK ==
  /\ program = <<>> \/ program \in Program \cup Followup
  /\ left \subseteq DOMAIN program
  /\ phase = "evidence" => \A i \in left : IsEvidence(program[i])
  /\ phase = "premises" => \A i \in left : IsPremise(program[i])

\* The phases of a call, and those in which the worklist is not at its end.
Calling == {"call", "register", "apply"}
Working == {"worklist", "discharge"} \cup Calling
Phase == {"idle", "evidence", "premises"} \cup Working \cup Terminated

\* What is under way was ready, and what was bound then is bound now.
BusyOK ==
  /\ phase \in Phase
  /\ busy \in Statements \cup {NoStmt}
  /\ phase = "discharge" =>
       busy.verb = "discharge" /\ Bound(busy.target) /\ busy.by \in DOMAIN evidenceLabels
  /\ phase \in Calling =>
       /\ busy \in Statements /\ busy.verb = "call"
       /\ \A i \in DOMAIN busy.inputs : Bound(busy.inputs[i])
       /\ busy.ctx \in contextLabels

\* A receipt is held from its call to its derivation; a replay's are those given.
ReceiptOK ==
  /\ receipt \in receipts \cup {NoReceipt}
  /\ phase \notin {"register", "apply", "error"} => receipt = NoReceipt
  /\ issued \in Seq(Receipt)
  /\ replaying => receipts = Seqs!ToSet(preloaded)

\* A label names a recorded claim of that label, a claim is in a bound context.
LabelsOK ==
  /\ \A l \in DOMAIN claimLabels :
       claimLabels[l] \in DOMAIN claims /\ claimLabels[l][1] = l
  /\ \A n \in DOMAIN claims : n[2] \in contextLabels
  /\ RootLabel \in contextLabels
  /\ \A l \in DOMAIN evidenceLabels : evidenceLabels[l] \in evidence
  /\ forged \subseteq evidence \cap Trusted
  /\ verifyFailures \subseteq DOMAIN claimLabels

\* Statements that are not left have bound their labels.
PremisesBound ==
  \A i \in DOMAIN program \ left : IsPremise(program[i]) => Bound(program[i].label)

StuckNow == phase = "error" /\ error = "Unready"

DoneBound ==
  \A i \in DOMAIN program \ left :
    /\ program[i].verb \in ClaimVerbs =>
         \/ Bound(program[i].label)
         \/ phase \in Calling /\ program[i] = busy
    /\ program[i].verb \in {"branch", "merge"} => program[i].label \in contextLabels

DoneOK ==
  /\ phase = "premises" => PremisesBound
  /\ phase \in Working \/ StuckNow => DoneBound
  /\ StuckNow => \A i \in left : ~Ready(program[i])

\* All but the types of the module.
RunInv == ProgramOK /\ BusyOK /\ ReceiptOK /\ LabelsOK /\ DoneOK

ExecInv == TypeOK /\ RunInv

-----------------------------------------------------------------------------
(* Programs and their labels. *)

\* The members of a sequence.
LEMMA ToSetIsRange == \A s : Seqs!ToSet(s) = {s[i] : i \in DOMAIN s}
BY DEF Seqs!ToSet

\* A program's statements are admitted and numbered.
LEMMA StatementsAdmitted ==
  ASSUME ProgramOK
  PROVE  DOMAIN program \subseteq Nat /\ \A i \in DOMAIN program : Admitted(program[i])
<1>1. CASE program = <<>>
  BY <1>1
<1>2. CASE program \in Program \cup Followup
  BY <1>2, RuntimeAssumption
<1>3. QED BY <1>1, <1>2 DEF ProgramOK

\* The registry of a new Runtime.
LEMMA BuiltinType == IsMap(Registry(Builtin), Operation, OperationDef)
<1>1. Builtin \subseteq OperationDef
  BY RuntimeAssumption
<1>2. QED BY <1>1, RegistryType

\* Bound labels name claims.
LEMMA NodesOfBound ==
  ASSUME TypeOK, LabelsOK, NEW labels, \A i \in DOMAIN labels : Bound(labels[i])
  PROVE  /\ Nodes(labels) \in [DOMAIN labels -> Node]
         /\ \A i \in DOMAIN labels : Nodes(labels)[i][1] = labels[i]
BY DEF TypeOK, IsMap, LabelsOK, Bound, Nodes, Claimed

-----------------------------------------------------------------------------
(* What a statement asks of the module is a call of the calculus. *)

\* Deriving from bound labels.
LEMMA DeriveIsCall ==
  ASSUME TypeOK, LabelsOK, NEW s, Admitted(s), s.verb \in {"derive", "call"},
         \A i \in DOMAIN s.inputs : Bound(s.inputs[i]),
         NEW op \in {s.op, Core(s.op)}, NEW rcpt \in Receipt \cup {NoReceipt},
         Derive(op, Nodes(s.inputs), <<s.label, s.ctx>>, rcpt, TrustRoots)
  PROVE  Next
<1> DEFINE a == [op |-> op, inputs |-> Nodes(s.inputs), output |-> <<s.label, s.ctx>>]
<1>1. a \in Application
  <2>1. op \in Operation
    BY DEF Derive, CanDerive, TypeOK, IsMap
  <2>2. QED BY <2>1, NodesOfBound DEF Admitted
<1>2. CanDerive(op, Nodes(s.inputs), rcpt, Provider)
  BY RuntimeAssumption DEF Derive, CanDerive, ReceiptAccepted
<1>3. Derive(a.op, a.inputs, a.output, rcpt, Provider)
  BY <1>2 DEF Derive
<1>4. DeriveSome(a)
  BY <1>3 DEF DeriveSome
<1>5. QED BY <1>1, <1>4 DEF Next

\* A premise whose evidence is labelled.
LEMMA PremiseIsCall ==
  ASSUME TypeOK, LabelsOK, NEW s, Admitted(s), s.verb \in Premises,
         s.evidence \subseteq DOMAIN evidenceLabels, StatePremise(s)
  PROVE  /\ Next
         /\ DOMAIN claims' = DOMAIN claims \cup {<<s.label, s.ctx>>}
         /\ UNCHANGED <<evidence, receipts>>
<1> DEFINE ev == {evidenceLabels[l] : l \in s.evidence}
           m == [verb |-> s.verb, node |-> <<s.label, s.ctx>>, value |-> s.value,
                 evidence |-> ev]
<1>1. ev \in SUBSET Evidence
  BY DEF LabelsOK, TypeOK
<1>2. m \in Statement
  BY <1>1 DEF Admitted
<1>3. AddPremise(m)
  BY DEF StatePremise, AddPremise, Premises
<1>4. Next
  BY <1>2, <1>3 DEF Next
<1>5. \E e, status, as, event : Premise(<<s.label, s.ctx>>, s.value, e, status, as, event)
  BY DEF StatePremise, Premises, Assert, Observe, Assume
<1>6. QED BY <1>4, <1>5 DEF Premise, Put

\* Requiring an obligation of a bound claim.
LEMMA RequireIsCall ==
  ASSUME TypeOK, LabelsOK, NEW s, Admitted(s), Bound(s.target), RequireStmt(s)
  PROVE  Next
<1> DEFINE n == Claimed(s.target)
           o == [kind |-> s.kind, target |-> n, severity |-> "Mandatory"]
<1>1. n \in Node /\ n[1] = s.target
  BY DEF TypeOK, IsMap, LabelsOK, Bound, Claimed
<1>2. o \in Requirable
  BY <1>1 DEF Admitted, RequireStmt
<1>3. AddObligation(o, FALSE)
  BY DEF RequireStmt
<1>4. QED BY <1>2, <1>3 DEF Next, ObligationCall

\* The status statements.
LEMMA StatusIsCall ==
  ASSUME TypeOK, LabelsOK, NEW s, Bound(s.target), VerifyStmt(s) \/ StatusStmt(s)
  PROVE  [Next]_vars /\ DOMAIN claims' = DOMAIN claims /\ UNCHANGED <<evidence, receipts>>
<1> DEFINE n == Claimed(s.target)
<1>1. n \in Judged
  BY RuntimeAssumption DEF TypeOK, IsMap, LabelsOK, Bound, Claimed
<1>2. CASE Verify(n) \/ Challenge(n) \/ Invalidate(n) \/ Attest(n)
  <2>1. Next
    BY <1>1, <1>2, RuntimeAssumption DEF Next, ChangeStatus
  <2>2. QED
    BY <1>2, <2>1 DEF Verify, Challenge, Invalidate, Attest, SetStatus, supportVars
<1>3. CASE UNCHANGED vars
  BY <1>3 DEF vars
<1>4. QED BY <1>2, <1>3 DEF VerifyStmt, StatusStmt

-----------------------------------------------------------------------------
(* What a step does to the labels. *)

LabelsGrow ==
  /\ DOMAIN claimLabels \subseteq DOMAIN claimLabels'
  /\ contextLabels \subseteq contextLabels'
  /\ DOMAIN evidenceLabels \subseteq DOMAIN evidenceLabels'

\* No claim is bound; a context may be, and a failed verification noted.
Keeps ==
  /\ DOMAIN claims' = DOMAIN claims
  /\ evidence \subseteq evidence'
  /\ contextLabels \subseteq contextLabels'
  /\ verifyFailures' \subseteq verifyFailures \cup DOMAIN claimLabels
  /\ UNCHANGED <<claimLabels, evidenceLabels, forged>>

\* The statement's claim is recorded and bound to its label.
Binds(s) ==
  /\ DOMAIN claims' = DOMAIN claims \cup {<<s.label, s.ctx>>}
  /\ s.ctx \in contextLabels
  /\ Bind(s.label, <<s.label, s.ctx>>)
  /\ UNCHANGED <<evidence, contextLabels, evidenceLabels, forged, verifyFailures>>

LEMMA KeepsLabels ==
  ASSUME LabelsOK, Keeps
  PROVE  LabelsOK' /\ LabelsGrow
BY DEF LabelsOK, Keeps, LabelsGrow

LEMMA BindsLabels ==
  ASSUME LabelsOK, NEW s, Binds(s)
  PROVE  LabelsOK' /\ LabelsGrow /\ Bound(s.label)'
BY DEF LabelsOK, Binds, Bind, Put, LabelsGrow, Bound

\* Evidence is recorded before its label, forged or not, names it.
LEMMA DeclareLabels ==
  ASSUME LabelsOK, NEW s, Declare(s),
         UNCHANGED <<claimLabels, contextLabels, verifyFailures>>
  PROVE  LabelsOK' /\ LabelsGrow
<1>1. /\ claims' = claims
      /\ evidence' = evidence \cup {s.evidence}
      /\ evidenceLabels' = Put(evidenceLabels, s.label, s.evidence)
  BY DEF Declare, Record, AddEvidence, vars
<1>2. forged' \subseteq evidence' \cap Trusted
  BY <1>1 DEF Declare, LabelsOK
<1>3. \A l \in DOMAIN evidenceLabels' : evidenceLabels'[l] \in evidence'
  BY <1>1 DEF LabelsOK, Put
<1>4. QED BY <1>1, <1>2, <1>3 DEF LabelsOK, LabelsGrow, Put

-----------------------------------------------------------------------------
(* The shapes of a step of an execution. *)

\* An error ends the execution where it is.
LEMMA FailStep ==
  ASSUME RunInv, NEW why, why # "Unready", Fail(why), left' \subseteq left,
         verifyFailures' = verifyFailures, UNCHANGED <<program, forged, modeVars>>
  PROVE  UNCHANGED vars /\ RunInv'
<1>1. /\ phase' = "error" /\ error' # "Unready"
      /\ UNCHANGED vars /\ UNCHANGED callVars /\ UNCHANGED labelVars
  BY DEF Fail
<1>2. LabelsOK'
  BY <1>1 DEF RunInv, LabelsOK, vars, labelVars
<1>3. ProgramOK'
  BY <1>1 DEF RunInv, ProgramOK
<1>4. BusyOK'
  BY <1>1 DEF RunInv, BusyOK, Phase, Terminated, Calling, callVars, Statements
<1>5. ReceiptOK'
  BY <1>1 DEF RunInv, ReceiptOK, callVars, vars, modeVars
<1>6. DoneOK'
  BY <1>1 DEF DoneOK, StuckNow, Working, Calling
<1>7. QED BY <1>1, <1>2, <1>3, <1>4, <1>5, <1>6 DEF RunInv

\* A statement of the worklist is done.
LEMMA DoneStep ==
  ASSUME RunInv, phase = "worklist", NEW i \in left, left' = left \ {i},
         busy' \in {busy, NoStmt}, receipt' \in {receipt, NoReceipt},
         UNCHANGED <<program, phase, error, issued, modeVars>>,
         replaying => receipts' = receipts, receipts \subseteq receipts',
         LabelsOK', LabelsGrow,
         program[i].verb \in ClaimVerbs => Bound(program[i].label)',
         program[i].verb \in {"branch", "merge"} => program[i].label \in contextLabels'
  PROVE  RunInv'
<1>1. ProgramOK'
  BY DEF RunInv, ProgramOK
<1>2. BusyOK'
  BY DEF RunInv, BusyOK, Calling, Phase, Statements
<1>3. ReceiptOK'
  BY DEF RunInv, ReceiptOK, modeVars
<1>4. DoneBound
  BY DEF RunInv, DoneOK, Working
<1>5. DoneBound'
  BY <1>4 DEF DoneBound, LabelsGrow, Bound, RunInv, ProgramOK, Calling
<1>6. DoneOK'
  BY <1>5 DEF DoneOK, StuckNow
<1>7. QED BY <1>1, <1>2, <1>3, <1>6 DEF RunInv

\* A discharge or a call begins; a discharge binds no label.
LEMMA EnterStep ==
  ASSUME RunInv, phase = "worklist", NEW i \in left, left' = left \ {i},
         busy' = program[i],
         \/ /\ phase' = "discharge" /\ program[i].verb = "discharge"
            /\ Bound(program[i].target) /\ program[i].by \in DOMAIN evidenceLabels
         \/ /\ phase' = "call" /\ program[i].verb = "call"
            /\ \A k \in DOMAIN program[i].inputs : Bound(program[i].inputs[k])
            /\ program[i].ctx \in contextLabels,
         verifyFailures' = verifyFailures,
         UNCHANGED <<vars, program, error, receipt, issued, labelVars, forged, modeVars>>
  PROVE  RunInv'
<1>1. ProgramOK'
  BY DEF RunInv, ProgramOK
<1>2. program[i] \in Statements
  BY ToSetIsRange DEF Statements, RunInv, ProgramOK
<1>3. BusyOK'
  BY <1>2 DEF BusyOK, Calling, Phase, Working, Statements, Bound, labelVars
<1>4. ReceiptOK'
  BY DEF RunInv, ReceiptOK, modeVars, vars
<1>5. LabelsOK'
  BY DEF RunInv, LabelsOK, vars, labelVars
<1>6. DoneBound
  BY DEF RunInv, DoneOK, Working
<1>7. DoneBound'
  BY <1>6 DEF DoneBound, Bound, RunInv, ProgramOK, Calling, labelVars, ClaimVerbs, Premises
<1>8. DoneOK'
  BY <1>7 DEF DoneOK, StuckNow
<1>9. QED BY <1>1, <1>3, <1>4, <1>5, <1>8 DEF RunInv

-----------------------------------------------------------------------------
(* The statements of the worklist. *)

\* A derivation that succeeds binds its claim.
LEMMA DeriveToBinds ==
  ASSUME TypeOK, LabelsOK, NEW s, Admitted(s), s.verb \in {"derive", "call"},
         \A i \in DOMAIN s.inputs : Bound(s.inputs[i]), s.ctx \in contextLabels,
         NEW op \in {s.op, Core(s.op)}, NEW rcpt \in Receipt \cup {NoReceipt},
         DeriveTo(s, op, rcpt), UNCHANGED <<forged, verifyFailures>>
  PROVE  \/ Fail("CannotDerive")
         \/ /\ Next /\ Binds(s)
            /\ phase' = "worklist" /\ busy' = NoStmt /\ receipt' = NoReceipt
            /\ UNCHANGED <<error, issued, receipts>>
<1>1. CASE ~CanDerive(op, Nodes(s.inputs), rcpt, TrustRoots)
  BY <1>1 DEF DeriveTo
<1>2. CASE CanDerive(op, Nodes(s.inputs), rcpt, TrustRoots)
  <2>1. /\ Derive(op, Nodes(s.inputs), <<s.label, s.ctx>>, rcpt, TrustRoots)
        /\ Bind(s.label, <<s.label, s.ctx>>)
        /\ UNCHANGED <<error, contextLabels, evidenceLabels>>
        /\ phase' = "worklist" /\ busy' = NoStmt /\ receipt' = NoReceipt
        /\ UNCHANGED issued
    BY <1>2 DEF DeriveTo
  <2>2. /\ DOMAIN claims' = DOMAIN claims \cup {<<s.label, s.ctx>>}
        /\ UNCHANGED <<evidence, receipts>>
    BY <2>1 DEF Derive, Put, supportVars
  <2>3. Next
    BY <2>1, DeriveIsCall
  <2>4. QED BY <2>1, <2>2, <2>3 DEF Binds
<1>3. QED BY <1>1, <1>2

\* What Ready says of the statements that use it.
LEMMA ReadyMeans ==
  ASSUME NEW s, Ready(s)
  PROVE  /\ s.verb \in {"derive", "call"} => \A i \in DOMAIN s.inputs : Bound(s.inputs[i])
         /\ s.verb \in {"require", "verify", "challenge", "invalidate", "attest",
                        "discharge"} => Bound(s.target)
BY DEF Ready

\* A derive statement.
LEMMA DeriveStmtStep ==
  ASSUME ExecInv, phase = "worklist", NEW i \in left, left' = left \ {i},
         Ready(program[i]), DeriveStmt(program[i]), UNCHANGED <<program, forged, modeVars>>
  PROVE  [Next]_vars /\ RunInv'
<1> DEFINE s == program[i]
<1>1. s.verb = "derive" /\ UNCHANGED verifyFailures
  BY DEF DeriveStmt
<1>2. Admitted(s)
  BY StatementsAdmitted DEF ExecInv, RunInv, ProgramOK
<1>4. CASE Resolved(s.op) = {}
  <2>1. Fail("UnknownOperation")
    BY <1>4 DEF DeriveStmt
  <2>2. QED BY <1>1, <2>1, FailStep DEF ExecInv
<1>5. CASE Resolved(s.op) # {} /\ s.ctx \notin contextLabels
  <2>1. Fail("UnknownContextLabel")
    BY <1>5 DEF DeriveStmt
  <2>2. QED BY <1>1, <2>1, FailStep DEF ExecInv
<1>6. CASE Resolved(s.op) # {} /\ s.ctx \in contextLabels
  <2>1. PICK op \in Resolved(s.op) : DeriveTo(s, op, NoReceipt)
    BY <1>6 DEF DeriveStmt
  <2> op \in {s.op, Core(s.op)}
    BY DEF Resolved
  <2>2. CASE Fail("CannotDerive")
    BY <1>1, <2>2, FailStep DEF ExecInv
  <2>3. CASE /\ Next /\ Binds(s)
             /\ phase' = "worklist" /\ busy' = NoStmt /\ receipt' = NoReceipt
             /\ UNCHANGED <<error, issued, receipts>>
    <3>1. LabelsOK' /\ LabelsGrow /\ Bound(s.label)'
      BY <2>3, BindsLabels DEF ExecInv, RunInv
    <3>2. RunInv'
      BY <1>1, <2>3, <3>1, DoneStep DEF ExecInv
    <3>3. QED BY <2>3, <3>2
  <2>4. QED
    BY <1>1, <1>2, <1>6, <2>1, <2>2, <2>3, ReadyMeans, DeriveToBinds DEF ExecInv, RunInv
<1>7. QED BY <1>4, <1>5, <1>6

\* The statements that end where they began: require, verify, the changes of
\* status, contradict, and a branch or merge whose labels resolve.
LEMMA QuietStep ==
  ASSUME ExecInv, phase = "worklist", NEW i \in left, left' = left \ {i},
         Keeps, UNCHANGED <<program, phase, error, callVars, modeVars, receipts>>,
         program[i].verb \notin ClaimVerbs,
         program[i].verb \in {"branch", "merge"} => program[i].label \in contextLabels'
  PROVE  RunInv'
BY KeepsLabels, DoneStep DEF ExecInv, RunInv, callVars

LEMMA RequireStmtStep ==
  ASSUME ExecInv, phase = "worklist", NEW i \in left, left' = left \ {i},
         Ready(program[i]), RequireStmt(program[i]), UNCHANGED <<program, forged, modeVars>>
  PROVE  Next /\ RunInv'
<1> DEFINE s == program[i]
<1>1. Admitted(s)
  BY StatementsAdmitted DEF ExecInv, RunInv, ProgramOK
<1>2. s.verb = "require" /\ Bound(s.target)
  BY ReadyMeans DEF RequireStmt
<1>3. Next
  BY <1>1, <1>2, RequireIsCall DEF ExecInv, RunInv
<1>4. /\ DOMAIN claims' = DOMAIN claims
      /\ UNCHANGED supportVars
  BY DEF RequireStmt, AddObligation
<1>5. /\ Keeps
      /\ UNCHANGED <<phase, error, callVars, receipts>>
  BY <1>4 DEF RequireStmt, Quiet, NoLabels, labelVars, supportVars, Keeps
<1>6. QED BY <1>2, <1>3, <1>5, QuietStep DEF ClaimVerbs, Premises

LEMMA StatusStmtStep ==
  ASSUME ExecInv, phase = "worklist", NEW i \in left, left' = left \ {i},
         Ready(program[i]), VerifyStmt(program[i]) \/ StatusStmt(program[i]),
         UNCHANGED <<program, forged, modeVars>>
  PROVE  [Next]_vars /\ RunInv'
<1> DEFINE s == program[i]
<1>1. s.verb \in {"verify", "challenge", "invalidate", "attest"} /\ Bound(s.target)
  BY ReadyMeans DEF VerifyStmt, StatusStmt
<1>2. /\ [Next]_vars /\ DOMAIN claims' = DOMAIN claims
      /\ UNCHANGED <<evidence, receipts>>
  BY <1>1, StatusIsCall DEF ExecInv, RunInv
<1>3. /\ verifyFailures' \subseteq verifyFailures \cup DOMAIN claimLabels
      /\ UNCHANGED <<phase, error, callVars, labelVars>>
  BY <1>1 DEF VerifyStmt, StatusStmt, Quiet, NoLabels, Bound
<1>4. Keeps
  BY <1>2, <1>3 DEF Keeps, labelVars
<1>5. QED BY <1>1, <1>2, <1>3, <1>4, QuietStep DEF ClaimVerbs, Premises

LEMMA ContradictStmtStep ==
  ASSUME ExecInv, phase = "worklist", NEW i \in left, left' = left \ {i},
         ContradictStmt(program[i]), UNCHANGED <<program, forged, modeVars>>
  PROVE  UNCHANGED vars /\ RunInv'
<1>1. /\ UNCHANGED vars /\ UNCHANGED <<phase, error, callVars, labelVars, verifyFailures>>
      /\ program[i].verb = "contradict"
  BY DEF ContradictStmt, Quiet, NoLabels
<1>2. Keeps
  BY <1>1 DEF Keeps, vars, labelVars
<1>3. QED BY <1>1, <1>2, QuietStep DEF ClaimVerbs, Premises, vars

LEMMA ContextStmtStep ==
  ASSUME ExecInv, phase = "worklist", NEW i \in left, left' = left \ {i},
         ContextStmt(program[i]), UNCHANGED <<program, forged, modeVars>>
  PROVE  UNCHANGED vars /\ RunInv'
<1> DEFINE s == program[i]
<1>1. UNCHANGED verifyFailures /\ s.verb \in {"branch", "merge"}
  BY DEF ContextStmt
<1>2. CASE Fail("UnknownLabel")
  BY <1>1, <1>2, FailStep DEF ExecInv
<1>3. CASE /\ contextLabels' = contextLabels \cup {s.label}
           /\ UNCHANGED <<vars, claimLabels, evidenceLabels>> /\ Quiet
  <2>1. Keeps
    BY <1>1, <1>3 DEF Keeps, vars
  <2>2. QED BY <1>1, <1>3, <2>1, QuietStep DEF ClaimVerbs, Premises, vars, Quiet
<1>4. QED BY <1>2, <1>3 DEF ContextStmt

\* The statements that take several steps.
LEMMA DischargeStmtStep ==
  ASSUME ExecInv, phase = "worklist", NEW i \in left, left' = left \ {i},
         Ready(program[i]), DischargeStmt(program[i]), UNCHANGED <<program, forged, modeVars>>
  PROVE  UNCHANGED vars /\ RunInv'
<1> DEFINE s == program[i]
<1>1. UNCHANGED verifyFailures /\ s.verb = "discharge" /\ Bound(s.target)
  BY ReadyMeans DEF DischargeStmt
<1>2. CASE s.by \in DOMAIN evidenceLabels
  <2>1. /\ phase' = "discharge" /\ busy' = s
        /\ UNCHANGED <<vars, error, receipt, issued, labelVars>>
    BY <1>2 DEF DischargeStmt
  <2>2. QED BY <1>1, <1>2, <2>1, EnterStep DEF ExecInv
<1>3. CASE s.by \notin DOMAIN evidenceLabels
  <2>1. Fail("UnknownLabel")
    BY <1>3 DEF DischargeStmt
  <2>2. QED BY <1>1, <2>1, FailStep DEF ExecInv
<1>4. QED BY <1>2, <1>3

LEMMA CallStmtStep ==
  ASSUME ExecInv, phase = "worklist", NEW i \in left, left' = left \ {i},
         Ready(program[i]), CallStmt(program[i]), UNCHANGED <<program, forged, modeVars>>
  PROVE  UNCHANGED vars /\ RunInv'
<1> DEFINE s == program[i]
<1>1. /\ UNCHANGED verifyFailures /\ s.verb = "call"
      /\ \A k \in DOMAIN s.inputs : Bound(s.inputs[k])
  BY ReadyMeans DEF CallStmt
<1>2. CASE s.ctx \in contextLabels
  <2>1. /\ phase' = "call" /\ busy' = s
        /\ UNCHANGED <<vars, error, receipt, issued, labelVars>>
    BY <1>2 DEF CallStmt
  <2>2. QED BY <1>1, <1>2, <2>1, EnterStep DEF ExecInv
<1>3. CASE s.ctx \notin contextLabels
  <2>1. Fail("UnknownContextLabel")
    BY <1>3 DEF CallStmt
  <2>2. QED BY <1>1, <2>1, FailStep DEF ExecInv
<1>4. QED BY <1>2, <1>3

LEMMA RunReadyStep ==
  ASSUME ExecInv, RunReady
  PROVE  [Next]_vars /\ RunInv'
<1>1. PICK i \in FirstReady : ExecStmt(program[i]) /\ left' = left \ {i}
  BY DEF RunReady
<1>2. /\ i \in left /\ Ready(program[i]) /\ phase = "worklist"
      /\ UNCHANGED <<program, forged, modeVars>>
  BY DEF RunReady, FirstReady
<1>3. QED
  BY <1>1, <1>2, DeriveStmtStep, RequireStmtStep, StatusStmtStep, ContradictStmtStep,
     ContextStmtStep, DischargeStmtStep, CallStmtStep DEF ExecStmt

-----------------------------------------------------------------------------
(* The phases before the worklist, and the ends. *)

LEMMA ExecuteStep ==
  ASSUME ExecInv, NEW p \in Program \cup Followup, Execute(p)
  PROVE  UNCHANGED vars /\ RunInv'
<1>1. /\ program' = p /\ left' = Which(p, IsEvidence)
      /\ phase' = "evidence" \/ (phase' = "error" /\ error' = "ModuleTooLarge")
      /\ busy' = NoStmt /\ receipt' = NoReceipt
      /\ UNCHANGED <<vars, labelVars, forged, verifyFailures, preloaded, replaying, issued>>
  BY DEF Execute, Begin
<1>2. ProgramOK'
  BY <1>1 DEF ProgramOK, Which
<1>3. BusyOK'
  BY <1>1 DEF BusyOK, Phase, Terminated, Calling
<1>4. ReceiptOK'
  BY <1>1 DEF ExecInv, RunInv, ReceiptOK, vars
<1>5. LabelsOK'
  BY <1>1 DEF ExecInv, RunInv, LabelsOK, vars, labelVars
<1>6. DoneOK'
  BY <1>1 DEF DoneOK, Working, Calling, StuckNow
<1>7. QED BY <1>1, <1>2, <1>3, <1>4, <1>5, <1>6 DEF RunInv

LEMMA ReplayStep ==
  ASSUME ExecInv, Replay
  PROVE  /\ FreshModule(Registry(Builtin), Seqs!ToSet(issued))
         /\ ExecInv'
<1>1. /\ phase = "ok" /\ program' = program /\ left' = Which(program, IsEvidence)
      /\ phase' = "evidence" \/ (phase' = "error" /\ error' = "ModuleTooLarge")
      /\ FreshModule(Registry(Builtin), Seqs!ToSet(issued)) /\ FreshLabels
      /\ preloaded' = issued /\ UNCHANGED <<busy, receipt, issued>>
  BY DEF Replay, Begin, callVars
<1>2. TypeOK'
  <2>1. Seqs!ToSet(issued) \subseteq Receipt
    BY ToSetIsRange DEF ExecInv, RunInv, ReceiptOK
  <2>2. IsMap(operations, Operation, OperationDef)'
    BY <1>1, BuiltinType DEF FreshModule, IsMap
  <2>3. QED
    BY <1>1, <2>1, <2>2 DEF FreshModule, TypeOK, IsMap
<1>3. ProgramOK'
  BY <1>1 DEF ProgramOK, Which, ExecInv, RunInv
<1>4. BusyOK'
  BY <1>1 DEF BusyOK, Phase, Terminated, Calling, ExecInv, RunInv, Statements
<1>5. ReceiptOK'
  BY <1>1 DEF ExecInv, RunInv, ReceiptOK, FreshModule
<1>6. LabelsOK'
  BY <1>1 DEF LabelsOK, FreshModule, FreshLabels
<1>7. DoneOK'
  BY <1>1 DEF DoneOK, Working, Calling, StuckNow
<1>8. QED BY <1>1, <1>2, <1>3, <1>4, <1>5, <1>6, <1>7 DEF ExecInv, RunInv

\* When the worklist begins the premises are bound, and nothing else was run.
LEMMA NextPhaseStep ==
  ASSUME ExecInv, NextPhase
  PROVE  UNCHANGED vars /\ RunInv'
<1>1. UNCHANGED <<vars, error, program, callVars, labelVars, forged,
                  verifyFailures, modeVars>>
  BY DEF NextPhase
<1>2. \/ phase = "evidence" /\ phase' = "premises" /\ left' = Which(program, IsPremise)
      \/ phase = "premises" /\ phase' = "worklist" /\ left' = Which(program, IsPending)
  BY DEF NextPhase
<1>3. ProgramOK'
  BY <1>1, <1>2 DEF ExecInv, RunInv, ProgramOK, Which
<1>4. BusyOK'
  BY <1>1, <1>2 DEF ExecInv, RunInv, BusyOK, Phase, Working, Calling, Statements, callVars
<1>5. ReceiptOK'
  BY <1>1, <1>2 DEF ExecInv, RunInv, ReceiptOK, callVars, vars, modeVars
<1>6. LabelsOK'
  BY <1>1 DEF ExecInv, RunInv, LabelsOK, vars, labelVars
<1>7. CASE phase' = "premises"
  <2>1. PremisesBound'
    BY <1>1, <1>2, <1>7 DEF PremisesBound, Which
  <2>2. DoneOK'
    BY <1>7, <2>1 DEF DoneOK, Working, Calling, StuckNow
  <2>3. QED BY <1>1, <1>3, <1>4, <1>5, <1>6, <2>2 DEF RunInv
<1>8. CASE phase' = "worklist"
  <2>1. PremisesBound /\ left = {}
    BY <1>2, <1>8 DEF ExecInv, RunInv, DoneOK, NextPhase
  <2>2. \A i \in DOMAIN program : i \notin left' => ~IsPending(program[i])
    BY <1>2, <1>8 DEF Which
  <2>3. \A i \in DOMAIN program : i \notin left' /\ program[i].verb \in ClaimVerbs =>
          Bound(program[i].label)
    BY <2>1, <2>2 DEF PremisesBound, IsPending, IsPremise, ClaimVerbs, Premises
  <2>4. \A i \in DOMAIN program : i \notin left' => program[i].verb \notin {"branch", "merge"}
    BY <2>2 DEF IsPending, Premises
  <2>5. DoneBound'
    BY <1>1, <2>3, <2>4 DEF DoneBound, Bound, labelVars
  <2>6. DoneOK'
    BY <1>8, <2>5 DEF DoneOK, StuckNow
  <2>7. QED BY <1>1, <1>3, <1>4, <1>5, <1>6, <2>6 DEF RunInv
<1>9. QED BY <1>2, <1>7, <1>8

LEMMA DeclareEvidenceStep ==
  ASSUME ExecInv, DeclareEvidence
  PROVE  [Next]_vars /\ RunInv'
<1>1. PICK i \in FirstLeft : Declare(program[i]) /\ left' = left \ {i}
  BY DEF DeclareEvidence
<1> DEFINE s == program[i]
<1>2. /\ phase = "evidence" /\ i \in left
      /\ UNCHANGED <<program, callVars, claimLabels, contextLabels, verifyFailures, modeVars>>
  BY DEF DeclareEvidence, FirstLeft
<1>3. s.evidence \in Evidence
  BY <1>2, StatementsAdmitted DEF ExecInv, RunInv, ProgramOK, IsEvidence, Admitted
<1>4. [Next]_vars
  BY <1>1, <1>3 DEF Declare, Record, Next, AddSupport
<1>5. LabelsOK'
  BY <1>1, <1>2, DeclareLabels DEF ExecInv, RunInv
<1>6. /\ phase' = phase \/ (phase' = "error" /\ error' = "EvidenceForgery")
      /\ receipts' = receipts
  BY <1>1 DEF Declare, Record, AddEvidence, vars
<1>7. ProgramOK'
  BY <1>1, <1>2, <1>6 DEF ExecInv, RunInv, ProgramOK
<1>8. BusyOK'
  BY <1>2, <1>6 DEF ExecInv, RunInv, BusyOK, Phase, Terminated, Calling, Statements, callVars
<1>9. ReceiptOK'
  BY <1>2, <1>6 DEF ExecInv, RunInv, ReceiptOK, callVars, modeVars
<1>10. DoneOK'
  BY <1>2, <1>6 DEF DoneOK, Working, Calling, StuckNow
<1>11. QED BY <1>4, <1>5, <1>7, <1>8, <1>9, <1>10 DEF RunInv

LEMMA RunPremiseStep ==
  ASSUME ExecInv, RunPremise
  PROVE  [Next]_vars /\ RunInv'
<1>1. PICK i \in FirstLeft : PremiseStmt(program[i]) /\ left' = left \ {i}
  BY DEF RunPremise
<1> DEFINE s == program[i]
<1>2. /\ phase = "premises" /\ i \in left /\ i \in DOMAIN program
      /\ UNCHANGED <<program, forged, verifyFailures, modeVars>>
  BY DEF RunPremise, FirstLeft, ExecInv, RunInv, ProgramOK
<1>3. Admitted(s) /\ s.verb \in Premises
  BY <1>2, StatementsAdmitted DEF ExecInv, RunInv, ProgramOK, IsPremise
<1>4. CASE Fail("UnknownEvidenceLabel") \/ Fail("UnknownContextLabel")
  BY <1>1, <1>2, <1>4, FailStep DEF ExecInv
<1>5. CASE /\ s.evidence \subseteq DOMAIN evidenceLabels
           /\ s.ctx \in contextLabels /\ StatePremise(s)
  <2>1. /\ Next
        /\ DOMAIN claims' = DOMAIN claims \cup {<<s.label, s.ctx>>}
        /\ UNCHANGED <<evidence, receipts>>
    BY <1>3, <1>5, PremiseIsCall DEF ExecInv, RunInv
  <2>2. /\ Bind(s.label, <<s.label, s.ctx>>)
        /\ UNCHANGED <<phase, error, callVars, contextLabels, evidenceLabels>>
    BY <1>5 DEF StatePremise
  <2>3. LabelsOK' /\ LabelsGrow /\ Bound(s.label)'
    BY <1>2, <1>5, <2>1, <2>2, BindsLabels DEF Binds, ExecInv, RunInv
  <2>4. ProgramOK'
    BY <1>1, <1>2, <2>2 DEF ExecInv, RunInv, ProgramOK
  <2>5. BusyOK'
    BY <1>2, <2>2 DEF ExecInv, RunInv, BusyOK, Phase, Calling, Statements, callVars
  <2>6. ReceiptOK'
    BY <1>2, <2>1, <2>2 DEF ExecInv, RunInv, ReceiptOK, callVars, modeVars
  <2>7. PremisesBound'
    BY <1>1, <1>2, <2>3 DEF ExecInv, RunInv, DoneOK, PremisesBound, LabelsGrow, Bound
  <2>8. DoneOK'
    BY <1>2, <2>2, <2>7 DEF DoneOK, Working, Calling, StuckNow
  <2>9. QED BY <2>1, <2>3, <2>4, <2>5, <2>6, <2>8 DEF RunInv
<1>6. QED BY <1>1, <1>4, <1>5 DEF PremiseStmt

\* If no statement is the first that is ready, none is.
LEMMA NoneReady ==
  ASSUME ProgramOK, FirstReady = {}
  PROVE  \A i \in left : ~Ready(program[i])
<1> DEFINE R == {i \in left : Ready(program[i])}
<1>1. R \in SUBSET Nat
  BY StatementsAdmitted DEF ProgramOK
<1>2. SUFFICES ASSUME R # {} PROVE FALSE
  OBVIOUS
<1>3. PICK i \in R : \A j \in R : i <= j
  BY <1>1, <1>2, LeastIndex
<1>4. \A j \in left : j < i => ~Ready(program[j])
  BY <1>1, <1>3, StatementsAdmitted DEF ProgramOK
<1>5. i \in FirstReady
  BY <1>3, <1>4 DEF FirstReady
<1>6. QED BY <1>5

LEMMA StuckStep ==
  ASSUME ExecInv, Stuck
  PROVE  UNCHANGED vars /\ RunInv'
<1>1. /\ phase = "worklist" /\ phase' = "error" /\ error' = "Unready"
      /\ FirstReady = {}
      /\ UNCHANGED <<vars, callVars, labelVars, left, program, forged, verifyFailures, modeVars>>
  BY DEF Stuck, Fail
<1>2. ProgramOK'
  BY <1>1 DEF ExecInv, RunInv, ProgramOK
<1>3. BusyOK'
  BY <1>1 DEF ExecInv, RunInv, BusyOK, Phase, Terminated, Calling, Statements, callVars
<1>4. ReceiptOK'
  BY <1>1 DEF ExecInv, RunInv, ReceiptOK, callVars, vars, modeVars
<1>5. LabelsOK'
  BY <1>1 DEF ExecInv, RunInv, LabelsOK, vars, labelVars
<1>6. DoneBound
  BY <1>1 DEF ExecInv, RunInv, DoneOK, Working
<1>7. DoneBound'
  BY <1>1, <1>6 DEF DoneBound, Bound, Calling, labelVars
<1>8. \A i \in left : ~Ready(program[i])
  BY <1>1, NoneReady DEF ExecInv, RunInv
<1>9. (\A i \in left : ~Ready(program[i]))'
  BY <1>1, <1>8 DEF Ready, Bound, labelVars
<1>10. DoneOK'
  BY <1>1, <1>7, <1>9 DEF DoneOK
<1>11. QED BY <1>1, <1>2, <1>3, <1>4, <1>5, <1>10 DEF RunInv

LEMMA FinishStep ==
  ASSUME ExecInv, Finish
  PROVE  UNCHANGED vars /\ RunInv'
<1>1. UNCHANGED <<program, left, forged, verifyFailures, modeVars>> /\ phase = "worklist"
  BY DEF Finish
<1>2. CASE Fail("Invariant") \/ Fail("EvidenceForgery")
  BY <1>1, <1>2, FailStep DEF ExecInv
<1>3. CASE phase' = "ok" /\ UNCHANGED <<vars, error, callVars, labelVars>>
  <2>1. ProgramOK'
    BY <1>1, <1>3 DEF ExecInv, RunInv, ProgramOK
  <2>2. BusyOK'
    BY <1>1, <1>3 DEF ExecInv, RunInv, BusyOK, Phase, Terminated, Calling, Statements, callVars
  <2>3. ReceiptOK'
    BY <1>1, <1>3 DEF ExecInv, RunInv, ReceiptOK, callVars, vars, modeVars
  <2>4. LabelsOK'
    BY <1>1, <1>3 DEF ExecInv, RunInv, LabelsOK, vars, labelVars
  <2>5. DoneOK'
    BY <1>3 DEF DoneOK, Working, Calling, StuckNow
  <2>6. QED BY <1>3, <2>1, <2>2, <2>3, <2>4, <2>5 DEF RunInv
<1>4. QED BY <1>2, <1>3 DEF Finish

-----------------------------------------------------------------------------
(* The steps of a discharge and of a call. *)

LEMMA DischargeNextStep ==
  ASSUME ExecInv, DischargeNext
  PROVE  [Next]_vars /\ RunInv'
<1> DEFINE n == Claimed(busy.target)
           open == {o \in claims[n].obligations :
                      o \in DOMAIN obligations /\ obligations[o] = "Pending"}
<1>1. /\ phase = "discharge"
      /\ UNCHANGED <<error, program, left, receipt, issued, labelVars, forged,
                     verifyFailures, modeVars>>
  BY DEF DischargeNext
<1>2. evidenceLabels[busy.by] \in evidence
  BY <1>1 DEF ExecInv, RunInv, BusyOK, LabelsOK
<1>3. /\ [Next]_vars
      /\ DOMAIN claims' = DOMAIN claims /\ UNCHANGED <<evidence, receipts>>
      /\ (phase' = "worklist" /\ busy' = NoStmt) \/ UNCHANGED <<phase, busy>>
  <2>1. CASE open = {}
    BY <2>1 DEF DischargeNext, vars
  <2>2. CASE open # {}
    <3>1. PICK o \in open : Discharge(o, evidenceLabels[busy.by], "Satisfied")
      BY <2>2 DEF DischargeNext
    <3>2. o \in DOMAIN obligations /\ o.target \in Judged
      BY RuntimeAssumption DEF ExecInv, TypeOK, IsMap, Obligation
    <3>3. Next
      BY <1>2, <3>1, <3>2, RuntimeAssumption DEF Next, ObligationCall
    <3>4. UNCHANGED <<phase, busy>>
      BY <2>2 DEF DischargeNext
    <3>5. QED BY <3>1, <3>3, <3>4 DEF Discharge, supportVars
  <2>3. QED BY <2>1, <2>2
<1>4. LabelsOK'
  BY <1>1, <1>3, KeepsLabels DEF Keeps, ExecInv, RunInv, labelVars
<1>5. ProgramOK'
  BY <1>1, <1>3 DEF ExecInv, RunInv, ProgramOK
<1>6. BusyOK'
  BY <1>1, <1>3 DEF ExecInv, RunInv, BusyOK, Phase, Working, Calling, Statements, Bound, labelVars
<1>7. ReceiptOK'
  BY <1>1, <1>3 DEF ExecInv, RunInv, ReceiptOK, modeVars
<1>8. DoneBound
  BY <1>1 DEF ExecInv, RunInv, DoneOK, Working
<1>9. DoneBound'
  BY <1>1, <1>8 DEF DoneBound, Bound, Calling, labelVars
<1>10. DoneOK'
  BY <1>1, <1>3, <1>9 DEF DoneOK, StuckNow
<1>11. QED BY <1>3, <1>4, <1>5, <1>6, <1>7, <1>10 DEF RunInv

\* From one phase of a call to the next.
LEMMA CallingStep ==
  ASSUME ExecInv, phase \in Calling, phase' \in Calling,
         DOMAIN claims' = DOMAIN claims, evidence' = evidence,
         receipts \subseteq receipts', replaying => receipts' = receipts,
         receipt' \in receipts' \cup {NoReceipt},
         phase' = "call" => receipt' = NoReceipt,
         issued' \in Seq(Receipt),
         UNCHANGED <<error, program, left, busy, labelVars, forged, verifyFailures, modeVars>>
  PROVE  RunInv'
<1>1. LabelsOK'
  BY KeepsLabels DEF Keeps, ExecInv, RunInv, labelVars
<1>2. ProgramOK'
  BY DEF ExecInv, RunInv, ProgramOK, Calling
<1>3. BusyOK'
  BY DEF ExecInv, RunInv, BusyOK, Phase, Working, Calling, Statements, Bound, labelVars
<1>4. ReceiptOK'
  BY DEF ExecInv, RunInv, ReceiptOK, modeVars, Calling
<1>5. DoneBound
  BY DEF ExecInv, RunInv, DoneOK, Working
<1>6. DoneBound'
  BY <1>5 DEF DoneBound, Bound, labelVars
<1>7. DoneOK'
  BY <1>6 DEF DoneOK, StuckNow, Calling
<1>8. QED BY <1>1, <1>2, <1>3, <1>4, <1>7 DEF RunInv

\* A replayed call takes a receipt it was given.
LEMMA ReplayCallStep ==
  ASSUME ExecInv, ReplayCall
  PROVE  UNCHANGED vars /\ RunInv'
<1>1. /\ phase = "call" /\ replaying
      /\ UNCHANGED <<program, left, forged, verifyFailures, modeVars>>
  BY DEF ReplayCall
<1>2. CASE Fail("ReplayMissingReceipt")
  BY <1>1, <1>2, FailStep DEF ExecInv
<1>3. CASE \E r \in Preloaded : TakeReceipt(r) /\ UNCHANGED <<vars, issued>>
  <2>1. PICK r \in Preloaded : TakeReceipt(r) /\ UNCHANGED <<vars, issued>>
    BY <1>3
  <2>2. r \in receipts
    BY <1>1, ToSetIsRange DEF Preloaded, ExecInv, RunInv, ReceiptOK
  <2>3. /\ phase' = "register" /\ receipt' = r
        /\ UNCHANGED <<vars, error, busy, issued, labelVars>>
    BY <2>1 DEF TakeReceipt
  <2>4. issued \in Seq(Receipt)
    BY DEF ExecInv, RunInv, ReceiptOK
  <2>5. QED BY <1>1, <2>2, <2>3, <2>4, CallingStep DEF Calling, vars
<1>4. QED BY <1>2, <1>3 DEF ReplayCall

\* A live call records the receipt it is issued.
LEMMA LiveCallStep ==
  ASSUME ExecInv, LiveCall
  PROVE  [Next]_vars /\ RunInv'
<1>1. /\ phase = "call" /\ ~replaying
      /\ UNCHANGED <<program, left, forged, verifyFailures, modeVars>>
  BY DEF LiveCall
<1>2. CASE Fail("CapabilityDenied") \/ Fail("External")
  BY <1>1, <1>2, FailStep DEF ExecInv
<1>3. ASSUME NEW r \in Receipt, TakeReceipt(r),
             AddReceipt(r) \/ (r \in receipts /\ UNCHANGED vars),
             issued' = IF Seqs!Contains(issued, r) THEN issued ELSE Append(issued, r)
      PROVE  [Next]_vars /\ RunInv'
  <2>1. issued' \in Seq(Receipt)
    BY <1>3 DEF ExecInv, RunInv, ReceiptOK
  <2>2. [Next]_vars
    BY <1>3 DEF Next, AddSupport
  <2>3. /\ DOMAIN claims' = DOMAIN claims /\ evidence' = evidence
        /\ receipts \subseteq receipts' /\ r \in receipts'
    BY <1>3 DEF AddReceipt, vars
  <2>4. /\ phase' = "register" /\ receipt' = r /\ UNCHANGED <<error, busy, labelVars>>
    BY <1>3 DEF TakeReceipt
  <2>5. QED BY <1>1, <2>1, <2>2, <2>3, <2>4, CallingStep DEF Calling
<1>4. QED BY <1>2, <1>3 DEF LiveCall

\* What a statement that is called registers is what the bounds admit.
LEMMA BusyAdmitted ==
  ASSUME ExecInv, phase \in Calling
  PROVE  /\ Admitted(busy) /\ busy.verb = "call"
         /\ \A i \in DOMAIN busy.inputs : Bound(busy.inputs[i])
         /\ busy.ctx \in contextLabels
         /\ CallDefinition(busy, CallInputs) \in Definition
<1>1. /\ busy \in Statements /\ busy.verb = "call"
      /\ \A i \in DOMAIN busy.inputs : Bound(busy.inputs[i])
      /\ busy.ctx \in contextLabels
  BY DEF ExecInv, RunInv, BusyOK
<1>2. Admitted(busy)
  BY <1>1, StatementsAdmitted, ToSetIsRange DEF Statements, ExecInv, RunInv
<1>3. CallInputs \in [DOMAIN busy.inputs -> Value]
  <2>1. Nodes(busy.inputs) \in [DOMAIN busy.inputs -> DOMAIN claims]
    BY <1>1 DEF ExecInv, RunInv, LabelsOK, Bound, Nodes, Claimed
  <2>2. \A n \in DOMAIN claims : claims[n].value \in Value
    BY DEF ExecInv, TypeOK, IsMap, Claim
  <2>3. QED BY <2>1, <2>2 DEF CallInputs, Vals
<1>4. CallDefinition(busy, CallInputs) \in Definition
  BY <1>1, <1>2, <1>3 DEF Admitted
<1>5. QED BY <1>1, <1>2, <1>4

LEMMA RegisterCallStep ==
  ASSUME ExecInv, RegisterCall
  PROVE  [Next]_vars /\ RunInv'
<1>1. /\ phase = "register" /\ phase' = "apply"
      /\ UNCHANGED <<error, program, left, callVars, labelVars, forged, verifyFailures, modeVars>>
      /\ RegisterOp(CallDefinition(busy, CallInputs))
  BY DEF RegisterCall
<1>2. [Next]_vars
  BY <1>1, BusyAdmitted DEF Calling, Next, AddSupport
<1>3. /\ DOMAIN claims' = DOMAIN claims /\ evidence' = evidence /\ receipts' = receipts
  BY <1>1 DEF RegisterOp, vars
<1>4. receipt \in receipts \cup {NoReceipt} /\ issued \in Seq(Receipt)
  BY DEF ExecInv, RunInv, ReceiptOK
<1>5. QED BY <1>1, <1>2, <1>3, <1>4, CallingStep DEF Calling, callVars

\* The call's claim is bound before the worklist goes on.
LEMMA ApplyCallStep ==
  ASSUME ExecInv, ApplyCall
  PROVE  [Next]_vars /\ RunInv'
<1> PICK s : s = busy
  OBVIOUS
<1> PICK rcpt : rcpt = receipt
  OBVIOUS
<1> PICK op : op = busy.op
  OBVIOUS
<1>1. /\ phase = "apply" /\ DeriveTo(s, op, rcpt) /\ op \in {s.op, Core(s.op)}
      /\ UNCHANGED <<program, left, forged, verifyFailures, modeVars>>
  BY DEF ApplyCall
<1>2. rcpt \in Receipt \cup {NoReceipt}
  BY DEF ExecInv, RunInv, ReceiptOK, TypeOK
<1>3. CASE Fail("CannotDerive")
  BY <1>1, <1>3, FailStep DEF ExecInv
<1>4. CASE /\ Next /\ Binds(s)
           /\ phase' = "worklist" /\ busy' = NoStmt /\ receipt' = NoReceipt
           /\ UNCHANGED <<error, issued, receipts>>
  <2>1. LabelsOK' /\ LabelsGrow /\ Bound(s.label)'
    BY <1>4, BindsLabels DEF ExecInv, RunInv
  <2>2. ProgramOK'
    BY <1>1, <1>4 DEF ExecInv, RunInv, ProgramOK
  <2>3. BusyOK'
    BY <1>4 DEF BusyOK, Phase, Working, Calling
  <2>4. ReceiptOK'
    BY <1>1, <1>4 DEF ExecInv, RunInv, ReceiptOK, modeVars
  <2>5. DoneBound
    BY <1>1 DEF ExecInv, RunInv, DoneOK, Working, Calling
  <2>6. DoneBound'
    BY <1>1, <2>1, <2>5 DEF DoneBound, LabelsGrow, Bound
  <2>7. DoneOK'
    BY <1>4, <2>6 DEF DoneOK, StuckNow
  <2>8. QED BY <1>4, <2>1, <2>2, <2>3, <2>4, <2>7 DEF RunInv
<1>5. QED
  BY <1>1, <1>2, <1>3, <1>4, BusyAdmitted, DeriveToBinds DEF Calling, ExecInv, RunInv

-----------------------------------------------------------------------------
(* The theorems. *)

\* A step is a call of the calculus or the opening of a new Runtime, and keeps
\* the invariant.
LEMMA ExecStep ==
  ASSUME ExecInv, [ExecNext]_execVars
  PROVE  /\ [Next]_vars \/ FreshModule(Registry(Builtin), Seqs!ToSet(issued))
         /\ ExecInv'
<1>1. ASSUME [Next]_vars, RunInv' PROVE ExecInv'
  BY <1>1, TypeStep DEF ExecInv
<1>2. CASE UNCHANGED execVars
  <2>1. RunInv'
    BY <1>2 DEF execVars, vars, callVars, labelVars, modeVars, ExecInv, RunInv, ProgramOK,
       BusyOK, ReceiptOK, LabelsOK, DoneOK, DoneBound, PremisesBound, StuckNow, Statements,
       Bound, Ready
  <2>2. QED BY <1>1, <1>2, <2>1 DEF execVars
<1>3. ASSUME NEW p \in Program \cup Followup, Execute(p)
      PROVE  UNCHANGED vars /\ RunInv'
  BY <1>3, ExecuteStep
<1>4. CASE Replay
  BY <1>4, ReplayStep
<1>5. ASSUME Step PROVE [Next]_vars /\ RunInv'
  BY <1>5, NextPhaseStep, DeclareEvidenceStep, RunPremiseStep, RunReadyStep, StuckStep,
     DischargeNextStep, ReplayCallStep, LiveCallStep, RegisterCallStep, ApplyCallStep,
     FinishStep DEF Step
<1>6. CASE \E p \in (IF executions = 0 THEN Program ELSE Followup) : Execute(p)
  <2>1. PICK p \in Program \cup Followup : Execute(p)
    BY <1>6
  <2>2. QED BY <1>1, <1>3, <2>1
<1>7. QED BY <1>1, <1>2, <1>4, <1>5, <1>6 DEF ExecNext

LEMMA ExecInitial == ExecInit => ExecInv
<1> SUFFICES ASSUME ExecInit PROVE ExecInv
  OBVIOUS
<1>1. TypeOK
  <2>1. IsMap(operations, Operation, OperationDef)
    BY BuiltinType DEF ExecInit, IsMap
  <2>2. QED BY <2>1 DEF ExecInit, TypeOK, IsMap
<1>2. ProgramOK /\ BusyOK
  BY DEF ExecInit, ProgramOK, BusyOK, Phase, Calling
<1>3. ReceiptOK
  BY DEF ExecInit, ReceiptOK
<1>4. LabelsOK
  BY DEF ExecInit, LabelsOK
<1>5. DoneOK
  BY DEF ExecInit, DoneOK, Working, Calling, StuckNow
<1>6. QED BY <1>1, <1>2, <1>3, <1>4, <1>5 DEF ExecInv, RunInv

\* The invariant holds along every sequence of executions and replays.
THEOREM ExecInvariant == ExecSpec => []ExecInv
<1>1. ExecInv /\ [ExecNext]_execVars => ExecInv'
  BY ExecStep
<1>2. QED BY <1>1, ExecInitial, PTL DEF ExecSpec

\* Every step of every execution (runtime.rs:186-771), the steps of an external
\* call and those of one that fails half-way included, is a call of the module's
\* calculus, opens a new Runtime, or leaves the module alone.
THEOREM RuntimeStepsTheorem == ExecSpec => StepsAreCalculus
<1>1. ExecInv /\ [ExecNext]_execVars
        => [Next \/ FreshModule(Registry(Builtin), Seqs!ToSet(issued))]_vars
  BY ExecStep
<1>2. QED BY <1>1, ExecInvariant, PTL DEF ExecSpec, StepsAreCalculus

\* Every label a Runtime has bound (runtime.rs:18-77), after an error too,
\* names a recorded claim or evidence node, and the receipts of a replay stay
\* the ones it was given.
THEOREM ExecTypeTheorem == ExecSpec => []ExecTypeOK
<1>1. ExecInv => ExecTypeOK
  BY DEF ExecInv, RunInv, ExecTypeOK, ProgramOK, BusyOK, ReceiptOK, LabelsOK, Phase,
     Working, Calling
<1>2. QED BY <1>1, ExecInvariant, PTL

\* What the calculus guarantees holds of the module at every moment of every
\* execution, of what an error left behind and of a replay: no id dangles, the
\* log explains every status, and a verified claim has a complete derivation.
THEOREM ExecutionsKeepCalculus ==
  ExecSpec => [](TypeOK /\ Grounded /\ LogExplainsStatus /\ VerifiedIsSupported)
<1> DEFINE Kept == Grounded /\ LogExplainsStatus /\ SupportInv
<1>1. ExecInit => Kept
  BY DEF ExecInit, Grounded, LogExplainsStatus, SupportInv, VerifiedIsSupported,
     PremiseUnderived, ReceiptsHonoured
<1>2. ExecInv /\ Kept /\ [ExecNext]_execVars => Kept'
  <2> SUFFICES ASSUME ExecInv, Kept, [ExecNext]_execVars PROVE Kept'
    OBVIOUS
  <2>1. CASE [Next]_vars
    BY <2>1, GroundedStep, LogKept, SupportStep DEF ExecInv
  <2>2. CASE FreshModule(Registry(Builtin), Seqs!ToSet(issued))
    BY <2>2 DEF FreshModule, Grounded, LogExplainsStatus, SupportInv, VerifiedIsSupported,
       PremiseUnderived, ReceiptsHonoured
  <2>3. QED BY <2>1, <2>2, ExecStep
<1>3. ExecInv => TypeOK
  BY DEF ExecInv
<1>4. Kept => VerifiedIsSupported
  BY DEF SupportInv
<1>5. QED BY <1>1, <1>2, <1>3, <1>4, ExecInvariant, PTL DEF ExecSpec

\* Before its first execution a Runtime holds nothing, no claim is stated before the
\* evidence has been checked, and an execution accepts nothing forged.
Authentic ==
  /\ executions \in 0..MaxExecutions
  /\ replaying => executions = MaxExecutions
  /\ executions = 0 => phase = "idle" /\ claims = <<>> /\ forged = {}
  /\ New /\ phase = "evidence" => claims = <<>> /\ forged = {}
  /\ New /\ forged # {} => phase = "error" /\ claims = <<>>
  /\ phase = "ok" /\ TrustRoots # {} => forged = {}

\* The steps after phase 1 leave what is forged alone, and only Finish accepts.
LEMMA LaterStep ==
  ASSUME Step, ~DeclareEvidence
  PROVE  /\ UNCHANGED <<forged, modeVars>>
         /\ phase \notin {"idle", "error"} \cup Terminated /\ phase' # "evidence"
         /\ phase' = "ok" => forged = {} \/ TrustRoots = {}
<1>1. ASSUME NEW s, PremiseStmt(s), phase = "premises"
      PROVE  phase' \notin {"ok", "evidence"}
  BY <1>1 DEF PremiseStmt, Fail, StatePremise
<1>2. ASSUME NEW s, ExecStmt(s), phase = "worklist"
      PROVE  phase' \notin {"ok", "evidence"}
  BY <1>2 DEF ExecStmt, DeriveStmt, DeriveTo, RequireStmt, DischargeStmt, VerifyStmt,
     StatusStmt, ContradictStmt, ContextStmt, CallStmt, Quiet, Fail
<1>3. CASE RunPremise \/ RunReady
  BY <1>1, <1>2, <1>3 DEF RunPremise, RunReady, Terminated
<1>4. CASE NextPhase \/ Stuck \/ DischargeNext \/ ReplayCall \/ LiveCall \/ RegisterCall
  BY <1>4 DEF NextPhase, Stuck, DischargeNext, ReplayCall, LiveCall, RegisterCall,
     TakeReceipt, Fail, Terminated
<1>5. CASE ApplyCall
  BY <1>5 DEF ApplyCall, DeriveTo, Fail, Terminated
<1>6. CASE Finish
  BY <1>6 DEF Finish, Fail, Terminated
<1>7. QED BY <1>3, <1>4, <1>5, <1>6 DEF Step

\* Evidence is declared before anything rests on it (runtime.rs:205-209, 366-396),
\* what fails its check stops the execution, and what a stopped execution leaves
\* behind the final check refuses (256-260).
THEOREM AuthenticTheorem == ExecSpec => []AuthenticBasis
<1>1. ExecInit => Authentic
  BY RuntimeAssumption DEF ExecInit, Authentic, New
<1>2. Authentic /\ [ExecNext]_execVars => Authentic'
  <2> SUFFICES ASSUME Authentic, [ExecNext]_execVars PROVE Authentic'
    OBVIOUS
  <2>1. ASSUME NEW p, Execute(p) PROVE Authentic'
    <3>1. /\ executions < MaxExecutions /\ executions' = executions + 1
          /\ phase' \in {"error", "evidence"} /\ phase \in {"idle", "ok", "error"}
          /\ UNCHANGED <<claims, forged, replaying>>
      BY <2>1 DEF Execute, Begin, vars
    <3>2. executions \in Nat /\ ~replaying
      BY <3>1, RuntimeAssumption DEF Authentic
    <3>3. New' => executions = 0
      BY <3>1, <3>2 DEF New
    <3>4. QED BY <3>1, <3>2, <3>3, RuntimeAssumption DEF Authentic
  <2>2. CASE Replay
    <3>1. /\ executions = 1 /\ replaying' = TRUE /\ executions' = MaxExecutions
          /\ phase' \in {"error", "evidence"} /\ claims' = <<>> /\ forged' = {}
      BY <2>2 DEF Replay, Begin, FreshModule, FreshLabels
    <3>2. QED BY <3>1, RuntimeAssumption DEF Authentic
  <2>3. CASE DeclareEvidence
    <3>1. phase = "evidence" /\ UNCHANGED <<claims, executions, replaying>>
      BY <2>3 DEF DeclareEvidence, Declare, Record, AddEvidence, vars, modeVars
    <3>2. (forged' \subseteq forged /\ phase' = phase) \/ phase' = "error"
      BY <2>3 DEF DeclareEvidence, Declare
    <3>3. New' = New
      BY <3>1 DEF New
    <3>4. QED BY <3>1, <3>2, <3>3 DEF Authentic
  <2>4. CASE Step /\ ~DeclareEvidence
    <3>1. UNCHANGED <<forged, executions, replaying>> /\ New' = New
      BY <2>4, LaterStep DEF modeVars, New
    <3>2. QED BY <2>4, <3>1, LaterStep DEF Authentic, Terminated
  <2>5. CASE UNCHANGED execVars
    BY <2>5 DEF execVars, vars, modeVars, Authentic, New
  <2>6. QED BY <2>1, <2>2, <2>3, <2>4, <2>5 DEF ExecNext
<1>3. Authentic => AuthenticBasis
  BY DEF Authentic, AuthenticBasis
<1>4. QED BY <1>1, <1>2, <1>3, PTL DEF ExecSpec

\* What is done is bound, and what is not ready lacks one of the labels it waits
\* for.
LEMMA StuckLacks ==
  ASSUME LabelsOK, DoneBound, StuckNow, NEW i \in left, ~Ready(program[i])
  PROVE  LET s == program[i]
             done == {program[k] : k \in DOMAIN program \ left}
             bound == DeclaredBy(done, ClaimVerbs)
             open == {RootLabel} \cup DeclaredBy(done, {"branch", "merge"}) IN
         \/ ~(NeededClaims(s) \subseteq bound)
         \/ ~(NeededContexts(s) \subseteq open)
         \/ s.verb = "derive" /\ s.receipt
         \/ s.verb = "discharge" /\ s.by \notin bound \cup DOMAIN evidenceLabels
<1> DEFINE s == program[i]
           done == {program[k] : k \in DOMAIN program \ left}
           bound == DeclaredBy(done, ClaimVerbs)
           open == {RootLabel} \cup DeclaredBy(done, {"branch", "merge"})
<1>1. bound \subseteq DOMAIN claimLabels
  BY DEF DeclaredBy, Declares, DoneBound, Bound, StuckNow, Calling
<1>2. open \subseteq contextLabels
  BY DEF DeclaredBy, Declares, DoneBound, LabelsOK
<1> HIDE DEF bound, open
<1> SUFFICES ASSUME NeededClaims(s) \subseteq bound, NeededContexts(s) \subseteq open,
                    ~(s.verb = "derive" /\ s.receipt),
                    ~(s.verb = "discharge" /\ s.by \notin bound \cup DOMAIN evidenceLabels)
             PROVE  Ready(s)
  BY DEF bound, open
<1>3. CASE s.verb \in {"derive", "call"}
  <2>1. \A k \in DOMAIN s.inputs : s.inputs[k] \in NeededClaims(s)
    BY <1>3, ToSetIsRange DEF NeededClaims
  <2>2. \A k \in DOMAIN s.inputs : Bound(s.inputs[k])
    BY <1>1, <2>1 DEF Bound
  <2>3. CASE s.verb = "derive"
    <3>1. ~s.receipt
      BY <2>3
    <3>2. QED BY <2>2, <2>3, <3>1 DEF Ready
  <2>4. CASE s.verb = "call"
    BY <2>2, <2>4 DEF Ready
  <2>5. QED BY <1>3, <2>3, <2>4
<1>4. CASE s.verb \in {"branch", "merge", "contradict"}
  BY <1>1, <1>2, <1>4 DEF NeededClaims, NeededContexts, Ready, Bound
<1>5. CASE s.verb \notin {"derive", "call", "branch", "merge", "contradict"}
  <2>1. Bound(s.target)
    BY <1>1, <1>5 DEF NeededClaims, Bound
  <2>2. s.verb = "discharge" => s.by \in DOMAIN evidenceLabels \cup DOMAIN claimLabels
    BY <1>1
  <2>3. QED BY <1>5, <2>1, <2>2 DEF Ready
<1>6. QED BY <1>3, <1>4, <1>5

\* The worklist gives up only when it has to (runtime.rs:230-246).
THEOREM StuckTheorem == ExecSpec => []StuckIsGenuine
<1>1. ExecInv => StuckIsGenuine
  <2> SUFFICES ASSUME ExecInv, StuckNow PROVE StuckIsGenuine
    BY DEF StuckIsGenuine, StuckNow
  <2>1. LabelsOK /\ DoneBound /\ \A i \in left : ~Ready(program[i])
    BY DEF ExecInv, RunInv, DoneOK
  <2>2. QED BY <2>1, StuckLacks DEF StuckIsGenuine
<1>2. QED BY <1>1, ExecInvariant, PTL

-----------------------------------------------------------------------------
(* Replay.  The interpreter is given a second time, as a function from one *)
(* state of an execution to the next: `After`, with the receipts R that    *)
(* calls will be issued.  A live execution follows it for every R that     *)
(* holds what was and will be issued, a replay for the receipts it was     *)
(* given; both start alike, so they end alike.                             *)

\* The part of the state that decides how an execution goes on.
St(ph, lft, cls, obs, ders, ops, labels, ctxs, evs, frg) ==
  [phase |-> ph, left |-> lft, claims |-> cls, obs |-> obs, ders |-> ders,
   ops |-> ops, labels |-> labels, ctxs |-> ctxs, evs |-> evs, forged |-> frg]

Halted == [phase |-> "error"]

Now == St(phase, left, claims, obligations, derivations, operations, claimLabels,
          contextLabels, evidenceLabels, forged)

\* An execution of p on a new Runtime.
Start(p) ==
  St("evidence", Which(p, IsEvidence), <<>>, <<>>, {}, Registry(Builtin), <<>>,
     {RootLabel}, <<>>, {})

Enter(m, ph, lft) ==
  St(ph, lft, m.claims, m.obs, m.ders, m.ops, m.labels, m.ctxs, m.evs, m.forged)

Without(m, i) == Enter(m, m.phase, m.left \ {i})

Least(S) == CHOOSE i \in S : \A j \in S : i <= j

BadSignature(s) == s.evidence \in Trusted /\ ~(s.signed /\ s.provider \in TrustRoots)

DeclareIn(m, s) ==
  IF BadSignature(s) THEN Halted
  ELSE St(m.phase, m.left, m.claims, m.obs, m.ders, m.ops, m.labels, m.ctxs,
          Put(m.evs, s.label, s.evidence), m.forged \ {s.evidence})

EvidenceOfIn(m, s) == IF s.verb = "assume" THEN {} ELSE {m.evs[l] : l \in s.evidence}

PremiseIn(m, s) ==
  PremiseClaim(<<s.label, s.ctx>>, s.value, EvidenceOfIn(m, s),
    CASE s.verb = "assert" -> "Asserted" [] s.verb = "observe" -> "Observed"
      [] OTHER -> "Assumed",
    IF s.verb = "assume" THEN {[claim |-> <<s.label, s.ctx>>]} ELSE {})

StateIn(m, s) ==
  IF s.evidence \subseteq DOMAIN m.evs /\ s.ctx \in m.ctxs
    THEN St(m.phase, m.left, Put(m.claims, <<s.label, s.ctx>>, PremiseIn(m, s)),
            PutAll(m.obs, [o \in AssertedObligations(<<s.label, s.ctx>>, EvidenceOfIn(m, s))
                             |-> "Pending"]),
            m.ders, m.ops, Put(m.labels, s.label, <<s.label, s.ctx>>), m.ctxs, m.evs,
            m.forged)
    ELSE Halted

ReadyIn(m, s) ==
  CASE s.verb = "derive" -> ~s.receipt /\ \A i \in DOMAIN s.inputs : s.inputs[i] \in DOMAIN m.labels
    [] s.verb = "call" -> \A i \in DOMAIN s.inputs : s.inputs[i] \in DOMAIN m.labels
    [] s.verb = "discharge" ->
         s.target \in DOMAIN m.labels /\ s.by \in DOMAIN m.evs \cup DOMAIN m.labels
    [] s.verb = "contradict" -> s.a \in DOMAIN m.labels /\ s.b \in DOMAIN m.labels
    [] s.verb = "branch" -> s.parent \in m.ctxs
    [] s.verb = "merge" -> s.a \in m.ctxs /\ s.b \in m.ctxs
    [] OTHER -> s.target \in DOMAIN m.labels

InputsIn(m, s) == [i \in DOMAIN s.inputs |-> m.labels[s.inputs[i]]]

ValsIn(m, s) == [i \in DOMAIN s.inputs |-> m.claims[m.labels[s.inputs[i]]].value]

CanDeriveIn(m, s, op, rcpt) ==
  /\ op \in DOMAIN m.ops
  /\ Accepts(m.ops[op].types, ValsIn(m, s))
  /\ IF rcpt = NoReceipt
       THEN /\ ~ReceiptGated(m.ops[op])
            /\ Exec(op, ValsIn(m, s)) \in Value
            /\ Yields(m.ops[op].types, Exec(op, ValsIn(m, s)))
       ELSE rcpt.inputs = ValsIn(m, s) /\ rcpt.provider \in TrustRoots

GeneratedIn(m, op, out) ==
  {[kind |-> k, target |-> out,
    severity |-> IF k \in MandatoryKinds THEN "Mandatory" ELSE "Advisory"] :
     k \in m.ops[op].generates}

DerivedIn(m, s, op, rcpt) ==
  [status |-> "Pending",
   value |-> IF rcpt = NoReceipt THEN Exec(op, ValsIn(m, s)) ELSE rcpt.output,
   assumptions |-> UNION {m.claims[n].assumptions : n \in InputNodes(InputsIn(m, s))},
   evidence |-> UNION {m.claims[n].evidence : n \in InputNodes(InputsIn(m, s))},
   derivation |-> [op |-> op, inputs |-> InputsIn(m, s), output |-> <<s.label, s.ctx>>,
                   receipt |-> rcpt],
   obligations |-> GeneratedIn(m, op, <<s.label, s.ctx>>)]

DeriveIn(m, s, op, rcpt) ==
  IF CanDeriveIn(m, s, op, rcpt)
    THEN St(m.phase, m.left, Put(m.claims, <<s.label, s.ctx>>, DerivedIn(m, s, op, rcpt)),
            PutAll(m.obs, [o \in GeneratedIn(m, op, <<s.label, s.ctx>>)
                             |-> GeneratedState(o, rcpt)]),
            m.ders \cup {DerivedIn(m, s, op, rcpt).derivation}, m.ops,
            Put(m.labels, s.label, <<s.label, s.ctx>>), m.ctxs, m.evs, m.forged)
    ELSE Halted

\* A whole call: the receipt that is issued for it, the operation, the derivation.
FitsIn(m, s, R) ==
  {r \in R : r.op = s.op /\ r.inputs = ValsIn(m, s) /\ r.provider \in TrustRoots}

Registered(m, s) ==
  St(m.phase, m.left, m.claims, m.obs, m.ders,
     Put(m.ops, s.op, CallDefinition(s, ValsIn(m, s))), m.labels, m.ctxs, m.evs, m.forged)

CallIn(m, s, R) ==
  IF FitsIn(m, s, R) = {} THEN Halted
  ELSE DeriveIn(Registered(m, s), s, s.op, CHOOSE r \in FitsIn(m, s, R) : TRUE)

RequiredIn(m, s) == [kind |-> s.kind, target |-> m.labels[s.target], severity |-> "Mandatory"]

RequireIn(m, s) ==
  St(m.phase, m.left,
     IF m.labels[s.target] \in DOMAIN m.claims
       THEN [m.claims EXCEPT ![m.labels[s.target]].obligations = @ \cup {RequiredIn(m, s)}]
       ELSE m.claims,
     Put(m.obs, RequiredIn(m, s), "Pending"), m.ders, m.ops, m.labels, m.ctxs, m.evs,
     m.forged)

\* A whole discharge: every pending obligation of the claim.
DischargeIn(m, s) ==
  St(m.phase, m.left, m.claims,
     [o \in DOMAIN m.obs |->
        IF o \in m.claims[m.labels[s.target]].obligations /\ m.obs[o] = "Pending"
          THEN "Satisfied" ELSE m.obs[o]],
     m.ders, m.ops, m.labels, m.ctxs, m.evs, m.forged)

OpenIn(m, n) ==
  /\ n \in DOMAIN m.claims
  /\ m.claims[n].derivation # NoDerivation
  /\ \A o \in m.claims[n].obligations :
       o \in DOMAIN m.obs /\ (o.severity = "Mandatory" => m.obs[o] \in Discharged)
  /\ m.claims[n].derivation \in m.ders
  /\ m.claims[n].derivation.op \in DOMAIN m.ops
  /\ External(m.ops[m.claims[n].derivation.op]) => m.claims[n].derivation.receipt # NoReceipt

StatusIn(m, s, status) ==
  St(m.phase, m.left, [m.claims EXCEPT ![m.labels[s.target]].status = status],
     m.obs, m.ders, m.ops, m.labels, m.ctxs, m.evs, m.forged)

VerifyIn(m, s) ==
  IF OpenIn(m, m.labels[s.target]) THEN StatusIn(m, s, "Verified") ELSE m

ContextIn(m, s) ==
  IF s.verb = "branch" /\ ~(s.assumptions \subseteq DOMAIN m.labels) THEN Halted
  ELSE St(m.phase, m.left, m.claims, m.obs, m.ders, m.ops, m.labels,
          m.ctxs \cup {s.label}, m.evs, m.forged)

MeantIn(m, op) == IF op \in DOMAIN m.ops THEN op ELSE Core(op)

RunIn(m, s, R) ==
  CASE s.verb = "derive" ->
         IF MeantIn(m, s.op) \in DOMAIN m.ops /\ s.ctx \in m.ctxs
           THEN DeriveIn(m, s, MeantIn(m, s.op), NoReceipt) ELSE Halted
    [] s.verb = "call" -> IF s.ctx \in m.ctxs THEN CallIn(m, s, R) ELSE Halted
    [] s.verb = "require" -> RequireIn(m, s)
    [] s.verb = "discharge" -> IF s.by \in DOMAIN m.evs THEN DischargeIn(m, s) ELSE Halted
    [] s.verb = "verify" -> VerifyIn(m, s)
    [] s.verb = "challenge" -> StatusIn(m, s, "Challenged")
    [] s.verb = "invalidate" -> StatusIn(m, s, "Invalidated")
    [] s.verb = "attest" -> StatusIn(m, s, "ExternallyAttested")
    [] s.verb \in {"branch", "merge"} -> ContextIn(m, s)
    [] OTHER -> m

FinishIn(m) ==
  IF \/ \E n \in DOMAIN m.claims : m.claims[n].status = "Verified" /\ ~OpenIn(m, n)
     \/ m.forged # {} /\ TrustRoots # {}
    THEN Halted ELSE Enter(m, "ok", m.left)

ReadyOf(m, p) == {i \in m.left : ReadyIn(m, p[i])}

\* One statement, or one phase.
After(m, p, R) ==
  CASE m.phase = "evidence" ->
         IF m.left = {} THEN Enter(m, "premises", Which(p, IsPremise))
         ELSE DeclareIn(Without(m, Least(m.left)), p[Least(m.left)])
    [] m.phase = "premises" ->
         IF m.left = {} THEN Enter(m, "worklist", Which(p, IsPending))
         ELSE StateIn(Without(m, Least(m.left)), p[Least(m.left)])
    [] m.phase = "worklist" ->
         IF m.left = {} THEN FinishIn(m)
         ELSE IF ReadyOf(m, p) = {} THEN Halted
         ELSE RunIn(Without(m, Least(ReadyOf(m, p))), p[Least(ReadyOf(m, p))], R)
    [] OTHER -> m

\* Where an execution under way is, a discharge or a call under way completed.
Worklist == Enter(Now, "worklist", left)

Ahead(R) ==
  CASE phase = "error" -> Halted
    [] phase = "discharge" -> DischargeIn(Worklist, busy)
    [] phase \in Calling -> CallIn(Worklist, busy, R)
    [] OTHER -> Now

-----------------------------------------------------------------------------
(* The functions say of a state what the interpreter's operators say. *)

LEMMA Fields ==
  ASSUME NEW ph, NEW lft, NEW cls, NEW obs, NEW ders, NEW ops, NEW labels, NEW ctxs,
         NEW evs, NEW frg, NEW m, m = St(ph, lft, cls, obs, ders, ops, labels, ctxs, evs, frg)
  PROVE  /\ m.phase = ph /\ m.left = lft /\ m.claims = cls /\ m.obs = obs
         /\ m.ders = ders /\ m.ops = ops /\ m.labels = labels /\ m.ctxs = ctxs
         /\ m.evs = evs /\ m.forged = frg
BY DEF St

\* m is the present state, up to its phase and the statements left.
Mirrors(m) ==
  /\ m.claims = claims /\ m.obs = obligations /\ m.ders = derivations
  /\ m.ops = operations /\ m.labels = claimLabels /\ m.ctxs = contextLabels
  /\ m.evs = evidenceLabels /\ m.forged = forged

LEMMA NowMirrors == Mirrors(Now) /\ Now.phase = phase /\ Now.left = left
BY Fields DEF Now, Mirrors

LEMMA EnterMirrors ==
  ASSUME NEW ph, NEW lft
  PROVE  /\ Mirrors(Enter(Now, ph, lft))
         /\ Enter(Now, ph, lft).phase = ph /\ Enter(Now, ph, lft).left = lft
         /\ Enter(Now, ph, lft) = St(ph, lft, claims, obligations, derivations, operations,
                                     claimLabels, contextLabels, evidenceLabels, forged)
<1>1. Enter(Now, ph, lft) = St(ph, lft, claims, obligations, derivations, operations,
                               claimLabels, contextLabels, evidenceLabels, forged)
  BY NowMirrors DEF Enter, Mirrors
<1>2. QED BY <1>1, Fields DEF Mirrors

LEMMA ReadyMirrored == ASSUME NEW m, Mirrors(m), NEW s PROVE ReadyIn(m, s) <=> Ready(s)
BY DEF Mirrors, ReadyIn, Ready, Bound

LEMMA GateMirrored == ASSUME NEW m, Mirrors(m), NEW n PROVE OpenIn(m, n) <=> GateOpen(n)
BY DEF Mirrors, OpenIn, GateOpen, Exists, ObligationsDischarged, DerivationComplete

LEMMA InputsMirrored ==
  ASSUME NEW m, Mirrors(m), NEW s
  PROVE  InputsIn(m, s) = Nodes(s.inputs) /\ ValsIn(m, s) = Vals(Nodes(s.inputs))
BY DEF Mirrors, InputsIn, ValsIn, Nodes, Vals, Claimed

LEMMA CanDeriveMirrored ==
  ASSUME NEW m, Mirrors(m), LabelsOK, NEW s, NEW op,
         NEW rcpt \in receipts \cup {NoReceipt},
         \A i \in DOMAIN s.inputs : Bound(s.inputs[i])
  PROVE  CanDeriveIn(m, s, op, rcpt) <=> CanDerive(op, Nodes(s.inputs), rcpt, TrustRoots)
<1>1. \A i \in DOMAIN Nodes(s.inputs) : Exists(Nodes(s.inputs)[i])
  BY DEF LabelsOK, Nodes, Claimed, Exists, Bound
<1>2. m.ops = operations
  BY DEF Mirrors
<1>3. ValsIn(m, s) = Vals(Nodes(s.inputs))
  BY InputsMirrored
<1>4. CASE rcpt = NoReceipt
  BY <1>1, <1>2, <1>3, <1>4 DEF CanDeriveIn, CanDerive, Executes
<1>5. CASE rcpt # NoReceipt
  BY <1>1, <1>2, <1>3, <1>5 DEF CanDeriveIn, CanDerive, ReceiptAccepted
<1>6. QED BY <1>4, <1>5

\* A derivation of the interpreter.
LEMMA DeriveMirrored ==
  ASSUME NEW m, Mirrors(m), NEW s, NEW op, NEW rcpt,
         Derive(op, Nodes(s.inputs), <<s.label, s.ctx>>, rcpt, TrustRoots)
  PROVE  /\ claims' = Put(m.claims, <<s.label, s.ctx>>, DerivedIn(m, s, op, rcpt))
         /\ obligations' = PutAll(m.obs, [o \in GeneratedIn(m, op, <<s.label, s.ctx>>)
                                            |-> GeneratedState(o, rcpt)])
         /\ derivations' = m.ders \cup {DerivedIn(m, s, op, rcpt).derivation}
         /\ operations' = m.ops
<1>1. DerivedIn(m, s, op, rcpt) = DerivedClaim(op, Nodes(s.inputs), <<s.label, s.ctx>>, rcpt)
  BY InputsMirrored DEF Mirrors, DerivedIn, DerivedClaim, Output, GeneratedIn, GeneratedObligations
<1>2. GeneratedIn(m, op, <<s.label, s.ctx>>) = GeneratedObligations(op, <<s.label, s.ctx>>)
  BY DEF Mirrors, GeneratedIn, GeneratedObligations
<1>3. QED BY <1>1, <1>2 DEF Mirrors, Derive, supportVars

-----------------------------------------------------------------------------
(* Each statement of the worklist does what the function says. *)

LEMMA AheadNext ==
  ASSUME NEW R
  PROVE  /\ phase' = "error" => Ahead(R)' = Halted
         /\ phase' \notin {"error", "discharge"} \cup Calling =>
              Ahead(R)' = St(phase', left', claims', obligations', derivations', operations',
                             claimLabels', contextLabels', evidenceLabels', forged')
         /\ phase' = "discharge" => Ahead(R)' = DischargeIn(Worklist', busy')
         /\ phase' \in Calling => Ahead(R)' = CallIn(Worklist', busy', R)
         /\ Worklist' = St("worklist", left', claims', obligations', derivations', operations',
                           claimLabels', contextLabels', evidenceLabels', forged')
<1>1. Worklist' = St("worklist", left', claims', obligations', derivations', operations',
                     claimLabels', contextLabels', evidenceLabels', forged')
  BY DEF Worklist, Enter, Now, St
<1>2. QED BY <1>1 DEF Ahead, Now, Calling

\* The state without the statement that runs.
LEMMA Running ==
  ASSUME phase = "worklist", NEW i
  PROVE  /\ Mirrors(Without(Now, i))
         /\ Without(Now, i).phase = "worklist" /\ Without(Now, i).left = left \ {i}
         /\ Without(Now, i) = St("worklist", left \ {i}, claims, obligations, derivations,
              operations, claimLabels, contextLabels, evidenceLabels, forged)
BY NowMirrors, EnterMirrors DEF Without

LEMMA DeriveToMirrored ==
  ASSUME LabelsOK, NEW m, Mirrors(m), m.phase = "worklist", m.left = left', NEW s, NEW op,
         NEW rcpt \in receipts \cup {NoReceipt},
         \A i \in DOMAIN s.inputs : Bound(s.inputs[i]), DeriveTo(s, op, rcpt),
         forged' = forged, NEW R
  PROVE  Ahead(R)' = DeriveIn(m, s, op, rcpt)
<1>1. CASE ~CanDerive(op, Nodes(s.inputs), rcpt, TrustRoots)
  <2>1. phase' = "error"
    BY <1>1 DEF DeriveTo, Fail
  <2>2. ~CanDeriveIn(m, s, op, rcpt)
    BY <1>1, CanDeriveMirrored
  <2>3. QED BY <2>1, <2>2, AheadNext DEF DeriveIn
<1>2. CASE CanDerive(op, Nodes(s.inputs), rcpt, TrustRoots)
  <2>1. /\ Derive(op, Nodes(s.inputs), <<s.label, s.ctx>>, rcpt, TrustRoots)
        /\ claimLabels' = Put(m.labels, s.label, <<s.label, s.ctx>>)
        /\ contextLabels' = m.ctxs /\ evidenceLabels' = m.evs
        /\ phase' = m.phase /\ left' = m.left /\ forged' = m.forged
    BY <1>2 DEF DeriveTo, Bind, Mirrors
  <2>2. CanDeriveIn(m, s, op, rcpt)
    BY <1>2, CanDeriveMirrored
  <2>3. /\ claims' = Put(m.claims, <<s.label, s.ctx>>, DerivedIn(m, s, op, rcpt))
        /\ obligations' = PutAll(m.obs, [o \in GeneratedIn(m, op, <<s.label, s.ctx>>)
                                           |-> GeneratedState(o, rcpt)])
        /\ derivations' = m.ders \cup {DerivedIn(m, s, op, rcpt).derivation}
        /\ operations' = m.ops
    BY <2>1, DeriveMirrored
  <2>4. Ahead(R)' = St(phase', left', claims', obligations', derivations', operations',
                       claimLabels', contextLabels', evidenceLabels', forged')
    BY <2>1, AheadNext DEF Calling
  <2>5. QED BY <2>1, <2>2, <2>3, <2>4 DEF DeriveIn
<1>3. QED BY <1>1, <1>2

LEMMA DeriveStmtMirrored ==
  ASSUME LabelsOK, NEW m, Mirrors(m), m.phase = "worklist", m.left = left', NEW s,
         Ready(s), DeriveStmt(s), forged' = forged, NEW R
  PROVE  Ahead(R)' = RunIn(m, s, R)
<1>1. s.verb = "derive" /\ m.ops = operations /\ m.ctxs = contextLabels
  BY DEF DeriveStmt, Mirrors
<1> PICK op : op = MeantIn(m, s.op)
  OBVIOUS
<1>5. Resolved(s.op) = {op} \cap DOMAIN operations
  BY <1>1 DEF Resolved, MeantIn
<1>2. CASE op \in DOMAIN operations /\ s.ctx \in contextLabels
  <2>1. DeriveTo(s, op, NoReceipt)
    BY <1>2, <1>5 DEF DeriveStmt
  <2>2. Ahead(R)' = DeriveIn(m, s, op, NoReceipt)
    BY <1>1, <2>1, DeriveToMirrored, ReadyMeans
  <2>3. QED BY <1>1, <1>2, <2>2 DEF RunIn
<1>3. CASE op \notin DOMAIN operations \/ s.ctx \notin contextLabels
  <2>1. phase' = "error"
    BY <1>3, <1>5 DEF DeriveStmt, Fail
  <2>2. QED BY <1>1, <1>3, <2>1, AheadNext DEF RunIn
<1>4. QED BY <1>2, <1>3

\* The statements that stay in the worklist.
LEMMA RequireStmtMirrored ==
  ASSUME NEW m, Mirrors(m), m.phase = "worklist", phase = "worklist", m.left = left', NEW s,
         RequireStmt(s), forged' = forged, NEW R
  PROVE  Ahead(R)' = RunIn(m, s, R)
<1>1. s.verb = "require" /\ RequiredIn(m, s) = [kind |-> s.kind, target |-> Claimed(s.target),
                                              severity |-> "Mandatory"]
  BY DEF RequireStmt, RequiredIn, Mirrors, Claimed
<1>2. /\ AddObligation(RequiredIn(m, s), FALSE)
      /\ UNCHANGED <<phase, claimLabels, contextLabels, evidenceLabels>>
  BY <1>1 DEF RequireStmt, Quiet, NoLabels, labelVars
<1>3. /\ obligations' = Put(m.obs, RequiredIn(m, s), "Pending")
      /\ claims' = IF m.labels[s.target] \in DOMAIN m.claims
                     THEN [m.claims EXCEPT ![m.labels[s.target]].obligations =
                                             @ \cup {RequiredIn(m, s)}]
                     ELSE m.claims
      /\ UNCHANGED <<operations, derivations>>
  BY <1>1, <1>2 DEF AddObligation, supportVars, Mirrors, Claimed, Exists
<1>4. Ahead(R)' = St(phase', left', claims', obligations', derivations', operations',
                     claimLabels', contextLabels', evidenceLabels', forged')
  BY <1>2, AheadNext DEF Calling
<1>5. Ahead(R)' = RequireIn(m, s)
  BY <1>2, <1>3, <1>4 DEF RequireIn, Mirrors
<1>6. QED BY <1>1, <1>5 DEF RunIn

\* A state of which only claims and contexts changed.
LEMMA QuietMirrored ==
  ASSUME NEW m, Mirrors(m), m.phase = "worklist", phase = "worklist", m.left = left',
         UNCHANGED <<phase, obligations, derivations, operations, claimLabels,
                     evidenceLabels, forged>>, NEW R
  PROVE  Ahead(R)' = St(m.phase, m.left, claims', m.obs, m.ders, m.ops, m.labels,
                        contextLabels', m.evs, m.forged)
<1>1. Ahead(R)' = St(phase', left', claims', obligations', derivations', operations',
                     claimLabels', contextLabels', evidenceLabels', forged')
  BY AheadNext DEF Calling
<1>2. QED BY <1>1 DEF Mirrors

LEMMA StatusMirrored ==
  ASSUME NEW m, Mirrors(m), m.phase = "worklist", phase = "worklist", m.left = left', NEW s,
         NEW status, NEW event, SetStatus(Claimed(s.target), status, event),
         Quiet, NoLabels, forged' = forged, NEW R
  PROVE  Ahead(R)' = StatusIn(m, s, status)
<1>1. /\ claims' = [m.claims EXCEPT ![m.labels[s.target]].status = status]
      /\ contextLabels' = m.ctxs
      /\ UNCHANGED <<phase, obligations, derivations, operations, claimLabels, evidenceLabels>>
  BY DEF SetStatus, Quiet, NoLabels, labelVars, supportVars, Mirrors, Claimed
<1>2. QED BY <1>1, QuietMirrored DEF StatusIn

\* The state stays what it was, but for the statement.
LEMMA SameMirrored ==
  ASSUME NEW m, NEW i, m = Without(Now, i), phase = "worklist", left' = left \ {i},
         UNCHANGED <<vars, phase, labelVars, forged>>, NEW R
  PROVE  Ahead(R)' = m
<1>1. Ahead(R)' = St(phase', left', claims', obligations', derivations', operations',
                     claimLabels', contextLabels', evidenceLabels', forged')
  BY AheadNext DEF Calling
<1>2. QED BY <1>1, Running DEF vars, labelVars

LEMMA VerdictMirrored ==
  ASSUME NEW m, NEW i, m = Without(Now, i), phase = "worklist", left' = left \ {i}, NEW s,
         VerifyStmt(s) \/ StatusStmt(s), forged' = forged, NEW R
  PROVE  Ahead(R)' = RunIn(m, s, R)
<1>1. Mirrors(m) /\ m.phase = "worklist" /\ m.left = left'
  BY Running
<1>2. Quiet /\ NoLabels /\ m.labels[s.target] = Claimed(s.target)
  BY <1>1 DEF VerifyStmt, StatusStmt, Mirrors, Claimed
<1>3. CASE VerifyStmt(s) /\ GateOpen(Claimed(s.target))
  <2>1. SetStatus(Claimed(s.target), "Verified", "Verify") /\ s.verb = "verify"
    BY <1>3 DEF VerifyStmt, Verify
  <2>2. Ahead(R)' = StatusIn(m, s, "Verified")
    BY <1>1, <1>2, <2>1, StatusMirrored
  <2>3. QED BY <1>1, <1>2, <1>3, <2>1, <2>2, GateMirrored DEF RunIn, VerifyIn
<1>4. CASE VerifyStmt(s) /\ ~GateOpen(Claimed(s.target))
  <2>1. s.verb = "verify" /\ UNCHANGED <<vars, phase, labelVars, forged>>
    BY <1>2, <1>4 DEF VerifyStmt, Quiet, NoLabels
  <2>2. Ahead(R)' = m
    BY <2>1, SameMirrored
  <2>3. QED BY <1>1, <1>2, <1>4, <2>1, <2>2, GateMirrored DEF RunIn, VerifyIn
<1>5. CASE StatusStmt(s)
  <2>1. \/ s.verb = "challenge" /\ SetStatus(Claimed(s.target), "Challenged", "Challenge")
        \/ s.verb = "invalidate" /\ SetStatus(Claimed(s.target), "Invalidated", "Invalidate")
        \/ s.verb = "attest" /\ SetStatus(Claimed(s.target), "ExternallyAttested", "Attest")
    BY <1>5 DEF StatusStmt, Challenge, Invalidate, Attest
  <2>2. CASE s.verb = "challenge" /\ SetStatus(Claimed(s.target), "Challenged", "Challenge")
    BY <1>1, <1>2, <2>2, StatusMirrored DEF RunIn
  <2>3. CASE s.verb = "invalidate" /\ SetStatus(Claimed(s.target), "Invalidated", "Invalidate")
    BY <1>1, <1>2, <2>3, StatusMirrored DEF RunIn
  <2>4. CASE s.verb = "attest" /\ SetStatus(Claimed(s.target), "ExternallyAttested", "Attest")
    BY <1>1, <1>2, <2>4, StatusMirrored DEF RunIn
  <2>5. QED BY <2>1, <2>2, <2>3, <2>4
<1>6. QED BY <1>3, <1>4, <1>5

LEMMA ContradictMirrored ==
  ASSUME NEW m, NEW i, m = Without(Now, i), phase = "worklist", left' = left \ {i}, NEW s,
         ContradictStmt(s), forged' = forged, NEW R
  PROVE  Ahead(R)' = RunIn(m, s, R)
<1>1. s.verb = "contradict" /\ UNCHANGED <<vars, phase, labelVars, forged>>
  BY DEF ContradictStmt, Quiet, NoLabels
<1>2. Ahead(R)' = m
  BY <1>1, SameMirrored
<1>3. QED BY <1>1, <1>2 DEF RunIn

LEMMA ContextMirrored ==
  ASSUME NEW m, Mirrors(m), m.phase = "worklist", phase = "worklist", m.left = left', NEW s,
         ContextStmt(s), forged' = forged, NEW R
  PROVE  Ahead(R)' = RunIn(m, s, R)
<1>1. s.verb \in {"branch", "merge"} /\ m.labels = claimLabels /\ m.ctxs = contextLabels
  BY DEF ContextStmt, Mirrors
<1>2. CASE s.verb = "branch" /\ ~(s.assumptions \subseteq DOMAIN claimLabels)
  <2>1. phase' = "error"
    BY <1>2 DEF ContextStmt, Fail
  <2>2. QED BY <1>1, <1>2, <2>1, AheadNext DEF RunIn, ContextIn
<1>3. CASE ~(s.verb = "branch" /\ ~(s.assumptions \subseteq DOMAIN claimLabels))
  <2>1. /\ contextLabels' = contextLabels \cup {s.label} /\ claims' = m.claims
        /\ UNCHANGED <<phase, obligations, derivations, operations, claimLabels, evidenceLabels>>
    BY <1>3 DEF ContextStmt, vars, Quiet, Mirrors
  <2>2. Ahead(R)' = ContextIn(m, s)
    BY <1>1, <1>3, <2>1, QuietMirrored DEF ContextIn
  <2>3. QED BY <1>1, <2>2 DEF RunIn
<1>4. QED BY <1>2, <1>3

\* The statements that take several steps, taken to their end.
LEMMA DischargeStmtMirrored ==
  ASSUME NEW m, NEW i, m = Without(Now, i), phase = "worklist", left' = left \ {i}, NEW s,
         DischargeStmt(s), forged' = forged, NEW R
  PROVE  Ahead(R)' = RunIn(m, s, R)
<1>1. s.verb = "discharge" /\ m.evs = evidenceLabels
  BY Running DEF DischargeStmt, Mirrors
<1>2. CASE s.by \in DOMAIN evidenceLabels
  <2>1. phase' = "discharge" /\ busy' = s /\ UNCHANGED <<vars, labelVars>>
    BY <1>2 DEF DischargeStmt
  <2>2. Worklist' = m
    BY <2>1, Running, AheadNext DEF vars, labelVars
  <2>3. QED BY <1>1, <1>2, <2>1, <2>2, AheadNext DEF RunIn
<1>3. CASE s.by \notin DOMAIN evidenceLabels
  <2>1. phase' = "error"
    BY <1>3 DEF DischargeStmt, Fail
  <2>2. QED BY <1>1, <1>3, <2>1, AheadNext DEF RunIn
<1>4. QED BY <1>2, <1>3

LEMMA CallStmtMirrored ==
  ASSUME NEW m, NEW i, m = Without(Now, i), phase = "worklist", left' = left \ {i}, NEW s,
         CallStmt(s), forged' = forged, NEW R
  PROVE  Ahead(R)' = RunIn(m, s, R)
<1>1. s.verb = "call" /\ m.ctxs = contextLabels
  BY Running DEF CallStmt, Mirrors
<1>2. CASE s.ctx \in contextLabels
  <2>1. phase' = "call" /\ busy' = s /\ UNCHANGED <<vars, labelVars>>
    BY <1>2 DEF CallStmt
  <2>2. Worklist' = m
    BY <2>1, Running, AheadNext DEF vars, labelVars
  <2>3. QED BY <1>1, <1>2, <2>1, <2>2, AheadNext DEF RunIn, Calling
<1>3. CASE s.ctx \notin contextLabels
  <2>1. phase' = "error"
    BY <1>3 DEF CallStmt, Fail
  <2>2. QED BY <1>1, <1>3, <2>1, AheadNext DEF RunIn
<1>4. QED BY <1>2, <1>3

LEMMA StatementMirrored ==
  ASSUME LabelsOK, NEW i, phase = "worklist", left' = left \ {i},
         Ready(program[i]), ExecStmt(program[i]), forged' = forged, NEW R
  PROVE  Ahead(R)' = RunIn(Without(Now, i), program[i], R)
<1> DEFINE m == Without(Now, i)
           s == program[i]
<1>1. Mirrors(m) /\ m.phase = "worklist" /\ m.left = left'
  BY Running
<1> HIDE DEF m, s
<1>2. SUFFICES Ahead(R)' = RunIn(m, s, R)
  BY DEF m, s
<1>3. m = Without(Now, i) /\ Ready(s) /\ ExecStmt(s)
  BY DEF m, s
<1>4. CASE DeriveStmt(s)
  BY <1>1, <1>3, <1>4, DeriveStmtMirrored
<1>5. CASE RequireStmt(s)
  BY <1>1, <1>3, <1>5, RequireStmtMirrored
<1>6. CASE VerifyStmt(s) \/ StatusStmt(s)
  BY <1>3, <1>6, VerdictMirrored
<1>7. CASE ContradictStmt(s)
  BY <1>3, <1>7, ContradictMirrored
<1>8. CASE ContextStmt(s)
  BY <1>1, <1>8, ContextMirrored
<1>9. CASE DischargeStmt(s)
  BY <1>3, <1>9, DischargeStmtMirrored
<1>10. CASE CallStmt(s)
  BY <1>3, <1>10, CallStmtMirrored
<1>11. QED BY <1>3, <1>4, <1>5, <1>6, <1>7, <1>8, <1>9, <1>10 DEF ExecStmt

-----------------------------------------------------------------------------
(* Which statement runs. *)

LEMMA LeastIs ==
  ASSUME NEW S \in SUBSET Nat, NEW i \in S, \A j \in S : i <= j
  PROVE  Least(S) = i
<1>1. \A k \in S : (\A j \in S : k <= j) => k = i
  OBVIOUS
<1>2. QED BY <1>1 DEF Least

LEMMA LeftIsNat == ASSUME ExecInv PROVE left \subseteq Nat
BY StatementsAdmitted DEF ExecInv, RunInv, ProgramOK

LEMMA FirstLeftIs ==
  ASSUME ExecInv, NEW i \in FirstLeft
  PROVE  i \in left /\ Least(left) = i
BY LeftIsNat, LeastIs DEF FirstLeft

LEMMA FirstReadyIs ==
  ASSUME ExecInv, NEW i \in FirstReady
  PROVE  i \in ReadyOf(Now, program) /\ Least(ReadyOf(Now, program)) = i
<1>1. ReadyOf(Now, program) = {j \in left : Ready(program[j])}
  BY NowMirrors, ReadyMirrored DEF ReadyOf
<1>2. /\ i \in ReadyOf(Now, program) /\ ReadyOf(Now, program) \in SUBSET Nat
      /\ \A j \in ReadyOf(Now, program) : i <= j
  BY <1>1, LeftIsNat DEF FirstReady
<1>3. QED BY <1>2, LeastIs

-----------------------------------------------------------------------------
(* The steps before and after the statements of the worklist. *)

LEMMA NextPhaseMirrored ==
  ASSUME NextPhase, NEW R
  PROVE  Ahead(R)' = After(Now, program, R)
<1>1. /\ Now.left = {} /\ Now.phase = phase
      /\ UNCHANGED <<vars, labelVars, forged>>
  BY NowMirrors DEF NextPhase
<1>2. \/ phase = "evidence" /\ phase' = "premises" /\ left' = Which(program, IsPremise)
      \/ phase = "premises" /\ phase' = "worklist" /\ left' = Which(program, IsPending)
  BY DEF NextPhase
<1>3. Ahead(R)' = St(phase', left', claims', obligations', derivations', operations',
                     claimLabels', contextLabels', evidenceLabels', forged')
  BY <1>2, AheadNext DEF Calling
<1>4. Ahead(R)' = Enter(Now, phase', left')
  BY <1>1, <1>3, NowMirrors DEF Enter, Mirrors, vars, labelVars
<1>5. QED BY <1>1, <1>2, <1>4 DEF After

LEMMA DeclareMirrored ==
  ASSUME ExecInv, DeclareEvidence, NEW R
  PROVE  Ahead(R)' = After(Now, program, R)
<1>1. PICK i \in FirstLeft : Declare(program[i]) /\ left' = left \ {i}
  BY DEF DeclareEvidence
<1> DEFINE m == Without(Now, i)
<1> PICK s : s = program[i]
  OBVIOUS
<1>2. /\ phase = "evidence" /\ i \in left /\ Least(left) = i
      /\ UNCHANGED <<claimLabels, contextLabels>>
  BY FirstLeftIs DEF DeclareEvidence
<1>3. /\ m = St("evidence", left', claims, obligations, derivations, operations,
                claimLabels, contextLabels, evidenceLabels, forged)
      /\ Mirrors(m) /\ m.phase = "evidence" /\ m.left = left'
  BY <1>1, <1>2, NowMirrors, EnterMirrors DEF Without
<1> HIDE DEF m
<1>4. After(Now, program, R) = DeclareIn(m, s)
  BY <1>2, NowMirrors DEF After, m
<1>5. /\ UNCHANGED <<claims, obligations, derivations, operations>>
      /\ evidenceLabels' = Put(evidenceLabels, s.label, s.evidence)
  BY <1>1 DEF Declare, Record, AddEvidence, vars
<1>6. CASE BadSignature(s)
  <2>1. phase' = "error"
    BY <1>1, <1>6 DEF Declare, BadSignature
  <2>2. QED BY <1>4, <1>6, <2>1, AheadNext DEF DeclareIn
<1>7. CASE ~BadSignature(s)
  <2>1. phase' = phase /\ forged' = forged \ {s.evidence}
    BY <1>1, <1>7 DEF Declare, BadSignature
  <2>2. Ahead(R)' = St(phase', left', claims', obligations', derivations', operations',
                       claimLabels', contextLabels', evidenceLabels', forged')
    BY <1>2, <2>1, AheadNext DEF Calling
  <2>3. QED BY <1>2, <1>3, <1>4, <1>5, <1>7, <2>1, <2>2 DEF DeclareIn, Mirrors
<1>8. QED BY <1>6, <1>7

LEMMA StatePremiseMirrored ==
  ASSUME NEW m, Mirrors(m), NEW s, s.verb \in Premises, StatePremise(s)
  PROVE  /\ claims' = Put(m.claims, <<s.label, s.ctx>>, PremiseIn(m, s))
         /\ obligations' = PutAll(m.obs, [o \in AssertedObligations(<<s.label, s.ctx>>,
                                                                    EvidenceOfIn(m, s))
                                            |-> "Pending"])
         /\ UNCHANGED <<derivations, operations>>
<1> DEFINE n == <<s.label, s.ctx>>
           ev == {evidenceLabels[l] : l \in s.evidence}
<1>1. m.claims = claims /\ m.obs = obligations /\ m.evs = evidenceLabels
  BY DEF Mirrors
<1>2. CASE s.verb = "assert"
  <2>1. Premise(n, s.value, ev, "Asserted", {}, "Assert")
    BY <1>2 DEF StatePremise, Assert
  <2>2. EvidenceOfIn(m, s) = ev /\ PremiseIn(m, s) = PremiseClaim(n, s.value, ev, "Asserted", {})
    BY <1>1, <1>2 DEF EvidenceOfIn, PremiseIn
  <2>3. QED BY <1>1, <2>1, <2>2 DEF Premise
<1>3. CASE s.verb = "observe"
  <2>1. Premise(n, s.value, ev, "Observed", {}, "Observe")
    BY <1>3 DEF StatePremise, Observe
  <2>2. EvidenceOfIn(m, s) = ev /\ PremiseIn(m, s) = PremiseClaim(n, s.value, ev, "Observed", {})
    BY <1>1, <1>3 DEF EvidenceOfIn, PremiseIn
  <2>3. QED BY <1>1, <2>1, <2>2 DEF Premise
<1>4. CASE s.verb = "assume"
  <2>1. Premise(n, s.value, {}, "Assumed", {[claim |-> n]}, "Assume")
    BY <1>4 DEF StatePremise, Assume
  <2>2. EvidenceOfIn(m, s) = {}
        /\ PremiseIn(m, s) = PremiseClaim(n, s.value, {}, "Assumed", {[claim |-> n]})
    BY <1>1, <1>4 DEF EvidenceOfIn, PremiseIn
  <2>3. QED BY <1>1, <2>1, <2>2 DEF Premise
<1>5. QED BY <1>2, <1>3, <1>4 DEF Premises

LEMMA PremiseMirrored ==
  ASSUME ExecInv, RunPremise, NEW R
  PROVE  Ahead(R)' = After(Now, program, R)
<1>1. PICK i \in FirstLeft : PremiseStmt(program[i]) /\ left' = left \ {i}
  BY DEF RunPremise
<1> DEFINE m == Without(Now, i)
<1> PICK s : s = program[i]
  OBVIOUS
<1>2. /\ phase = "premises" /\ i \in left /\ Least(left) = i
      /\ s.verb \in Premises /\ forged' = forged
  BY FirstLeftIs DEF RunPremise, ExecInv, RunInv, ProgramOK, IsPremise
<1>3. Mirrors(m) /\ m.phase = "premises" /\ m.left = left'
  BY <1>1, <1>2, NowMirrors, EnterMirrors DEF Without
<1> HIDE DEF m
<1>4. After(Now, program, R) = StateIn(m, s)
  BY <1>2, NowMirrors DEF After, m
<1>5. m.evs = evidenceLabels /\ m.ctxs = contextLabels
  BY <1>3 DEF Mirrors
<1>6. CASE s.evidence \subseteq DOMAIN evidenceLabels /\ s.ctx \in contextLabels
  <2>1. StatePremise(s)
    BY <1>1, <1>6 DEF PremiseStmt
  <2>2. /\ claimLabels' = Put(claimLabels, s.label, <<s.label, s.ctx>>)
        /\ UNCHANGED <<phase, contextLabels, evidenceLabels>>
    BY <2>1 DEF StatePremise, Bind
  <2>3. /\ claims' = Put(m.claims, <<s.label, s.ctx>>, PremiseIn(m, s))
        /\ obligations' = PutAll(m.obs, [o \in AssertedObligations(<<s.label, s.ctx>>,
                                                                   EvidenceOfIn(m, s))
                                           |-> "Pending"])
        /\ UNCHANGED <<derivations, operations>>
    BY <1>2, <1>3, <2>1, StatePremiseMirrored
  <2>4. Ahead(R)' = St(phase', left', claims', obligations', derivations', operations',
                       claimLabels', contextLabels', evidenceLabels', forged')
    BY <1>2, <2>2, AheadNext DEF Calling
  <2>5. /\ phase' = m.phase /\ left' = m.left /\ derivations' = m.ders /\ operations' = m.ops
        /\ claimLabels' = Put(m.labels, s.label, <<s.label, s.ctx>>)
        /\ contextLabels' = m.ctxs /\ evidenceLabels' = m.evs /\ forged' = m.forged
    BY <1>2, <1>3, <2>2, <2>3 DEF Mirrors
  <2>6. Ahead(R)' = StateIn(m, s)
    BY <1>5, <1>6, <2>3, <2>4, <2>5 DEF StateIn
  <2>7. QED BY <1>4, <2>6
<1>7. CASE ~(s.evidence \subseteq DOMAIN evidenceLabels /\ s.ctx \in contextLabels)
  <2>1. phase' = "error"
    BY <1>1, <1>7 DEF PremiseStmt, Fail
  <2>2. QED BY <1>4, <1>5, <1>7, <2>1, AheadNext DEF StateIn
<1>8. QED BY <1>6, <1>7

LEMMA RunReadyMirrored ==
  ASSUME ExecInv, RunReady, NEW R
  PROVE  Ahead(R)' = After(Now, program, R)
<1>1. PICK i \in FirstReady : ExecStmt(program[i]) /\ left' = left \ {i}
  BY DEF RunReady
<1>2. /\ phase = "worklist" /\ i \in left /\ Ready(program[i]) /\ forged' = forged
      /\ i \in ReadyOf(Now, program) /\ Least(ReadyOf(Now, program)) = i
  BY FirstReadyIs DEF RunReady, FirstReady
<1>3. Ahead(R)' = RunIn(Without(Now, i), program[i], R)
  BY <1>1, <1>2, StatementMirrored DEF ExecInv, RunInv
<1>4. Now.phase = "worklist" /\ Now.left # {}
  BY <1>2, NowMirrors
<1>5. QED BY <1>2, <1>3, <1>4 DEF After

LEMMA StuckMirrored ==
  ASSUME ExecInv, Stuck, NEW R
  PROVE  Ahead(R)' = After(Now, program, R)
<1>1. /\ Now.phase = "worklist" /\ Now.left # {} /\ Now.left = left
      /\ phase' = "error" /\ FirstReady = {}
  BY NowMirrors DEF Stuck, Fail
<1>2. \A i \in left : ~Ready(program[i])
  BY <1>1, NoneReady DEF ExecInv, RunInv
<1>3. ReadyOf(Now, program) = {}
  BY <1>1, <1>2, NowMirrors, ReadyMirrored DEF ReadyOf
<1>4. QED BY <1>1, <1>3, AheadNext DEF After

LEMMA FinishMirrored ==
  ASSUME Finish, NEW R
  PROVE  Ahead(R)' = After(Now, program, R)
<1>1. Mirrors(Now) /\ Now.phase = "worklist" /\ Now.left = {}
  BY NowMirrors DEF Finish
<1>2. After(Now, program, R) = FinishIn(Now)
  BY <1>1 DEF After
<1> DEFINE Refused == \/ \E n \in DOMAIN claims : claims[n].status = "Verified" /\ ~GateOpen(n)
                      \/ forged # {} /\ TrustRoots # {}
<1>3. FinishIn(Now) = IF Refused THEN Halted ELSE Enter(Now, "ok", left)
  BY <1>1, GateMirrored, NowMirrors DEF FinishIn, Mirrors
<1>4. CASE Refused
  <2>1. phase' = "error"
    BY <1>4 DEF Finish, Fail
  <2>2. QED BY <1>2, <1>3, <1>4, <2>1, AheadNext
<1>5. CASE ~Refused
  <2>1. phase' = "ok" /\ UNCHANGED <<vars, labelVars, left, forged>>
    BY <1>5 DEF Finish
  <2>2. Ahead(R)' = St("ok", left, claims, obligations, derivations, operations, claimLabels,
                       contextLabels, evidenceLabels, forged)
    BY <2>1, AheadNext DEF Calling, vars, labelVars
  <2>3. QED BY <1>2, <1>3, <1>5, <2>2, EnterMirrors
<1>6. QED BY <1>4, <1>5

\* The steps of a discharge lead where its beginning led.
LEMMA DischargeMirrored ==
  ASSUME ExecInv, DischargeNext, NEW R
  PROVE  Ahead(R)' = Ahead(R)
<1> DEFINE n == Claimed(busy.target)
           open == {o \in claims[n].obligations :
                      o \in DOMAIN obligations /\ obligations[o] = "Pending"}
           Done(obls) == [o \in DOMAIN obls |->
                            IF o \in claims[n].obligations /\ obls[o] = "Pending"
                              THEN "Satisfied" ELSE obls[o]]
<1>1. /\ phase = "discharge"
      /\ UNCHANGED <<error, program, left, receipt, issued, labelVars, forged,
                     verifyFailures, modeVars>>
  BY DEF DischargeNext
<1>2. Ahead(R) = St("worklist", left, claims, Done(obligations), derivations, operations,
                    claimLabels, contextLabels, evidenceLabels, forged)
  <2>1. Ahead(R) = DischargeIn(Worklist, busy)
    BY <1>1 DEF Ahead, Calling
  <2>2. Mirrors(Worklist) /\ Worklist.phase = "worklist" /\ Worklist.left = left
    BY EnterMirrors DEF Worklist
  <2>3. QED BY <2>1, <2>2 DEF DischargeIn, Mirrors, Claimed
<1>3. obligations = [o \in DOMAIN obligations |-> obligations[o]]
  BY DEF ExecInv, TypeOK, IsMap
<1>4. CASE open = {}
  <2>1. phase' = "worklist" /\ UNCHANGED vars
    BY <1>4 DEF DischargeNext
  <2>2. Done(obligations) = obligations
    BY <1>3, <1>4
  <2>3. Ahead(R)' = St("worklist", left, claims, obligations, derivations, operations,
                       claimLabels, contextLabels, evidenceLabels, forged)
    BY <1>1, <2>1, AheadNext DEF Calling, vars, labelVars
  <2>4. QED BY <1>2, <2>2, <2>3
<1>5. CASE open # {}
  <2>1. PICK o \in open : Discharge(o, evidenceLabels[busy.by], "Satisfied")
    BY <1>5 DEF DischargeNext
  <2>2. /\ phase' = "discharge" /\ busy' = busy
        /\ obligations' = [obligations EXCEPT ![o] = "Satisfied"]
        /\ UNCHANGED <<claims, derivations, operations, claimLabels, contextLabels,
                       evidenceLabels, left, forged>>
    BY <1>1, <1>5, <2>1 DEF DischargeNext, Discharge, supportVars, labelVars
  <2>3. Ahead(R)' = DischargeIn(Worklist', busy)
    BY <2>2, AheadNext
  <2>4. Worklist' = St("worklist", left, claims, obligations', derivations, operations,
                       claimLabels, contextLabels, evidenceLabels, forged)
    BY <2>2, AheadNext
  <2>5. DischargeIn(Worklist', busy)
          = St("worklist", left, claims, Done(obligations'), derivations, operations,
               claimLabels, contextLabels, evidenceLabels, forged)
    BY <2>4, Fields DEF DischargeIn, Claimed
  <2>6. Done(obligations') = Done(obligations)
    <3>1. DOMAIN obligations' = DOMAIN obligations
      BY <1>3, <2>2
    <3>2. \A q \in DOMAIN obligations : Done(obligations')[q] = Done(obligations)[q]
      BY <1>3, <2>1, <2>2
    <3>3. QED BY <3>1, <3>2
  <2>7. QED BY <1>2, <2>3, <2>5, <2>6
<1>6. QED BY <1>4, <1>5

-----------------------------------------------------------------------------
(* Calls. *)

\* No two receipts answer one operation on one list of inputs.
Unambiguous(R) ==
  \A r, q \in R : r.op = q.op /\ r.inputs = q.inputs => r = q

\* The receipts of the execution under way.
Given == Seqs!ToSet(IF replaying THEN preloaded ELSE issued)

\* The receipt of the call under way is one of them and fits.
CallOK ==
  /\ preloaded \in Seq(Receipt)
  /\ phase \in {"register", "apply"} => Fits(receipt) /\ receipt \in Given
  /\ phase = "apply" =>
       operations = Put(operations, busy.op, CallDefinition(busy, CallInputs))

\* A call under way leads where the receipts lead it.
LEMMA AheadCalling ==
  ASSUME phase \in Calling, NEW R
  PROVE  Ahead(R) = CallIn(Worklist, busy, R)
BY DEF Ahead, Calling

LEMMA FitsMirrored ==
  ASSUME NEW m, Mirrors(m), NEW R
  PROVE  FitsIn(m, busy, R) = {r \in R : Fits(r)}
BY InputsMirrored DEF FitsIn, Fits, CallInputs

LEMMA TakenMirrored ==
  ASSUME phase = "call", phase' = "register",
         UNCHANGED <<claims, obligations, derivations, operations, labelVars, left, busy,
                     forged>>, NEW R
  PROVE  Ahead(R)' = Ahead(R)
<1>1. Worklist' = Worklist
  BY AheadNext, EnterMirrors DEF Worklist, labelVars
<1>2. Ahead(R)' = CallIn(Worklist', busy', R)
  BY AheadNext DEF Calling
<1>3. QED BY <1>1, <1>2, AheadCalling DEF Calling

LEMMA LiveCallMirrored ==
  ASSUME LiveCall, phase' # "error", NEW R
  PROVE  Ahead(R)' = Ahead(R)
<1>1. \E r \in Receipt : TakeReceipt(r) /\ (AddReceipt(r) \/ UNCHANGED vars)
  BY DEF LiveCall, Fail
<1>2. QED BY <1>1, TakenMirrored DEF LiveCall, TakeReceipt, AddReceipt, vars

LEMMA ReplayCallMirrored ==
  ASSUME CallOK, ReplayCall, NEW R, R = Seqs!ToSet(preloaded)
  PROVE  Ahead(R)' = Ahead(R)
<1>1. CASE Preloaded = {}
  <2> DEFINE at == {i \in DOMAIN preloaded : Fits(preloaded[i])}
  <2>1. at = {}
    <3> SUFFICES ASSUME at # {} PROVE FALSE
      OBVIOUS
    <3>1. at \in SUBSET Nat
      BY DEF CallOK
    <3>2. PICK i \in at : \A j \in at : i <= j
      <4> HIDE DEF at
      <4>1. QED BY <3>1, LeastIndex
    <3>3. preloaded[i] \in Preloaded
      BY <3>2 DEF Preloaded
    <3>4. QED BY <1>1, <3>3
  <2>2. {r \in R : Fits(r)} = {}
    BY <2>1, ToSetIsRange
  <2>3. Ahead(R) = Halted
    BY <2>2, AheadCalling, FitsMirrored, EnterMirrors DEF ReplayCall, Calling, CallIn, Worklist
  <2>4. phase' = "error"
    BY <1>1 DEF ReplayCall, Fail
  <2>5. QED BY <2>3, <2>4, AheadNext
<1>2. CASE Preloaded # {}
  <2>1. \E r \in Preloaded : TakeReceipt(r) /\ UNCHANGED vars
    BY <1>2 DEF ReplayCall
  <2>2. QED BY <2>1, TakenMirrored DEF ReplayCall, TakeReceipt, vars
<1>3. QED BY <1>1, <1>2

LEMMA PutTwice ==
  ASSUME NEW f, NEW k, NEW v
  PROVE  Put(Put(f, k, v), k, v) = Put(f, k, v)
<1> DEFINE g == Put(f, k, v)
<1>1. /\ g = [l \in DOMAIN f \cup {k} |-> IF l = k THEN v ELSE f[l]]
      /\ Put(g, k, v) = [l \in DOMAIN g \cup {k} |-> IF l = k THEN v ELSE g[l]]
  BY DEF Put
<1>2. DOMAIN g \cup {k} = DOMAIN f \cup {k}
  BY <1>1
<1>3. \A l \in DOMAIN f \cup {k} : (IF l = k THEN v ELSE g[l]) = IF l = k THEN v ELSE f[l]
  BY <1>1
<1> HIDE DEF g
<1>4. Put(g, k, v) = g
  BY <1>1, <1>2, <1>3
<1>5. QED BY <1>4 DEF g

\* Registering once more changes nothing.
LEMMA RegisterTwice ==
  ASSUME RegisterCall
  PROVE  /\ operations' = Put(operations, busy.op, CallDefinition(busy, CallInputs))
         /\ Put(operations', busy.op, CallDefinition(busy, CallInputs)) = operations'
         /\ busy' = busy /\ CallInputs' = CallInputs
<1>1. /\ operations' = Put(operations, busy.op, CallDefinition(busy, CallInputs))
      /\ UNCHANGED <<busy, claims, claimLabels>>
  BY DEF RegisterCall, RegisterOp, callVars, labelVars, CallDefinition
<1>2. CallInputs' = CallInputs
  BY <1>1 DEF CallInputs, Vals, Nodes, Claimed
<1>3. QED BY <1>1, <1>2, PutTwice

LEMMA RegisterMirrored ==
  ASSUME RegisterCall, NEW R
  PROVE  Ahead(R)' = Ahead(R)
<1>1. /\ phase = "register" /\ phase' = "apply"
      /\ UNCHANGED <<claims, obligations, derivations, labelVars, left, busy, forged>>
  BY DEF RegisterCall, RegisterOp, callVars
<1>2. Ahead(R)' = CallIn(Worklist', busy, R) /\ Ahead(R) = CallIn(Worklist, busy, R)
  BY <1>1, AheadNext, AheadCalling DEF Calling
<1>3. /\ Worklist = St("worklist", left, claims, obligations, derivations, operations,
                       claimLabels, contextLabels, evidenceLabels, forged)
      /\ Worklist' = St("worklist", left, claims, obligations, derivations, operations',
                        claimLabels, contextLabels, evidenceLabels, forged)
  BY <1>1, AheadNext, EnterMirrors DEF Worklist, labelVars
<1> PICK w : w = Worklist
  OBVIOUS
<1> PICK wn : wn = Worklist'
  OBVIOUS
<1>4. FitsIn(wn, busy, R) = FitsIn(w, busy, R) /\ ValsIn(wn, busy) = ValsIn(w, busy)
  BY <1>3, Fields DEF FitsIn, ValsIn
<1>5. Registered(wn, busy) = Registered(w, busy)
  <2>1. ValsIn(w, busy) = CallInputs
    BY EnterMirrors, InputsMirrored DEF Worklist, CallInputs
  <2>2. Put(wn.ops, busy.op, CallDefinition(busy, ValsIn(wn, busy)))
          = Put(w.ops, busy.op, CallDefinition(busy, ValsIn(w, busy)))
    BY <1>3, <1>4, <2>1, RegisterTwice, Fields
  <2>3. /\ wn.phase = w.phase /\ wn.left = w.left /\ wn.claims = w.claims
        /\ wn.obs = w.obs /\ wn.ders = w.ders /\ wn.labels = w.labels
        /\ wn.ctxs = w.ctxs /\ wn.evs = w.evs /\ wn.forged = w.forged
    BY <1>3, Fields
  <2>4. QED BY <2>2, <2>3 DEF Registered
<1>6. QED BY <1>2, <1>4, <1>5 DEF CallIn

LEMMA ApplyMirrored ==
  ASSUME ExecInv, CallOK, ApplyCall, NEW R, Unambiguous(R), Given \subseteq R
  PROVE  Ahead(R)' = Ahead(R)
<1> DEFINE m == Registered(Worklist, busy)
<1>1. /\ phase = "apply" /\ DeriveTo(busy, busy.op, receipt)
      /\ UNCHANGED <<program, left, forged, verifyFailures, modeVars>>
  BY DEF ApplyCall
<1>2. /\ Fits(receipt) /\ receipt \in R
      /\ Put(operations, busy.op, CallDefinition(busy, CallInputs)) = operations
      /\ receipt \in receipts \cup {NoReceipt}
  BY <1>1 DEF CallOK, ExecInv, RunInv, ReceiptOK
<1>3. Mirrors(Worklist) /\ Worklist.phase = "worklist" /\ Worklist.left = left
  BY EnterMirrors DEF Worklist
<1>4. Mirrors(m) /\ m.phase = "worklist" /\ m.left = left'
  <2>1. ValsIn(Worklist, busy) = CallInputs
    BY <1>3, InputsMirrored DEF CallInputs
  <2>3. m = St("worklist", left, claims, obligations, derivations, operations, claimLabels,
               contextLabels, evidenceLabels, forged)
    BY <1>2, <1>3, <2>1 DEF Registered, Mirrors
  <2>2. QED BY <1>1, <2>3, Fields DEF Mirrors
<1>5. FitsIn(Worklist, busy, R) = {receipt}
  BY <1>2, <1>3, FitsMirrored DEF Unambiguous, Fits
<1>6. Ahead(R) = DeriveIn(m, busy, busy.op, receipt)
  BY <1>1, <1>5, AheadCalling DEF CallIn, Calling
<1> HIDE DEF m
<1> PICK s : s = busy
  OBVIOUS
<1> PICK rcpt : rcpt = receipt
  OBVIOUS
<1>7. \A i \in DOMAIN s.inputs : Bound(s.inputs[i])
  BY <1>1, BusyAdmitted DEF Calling
<1> PICK op : op = busy.op
  OBVIOUS
<1>8. DeriveTo(s, op, rcpt) /\ rcpt \in receipts \cup {NoReceipt} /\ forged' = forged
  BY <1>1, <1>2
<1>9. LabelsOK
  BY DEF ExecInv, RunInv
<1>10. Ahead(R)' = DeriveIn(m, s, op, rcpt)
  BY <1>4, <1>7, <1>8, <1>9, DeriveToMirrored
<1>11. QED BY <1>6, <1>10

-----------------------------------------------------------------------------
(* Every step follows the function, except for a tool that fails. *)

LEMMA AheadStep ==
  ASSUME ExecInv, CallOK, Step, NEW R, Unambiguous(R), Given \subseteq R,
         replaying => R = Seqs!ToSet(preloaded), replaying \/ phase' # "error"
  PROVE  Ahead(R)' = Ahead(R) \/ Ahead(R)' = After(Ahead(R), program, R)
<1>1. phase \in {"evidence", "premises", "worklist"} => Ahead(R) = Now
  BY DEF Ahead, Calling
<1>2. CASE NextPhase \/ DeclareEvidence \/ RunPremise \/ RunReady \/ Stuck \/ Finish
  <2>1. phase \in {"evidence", "premises", "worklist"}
    BY <1>2 DEF NextPhase, DeclareEvidence, RunPremise, RunReady, Stuck, Finish
  <2>2. Ahead(R)' = After(Now, program, R)
    BY <1>2, NextPhaseMirrored, DeclareMirrored, PremiseMirrored, RunReadyMirrored,
       StuckMirrored, FinishMirrored
  <2>3. QED BY <1>1, <2>1, <2>2
<1>3. CASE DischargeNext \/ ReplayCall \/ LiveCall \/ RegisterCall \/ ApplyCall
  <2>1. LiveCall => phase' # "error"
    BY DEF LiveCall
  <2>2. ReplayCall => R = Seqs!ToSet(preloaded)
    BY DEF ReplayCall
  <2>3. QED
    BY <1>3, <2>1, <2>2, DischargeMirrored, ReplayCallMirrored, LiveCallMirrored, RegisterMirrored,
       ApplyMirrored
<1>4. QED BY <1>2, <1>3 DEF Step

-----------------------------------------------------------------------------
(* Executions follow the function from its start. *)

\* g runs through n of the function's steps.
Follows(g, n, p, R) == \A k \in 1..n : g[k] = After(g[k - 1], p, R)

\* m is reached from the start of p with the receipts R.
Reached(p, R, m) ==
  \E n \in Nat : \E g : g[0] = Start(p) /\ g[n] = m /\ Follows(g, n, p, R)

LEMMA StartReached == ASSUME NEW p, NEW R PROVE Reached(p, R, Start(p))
<1> DEFINE g == [k \in {0} |-> Start(p)]
<1>1. g[0] = Start(p) /\ Follows(g, 0, p, R)
  BY DEF Follows
<1>2. QED BY <1>1 DEF Reached

LEMMA ReachedNext ==
  ASSUME NEW p, NEW R, NEW m, Reached(p, R, m)
  PROVE  Reached(p, R, After(m, p, R))
<1>1. PICK n \in Nat : \E g : g[0] = Start(p) /\ g[n] = m /\ Follows(g, n, p, R)
  BY DEF Reached
<1>2. PICK g : g[0] = Start(p) /\ g[n] = m /\ Follows(g, n, p, R)
  BY <1>1
<1> DEFINE h == [k \in 0..n + 1 |-> IF k = n + 1 THEN After(m, p, R) ELSE g[k]]
<1>3. h[0] = Start(p) /\ h[n + 1] = After(m, p, R)
  BY <1>2
<1>4. Follows(h, n + 1, p, R)
  <2> SUFFICES ASSUME NEW k \in 1..n + 1 PROVE h[k] = After(h[k - 1], p, R)
    BY DEF Follows
  <2>1. CASE k = n + 1
    <3>1. h[k - 1] = m
      BY <1>2, <2>1
    <3>2. QED BY <1>3, <2>1, <3>1
  <2>2. CASE k # n + 1
    <3>1. k \in 1..n /\ h[k] = g[k] /\ h[k - 1] = g[k - 1]
      BY <2>2
    <3>2. QED BY <1>2, <3>1 DEF Follows
  <2>3. QED BY <2>1, <2>2
<1> HIDE DEF h
<1>5. n + 1 \in Nat
  OBVIOUS
<1>6. QED BY <1>3, <1>4, <1>5 DEF Reached

\* Two runs from one state agree, and one that has halted stays where it is.
LEMMA RunsAgree ==
  ASSUME NEW p, NEW R, NEW n \in Nat, NEW g, NEW h,
         g[0] = h[0], Follows(g, n, p, R), Follows(h, n, p, R)
  PROVE  g[n] = h[n]
<1> DEFINE P == {k \in 0..n : g[k] = h[k]}
<1>1. 0 \in P /\ \A i \in 1..n : i - 1 \in P => i \in P
  BY DEF Follows
<1> HIDE DEF P
<1>2. 0..n \subseteq P
  BY <1>1, InductionUpto
<1>3. QED BY <1>2 DEF P

LEMMA RunStays ==
  ASSUME NEW p, NEW R, NEW n \in Nat, NEW k \in 0..n, NEW h, After(h[k], p, R) = h[k],
         Follows(h, n, p, R)
  PROVE  h[n] = h[k]
<1> DEFINE P == {i \in 0..n - k : h[k + i] = h[k]}
<1>1. n - k \in Nat /\ 0 \in P
  OBVIOUS
<1>2. \A i \in 1..n - k : i - 1 \in P => i \in P
  <2> SUFFICES ASSUME NEW i \in 1..n - k, i - 1 \in P PROVE i \in P
    OBVIOUS
  <2>1. h[k + (i - 1)] = h[k] /\ k + i \in 1..n /\ (k + i) - 1 = k + (i - 1)
    OBVIOUS
  <2>2. h[k + i] = After(h[k], p, R)
    BY <2>1 DEF Follows
  <2>3. QED BY <2>2
<1> HIDE DEF P
<1>3. 0..n - k \subseteq P
  BY <1>1, <1>2, InductionUpto
<1>4. n - k \in P /\ k + (n - k) = n
  BY <1>1, <1>3
<1>5. QED BY <1>4 DEF P

LEMMA SameEnd ==
  ASSUME NEW p, NEW R, NEW n \in Nat, NEW l \in Nat, n <= l, NEW g, NEW h,
         g[0] = h[0], Follows(g, n, p, R), Follows(h, l, p, R), After(g[n], p, R) = g[n]
  PROVE  g[n] = h[l]
<1>1. Follows(h, n, p, R)
  <2>1. \A k \in 1..n : k \in 1..l
    OBVIOUS
  <2>2. QED BY <2>1 DEF Follows
<1>2. g[n] = h[n]
  BY <1>1, RunsAgree
<1>3. QED BY <1>2, RunStays

\* An execution ends in one way.
LEMMA OneEnd ==
  ASSUME NEW p, NEW R, NEW m, NEW q, Reached(p, R, m), Reached(p, R, q),
         After(m, p, R) = m, After(q, p, R) = q
  PROVE  m = q
<1>1. PICK n \in Nat : \E g : g[0] = Start(p) /\ g[n] = m /\ Follows(g, n, p, R)
  BY DEF Reached
<1>2. PICK g : g[0] = Start(p) /\ g[n] = m /\ Follows(g, n, p, R)
  BY <1>1
<1>3. PICK l \in Nat : \E h : h[0] = Start(p) /\ h[l] = q /\ Follows(h, l, p, R)
  BY DEF Reached
<1>4. PICK h : h[0] = Start(p) /\ h[l] = q /\ Follows(h, l, p, R)
  BY <1>3
<1>5. CASE n <= l
  BY <1>2, <1>4, <1>5, SameEnd
<1>6. CASE l <= n
  BY <1>2, <1>4, <1>6, SameEnd
<1>7. QED BY <1>5, <1>6

-----------------------------------------------------------------------------
(* The invariant. *)

\* A Runtime on which nothing was executed.
Fresh ==
  /\ claims = <<>> /\ obligations = <<>> /\ derivations = {}
  /\ operations = Registry(Builtin)
  /\ claimLabels = <<>> /\ contextLabels = {RootLabel} /\ evidenceLabels = <<>>
  /\ forged = {}

\* The receipts that the execution on the new Runtime may still be issued.
Possible(R) == Seqs!ToSet(issued) \subseteq R /\ Unambiguous(R)

\* The first execution on a Runtime, as long as it does not fail.
LiveFollows ==
  ~replaying /\ executions = 1 /\ phase # "error" =>
    /\ ~(Len(program) > MaxStmts)
    /\ \A R \in SUBSET Receipt : Possible(R) => Reached(program, R, Ahead(R))

\* A replay, and what it replays.
ReplayFollows ==
  replaying =>
    /\ executions = MaxExecutions
    /\ Unambiguous(Given) =>
         /\ Reached(program, Given, Ahead(Given))
         /\ \E m : Reached(program, Given, m) /\ m.phase = "ok" /\ m.claims = live

FollowInv ==
  /\ CallOK
  /\ executions \in 0..MaxExecutions /\ (executions = 0 => phase = "idle" /\ ~replaying /\ Fresh)
  /\ LiveFollows /\ ReplayFollows

\* A new Runtime starts where the function starts.
LEMMA FreshStarts ==
  ASSUME NEW p, phase' = "evidence", left' = Which(p, IsEvidence), Fresh', NEW R
  PROVE  Ahead(R)' = Start(p)
BY AheadNext DEF Start, Calling, Fresh

-----------------------------------------------------------------------------
(* Each step keeps it. *)

\* The steps of an execution do not change which execution it is.
LEMMA StepKeepsMode ==
  ASSUME Step
  PROVE  /\ UNCHANGED <<program, modeVars>> /\ phase \notin {"idle", "ok", "error"}
         /\ phase' \in {"register", "apply"} =>
              LiveCall \/ ReplayCall \/ RegisterCall \/ DischargeNext
<1>1. UNCHANGED <<program, modeVars>>
  BY DEF Step, NextPhase, DeclareEvidence, RunPremise, RunReady, Stuck, DischargeNext,
     ReplayCall, LiveCall, RegisterCall, ApplyCall, Finish
<1>2. phase \notin {"idle", "ok", "error"}
  BY DEF Step, NextPhase, DeclareEvidence, RunPremise, RunReady, Stuck, DischargeNext,
     ReplayCall, LiveCall, RegisterCall, ApplyCall, Finish
<1>3. NextPhase \/ Finish \/ Stuck => phase' \notin {"register", "apply"}
  BY DEF NextPhase, Finish, Stuck, Fail
<1>4. DeclareEvidence => phase' \notin {"register", "apply"}
  BY DEF DeclareEvidence, Declare
<1>5. ASSUME NEW s, PremiseStmt(s), phase = "premises" PROVE phase' \notin {"register", "apply"}
  BY <1>5 DEF PremiseStmt, Fail, StatePremise
<1>6. ASSUME NEW s, ExecStmt(s), phase = "worklist" PROVE phase' \notin {"register", "apply"}
  BY <1>6 DEF ExecStmt, DeriveStmt, DeriveTo, RequireStmt, DischargeStmt, VerifyStmt,
     StatusStmt, ContradictStmt, ContextStmt, CallStmt, Quiet, Fail
<1>7. ApplyCall => phase' \notin {"register", "apply"}
  BY DEF ApplyCall, DeriveTo, Fail
<1>8. QED BY <1>1, <1>2, <1>3, <1>4, <1>5, <1>6, <1>7 DEF Step, RunPremise, RunReady

LEMMA ContainsIsMember == ASSUME NEW T, NEW s \in Seq(T), NEW r
  PROVE Seqs!Contains(s, r) <=> r \in Seqs!ToSet(s)
BY ToSetIsRange DEF Seqs!Contains

\* Receipts are issued at the end, and only by live calls.
LEMMA IssuedStep ==
  ASSUME ExecInv, Step
  PROVE  /\ Seqs!ToSet(issued) \subseteq Seqs!ToSet(issued')
         /\ replaying => issued' = issued
<1>1. LiveCall \/ issued' = issued
  BY DEF Step, NextPhase, DeclareEvidence, RunPremise, RunReady, Stuck, DischargeNext,
     ReplayCall, RegisterCall, ApplyCall, Finish, callVars, Declare, PremiseStmt, StatePremise,
     Fail, ExecStmt, DeriveStmt, DeriveTo, RequireStmt, DischargeStmt, VerifyStmt,
     StatusStmt, ContradictStmt, ContextStmt, CallStmt, Quiet
<1>2. CASE LiveCall
  <2>1. ~replaying
    BY <1>2 DEF LiveCall
  <2>2. issued' = issued \/ \E r \in Receipt : issued' = Append(issued, r)
    BY <1>2 DEF LiveCall, Fail, callVars
  <2>3. CASE issued' = issued
    BY <2>1, <2>3
  <2>4. CASE \E r \in Receipt : issued' = Append(issued, r)
    <3>1. PICK r \in Receipt : issued' = Append(issued, r)
      BY <2>4
    <3>2. issued \in Seq(Receipt)
      BY DEF ExecInv, RunInv, ReceiptOK
    <3>3. \A i \in DOMAIN issued : i \in DOMAIN issued' /\ issued'[i] = issued[i]
      BY <3>1, <3>2
    <3>4. QED BY <2>1, <3>3, ToSetIsRange
  <2>5. QED BY <2>2, <2>3, <2>4
<1>3. QED BY <1>1, <1>2

LEMMA CallOKStep ==
  ASSUME ExecInv, CallOK, Step
  PROVE  CallOK'
<1>1. preloaded' \in Seq(Receipt) /\ UNCHANGED <<preloaded, replaying>>
  BY StepKeepsMode DEF CallOK, modeVars
<1>2. CASE LiveCall /\ phase' # "error"
  <2>1. /\ phase = "call" /\ ~replaying
        /\ \E r \in Receipt :
             /\ Fits(r) /\ TakeReceipt(r)
             /\ AddReceipt(r) \/ UNCHANGED vars
             /\ issued' = IF Seqs!Contains(issued, r) THEN issued ELSE Append(issued, r)
    BY <1>2 DEF LiveCall, Fail
  <2>2. PICK r \in Receipt :
             /\ Fits(r) /\ TakeReceipt(r)
             /\ AddReceipt(r) \/ UNCHANGED vars
             /\ issued' = IF Seqs!Contains(issued, r) THEN issued ELSE Append(issued, r)
    BY <2>1
  <2>3. /\ receipt' = r /\ phase' = "register"
        /\ UNCHANGED <<claims, busy, claimLabels>>
    BY <2>2 DEF TakeReceipt, AddReceipt, vars, labelVars
  <2>4. Fits(receipt)'
    BY <2>2, <2>3 DEF Fits, CallInputs, Vals, Nodes, Claimed
  <2>5. issued \in Seq(Receipt) /\ issued' \in Seq(Receipt)
    BY <2>2 DEF ExecInv, RunInv, ReceiptOK
  <2>6. r \in Seqs!ToSet(issued')
    <3>1. CASE Seqs!Contains(issued, r)
      BY <2>2, <2>5, <3>1, ContainsIsMember
    <3>2. CASE issued' = Append(issued, r)
      <4>1. Len(issued') \in DOMAIN issued' /\ issued'[Len(issued')] = r
        BY <2>5, <3>2
      <4>2. QED BY <4>1, ToSetIsRange
    <3>3. QED BY <2>2, <3>1, <3>2
  <2>7. QED BY <1>1, <2>1, <2>3, <2>4, <2>6 DEF CallOK, Given
<1>3. CASE ReplayCall /\ phase' # "error"
  <2>1. phase = "call" /\ replaying /\ \E r \in Preloaded : TakeReceipt(r) /\ UNCHANGED vars
    BY <1>3 DEF ReplayCall, Fail
  <2>2. PICK r \in Preloaded : TakeReceipt(r) /\ UNCHANGED vars
    BY <2>1
  <2>3. /\ receipt' = r /\ phase' = "register"
        /\ UNCHANGED <<claims, busy, claimLabels>>
    BY <2>2 DEF TakeReceipt, vars, labelVars
  <2>4. Fits(r) /\ r \in Seqs!ToSet(preloaded)
    BY <2>2, ToSetIsRange DEF Preloaded
  <2>5. Fits(receipt)'
    BY <2>3, <2>4 DEF Fits, CallInputs, Vals, Nodes, Claimed
  <2>6. QED BY <1>1, <2>1, <2>3, <2>4, <2>5 DEF CallOK, Given
<1>4. CASE RegisterCall
  <2>1. /\ phase = "register" /\ phase' = "apply"
        /\ UNCHANGED <<busy, receipt, issued, claims, claimLabels>>
    BY <1>4 DEF RegisterCall, RegisterOp, callVars, labelVars
  <2>2. Fits(receipt) /\ receipt \in Given
    BY <2>1 DEF CallOK
  <2>3. Fits(receipt)' /\ (receipt \in Given)'
    BY <1>1, <2>1, <2>2 DEF Fits, CallInputs, Vals, Nodes, Claimed, Given
  <2>4. (operations = Put(operations, busy.op, CallDefinition(busy, CallInputs)))'
    <3>1. Put(operations', busy.op, CallDefinition(busy, CallInputs)) = operations'
          /\ busy' = busy /\ CallInputs' = CallInputs
      BY <1>4, RegisterTwice
    <3>2. CallDefinition(busy, CallInputs)' = CallDefinition(busy, CallInputs)
      BY <3>1 DEF CallDefinition
    <3>3. QED BY <3>1, <3>2
  <2>5. QED BY <1>1, <2>1, <2>3, <2>4 DEF CallOK
<1>5. CASE phase' \notin {"register", "apply"}
  BY <1>1, <1>5 DEF CallOK
<1>6. CASE DischargeNext
  BY <1>1, <1>6 DEF DischargeNext, CallOK
<1>7. QED BY <1>2, <1>3, <1>4, <1>5, <1>6, StepKeepsMode

\* A step of an execution reaches what the function reaches.
LEMMA ReachedStep ==
  ASSUME ExecInv, CallOK, Step, NEW R, Unambiguous(R), Given \subseteq R,
         replaying => R = Seqs!ToSet(preloaded), replaying \/ phase' # "error",
         Reached(program, R, Ahead(R))
  PROVE  Reached(program, R, Ahead(R)')
<1>1. Ahead(R)' = Ahead(R) \/ Ahead(R)' = After(Ahead(R), program, R)
  BY AheadStep
<1>2. QED BY <1>1, ReachedNext

LEMMA LiveStep ==
  ASSUME ExecInv, FollowInv, Step
  PROVE  LiveFollows'
<1>1. UNCHANGED <<program, replaying, executions>> /\ phase # "error"
  BY StepKeepsMode DEF modeVars
<1> SUFFICES ASSUME ~replaying, executions = 1, phase' # "error" PROVE LiveFollows'
  BY <1>1 DEF LiveFollows
<1>2. /\ ~(Len(program) > MaxStmts)
      /\ \A R \in SUBSET Receipt : Possible(R) => Reached(program, R, Ahead(R))
  BY <1>1 DEF FollowInv, LiveFollows
<1>3. ASSUME NEW R \in SUBSET Receipt, Possible(R)'
      PROVE  Reached(program, R, Ahead(R)')
  <2>1. Seqs!ToSet(issued) \subseteq R /\ Unambiguous(R)
    BY <1>3, IssuedStep DEF Possible
  <2>2. Given \subseteq R /\ Reached(program, R, Ahead(R))
    BY <1>2, <2>1 DEF Given, Possible
  <2>3. CallOK
    BY DEF FollowInv
  <2>4. QED BY <2>1, <2>2, <2>3, ReachedStep
<1>4. \A R \in SUBSET Receipt : Possible(R)' => Reached(program', R, Ahead(R)')
  BY <1>1, <1>3
<1>5. QED BY <1>1, <1>2, <1>4 DEF LiveFollows, Reached, After, Start

LEMMA ReplayingStep ==
  ASSUME ExecInv, FollowInv, Step
  PROVE  ReplayFollows'
<1>1. UNCHANGED <<program, replaying, executions, preloaded, live>>
  BY StepKeepsMode DEF modeVars
<1> SUFFICES ASSUME replaying PROVE ReplayFollows'
  BY <1>1 DEF ReplayFollows
<1>2. Given' = Given /\ Given = Seqs!ToSet(preloaded)
  BY <1>1 DEF Given
<1> PICK R : R = Given
  OBVIOUS
<1>3. executions = MaxExecutions
  BY DEF FollowInv, ReplayFollows
<1>4. ASSUME Unambiguous(R)
      PROVE  /\ Reached(program, R, Ahead(R)')
             /\ \E m : Reached(program, R, m) /\ m.phase = "ok" /\ m.claims = live
  <2>1. /\ Reached(program, R, Ahead(R))
        /\ \E m : Reached(program, R, m) /\ m.phase = "ok" /\ m.claims = live
    BY <1>4 DEF FollowInv, ReplayFollows
  <2>2. CallOK
    BY DEF FollowInv
  <2>3. QED BY <1>2, <1>4, <2>1, <2>2, ReachedStep
<1>5. QED BY <1>1, <1>2, <1>3, <1>4 DEF ReplayFollows

LEMMA ExecuteFollows ==
  ASSUME ExecInv, FollowInv, NEW p \in Program \cup Followup, Execute(p)
  PROVE  FollowInv'
<1>1. /\ executions < MaxExecutions /\ executions' = executions + 1
      /\ program' = p /\ left' = Which(p, IsEvidence)
      /\ \/ Len(p) > MaxStmts /\ phase' = "error"
         \/ ~(Len(p) > MaxStmts) /\ phase' = "evidence"
      /\ UNCHANGED <<vars, labelVars, forged, preloaded, replaying, live, issued>>
  BY RuntimeAssumption DEF Execute, Begin
<1>2. ~replaying /\ executions \in 0..MaxExecutions
  BY <1>1, RuntimeAssumption DEF FollowInv, ReplayFollows
<1>3. CallOK'
  BY <1>1 DEF FollowInv, CallOK
<1>4. ReplayFollows'
  BY <1>1, <1>2 DEF ReplayFollows
<1>5. LiveFollows'
  <2> SUFFICES ASSUME executions = 0, phase' = "evidence" PROVE LiveFollows'
    BY <1>1, <1>2 DEF LiveFollows
  <2>1. Fresh'
    BY <1>1 DEF FollowInv, Fresh, vars, labelVars
  <2>2. \A R : Reached(p, R, Ahead(R)')
    BY <1>1, <2>1, FreshStarts, StartReached
  <2>3. QED BY <1>1, <2>2 DEF LiveFollows
<1>6. executions' \in 0..MaxExecutions /\ executions' # 0
  BY <1>1, <1>2, RuntimeAssumption
<1>7. QED BY <1>3, <1>4, <1>5, <1>6 DEF FollowInv

\* The live execution that is replayed has followed the function for the
\* receipts it was issued.
LEMMA ReplayBegins ==
  ASSUME ExecInv, FollowInv, Replay
  PROVE  FollowInv'
<1>1. /\ phase = "ok" /\ executions = 1 /\ ~replaying
      /\ program' = program /\ left' = Which(program, IsEvidence)
      /\ \/ Len(program) > MaxStmts /\ phase' = "error"
         \/ ~(Len(program) > MaxStmts) /\ phase' = "evidence"
      /\ FreshModule(Registry(Builtin), Seqs!ToSet(issued)) /\ FreshLabels
      /\ replaying' = TRUE /\ executions' = MaxExecutions
      /\ preloaded' = issued /\ live' = claims
  BY DEF Replay, Begin
<1>2. /\ ~(Len(program) > MaxStmts)
      /\ \A R \in SUBSET Receipt : Possible(R) => Reached(program, R, Now)
  BY <1>1 DEF FollowInv, LiveFollows, Ahead, Calling
<1>3. phase' = "evidence" /\ Fresh'
  BY <1>1, <1>2, RuntimeAssumption DEF FreshModule, FreshLabels, Fresh
<1> PICK R : R = Seqs!ToSet(issued)
  OBVIOUS
<1>4. Given' = R /\ R \in SUBSET Receipt
  BY <1>1, ToSetIsRange DEF Given, ExecInv, RunInv, ReceiptOK
<1>5. Reached(program, R, Ahead(R)')
  BY <1>1, <1>3, FreshStarts, StartReached
<1>6. ASSUME Unambiguous(R)
      PROVE  \E m : Reached(program, R, m) /\ m.phase = "ok" /\ m.claims = claims
  <2>1. Reached(program, R, Now)
    BY <1>2, <1>4, <1>6 DEF Possible
  <2>2. Now.phase = "ok" /\ Now.claims = claims
    BY <1>1, NowMirrors DEF Mirrors
  <2>3. QED BY <2>1, <2>2
<1>7. ReplayFollows'
  BY <1>1, <1>4, <1>5, <1>6 DEF ReplayFollows
<1>8. LiveFollows'
  BY <1>1 DEF LiveFollows
<1>9. CallOK'
  BY <1>1, <1>3 DEF CallOK, ExecInv, RunInv, ReceiptOK
<1>10. executions' \in 0..MaxExecutions /\ executions' # 0
  BY <1>1, RuntimeAssumption DEF FollowInv
<1>11. QED BY <1>7, <1>8, <1>9, <1>10 DEF FollowInv

LEMMA FollowStep ==
  ASSUME ExecInv, FollowInv, [ExecNext]_execVars
  PROVE  FollowInv'
<1>1. CASE UNCHANGED execVars
  BY <1>1 DEF execVars, vars, callVars, labelVars, modeVars, FollowInv, CallOK, Fits, CallInputs,
     Vals, Nodes, Claimed, Given, Fresh, LiveFollows, ReplayFollows, Possible, Ahead, Now, Worklist
<1>2. CASE \E p \in (IF executions = 0 THEN Program ELSE Followup) : Execute(p)
  BY <1>2, ExecuteFollows
<1>3. CASE Replay
  BY <1>3, ReplayBegins
<1>4. CASE Step
  <2>1. UNCHANGED executions /\ phase \notin {"idle"}
    BY <1>4, StepKeepsMode DEF modeVars
  <2>2. executions' \in 0..MaxExecutions /\ executions' # 0
    BY <2>1 DEF FollowInv
  <2>3. CallOK'
    BY <1>4, CallOKStep DEF FollowInv
  <2>4. QED BY <1>4, <2>2, <2>3, LiveStep, ReplayingStep DEF FollowInv
<1>5. QED BY <1>1, <1>2, <1>3, <1>4 DEF ExecNext

LEMMA FollowInitial == ExecInit => FollowInv
BY RuntimeAssumption DEF ExecInit, FollowInv, CallOK, LiveFollows, ReplayFollows, Fresh

\* A replay on a new Runtime (runtime.rs:186-262, replay_mode) meets no error and
\* ends with the claims of the live execution: their values, statuses and
\* derivations.
THEOREM ReplayTheorem == ExecSpec => []ReplayReproduces
<1>1. FollowInv => ReplayReproduces
  <2> SUFFICES ASSUME FollowInv, phase \in Terminated, replaying, ~Ambiguous
               PROVE  phase = "ok" /\ claims = live
    BY DEF ReplayReproduces
  <2> PICK R : R = Given
    OBVIOUS
  <2>1. Unambiguous(R)
    BY ToSetIsRange DEF Ambiguous, Unambiguous, Given
  <2>2. /\ Reached(program, R, Ahead(R))
        /\ \E m : Reached(program, R, m) /\ m.phase = "ok" /\ m.claims = live
    BY <2>1 DEF FollowInv, ReplayFollows
  <2>3. PICK m : Reached(program, R, m) /\ m.phase = "ok" /\ m.claims = live
    BY <2>2
  <2>4. After(m, program, R) = m
    BY <2>3 DEF After
  <2>5. (phase = "error" => Ahead(R) = Halted) /\ (phase = "ok" => Ahead(R) = Now)
    BY DEF Ahead, Calling
  <2>6. Halted.phase = "error" /\ Now.phase = phase /\ Now.claims = claims
    BY NowMirrors DEF Halted, Mirrors
  <2>7. After(Ahead(R), program, R) = Ahead(R)
    BY <2>5, <2>6 DEF After, Terminated
  <2>8. Ahead(R) = m
    BY <2>2, <2>3, <2>4, <2>7, OneEnd
  <2>9. QED BY <2>3, <2>5, <2>6, <2>8 DEF Terminated
<1>2. ExecInv /\ FollowInv /\ [ExecNext]_execVars => FollowInv'
  BY FollowStep
<1>3. QED BY <1>1, <1>2, FollowInitial, ExecInvariant, PTL DEF ExecSpec
=============================================================================
