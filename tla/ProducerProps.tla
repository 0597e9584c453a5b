---------------------------- MODULE ProducerProps ----------------------------
(***************************************************************************)
(* What the modules that `produce` writes do when they are executed.       *)
(***************************************************************************)
EXTENDS Producer

Items(plan) == plan.premises \o plan.assumptions \o plan.steps

LabelOf(item) == Sanitize(item.label)

\* No two items of the plan have one label once it is sanitized.
DistinctLabels(plan) ==
  \A i, j \in DOMAIN Items(plan) :
    LabelOf(Items(plan)[i]) = LabelOf(Items(plan)[j]) => i = j

\* Inputs are labels of the plan, and some order of the steps puts every step
\* after its inputs.
Orderable(plan) ==
  \E rank \in [DOMAIN plan.steps -> 1..Len(plan.steps)] :
    \A k \in DOMAIN plan.steps : \A i \in DOMAIN plan.steps[k].inputs :
      LET input == Sanitize(plan.steps[k].inputs[i]) IN
      \/ \E p \in Seqs!ToSet(plan.premises) \cup Seqs!ToSet(plan.assumptions) :
           LabelOf(p) = input
      \/ \E m \in DOMAIN plan.steps : LabelOf(plan.steps[m]) = input /\ rank[m] < rank[k]

\* Every authority a step names is the evidence of a premise.
Authorised(plan) ==
  \A s \in Seqs!ToSet(plan.steps) : s.requires /\ s.dischargeBy # NoLabel =>
    \E p \in Seqs!ToSet(plan.premises) :
      p.evidence # NoEvidence /\ Sanitize(s.dischargeBy) = EvidenceLabel(LabelOf(p))

Executable(plan) ==
  /\ Valid(plan) /\ Len(Produce(plan)) <= MaxStmts
  /\ DistinctLabels(plan) /\ Orderable(plan) /\ Authorised(plan)

\* A step owes what its plan requires and what its operation declares as mandatory,
\* unless deriving settles that.
Checked == {"TypeCompat", "DimensionalConsistency"}
Of(s) == Registry(Builtin)[Resolve(s.op)]
Owes(s) == s.requires \/ (Of(s).generates \cap MandatoryKinds) \ Checked # {}

\* What a step has earned that asks to be verified.
Cleared(s) ==
  /\ Owes(s) => s.requires /\ s.dischargeBy # NoLabel
  /\ ~External(Of(s))

\* What a plan asks for is what a new runtime ends with, live or in a replay, and
\* whatever the order of its steps: a plan with distinct labels, inputs that can
\* be put in order and evidence for its authorities fails at most on an
\* executor's error, and otherwise exactly those steps are Verified that ask for
\* it and whose obligations, the operation's and the plan's, the plan discharges.
PlanSettled ==
  phase \in {"ok", "error"} /\ (executions = 1 \/ replaying) => \A plan \in Plan :
    program = Produce(plan) /\ Executable(plan) =>
      /\ phase = "error" => error = "CannotDerive"
      /\ phase = "ok" => \A k \in DOMAIN plan.steps :
           LET s == plan.steps[k] IN
           claims[<<LabelOf(s), RootLabel>>].status = "Verified" <=> s.verify /\ Cleared(s)
=============================================================================
