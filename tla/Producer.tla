------------------------------- MODULE Producer -------------------------------
(***************************************************************************)
(* axiom-producer: `produce` turns a reasoning plan into a module for the  *)
(* runtime of RuntimeExec, or rejects it.  The text it writes is here the  *)
(* statements that the text parses to; a statement without a context       *)
(* clause is one of the root context.  Literals are claim values.          *)
(***************************************************************************)
EXTENDS RuntimeExec

CONSTANTS
  Plan,              \* bound: the plans considered
  Sanitize(_),       \* sanitize_ident, which may send two labels to one
  EvidenceLabel(_),  \* the label of the evidence of a premise so labelled
  Resolve(_),        \* the operation of a name, qualified or not, or no operation
  Arity,             \* the registry: Arity[op], OutputType[op]
  OutputType,
  NoEvidence, NoType, NoLabel

\* A plan is [premises, assumptions, steps], sequences of
\*   [label, value, evidence], [label, value] and
\*   [label, op, inputs, requires, dischargeBy, ty, verify].

\* The parts of a plan are vectors.  The registry it is checked against is the one
\* of Runtime::new.  The evidence clause that is written has no trust class, so
\* no evidence of a plan is trusted.
IsVector(s) == s \in Seq(Seqs!ToSet(s))

ASSUME PlanAssumption ==
  /\ DOMAIN Arity \subseteq {def.id : def \in Builtin}
  /\ \A plan \in Plan :
       /\ IsVector(plan.premises) /\ IsVector(plan.assumptions) /\ IsVector(plan.steps)
       /\ \A i \in DOMAIN plan.premises : plan.premises[i].evidence \notin Trusted

\* The checks of `produce`, step by step; input types are not compared.
ValidStep(s) ==
  /\ Resolve(s.op) \in DOMAIN Arity
  /\ Len(s.inputs) = Arity[Resolve(s.op)]
  /\ s.ty \in {NoType, OutputType[Resolve(s.op)]}

Valid(plan) == \A i \in DOMAIN plan.steps : ValidStep(plan.steps[i])

Stated(verb, p, ev) ==
  [verb |-> verb, label |-> Sanitize(p.label), ctx |-> RootLabel,
   value |-> p.value, evidence |-> ev]

\* A premise with evidence becomes an evidence node and an observation of it.
EvidencedPremise(p) ==
  IF p.evidence = NoEvidence THEN <<>>
  ELSE <<[verb |-> "evidence", label |-> EvidenceLabel(Sanitize(p.label)),
          evidence |-> p.evidence, provider |-> NoLabel, signed |-> FALSE],
         Stated("observe", p, {EvidenceLabel(Sanitize(p.label))})>>

PlainPremise(p) == IF p.evidence = NoEvidence THEN <<Stated("assert", p, {})>> ELSE <<>>

AssumedPremise(p) == <<Stated("assume", p, {})>>

DeriveOf(s) ==
  [verb |-> "derive", label |-> Sanitize(s.label), op |-> Resolve(s.op),
   inputs |-> [i \in DOMAIN s.inputs |-> Sanitize(s.inputs[i])],
   ctx |-> RootLabel, receipt |-> FALSE]

RequireOf(s) ==
  IF s.requires
    THEN <<[verb |-> "require", kind |-> "NumericBounds", target |-> Sanitize(s.label)]>>
    ELSE <<>>

DischargeOf(s) ==
  IF s.requires /\ s.dischargeBy # NoLabel
    THEN <<[verb |-> "discharge", target |-> Sanitize(s.label),
            by |-> Sanitize(s.dischargeBy)]>>
    ELSE <<>>

VerifyOf(s) ==
  IF s.verify THEN <<[verb |-> "verify", target |-> Sanitize(s.label)]>> ELSE <<>>

\* A plausible bug: the verification is written before what it depends on.
StepVerifiedFirst(s) == <<DeriveOf(s)>> \o VerifyOf(s) \o RequireOf(s) \o DischargeOf(s)

StepStatements(s) == <<DeriveOf(s)>> \o RequireOf(s) \o DischargeOf(s) \o VerifyOf(s)

Each(f(_), seq) == Seqs!FlattenSeq([i \in DOMAIN seq |-> f(seq[i])])

\* The module of a valid plan.
Produce(plan) ==
  Each(EvidencedPremise, plan.premises) \o Each(PlainPremise, plan.premises)
    \o Each(AssumedPremise, plan.assumptions) \o Each(StepStatements, plan.steps)

ProducedPrograms == {Produce(plan) : plan \in {p \in Plan : Valid(p)}}
=============================================================================
