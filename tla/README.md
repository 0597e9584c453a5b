# A verification of Axiom IR

Axiom IR is a reasoning format: a module is a graph of claims with values,
evidence, assumptions, derivations and obligations, and a claim becomes
*verified* only through a gate that demands a complete derivation and every
mandatory obligation discharged (INV-VERIFY). This directory holds TLA+ models
of that machinery, TLC runs that check them on small instances, and TLAPS
proofs of the main results for every instance.

## The system

| component | state | operations | what is hard about it | what makes it correct | modules |
|---|---|---|---|---|---|
| claim calculus, `axiom-core` `Module` | maps of claims, evidence, assumptions, receipts, operations, derivations, obligations; the event log | assert, observe, assume, derive, add_obligation, discharge, verify, challenge, invalidate, attest, register_op | claims are replaced under their label and operations under their name while other records keep their ids; obligations and derivations live in maps all claims share | no id dangles; verified claims are supported; the gate of one claim is moved only by calls on that claim and by new definitions of its operation; the log explains every status | `AxiomModule`, `VerificationGate` |
| contexts, in the same `Module`, and the contradiction scan of `axiom-runtime` | parent, inherited and local claims, assumptions, contradictions per context | branch, merge, contradict, detect_contradictions | inheritance is copied when the branch is made; a context made again replaces the old one; a merged context has no parent | nothing seen from siblings or children; scans find every disagreement they see and no other | `Contexts` |
| incremental engine, `axiom-incremental` | the reverse dependency map, the frontier, the worklist, the report | invalidate_and_recompute, full_recompute | HashSet order, failing re-derivations, cycles, a change during which links are rewritten | exact frontier, minimality, order-independent outcome, coherent values, termination | `Incremental` |
| runtime, `axiom-runtime` | a `Module`, label tables, capabilities | execute, in two phases, one handler per statement | statements run in readiness order; a failing handler has already changed the module; a runtime can execute again | stops only when it must; nothing rests on forged evidence; what was asked to be verified is, or is reported; made of calls of the calculus; ends | `RuntimeExec` |
| external calls and replay | receipts, preloaded receipts, capabilities, trust roots | exec_call live and replayed | duplicate calls, receipts left behind by a failure | a replay gives the claims of the recorded run | `RuntimeExec` |
| producer gateway, `axiom-producer` | none (pure) | produce | steps in any order, labels that collide | the runtime settles a plan as the plan asks | `Producer` |
| quantities, `axiom-types`, and the operation registry | none (pure) | number, unit and uncertainty algebra, the executor | overflow, unreduced fractions, operand order | exact or refused; units are dimensions; the strongest doubt prevails | `Numbers`, `Uncertainty`, `ValueOps`, `ValueChain` |
| parser and formatter | none that outlives a call | lex, parse, format, convert | names that swallow marks, optional clauses, forms only one side knows | what is formatted reads back as it was, or is refused; nesting is bounded; nothing that parses panics | `Syntax`, `Parser`, `Grammar`, `TextPipeline` |
| explanations, command line, SDK, Python bindings, encoding, conformance, benchmarks, fuzzing | none that outlives a call | | | | |

The command line, SDK and gateway produce text; the parser makes statements of
it; the runtime turns statements into calls of the calculus and re-checks
INV-VERIFY at the end; the incremental engine works on the runtime's module,
calling `derive` and `verify` and writing the status Invalidated itself. Nothing
is concurrent: every hazard comes from the order of calls, from what a call
leaves behind when it fails, from ids that outlive what they named, and from
data at its limits.

## The modules

`AxiomModule` is the calculus: one variable per collection of the Rust struct
and one action per method that changes it. Identities are content hashes in the
code; the model uses the hashed content as the identity, so a derivation is the
record of its operation, inputs, output and receipt, and re-deriving the same
record replaces it just as in the code. A method that returns an error has
changed nothing, so an error is a disabled action. `Exec` and `Accepts` are
constant operators for the executor and the input type check; `Exec` gives
something outside `Value` when the executor, the output check or the combination
of uncertainties fails. Receipts and trust roots are reduced to what `derive`
compares: recorded, same inputs, trusted provider. `operations` maps an id, which
hashes name and version only, to a definition (class, types, generated kinds,
whether it has capabilities), and `RegisterOp` replaces the definition of an id
that exists, as the code's insert does. `ReceiptGated` and `External` look at the
definition as it is at the time, and are separate because `derive` and `verify`
ask for a receipt under different conditions.

`VerificationGate` is what the calculus promises, with the rest forgotten: each
claim has a standing, the operation it was concluded by, and a gate; it is
admitted only through its open gate, and a new definition of an operation moves
the gates of the claims concluded by it only.
`AxiomModuleProps` states the properties and maps the calculus onto the gate.

`Incremental` extends the calculus with `invalidate_and_recompute`, one action
per loop iteration: `Begin`, `Search` (one claim popped), `SearchDone` (the
changed premise leaves the frontier), `Mark` (one claim invalidated),
`MarkDone`, then rounds of `PutOff` and `Rederive`/`Reverify` ended by `Round`,
and `Return`. Sets replace the HashSets, and any element may come next. `before`
(the claims at the start) and `failed` (refused re-derivations) are history
variables. Edits, any call of the calculus, happen between invalidations. What
changed may be a claim, an assumption, evidence, a receipt or an operation's id;
the reverse map is built from what the code follows, so that it has no entry for
the last two.

`Contexts` is the other half of the module: the context map, and of a claim what
classification reads (value, status, assumptions, whether an obligation failed,
which `SettleObligations` sets or clears, as obligations are discharged again or
attached anew).
`AssertIn`, `AssumeIn` and `DeriveIn` are the context part of the calls of the
calculus, which accept a context the module does not hold; `Branch`, `Merge`,
`Contradict` and `DetectContradictions` are the calls of those names. A context
id is `BranchId` or `MergeId` of what the code hashes, so that making the same
context twice replaces it; the root's id hashes something else, so nothing makes
the root again. The loop in `branch` that climbs to the root is `Climb`,
repeated once for every context there is, after which it has left the chain.
`lineage`, the contexts one was made from, is a history variable.

`RuntimeExec` extends the calculus with `Runtime::execute`. A module is a
sequence of statements; `phase` says which loop runs, and `left` holds the
indices of the statements it has not taken yet, which it takes in their order.
Each statement is one action, as its handler is; the pending obligations of a
discharge (`DischargeNext`) and the stages of a call (`LiveCall` or
`ReplayCall`, `RegisterCall`, `ApplyCall`) are steps of their own, since an
error between them leaves what was done. A call registers its name as an external
operation whether a builtin has that name or not; `Resolved` is the choice between
a name and the builtin `core.` of it. A context's label stands for its id, so that
binding a label again changes nothing; what contexts hold is in `Contexts`. `Fail` ends the execution and takes
nothing back; `Execute` may then start again on the same runtime. `Replay` opens
a new runtime with the receipts the first one was issued. `live` and `issued`
are history. `Producer` maps plans to such modules.

`Numbers` and `Uncertainty` transcribe the algebra as operators over integers of
width `MaxInt`; results carry the overflow that stops a build with overflow
checks, and wrap as a build without them does, the comparisons that `combine` and
`bounds_ok` make included (`CombineOver`). A fraction is as the code leaves it,
reduced or not. `ValueOps` has units, with exponents that are not bounded (the
code's have 64 bits), type
checks, the registry and its executor. `ValueChain` is a machine over them: a
claim, derived from again and again with premises on either side, and `ideal`,
a history variable that follows the same chain with unbounded integers, exact
dimensions and the set of uncertainties met. `Store` sends a value through JSON.

`Syntax` has the trees and the formatter, with a text as a sequence of atoms:
names, numbers, strings, marks and blanks, where what the lexer glues together
(names with colons, symbols with whatever follows) is still apart. `Parser` is
the lexer and the parser of expressions, types and uncertainties; an operator
answers the set of its results, at most one, with the position reached.
`Grammar` gives each statement's syntax as a sequence of items, reads items, and
converts trees to values; `Literals` classes the literals by what `Num::parse` and
`i128` make of them (an integer, the least one and zero apart, another number, or
none). `TextPipeline` is the calls in a row: `Format`, `Lex`, `Header`, one
`Statement` per iteration of the parser's loop, `Parsed`, `Convert`. It starts
from a tree, or from a text that no formatter wrote, and converts in the order in
which an execution does, in a build with or without overflow checks.

The modules named `...Props` state properties, `MC...` give instances, and
`...Proofs` hold the proofs: `AxiomModuleProofs` of the calculus and its gate,
`IncrementalProofs` of the incremental engine, `ContextsProofs`,
`RuntimeExecProofs` and `ValueChainProofs`, with `RecursionLemmas` on recursive
functions under the last three and `NumbersProofs` on the arithmetic of `Numbers`
under the last; `ProducerProofs`, over `RuntimeExecProofs`, is about the modules
that plans become. The operators whose
comment says "a plausible bug" are variants of the definition they precede;
each one breaks a property, which shows that the property depends on the code.

## What the runs check

* `calculus`: the calculus on two claims, with a fallible operation, a
  receipted tool, an external probe, and a tool that takes over the fallible
  operation's name. `Grounded`: no id dangles. `VerifiedIsSupported`: a verified
  claim has a derivation of its own by a registered operation, and the value its
  receipt recorded. That an external operation has its receipt is no part of it:
  an operation may become external after the fact.
  `LogExplainsStatus`: the last event about a claim determines its status.
  `GateBreaksHaveCause`: INV-VERIFY is not an invariant of the calculus, since an
  obligation may be attached to, or failed on, a verified claim, and its operation
  registered again as an external one, but nothing else breaks it.
  `ImplementsGate`: refinement.
* `incremental`: a diamond (y from x, z from x and y)
  that edits can close into a cycle (y from z), premises with evidence or an
  assumption, a division that fails and owes a bounds check, premises
  invalidated by hand, an operation that becomes external between the calls.
  `FrontierExact`: exactly the transitive dependents, for a
  changed claim or evidence. `OutsideKept`: INV-MINIMALITY at every moment.
  `RecomputeExact`: the claims gone through are the least set closed under
  readiness, so the order of iteration cannot matter. `RecomputedCoherent`:
  re-derived values agree with the final values of their inputs.
  `UnsettledInvalidated`: the rest stays Invalidated. `StepsAreCalls`: every step
  is a call of the calculus or leaves the module alone. `CallReturns`: every call
  ends.
* `contexts`: two branches and their merge, made in any order and again, with
  claims of one label in several of them. `NoSiblingLeak`: a context sees claims
  of the contexts it was made from only. `DetectedSeen` and
  `ScanFindsDisagreement`: a scan records contradictions between claims its
  context sees, and every disagreement among them. `StepsAreLocal`: a call
  touches one context and its claims. `SeenStaysSeen`: only making a context
  again takes claims out of its sight.
* `execution`: modules of up to five worklist statements in every order,
  modules that fail, producer plans, each followed by another module on the
  same runtime or by a replay. `AuthenticBasis`: no claim of a new runtime rests
  on trusted evidence whose signature fails, at any moment; what a refused
  execution left is refused again. `VerifiedAsAsked`: of an accepted module,
  exactly what was asked for is verified, or reported as a failure.
  `StuckIsGenuine`: an execution stopped for labels has statements that no order
  could run. `PlanSettled`:
  a plan with distinct labels, inputs that can be put in order and evidence for
  its authorities fails at most on an executor's error; otherwise exactly the
  steps that ask for verification and whose obligations, the operation's and the
  plan's, the plan discharges end Verified, in any order of its steps, live or
  in a replay. The operations of the instance generate what the registry has
  them generate (neg: TypeCompat; div: TypeCompat and NumericBounds).
  `ReplayReproduces`: no error and the same claims, unless two receipts of the live
  run share operation and inputs; then the first is taken twice. `StepsAreCalculus`: every
  step is a call of the calculus. `ExecutionEnds`.
* `values`: up to three derivations from seventeen premises, intervals stated
  upside down among them, which conversion lets through. `ExactWhileRoomy`:
  values are those of exact arithmetic while the denominators have a product in
  the width and no negation overflows. `ChainTypeOK`: numbers are in the width,
  and no derived interval is upside down. `UnitsAreDimensions`: units are what
  the premises' are. `StrongestDoubt`: Unknown prevails over Conflicting, that
  over every other model, those over external assertions and these over Exact,
  in whatever order they meet. `IntervalIsIntersection`, of intervals whose bounds
  can be compared in the width: its bounds are those of the premises'
  intersection, it is Conflicting without a Conflicting premise only where that
  is empty, and numeric doubt gives way to nothing else than a conflict or the
  unknown. Only one interval, untouched by a derivation, may be empty and numeric.
* `text`: every kind of statement with no and with all of its clauses, values
  and types of every kind, alone and next to others, and texts of nested records
  and calls that no formatter wrote. `PlainRoundTrips` and `LoudOrEqual` draw the
  border of the round trip: which trees come back, and which of the others do so
  only by being refused. `CallsBounded`: whatever lies between them, calls of
  constructors are nested no deeper than the bound.

The other runs each show one place where the code departs from what a document or
a comment says; `PROJECT.json` quotes it.

| run | what the code does |
|---|---|
| `retracted_assumption` | the verified dependents of a retracted assumption's claim can be missed |
| `refused_rederivation` | a refused re-derivation is reported as recomputed, its stale value verified |
| `required_obligation` | a required obligation is forgotten when its claim is recomputed |
| `merged_parent` | a branch from a merged context sees nothing of it |
| `saturated_denominator` | a sum whose common denominator overflows is wrong instead of an error |
| `conversion_panics` | a relation with too few operands, or a fraction over the least integer, parses and panics when converted |

More such promises are stated next to the properties that show how far they hold.
They are false, and none of them is among the runs above; each has a configuration
of its own, under which TLC gives a counterexample.

| promise | configuration | what is written | what the code does | what holds instead |
|---|---|---|---|---|
| `ReceiptDependentsFound` | `MCIncrementalReceipt` | incremental `lib.rs:3-5`: "When any premise, assumption, evidence, receipt, or operation version changes, the engine identifies the *exact* set of claims that depend on it"; the same in `lib.rs:91-94`, spec/semantics.md:331 and docs/incremental-invalidation.md:3 | no link leads from a claim to its receipt or operation, so that their dependents are not found | `FrontierExact`, of claims, evidence and assumptions |
| `RegisteredFixed` | `MCRuntimeExecReplaced` | spec/semantics.md:359-361: "Pure derivations depend only on inputs and the registered operation, both fixed" | a call registers an external operation over a builtin of its name | `GateBreaksHaveCause`, `ImplementsGate` |
| `ContextErrorsAreGenuine` | `MCRuntimeExecForward` | `runtime.rs:225-226`: "forward references are legal and declaration order is semantically irrelevant" | an assertion in the context of a branch of its module, or a derive before it, finds no context | `StuckIsGenuine`, of labels of claims |
| `FailuresAreGenuine` | `MCRuntimeExecOrder` | the same | a verify written before the discharge it needs fails | `PlanSettled`, of plans, which write it last |
| `RationalsReduced` | `MCValueChainReduced` | `num.rs:17`: "Reduced rational with `den > 0`"; spec/type-system.md:27: "`gcd(num, den) = 1`" | one half and one half are 2/2 | `ExactWhileRoomy`, up to reduction |
| `ExternalPassedThrough` | `MCValueChainExternal` | `uncertainty.rs:78`: "External assertion dominates (we do not recompute it)"; spec/uncertainty.md:29: "`ExternallyAsserted` is passed through" | it gives way to any other model than Exact | `StrongestDoubt`, which says to which |
| `IntervalsOrdered` | `MCValueChainOrdered` | spec/uncertainty.md:55-56: "`lo > hi` for any interval" is rejected | a numeric interval stated upside down is combined as it is | `IntervalIsIntersection`, which covers them |
| `NestingBounded` | `MCTextPipelineNesting` | `parser.rs:11-14`: "Maximum nesting depth for expressions/records"; docs/security/threat-model.md:77-88 | records pass their depth on unchanged, and types have none | `CallsBounded`, of calls |
| `RoundTrip` | `MCTextPipelineRoundTrip` | `formatter.rs:3-4`: "`parse(format(ast))` reproduces a structurally equal AST (round-trip)" | some trees are refused or come back as others | `PlainRoundTrips`, `LoudOrEqual`, which say which |

**Bounds.** No run of the calculus, of the incremental engine or of contexts
counts steps: histories of every length are covered. The constants `Statement`,
`Application`, `Judged`, `Verdict`, `Requirable` and `DischargeState` bound what
callers ask for. Two nodes suffice for the calculus because every call concerns
one claim and reads at most its inputs; three, with a diamond and a cycle, give
a frontier more than one level deep, a dependent that must wait for another
round, and claims that can never be ready. Two values tell success, failure and
staleness apart. `MaxLocal` (1) bounds the list of a context's own claims, which
the code lets grow by one with every repeated statement; a root, two branches of
it and their merge, with `Scannable` the merged context, are the smallest
lattice with siblings, inheritance on both sides and claims of one label in
several contexts. `MaxExecutions` (2) allows one execution on a runtime that an earlier
one has used; `MaxStmts` stands for the cap of 100,000 statements and one module
exceeds it. Eight bits (`MaxInt` = 127) keep every boundary of the 128-bit
arithmetic: least integers, overflowing products, a largest power of ten, here
`MaxScale` = 2; three derivations (`MaxDerives`) overflow, reduce and compare the
result of an unreduced one; two of the premises cannot be compared in the width.
`MaxDepth` = 2 nests expressions up to and past the limit that the parser has at
256. The sets of trees and of texts are finite, and each is followed from
beginning to end. A loop of the parser that reads one statement's clauses or
list is part of the action of its statement, so that a stall within it would be a
recursion without end and no behaviour: that they end is not a property here.

**Deadlock** is not checked: a module on which every call is refused simply
stays as it is, and executions, chains and texts come to an end.

**Fairness.** `CallReturns` and `ExecutionEnds` assume weak
fairness of the steps of a running call only: it is sequential code that nothing
can suspend. Callers are never assumed to call, and tools answer or fail.

## What is proved

Each theorem below holds for every value of the constants that satisfies the
named assumptions, which TLC evaluates on the instances. All inductive
invariants were first checked by TLC on the instance of their run.

**The calculus**, for all sets of nodes, values, evidence, operations and
receipts, all executors and all bounds. `ModuleAssumption` only types the
constants.

* `TypeInvariant`: the collections are well typed.
* `GroundedInvariant`: no id dangles. The invariant is inductive because every
  call adds to the collections and checks what it refers to; `GroundedGrows`
  reduces each action to the one claim or record it writes.
* `LogInvariant`: the log explains every status.
* `SupportInvariant`: verified claims are supported. The gate's conjuncts on
  obligations and on receipts are not inductive, since obligations move and
  operations are registered again; what survives is the derivation, and the value
  of its receipt (`ReceiptsHonoured`). It carries `PremiseUnderived`, needed by
  the refinement: an obligation call on a premise leaves the gate shut.
* `BreakTheorem` and `GateRefinement`. Both rest on `OthersKept`: a call writes
  one claim and the obligations that target it, and in a grounded module the
  gate of another claim depends on neither; and on `RegisterKeeps`: a new
  definition leaves the gates of claims concluded by other operations alone. The
  refinement then has one case per call: stating is Introduce, deriving is
  Conclude, an obligation call is MoveGate or a stutter, verify is Admit, the
  other changes of status are Withdraw, registering is Redefine, and supporting
  records are stutters.

**The incremental engine.** `IncAssumption` says that the engine may verify and
invalidate any claim. The inductive invariant `IncInv` joins the calculus's to
the sets of a call (`Control`, `Shares`), what it must leave as it was
(`Remembered`) and the search (`Searching`): what is reached is affected or
queued, and lies in every set closed under dependency. That second half is what
makes the frontier minimal without induction over paths: a least fixpoint is a
member of every closed set.

* `StepsAreCallsTheorem`, and from it `CalculusKept`: the invariants of the
  calculus hold in the middle of a call too, direct writes of status included.
* `FrontierTheorem`, `OutsideTheorem`, `IncTypeInvariant`.
* `RecomputeTheorem`, `CoherentTheorem`, `UnsettledTheorem` rest on a second
  invariant, `RoundInv`: what was gone through is settled and lies in every set
  closed under readiness, what was not is Invalidated, and what a fruitless
  round put off is not ready. Settled claims stay settled because an input is
  settled before its dependents and nothing outside the frontier moves.

**The runtime.** `RuntimeAssumption` says that the bounds of the calculus admit
the calls a program's statements make (`Admitted`), since the runtime calls
methods that have no such bounds. `ExecInv` relates labels, phase and statements:
a label names a recorded claim of that label, what is under way was ready when it
began, and a statement that is not left has bound the label it declares.

* `RuntimeStepsTheorem`: every step is a call of the calculus, a new runtime, or
  leaves the module alone; `ExecutionsKeepCalculus` follows for every execution,
  also after an error.
* `ExecTypeTheorem`, `StuckTheorem`.
* `AuthenticTheorem`: on a new runtime evidence is declared, and checked, before
  any claim is stated, so that a failed check leaves a module without claims;
  nothing later adds forged evidence (`LaterStep`); and a later execution that
  meets what an earlier one left ends well only without a trust root, where
  `verify_evidence_authenticity` accepts everything. The invariant `Authentic`
  says where in an execution forged evidence can be at all. The converse half of
  acceptance, `VerifiedAsAsked`, is checked by TLC only.
* `ReplayTheorem` compares two executions. `RuntimeExecProofs` states the
  interpreter a second time, as a function `After` from one state to the next
  that is given the receipts calls will be issued, and shows that every action is
  a step of it (`AheadStep`). A live execution follows it for every unambiguous
  set of receipts that holds those issued so far; a replay follows it for those
  it was given; both start from the same state (`FollowInv`). Runs of a function
  that halt end in the same state (`OneEnd`), so a replay ends where the live
  execution ended. That a call of a replay finds its receipt is part of this and
  not assumed.

**Plans**, of any length and in any order. `PlanAssumption` says that the parts of
a plan are vectors, that a plan is checked against the operations built in, and
that the evidence of a premise is not trusted: the clause `produce` writes for it
has no trust class. Trusted evidence would be refused, as a plan has no
signatures.

* `PlanTheorem`: `PlanSettled`. A flattened sequence is first described by its
  positions (`FlattenLaid`), so that the program of a plan is exactly the parts of
  its premises, assumptions and steps, those of a step in the order derive,
  require, discharge, verify (`ProduceWritten`, `ProduceFacts`).
* The invariant `Settling` then says of each step how far it is
  (`StepUnderway`): which of its parts are gone, always the first ones, and what
  its claim owes and has discharged by then (`Stands`). A label is bound to the
  claim of the step and to nothing else, as labels are distinct. When verify
  runs, the three parts before it have run, since they are ready whenever it is
  and come before it; so the gate is open iff the step is `Cleared`
  (`ClearedGate`).
* The execution does not stop for labels: of the steps with something left, the
  one of least rank has its inputs (`NeverStuck`). It starts from a new Runtime
  both live and in a replay (`FollowInv`), which is why the property holds of
  both; on a used one it need not, as a label may be bound already.

**Contexts**, for every naming of branches and merges. `IdAssumption` says that
an id determines the contexts it is made from, as a hash does;
`ContextsAssumption` types the constants and closes the values under the
executor.

* `LocalSteps`: a call touches one context and the claims of one context. Each
  kind of call reduces to a lemma that says which context that is.
* `SightKept`: a context sees what it saw until it is made again, and the root is
  never made again. A step makes each context grow or be fresh (`StepGrows`);
  that needs the form of the context records, the invariant `Shaped`.
* `CtxTypeTheorem`, `NoLeakTheorem`, `DetectedTheorem`, from the invariant
  `CtxInv`. Its part `Descent` says that a context's lineage is itself and the
  lineages of what its id hashes. Without it `NoSiblingLeak` is not inductive: a
  context that is made again must be made from the same contexts, or its heirs
  would keep claims of strangers.
* `ScanTheorem`: a scan finds every disagreement among what its context sees.

**Quantities**, for every width, every set of premises that a program can state
(`PremisesAssumption`, and `BoundsAssumption` for the form of their intervals)
and chains of any length. `WidthAssumption` makes the powers of ten up to
`MaxScale` fit the width, as 10^38 fits 128 bits. `ChainInv` keeps the form of the
claim together with the unit and the kinds of doubt that its history has.

* `ChainTypeTheorem`: every number of a chain is in the width. Reducing,
  rescaling and negating are unchecked in num.rs; the proof bounds the gcd, the
  saturating common multiple and each quotient (`GcdBounds`, `LcmFits`,
  `ReduceFits`, one lemma per operation after that). A program may state an
  interval upside down (convert.rs does not compare), so the theorem says of
  intervals what derivations make.
* `UnitsTheorem`.
* `DoubtTheorem`: which of the premises' doubts a claim carries, for every order
  of operands. It says where an external assertion is lost as well as where
  Unknown and Conflicting are kept.
* `ExactTheorem`: while there is room, every number is the one of exact
  arithmetic. `NumbersProofs` shows that Euclid's algorithm scales
  (`EuclidScales`) and divides (`EuclidDivides`), so a fraction has one lowest
  form (`LowestEqual`) and equal cross products are equal numbers
  (`SameFraction`). Each operation is then one lemma (`AddExact` to `CmpExact`,
  `ReloadExact`): that the cross product of its result and of the ideal one
  agree. `ChainInv` needs the ideal number to be in lowest form too
  (`IdealForm`), since the property compares forms and not values.
* `IntervalTheorem`: comparing exact values is a total order, of which the greater
  lower and the lesser upper bound are what `intersect` takes, and an
  intersection of intervals is empty only if two of them are apart. The property
  speaks of a chain as long as the bounds it has met are `Comparable`: the
  products of `cmp_num` are unchecked, and a comparison that leaves the width
  wraps, to any answer, or panics. The premises themselves are not restricted.
  The bounds of an intersection are bounds of premises the chain has met, so that
  they can be compared too, and so can those of its parts (`ComparablePart`).

`RecursionLemmas` proves that functions defined by recursion over an initial
segment of the naturals exist and unfold, by the least index at which a property
fails. That is how what `Merged`, `Climb` and Euclid's algorithm preserve is
proved, one fixed property at a time.

**What stays with TLC.** `CallReturns` and `ExecutionEnds` are liveness under
fairness, out of the prover's reach. `VerifiedAsAsked` has not been proved. The
text modules recurse over trees with RECURSIVE operators: `TextTypeOK`,
`PlainRoundTrips`, `LoudOrEqual` and `CallsBounded` are checked on the instance
only. The promises of the two tables of departures are false.

## What is not modelled, and the plan

Of the modelled components: the lexer's comments, escapes, spans and size
limits, and the wording of diagnostics; the display and canonical ordering of
values; `full_recompute`, which only the benchmarks call; the loop over all
contexts at the end of an execution with automatic contradictions, which repeats
the scan of `Contexts`; the conflicts that merge reports without storing them.

Left out as a whole: explanations are a read-only rendering of the module;
hashing and signatures are abstracted to identity and trust; the command line,
SDK and Python bindings keep no state between calls; the conformance suite,
benchmarks and fuzzers are harnesses.

Every safety property that the passing runs check of the calculus, the gate, the
incremental engine, contexts, the runtime, plans and quantities is a theorem but
for `VerifiedAsAsked`. Its proof would follow each statement to the end of its
execution, as `ProducerProofs` does for the steps of a plan. To prove those of the
text pipeline, its trees would have to be stated as sets that
are closed under their constructors, and its parser as a function of positions.
