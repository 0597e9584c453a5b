--------------------------- MODULE RuntimeExecProps ---------------------------
(***************************************************************************)
(* The properties of the runtime.                                          *)
(***************************************************************************)
EXTENDS RuntimeExec, FiniteSets

Statements == Seqs!ToSet(program)

Terminated == {"ok", "error"}

\* Every bound label names something recorded, also after an error.
ExecTypeOK ==
  /\ phase \in {"idle", "evidence", "premises", "worklist", "discharge", "call",
                "register", "apply"} \cup Terminated
  /\ left \subseteq DOMAIN program
  /\ busy \in Statements \cup {NoStmt} /\ receipt \in receipts \cup {NoReceipt}
  /\ phase = "discharge" => busy.verb = "discharge"
  /\ phase \in {"call", "register", "apply"} => busy.verb = "call"
  /\ \A l \in DOMAIN claimLabels : claimLabels[l] \in DOMAIN claims
  /\ \A n \in DOMAIN claims : n[2] \in contextLabels
  /\ \A l \in DOMAIN evidenceLabels : evidenceLabels[l] \in evidence
  /\ forged \subseteq evidence \cap Trusted
  /\ verifyFailures \subseteq DOMAIN claimLabels
  /\ replaying => receipts = Seqs!ToSet(preloaded)

-----------------------------------------------------------------------------
(* Steps. *)

\* Every step of an execution is one call of the calculus, the opening of a new
\* Runtime, or leaves the module alone: what holds of every call of the calculus
\* holds of executions.
StepsAreCalculus ==
  [][Next \/ FreshModule(Registry(Builtin), Seqs!ToSet(issued))]_vars

-----------------------------------------------------------------------------
(* The worklist. *)

\* The labels a statement of the worklist waits for.
NeededClaims(s) ==
  CASE s.verb \in {"derive", "call"} -> Seqs!ToSet(s.inputs)
    [] s.verb = "contradict" -> {s.a, s.b}
    [] s.verb \in {"branch", "merge"} -> {}
    [] OTHER -> {s.target}
NeededContexts(s) ==
  CASE s.verb = "branch" -> {s.parent} [] s.verb = "merge" -> {s.a, s.b} [] OTHER -> {}

Declares(s, verbs) == IF s.verb \in verbs THEN {s.label} ELSE {}
ClaimVerbs == Premises \cup {"derive", "call"}
DeclaredBy(S, verbs) == UNION {Declares(s, verbs) : s \in S}

\* An execution that stops for unbound labels had to: every statement left needs
\* a claim or a context that no statement that was run declares, or an authority
\* or receipt that nothing binds.  No order of the statements helps
\* (runtime.rs:225-228: "a cycle or a genuinely missing label").
StuckIsGenuine ==
  phase = "error" /\ error = "Unready" =>
    LET done == {program[i] : i \in DOMAIN program \ left}
        bound == DeclaredBy(done, ClaimVerbs)
        open == {RootLabel} \cup DeclaredBy(done, {"branch", "merge"}) IN
    \A i \in left :
      LET s == program[i] IN
      \/ ~(NeededClaims(s) \subseteq bound)
      \/ ~(NeededContexts(s) \subseteq open)
      \/ s.verb = "derive" /\ s.receipt
      \/ s.verb = "discharge" /\ s.by \notin bound \cup DOMAIN evidenceLabels

\* Every execution ends, with every statement run or an error.
ExecutionEnds == phase # "idle" ~> phase \in Terminated

-----------------------------------------------------------------------------
(* The end of an execution. *)

\* A Runtime that has executed nothing else, live or in replay mode.
New == executions = 1 \/ replaying

\* No claim of a new Runtime ever rests on trusted evidence whose signature fails,
\* not even in the middle of an execution that is refused in the end.  Only what
\* a refused execution left behind can be built on, by a later execution on its
\* Runtime, and that one is refused too if a trust root is configured.
AuthenticBasis ==
  \A n \in DOMAIN claims : claims[n].evidence \cap forged # {} =>
    ~New /\ (phase = "ok" => TrustRoots = {})

Asks(s, n) == s.verb = "verify" /\ s.target = n[1]

\* The one statement that declares l, with no statement that sets l's status.
Untouched(l) ==
  /\ Cardinality({i \in DOMAIN program :
                    program[i].verb \in ClaimVerbs /\ program[i].label = l}) = 1
  /\ ~\E s \in Statements : s.verb \in {"challenge", "invalidate", "attest"} /\ s.target = l

\* A failed verification is no error, so acceptance must not hide it: when a new
\* Runtime accepts a module, whatever is Verified was asked for and has an open
\* gate, and whatever was asked for is Verified or reported as a failure.
VerifiedAsAsked ==
  phase = "ok" /\ New =>
    /\ \A n \in DOMAIN claims : claims[n].status = "Verified" =>
         GateOpen(n) /\ \E s \in Statements : Asks(s, n)
    /\ \A n \in DOMAIN claims : (\E s \in Statements : Asks(s, n)) /\ Untouched(n[1]) =>
         claims[n].status = "Verified" \/ n[1] \in verifyFailures

\* Two receipts a replay could take for one call.
Ambiguous ==
  \E i, j \in DOMAIN preloaded :
    /\ i # j
    /\ preloaded[i].op = preloaded[j].op
    /\ preloaded[i].inputs = preloaded[j].inputs

\* Replay on a new Runtime ends without an error and with the claims of the live
\* execution, values, statuses and derivations, as long as the live execution was
\* not issued two receipts for one operation and one list of inputs.
ReplayReproduces ==
  phase \in Terminated /\ replaying /\ ~Ambiguous => phase = "ok" /\ claims = live

-----------------------------------------------------------------------------
(* What documents and comments say and executions do not do.               *)

\* What spec/semantics.md:359-361 says: "Pure derivations depend only on inputs
\* and the registered operation, both fixed."  A call registers the name it is
\* given as an external operation, over a builtin of that name.
RegisteredFixed ==
  [][\A op \in DOMAIN operations \cap DOMAIN operations' :
       operations'[op] = operations[op]]_vars

\* What runtime.rs:225-226 says: "forward references are legal and declaration
\* order is semantically irrelevant".  Then a context label is unknown only if no
\* branch or merge declares it.  Premises run before every branch, and a derive or
\* call that is ready does not wait for its context.
ContextErrorsAreGenuine ==
  phase = "error" /\ error = "UnknownContextLabel" =>
    \E s \in Statements :
      /\ s.verb \in ClaimVerbs
      /\ s.ctx \notin contextLabels \cup DeclaredBy(Statements, {"branch", "merge"})

\* By the same words, a verification that fails is not one that would succeed
\* further down: the gate of a claim stated once is shut when the execution ends.
\* A ready verify does not wait for the discharge written after it.
FailuresAreGenuine ==
  phase = "ok" /\ New =>
    \A l \in verifyFailures : Untouched(l) => ~GateOpen(Claimed(l))
=============================================================================
