------------------------------- MODULE Contexts -------------------------------
(***************************************************************************)
(* Contexts of axiom-core's Module: claims stated in a context, branches,  *)
(* merges, contradictions, and the runtime's contradiction scan.  Of a     *)
(* claim only what these read is kept: its value, status and assumptions,  *)
(* and whether an obligation of its list is Failed.                        *)
(*                                                                         *)
(* A node id hashes label and context, a context id its parent, label and  *)
(* assumptions or the two merged contexts and a label, an assumption id    *)
(* its claim and scope: here the hashed content is the id, and contexts    *)
(* get theirs from BranchId and MergeId.  The order of a context's         *)
(* contradiction list is left out; that of its claims orders the pairs of  *)
(* the scan and is kept.                                                   *)
(***************************************************************************)
EXTENDS Naturals, Sequences, SequencesExt

CONSTANTS
  Context,           \* bound: the context ids considered
  Root,              \* the root context's id
  NoContext,         \* no parent
  BranchId(_, _, _), \* BranchId(parent, label, list of assumptions)
  MergeId(_, _, _),  \* MergeId(a, b, label)
  ContextLabel,      \* labels of branch and merge statements
  Label,             \* claim labels
  Scope,             \* assumption scopes
  Value,             \* claim values, records with a field `kind`
  Asserted,          \* bound: <<label, context, value>> that callers assert
  Assumed,           \* bound: <<label, context, value, scope>> that they assume
  Derived,           \* bound: <<input nodes, label, context>> that they derive
  Raised,            \* bound: <<node, node, context>> of explicit contradictions
  Scannable,         \* bound: the contexts that callers scan
  Judged,            \* bound: nodes whose obligations callers settle
  Combine(_),        \* Combine(S): a derivation's output from its input values
  RaisedKind,        \* bound: contradiction kinds that callers raise themselves
  MaxLocal,          \* bound: claims stated in one context
  MaxListed          \* bound: assumptions that a branch lists

Node == Label \X Context

Assumption == Node \X Scope

ASSUME ContextsAssumption ==
  /\ Root \in Context
  /\ NoContext \notin Context
  /\ MaxLocal \in Nat /\ MaxListed \in Nat
  /\ Asserted \subseteq Label \X Context \X Value
  /\ Assumed \subseteq Label \X Context \X Value \X Scope
  /\ Derived \subseteq (SUBSET Node) \X Label \X Context
  /\ Raised \subseteq Node \X Node \X Context
  /\ Scannable \subseteq Context
  /\ Judged \subseteq Node
  /\ \A S \in SUBSET Value : Combine(S) \in Value

\* The contexts that are hashed into a context's id: its parent, or what it merges.
Sources(id) ==
  {{p} : p \in {p \in Context : \E l \in ContextLabel,
                                    as \in BoundedSeq(Assumption, MaxListed) :
                                    BranchId(p, l, as) = id}}
  \cup {{q[1], q[2]} : q \in {q \in Context \X Context : \E l \in ContextLabel :
                                 MergeId(q[1], q[2], l) = id}}

\* Ids are hashes of what they are made from.
ASSUME IdAssumption == \A id \in Context : \A S, T \in Sources(id) : S = T

VARIABLES
  contexts,       \* context id -> its record
  claims,         \* node -> its record
  assumptions,    \* recorded assumptions
  contradictions, \* recorded contradictions
  lineage         \* history: context id -> the contexts it was made from

ctxVars == <<contexts, claims, assumptions, contradictions, lineage>>

NewContext(parent, as, inherited) ==
  [parent |-> parent, assumptions |-> as, inherited |-> inherited,
   local |-> <<>>, contradictions |-> {}]

CtxInit ==
  /\ contexts = [c \in {Root} |-> NewContext(NoContext, {}, <<>>)]
  /\ claims = <<>>
  /\ assumptions = {}
  /\ contradictions = {}
  /\ lineage = [c \in {Root} |-> {Root}]

\* IndexMap::insert.
Bind(map, key, val) ==
  [k \in DOMAIN map \cup {key} |-> IF k = key THEN val ELSE map[k]]

Known(c) == c \in DOMAIN contexts

WithNew(s, e) == IF Contains(s, e) THEN s ELSE Append(s, e)

\* t's elements that s lacks, in order and once each, after s.
Merged(s, t) ==
  LET upto[i \in 0..Len(t)] == IF i = 0 THEN s ELSE WithNew(upto[i - 1], t[i])
  IN upto[Len(t)]

\* full_claim_set: a context's own claims, then those it inherited.
FullClaimSet(c) == Merged(contexts[c].local, contexts[c].inherited)

-----------------------------------------------------------------------------
(* Claims.  A context the module does not hold is accepted: the claim is   *)
(* recorded and listed nowhere.  A claim stated again is listed again.     *)

\* The context's local_claims and assumptions, if there is such a context.
List(n, as) ==
  contexts' = IF Known(n[2])
                THEN [contexts EXCEPT ![n[2]].local = Append(@, n),
                                      ![n[2]].assumptions = @ \cup as]
                ELSE contexts

\* assert, observe and derive, as far as contexts go.
State(n, v, status, as) ==
  /\ Known(n[2]) => Len(contexts[n[2]].local) < MaxLocal
  /\ claims' = Bind(claims, n, [value |-> v, status |-> status,
                                assumptions |-> as, failed |-> FALSE])
  /\ UNCHANGED <<contradictions, lineage>>

AssertIn(l, c, v) ==
  /\ State(<<l, c>>, v, "Asserted", {})
  /\ List(<<l, c>>, {})
  /\ UNCHANGED assumptions

\* A plausible bug: the assumption is listed and not recorded.
AssumeUnrecorded(l, c, v, scope) ==
  LET as == {<<<<l, c>>, scope>>} IN
  /\ State(<<l, c>>, v, "Assumed", as)
  /\ List(<<l, c>>, as)
  /\ UNCHANGED assumptions

AssumeIn(l, c, v, scope) ==
  LET as == {<<<<l, c>>, scope>>} IN
  /\ State(<<l, c>>, v, "Assumed", as)
  /\ List(<<l, c>>, as)
  /\ assumptions' = assumptions \cup as

\* The inputs are claims of any context, seen from c or not.
DeriveIn(inputs, l, c) ==
  /\ inputs \subseteq DOMAIN claims
  /\ LET as == UNION {claims[n].assumptions : n \in inputs}
         v == Combine({claims[n].value : n \in inputs})
     IN State(<<l, c>>, v, "Pending", as)
  /\ List(<<l, c>>, {})
  /\ UNCHANGED assumptions

\* A claim's obligations are discharged, to Failed or otherwise, or attached
\* anew: whether its list holds a failed one is settled from outside.
SettleObligations(n, fails) ==
  /\ n \in DOMAIN claims
  /\ claims' = [claims EXCEPT ![n].failed = fails]
  /\ UNCHANGED <<contexts, assumptions, contradictions, lineage>>

-----------------------------------------------------------------------------
(* Branches and merges.  Making a context whose id exists replaces it: the *)
(* old one's local claims and contradictions are no longer listed.  The    *)
(* root's id hashes a content that no branch or merge hashes.              *)

\* The loop of `branch`: where it is, and the claims it has collected.
Climb(w) ==
  IF Known(w.at)
    THEN [at |-> contexts[w.at].parent, seen |-> Merged(w.seen, contexts[w.at].local)]
    ELSE w

\* What a branch of p inherits: the local claims of its parent chain, nearest
\* first.  The loop leaves the chain after one round for each of its contexts.
Inherited(p) ==
  LET rounds == Cardinality(DOMAIN contexts)
      up[k \in 0..rounds] ==
        IF k = 0 THEN [at |-> p, seen |-> <<>>] ELSE Climb(up[k - 1])
  IN up[rounds].seen

\* A plausible bug: a branch inherits whatever the module holds.
BranchOfEverything(p, label, as) ==
  LET id == BranchId(p, label, as) IN
  /\ Known(p) /\ ToSet(as) \subseteq assumptions /\ id \in Context \ {Root}
  /\ contexts' = Bind(contexts, id, NewContext(p, ToSet(as), SetToSeq(DOMAIN claims)))
  /\ lineage' = Bind(lineage, id, {id} \cup lineage[p])
  /\ UNCHANGED <<claims, assumptions, contradictions>>

Branch(p, label, as) ==
  LET id == BranchId(p, label, as) IN
  /\ Known(p) /\ ToSet(as) \subseteq assumptions /\ id \in Context \ {Root}
  /\ contexts' = Bind(contexts, id, NewContext(p, ToSet(as), Inherited(p)))
  /\ lineage' = Bind(lineage, id, {id} \cup lineage[p])
  /\ UNCHANGED <<claims, assumptions, contradictions>>

\* A plausible bug: a merge moves its first side's inherited claims.
MergeTaking(a, b, label) ==
  LET id == MergeId(a, b, label) IN
  /\ Known(a) /\ Known(b) /\ id \in Context \ {Root}
  /\ contexts' = [Bind(contexts, id,
                       NewContext(NoContext,
                                  contexts[a].assumptions \cup contexts[b].assumptions,
                                  Merged(FullClaimSet(a), FullClaimSet(b))))
                    EXCEPT ![a].inherited = <<>>]
  /\ lineage' = Bind(lineage, id, {id} \cup lineage[a] \cup lineage[b])
  /\ UNCHANGED <<claims, assumptions, contradictions>>

\* The conflicts the call reports are the claims of both sides with one
\* semantic id and different values.  The id hashes the value: there are none,
\* and nothing in the module records them.
Merge(a, b, label) ==
  LET id == MergeId(a, b, label) IN
  /\ Known(a) /\ Known(b) /\ id \in Context \ {Root}
  /\ contexts' = Bind(contexts, id,
                      NewContext(NoContext,
                                 contexts[a].assumptions \cup contexts[b].assumptions,
                                 Merged(FullClaimSet(a), FullClaimSet(b))))
  /\ lineage' = Bind(lineage, id, {id} \cup lineage[a] \cup lineage[b])
  /\ UNCHANGED <<claims, assumptions, contradictions>>

-----------------------------------------------------------------------------
(* Contradictions. *)

\* A plausible bug: a contradiction takes its claims out of play.
RecordDisputed(new, c) ==
  /\ contradictions' = contradictions \cup new
  /\ contexts' = IF Known(c)
                   THEN [contexts EXCEPT ![c].contradictions = @ \cup new]
                   ELSE contexts
  /\ claims' = [n \in DOMAIN claims |->
                  IF \E k \in new : n \in {k.claims[1], k.claims[2]}
                    THEN [claims[n] EXCEPT !.status = "Disputed"] ELSE claims[n]]
  /\ UNCHANGED <<assumptions, lineage>>

\* Claims are left as they are.
Record(new, c) ==
  /\ contradictions' = contradictions \cup new
  /\ contexts' = IF Known(c)
                   THEN [contexts EXCEPT ![c].contradictions = @ \cup new]
                   ELSE contexts
  /\ UNCHANGED <<claims, assumptions, lineage>>

\* Any two or more recorded claims, not necessarily distinct, in any context.
Contradict(a, b, kind, c) ==
  /\ {a, b} \subseteq DOMAIN claims
  /\ Record({[kind |-> kind, claims |-> <<a, b>>, context |-> c]}, c)

\* Each assumption of a claim, as its scope and its claim's present value.
Scopes(n) == {<<as[2], claims[as[1]].value>> : as \in claims[n].assumptions}

ValueClash(v, w) ==
  CASE v.kind = "bool" /\ w.kind = "bool" /\ v # w -> {"PropositionNegation"}
    [] /\ v.kind = "interval" /\ w.kind = "interval"
       /\ v.lo > w.hi \/ w.lo > v.hi -> {"DisjointInterval"}
    [] /\ v.kind = "quantity" /\ w.kind = "quantity"
       /\ v.value = w.value /\ v.unit # w.unit -> {"IncompatibleUnit"}
    [] OTHER -> {}

\* The kind found for two claims, the first that applies; none if {}.
Classify(a, b) ==
  IF claims[a].failed \/ claims[b].failed THEN {"ViolatedPostcondition"}
  ELSE IF \E s \in Scopes(a), t \in Scopes(b) : s[1] = t[1] /\ s[2] # t[2]
    THEN {"AssumptionConflict"}
  ELSE IF a[1] = b[1] /\ claims[a].value # claims[b].value
    THEN {"IncompatibleEquality"}
  ELSE ValueClash(claims[a].value, claims[b].value)

\* A plausible bug: only the context's own claims are scanned.
ScannedLocally(c) == contexts[c].local

\* A plausible bug: the whole module is scanned.
ScannedEverywhere(c) == SetToSeq(DOMAIN claims)

\* The claims the scan pairs; one that is listed twice is paired with itself.
Scanned(c) == FullClaimSet(c)

Detected(c) ==
  LET seen == Scanned(c) IN
  UNION {{[kind |-> kind, claims |-> <<seen[p[1]], seen[p[2]]>>, context |-> c] :
            kind \in Classify(seen[p[1]], seen[p[2]])} :
           p \in {q \in (1..Len(seen)) \X (1..Len(seen)) : q[1] < q[2]}}

DetectContradictions(c) == Known(c) /\ Record(Detected(c), c)

-----------------------------------------------------------------------------

StateSome ==
  \/ \E s \in Asserted : AssertIn(s[1], s[2], s[3])
  \/ \E s \in Assumed : AssumeIn(s[1], s[2], s[3], s[4])
  \/ \E s \in Derived : DeriveIn(s[1], s[2], s[3])

MakeContext ==
  \/ \E p \in Context, l \in ContextLabel, as \in BoundedSeq(assumptions, MaxListed) :
       Branch(p, l, as)
  \/ \E a, b \in Context, l \in ContextLabel : Merge(a, b, l)

Dispute ==
  \/ \E c \in Scannable : DetectContradictions(c)
  \/ \E s \in Raised, kind \in RaisedKind : Contradict(s[1], s[2], kind, s[3])

CtxNext ==
  \/ StateSome
  \/ \E n \in Judged, fails \in BOOLEAN : SettleObligations(n, fails)
  \/ MakeContext
  \/ Dispute

CtxSpec == CtxInit /\ [][CtxNext]_ctxVars
=============================================================================
