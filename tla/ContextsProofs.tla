----------------------------- MODULE ContextsProofs -----------------------------
(***************************************************************************)
(* Proofs about contexts, for every set of ids, labels and values and      *)
(* every naming of branches and merges: what a call touches, what a        *)
(* context sees, and where what it sees comes from.                        *)
(***************************************************************************)
EXTENDS ContextsProps, RecursionLemmas, FiniteSetTheorems

\* The claims and contexts outside c are as they were.
TouchesOnly(c) ==
  /\ \A d \in DOMAIN contexts \ {c} : contexts'[d] = contexts[d]
  /\ \A n \in DOMAIN claims : claims'[n] = claims[n] \/ n[2] = c

-----------------------------------------------------------------------------
(* Each kind of call touches one context. *)

\* Listing a claim changes the record of its own context only.
LEMMA ListTouches ==
  ASSUME NEW n, NEW as, List(n, as)
  PROVE  \A d \in DOMAIN contexts \ {n[2]} : contexts'[d] = contexts[d]
BY DEF List

\* Stating a claim changes no other claim.
LEMMA StateTouches ==
  ASSUME NEW n, NEW v, NEW status, NEW as, State(n, v, status, as)
  PROVE  \A m \in DOMAIN claims : claims'[m] = claims[m] \/ m[2] = n[2]
BY DEF State, Bind

\* Recording contradictions in a context changes that context only.
LEMMA RecordTouches ==
  ASSUME NEW new, NEW c, Record(new, c)
  PROVE  TouchesOnly(c)
BY DEF Record, TouchesOnly

\* Making a context changes that context only.
LEMMA MakeTouches ==
  ASSUME NEW id, NEW r, contexts' = Bind(contexts, id, r), UNCHANGED claims
  PROVE  TouchesOnly(id)
BY DEF Bind, TouchesOnly

\* A call that states a claim in a context touches that context.
LEMMA StateSomeTouches ==
  ASSUME StateSome
  PROVE  \E c \in Context : TouchesOnly(c)
<1>1. CASE \E s \in Asserted : AssertIn(s[1], s[2], s[3])
  <2>1. PICK s \in Asserted : AssertIn(s[1], s[2], s[3]) BY <1>1
  <2>2. s[2] \in Context BY ContextsAssumption
  <2>3. TouchesOnly(s[2])
    BY <2>1, ListTouches, StateTouches DEF AssertIn, TouchesOnly
  <2>4. QED BY <2>2, <2>3
<1>2. CASE \E s \in Assumed : AssumeIn(s[1], s[2], s[3], s[4])
  <2>1. PICK s \in Assumed : AssumeIn(s[1], s[2], s[3], s[4]) BY <1>2
  <2>2. s[2] \in Context BY ContextsAssumption
  <2>3. TouchesOnly(s[2])
    BY <2>1, ListTouches, StateTouches DEF AssumeIn, TouchesOnly
  <2>4. QED BY <2>2, <2>3
<1>3. CASE \E s \in Derived : DeriveIn(s[1], s[2], s[3])
  <2>1. PICK s \in Derived : DeriveIn(s[1], s[2], s[3]) BY <1>3
  <2>2. s[3] \in Context BY ContextsAssumption
  <2>3. TouchesOnly(s[3])
    BY <2>1, ListTouches, StateTouches DEF DeriveIn, TouchesOnly
  <2>4. QED BY <2>2, <2>3
<1>4. QED BY <1>1, <1>2, <1>3 DEF StateSome

\* Settling obligations touches the context of its claim.
LEMMA SettleTouches ==
  ASSUME NEW n \in Judged, NEW fails \in BOOLEAN, SettleObligations(n, fails)
  PROVE  n[2] \in Context /\ TouchesOnly(n[2])
<1>1. n[2] \in Context BY ContextsAssumption DEF Node
<1>2. \A m \in DOMAIN claims : claims'[m] = claims[m] \/ m = n
  BY DEF SettleObligations
<1>3. QED BY <1>1, <1>2 DEF SettleObligations, TouchesOnly

\* A branch or merge touches the context it makes.
LEMMA MakeContextTouches ==
  ASSUME MakeContext
  PROVE  \E c \in Context : TouchesOnly(c)
<1>1. CASE \E p \in Context, l \in ContextLabel, as \in BoundedSeq(assumptions, MaxListed) :
             Branch(p, l, as)
  <2>1. PICK p \in Context, l \in ContextLabel, as \in BoundedSeq(assumptions, MaxListed) :
               Branch(p, l, as)
    BY <1>1
  <2> DEFINE id == BranchId(p, l, as)
             r == NewContext(p, ToSet(as), Inherited(p))
  <2>2. id \in Context /\ contexts' = Bind(contexts, id, r) /\ UNCHANGED claims
    BY <2>1 DEF Branch
  <2> HIDE DEF id, r
  <2>3. QED BY <2>2, MakeTouches
<1>2. CASE \E a, b \in Context, l \in ContextLabel : Merge(a, b, l)
  <2>1. PICK a \in Context, b \in Context, l \in ContextLabel : Merge(a, b, l)
    BY <1>2
  <2> DEFINE id == MergeId(a, b, l)
             r == NewContext(NoContext,
                             contexts[a].assumptions \cup contexts[b].assumptions,
                             Merged(FullClaimSet(a), FullClaimSet(b)))
  <2>2. id \in Context /\ contexts' = Bind(contexts, id, r) /\ UNCHANGED claims
    BY <2>1 DEF Merge
  <2> HIDE DEF id, r
  <2>3. QED BY <2>2, MakeTouches
<1>3. QED BY <1>1, <1>2 DEF MakeContext

\* A scan or an explicit contradiction touches the context it is recorded in.
LEMMA DisputeTouches ==
  ASSUME Dispute
  PROVE  \E c \in Context : TouchesOnly(c)
<1>1. CASE \E c \in Scannable : DetectContradictions(c)
  <2>1. PICK c \in Scannable : Record(Detected(c), c)
    BY <1>1 DEF DetectContradictions
  <2>2. c \in Context BY ContextsAssumption
  <2>3. QED BY <2>1, <2>2, RecordTouches
<1>2. CASE \E s \in Raised, kind \in RaisedKind :
             Contradict(s[1], s[2], kind, s[3])
  <2>1. PICK s \in Raised, kind \in RaisedKind :
               Contradict(s[1], s[2], kind, s[3])
    BY <1>2
  <2>2. s[3] \in Context BY ContextsAssumption
  <2>3. TouchesOnly(s[3])
    BY <2>1, RecordTouches DEF Contradict
  <2>4. QED BY <2>2, <2>3
<1>3. QED BY <1>1, <1>2 DEF Dispute

\* Every call touches one context and the claims of one context: whatever a
\* statement, branch, merge, contradiction or failed obligation does, it leaves
\* the other contexts and their claims as they are.
THEOREM LocalSteps == CtxSpec => StepsAreLocal
<1>1. ASSUME CtxNext PROVE \E c \in Context : TouchesOnly(c)
  <2>1. CASE StateSome BY <2>1, StateSomeTouches
  <2>2. CASE \E n \in Judged, fails \in BOOLEAN : SettleObligations(n, fails) BY <2>2, SettleTouches
  <2>3. CASE MakeContext BY <2>3, MakeContextTouches
  <2>4. CASE Dispute BY <2>4, DisputeTouches
  <2>5. QED BY <1>1, <2>1, <2>2, <2>3, <2>4 DEF CtxNext
<1>2. [CtxNext]_ctxVars =>
        [\E c \in Context :
           /\ \A d \in DOMAIN contexts \ {c} : contexts'[d] = contexts[d]
           /\ \A n \in DOMAIN claims : claims'[n] = claims[n] \/ n[2] = c]_ctxVars
  BY <1>1 DEF TouchesOnly, ctxVars
<1>3. QED BY <1>2, PTL DEF CtxSpec, StepsAreLocal

-----------------------------------------------------------------------------
(* What a context sees.                                                    *)

\* The inductive invariant: the fields of a context record, and local claims
\* that are a sequence of nodes.  Nothing is said of what is inherited.
Shaped ==
  \A c \in DOMAIN contexts :
    /\ contexts[c] = [parent |-> contexts[c].parent,
                      assumptions |-> contexts[c].assumptions,
                      inherited |-> contexts[c].inherited,
                      local |-> contexts[c].local,
                      contradictions |-> contexts[c].contradictions]
    /\ contexts[c].local \in Seq(Node)

\* c sees what it saw, and keeps its record's form.
Grows(c) ==
  /\ c \in DOMAIN contexts'
  /\ contexts'[c] = [parent |-> contexts'[c].parent,
                     assumptions |-> contexts'[c].assumptions,
                     inherited |-> contexts[c].inherited,
                     local |-> contexts'[c].local,
                     contradictions |-> contexts'[c].contradictions]
  /\ contexts'[c].local \in Seq(Node)
  /\ ToSet(contexts[c].local) \subseteq ToSet(contexts'[c].local)

\* c is new or made again, and lists nothing of its own.
Fresh(c) ==
  /\ c # Root
  /\ \E p, as, inherited : contexts'[c] = NewContext(p, as, inherited)

\* No context is lost, and each has grown or is fresh.
GrownOrFresh ==
  /\ DOMAIN contexts \subseteq DOMAIN contexts'
  /\ \A c \in DOMAIN contexts' : \/ c \in DOMAIN contexts /\ Grows(c)
                                 \/ Fresh(c)

\* Appending to a sequence loses none of its elements.
LEMMA AppendKeeps ==
  ASSUME NEW S, NEW t \in Seq(S), NEW e \in S
  PROVE  Append(t, e) \in Seq(S) /\ ToSet(t) \subseteq ToSet(Append(t, e))
<1>1. Append(t, e) \in Seq(S) OBVIOUS
<1>2. \A i \in DOMAIN t : i \in DOMAIN Append(t, e) /\ Append(t, e)[i] = t[i]
  OBVIOUS
<1>3. QED BY <1>1, <1>2 DEF ToSet

\* A context whose record is left alone grows.
LEMMA SameGrows ==
  ASSUME Shaped, NEW c \in DOMAIN contexts, c \in DOMAIN contexts',
         contexts'[c] = contexts[c]
  PROVE  Grows(c)
BY DEF Shaped, Grows

\* A claim that is listed makes its context grow and leaves the others.
LEMMA ListGrows ==
  ASSUME Shaped, NEW n \in Node, NEW as, List(n, as)
  PROVE  GrownOrFresh
<1>1. CASE ~ Known(n[2])
  BY <1>1, SameGrows DEF List, GrownOrFresh
<1>2. CASE Known(n[2])
  <2> DEFINE k == n[2]
             old == contexts[k]
  <2>1. /\ old = [parent |-> old.parent, assumptions |-> old.assumptions,
                  inherited |-> old.inherited, local |-> old.local,
                  contradictions |-> old.contradictions]
        /\ old.local \in Seq(Node)
    BY <1>2 DEF Known, Shaped
  <2>2. contexts' = [contexts EXCEPT ![k].local = Append(@, n),
                                     ![k].assumptions = @ \cup as]
    BY <1>2 DEF List
  <2>3. /\ DOMAIN contexts' = DOMAIN contexts
        /\ \A c \in DOMAIN contexts \ {k} : contexts'[c] = contexts[c]
    BY <2>2
  <2>4. contexts'[k] = [old EXCEPT !.local = Append(@, n),
                                   !.assumptions = @ \cup as]
    BY <1>2, <2>2 DEF Known
  <2>5. contexts'[k] = [parent |-> old.parent,
                        assumptions |-> old.assumptions \cup as,
                        inherited |-> old.inherited,
                        local |-> Append(old.local, n),
                        contradictions |-> old.contradictions]
    <3> HIDE DEF old
    <3>1. QED BY <2>1, <2>4
  <2>6. /\ Append(old.local, n) \in Seq(Node)
        /\ ToSet(old.local) \subseteq ToSet(Append(old.local, n))
    BY <2>1, AppendKeeps
  <2>7. Grows(k)
    BY <1>2, <2>3, <2>5, <2>6 DEF Grows, Known
  <2>8. QED BY <2>3, <2>7, SameGrows DEF GrownOrFresh
<1>3. QED BY <1>1, <1>2

\* A contradiction that is recorded takes nothing from any context.
LEMMA RecordGrows ==
  ASSUME Shaped, NEW new, NEW c, Record(new, c)
  PROVE  GrownOrFresh
<1>1. CASE ~ Known(c)
  BY <1>1, SameGrows DEF Record, GrownOrFresh
<1>2. CASE Known(c)
  <2> DEFINE old == contexts[c]
  <2>1. /\ old = [parent |-> old.parent, assumptions |-> old.assumptions,
                  inherited |-> old.inherited, local |-> old.local,
                  contradictions |-> old.contradictions]
        /\ old.local \in Seq(Node)
    BY <1>2 DEF Known, Shaped
  <2>2. contexts' = [contexts EXCEPT ![c].contradictions = @ \cup new]
    BY <1>2 DEF Record
  <2>3. /\ DOMAIN contexts' = DOMAIN contexts
        /\ \A d \in DOMAIN contexts \ {c} : contexts'[d] = contexts[d]
        /\ contexts'[c] = [old EXCEPT !.contradictions = @ \cup new]
    BY <1>2, <2>2 DEF Known
  <2>4. contexts'[c] = [parent |-> old.parent, assumptions |-> old.assumptions,
                        inherited |-> old.inherited, local |-> old.local,
                        contradictions |-> old.contradictions \cup new]
    <3> HIDE DEF old
    <3>1. QED BY <2>1, <2>3
  <2>5. Grows(c)
    BY <1>2, <2>1, <2>3, <2>4 DEF Grows, Known
  <2>6. QED BY <2>3, <2>5, SameGrows DEF GrownOrFresh
<1>3. QED BY <1>1, <1>2

\* A context that is made is fresh, and the others are left alone.
LEMMA MakeGrows ==
  ASSUME Shaped, NEW id, id # Root, NEW p, NEW as, NEW inherited,
         contexts' = Bind(contexts, id, NewContext(p, as, inherited))
  PROVE  GrownOrFresh
<1>1. /\ DOMAIN contexts' = DOMAIN contexts \cup {id}
      /\ contexts'[id] = NewContext(p, as, inherited)
      /\ \A c \in DOMAIN contexts \ {id} : contexts'[c] = contexts[c]
  BY DEF Bind
<1>2. Fresh(id) BY <1>1 DEF Fresh
<1>3. QED BY <1>1, <1>2, SameGrows DEF GrownOrFresh

\* Every step lets each context grow or makes it fresh.
LEMMA StepGrows ==
  ASSUME Shaped, [CtxNext]_ctxVars
  PROVE  GrownOrFresh
<1>1. CASE StateSome
  <2>1. ASSUME NEW s \in Asserted, AssertIn(s[1], s[2], s[3])
        PROVE  GrownOrFresh
    <3>1. <<s[1], s[2]>> \in Node BY <2>1, ContextsAssumption DEF Node
    <3>2. QED BY <2>1, <3>1, ListGrows DEF AssertIn
  <2>2. ASSUME NEW s \in Assumed, AssumeIn(s[1], s[2], s[3], s[4])
        PROVE  GrownOrFresh
    <3>1. <<s[1], s[2]>> \in Node BY <2>2, ContextsAssumption DEF Node
    <3>2. QED BY <2>2, <3>1, ListGrows DEF AssumeIn
  <2>3. ASSUME NEW s \in Derived, DeriveIn(s[1], s[2], s[3])
        PROVE  GrownOrFresh
    <3>1. <<s[2], s[3]>> \in Node BY <2>3, ContextsAssumption DEF Node
    <3>2. QED BY <2>3, <3>1, ListGrows DEF DeriveIn
  <2>4. QED BY <1>1, <2>1, <2>2, <2>3 DEF StateSome
<1>2. CASE \E n \in Judged, fails \in BOOLEAN : SettleObligations(n, fails)
  BY <1>2, SameGrows DEF SettleObligations, GrownOrFresh
<1>3. CASE MakeContext
  <2>1. ASSUME NEW p \in Context, NEW l \in ContextLabel,
               NEW as \in BoundedSeq(assumptions, MaxListed), Branch(p, l, as)
        PROVE  GrownOrFresh
    <3> DEFINE id == BranchId(p, l, as)
               listed == ToSet(as)
               inherited == Inherited(p)
    <3>1. id # Root /\ contexts' = Bind(contexts, id, NewContext(p, listed, inherited))
      BY <2>1 DEF Branch
    <3> HIDE DEF id, listed, inherited
    <3>2. QED BY <3>1, MakeGrows
  <2>2. ASSUME NEW a \in Context, NEW b \in Context, NEW l \in ContextLabel,
               Merge(a, b, l)
        PROVE  GrownOrFresh
    <3> DEFINE id == MergeId(a, b, l)
               as == contexts[a].assumptions \cup contexts[b].assumptions
               inherited == Merged(FullClaimSet(a), FullClaimSet(b))
    <3>1. /\ id # Root
          /\ contexts' = Bind(contexts, id, NewContext(NoContext, as, inherited))
      BY <2>2 DEF Merge
    <3> HIDE DEF id, as, inherited
    <3>2. QED BY <3>1, MakeGrows
  <2>3. QED BY <1>3, <2>1, <2>2 DEF MakeContext
<1>4. CASE Dispute
  <2>1. ASSUME NEW c \in Scannable, DetectContradictions(c)
        PROVE  GrownOrFresh
    BY <2>1, RecordGrows DEF DetectContradictions
  <2>2. ASSUME NEW s \in Raised, NEW kind \in RaisedKind,
               Contradict(s[1], s[2], kind, s[3])
        PROVE  GrownOrFresh
    BY <2>2, RecordGrows DEF Contradict
  <2>3. QED BY <1>4, <2>1, <2>2 DEF Dispute
<1>5. CASE UNCHANGED ctxVars
  BY <1>5, SameGrows DEF ctxVars, GrownOrFresh
<1>6. QED BY <1>1, <1>2, <1>3, <1>4, <1>5 DEF CtxNext

\* A step that lets contexts grow or makes them fresh keeps their form.
LEMMA ShapeKept ==
  ASSUME Shaped, GrownOrFresh
  PROVE  Shaped'
<1> DEFINE Form(r) == /\ r = [parent |-> r.parent,
                              assumptions |-> r.assumptions,
                              inherited |-> r.inherited,
                              local |-> r.local,
                              contradictions |-> r.contradictions]
                      /\ r.local \in Seq(Node)
<1>1. ASSUME NEW c \in DOMAIN contexts', Fresh(c) PROVE Form(contexts'[c])
  <2>1. PICK p, as, inherited : contexts'[c] = NewContext(p, as, inherited)
    BY <1>1 DEF Fresh
  <2>2. <<>> \in Seq(Node) OBVIOUS
  <2>3. QED BY <2>1, <2>2 DEF NewContext
<1>2. ASSUME NEW c \in DOMAIN contexts', Grows(c) PROVE Form(contexts'[c])
  BY <1>2 DEF Grows
<1>3. \A c \in DOMAIN contexts' : Form(contexts'[c])
  BY <1>1, <1>2 DEF GrownOrFresh
<1>4. QED BY <1>3 DEF Shaped

\* Every context record has its form, in every behaviour.
THEOREM ShapeInvariant == CtxSpec => []Shaped
<1>1. CtxInit => Shaped
  <2> SUFFICES ASSUME CtxInit PROVE Shaped OBVIOUS
  <2>1. /\ DOMAIN contexts = {Root}
        /\ contexts[Root] = NewContext(NoContext, {}, <<>>)
    BY DEF CtxInit
  <2> DEFINE r == contexts[Root]
  <2>2. /\ r = [parent |-> r.parent, assumptions |-> r.assumptions,
                inherited |-> r.inherited, local |-> r.local,
                contradictions |-> r.contradictions]
        /\ r.local = <<>>
    <3> HIDE DEF r
    <3>1. r = NewContext(NoContext, {}, <<>>) BY <2>1 DEF r
    <3>2. QED BY <3>1 DEF NewContext
  <2>3. <<>> \in Seq(Node) OBVIOUS
  <2>4. QED BY <2>1, <2>2, <2>3 DEF Shaped
<1>2. Shaped /\ [CtxNext]_ctxVars => Shaped'
  BY StepGrows, ShapeKept
<1>3. QED BY <1>1, <1>2, PTL DEF CtxSpec

\* A context sees what it saw until a branch or merge makes it again, and the
\* root is never made again: no statement, scan or obligation takes a claim out
\* of a context.
THEOREM SightKept == CtxSpec => SeenStaysSeen
<1> DEFINE Kept == \A c \in DOMAIN contexts :
                     \/ Seen(c) \subseteq Seen(c)'
                     \/ c # Root /\ contexts'[c].local = <<>>
                                 /\ contexts'[c].contradictions = {}
<1>1. ASSUME Shaped, [CtxNext]_ctxVars PROVE Kept
  <2> SUFFICES ASSUME NEW c \in DOMAIN contexts
               PROVE  \/ Seen(c) \subseteq Seen(c)'
                      \/ c # Root /\ contexts'[c].local = <<>>
                                  /\ contexts'[c].contradictions = {}
    OBVIOUS
  <2>1. DOMAIN contexts \subseteq DOMAIN contexts'
    BY <1>1, StepGrows DEF GrownOrFresh
  <2>2. Grows(c) \/ Fresh(c)
    BY <1>1, <2>1, StepGrows DEF GrownOrFresh
  <2>3. CASE Grows(c)
    <3>1. contexts'[c].inherited = contexts[c].inherited
      BY <2>3 DEF Grows
    <3>2. QED BY <2>3, <3>1 DEF Grows, Seen
  <2>4. CASE Fresh(c)
    BY <2>4 DEF Fresh, NewContext
  <2>5. QED BY <2>2, <2>3, <2>4
<1>2. Shaped /\ [CtxNext]_ctxVars => [Kept]_ctxVars
  BY <1>1
<1>3. QED BY <1>2, ShapeInvariant, PTL DEF CtxSpec, SeenStaysSeen

-----------------------------------------------------------------------------
(* The lists of claims. *)

\* A sequence of claims stays one when claims are added.
LEMMA SeqGrows ==
  ASSUME NEW S, NEW T, S \subseteq T, NEW q \in Seq(S)
  PROVE  q \in Seq(T)
OBVIOUS

\* A claim's sequence as the set of its elements, and back.
LEMMA SeqOfElements ==
  ASSUME NEW S, NEW T, NEW q \in Seq(S), ToSet(q) \subseteq T
  PROVE  q \in Seq(T)
BY DEF ToSet

LEMMA ElementsOfSeq ==
  ASSUME NEW S, NEW q \in Seq(S)
  PROVE  ToSet(q) \subseteq S
BY DEF ToSet

LEMMA PairElements ==
  ASSUME NEW S, NEW a \in S, NEW b \in S
  PROVE  <<a, b>> \in Seq(S) /\ ToSet(<<a, b>>) = {a, b}
<1>1. <<a, b>> \in Seq(S) /\ DOMAIN <<a, b>> = {1, 2}
  OBVIOUS
<1>2. QED BY <1>1 DEF ToSet

LEMMA AppendElements ==
  ASSUME NEW S, NEW q \in Seq(S), NEW e \in S
  PROVE  Append(q, e) \in Seq(S) /\ ToSet(Append(q, e)) = ToSet(q) \cup {e}
<1>1. /\ Append(q, e) \in Seq(S)
      /\ DOMAIN Append(q, e) = DOMAIN q \cup {Len(q) + 1}
      /\ Append(q, e)[Len(q) + 1] = e
      /\ \A k \in DOMAIN q : Append(q, e)[k] = q[k]
  OBVIOUS
<1>2. QED BY <1>1 DEF ToSet

LEMMA WithNewElements ==
  ASSUME NEW S, NEW q \in Seq(S), NEW e \in S
  PROVE  WithNew(q, e) \in Seq(S) /\ ToSet(WithNew(q, e)) = ToSet(q) \cup {e}
<1>1. CASE Contains(q, e)
  BY <1>1 DEF WithNew, Contains, ToSet
<1>2. CASE ~Contains(q, e)
  BY <1>2, AppendElements DEF WithNew
<1>3. QED BY <1>1, <1>2

\* The rounds of full_claim_set.
LEMMA MergedRounds ==
  ASSUME NEW S, NEW s \in Seq(S), NEW t \in Seq(S)
  PROVE  \E f \in [0..Len(t) -> Seq(S)] :
           /\ f[0] = s /\ Merged(s, t) = f[Len(t)]
           /\ \A i \in 1..Len(t) : f[i] = WithNew(f[i - 1], t[i])
<1> DEFINE N == Len(t)
           upto[i \in 0..N] == IF i = 0 THEN s ELSE WithNew(upto[i - 1], t[i])
           step == [i \in 1..N |-> [q \in Seq(S) |-> WithNew(q, t[i])]]
<1>1. N \in Nat /\ \A i \in 1..N : t[i] \in S
  OBVIOUS
<1>2. \A i \in 1..N, q \in Seq(S) : WithNew(q, t[i]) \in Seq(S)
  BY <1>1, WithNewElements
<1>3. \A i \in 1..N : \A q \in Seq(S) : step[i][q] \in Seq(S)
  BY <1>2
<1>4. \A i \in 1..N, q \in Seq(S) : step[i][q] = WithNew(q, t[i])
  OBVIOUS
<1> HIDE DEF step, N
<1>5. PICK g : Runs(g, N, Seq(S), s, step)
  BY <1>1, <1>3, RecursionExists, Zenon
<1>6. \A i \in 1..N : i - 1 \in 0..N
  BY <1>1
<1>7. \A i \in 1..N : g[i] = WithNew(g[i - 1], t[i])
  BY <1>4, <1>5, <1>6 DEF Runs
<1>8. g = [i \in 0..N |-> IF i = 0 THEN s ELSE WithNew(g[i - 1], t[i])]
  BY <1>1, <1>5, <1>7 DEF Runs
<1>9. upto = [i \in 0..N |-> IF i = 0 THEN s ELSE WithNew(upto[i - 1], t[i])]
  BY <1>8, Zenon
<1> HIDE DEF upto
<1>10. PICK f : f = upto
  OBVIOUS
<1>11. f[0] = s /\ \A i \in 1..N : f[i] = WithNew(f[i - 1], t[i])
  BY <1>1, <1>9, <1>10
<1>12. f \in [0..N -> Seq(S)]
  <2> DEFINE P == {i \in 0..N : f[i] \in Seq(S)}
  <2>1. 0 \in P
    BY <1>1, <1>11
  <2>2. ASSUME NEW i \in 1..N, i - 1 \in P PROVE i \in P
    <3>1. f[i - 1] \in Seq(S) /\ i \in 0..N
      BY <1>1, <2>2
    <3>2. QED BY <1>2, <1>11, <3>1
  <2>3. 0..N \subseteq P
    <3> HIDE DEF P
    <3>1. QED BY <1>1, <2>1, <2>2, InductionUpto
  <2>4. QED BY <1>9, <1>10, <2>3
<1>13. Merged(s, t) = f[N]
  BY <1>10 DEF Merged, upto, N
<1>14. QED BY <1>11, <1>12, <1>13 DEF N

\* It keeps every claim of the two lists and adds none.
LEMMA MergedElements ==
  ASSUME NEW S, NEW s \in Seq(S), NEW t \in Seq(S)
  PROVE  Merged(s, t) \in Seq(S) /\ ToSet(Merged(s, t)) = ToSet(s) \cup ToSet(t)
<1> DEFINE N == Len(t)
           Before(i) == {t[j] : j \in 1..i}
<1>1. PICK f \in [0..N -> Seq(S)] :
             /\ f[0] = s /\ Merged(s, t) = f[N]
             /\ \A i \in 1..N : f[i] = WithNew(f[i - 1], t[i])
  BY MergedRounds
<1>2. N \in Nat /\ \A i \in 1..N : t[i] \in S /\ i - 1 \in 0..N
  OBVIOUS
<1> DEFINE P == {i \in 0..N : ToSet(f[i]) = ToSet(s) \cup Before(i)}
<1>3. 0 \in P
  BY <1>1, <1>2
<1>4. ASSUME NEW i \in 1..N, i - 1 \in P PROVE i \in P
  <2>1. f[i - 1] \in Seq(S) /\ t[i] \in S
    BY <1>2
  <2>2. ToSet(f[i]) = ToSet(f[i - 1]) \cup {t[i]}
    <3>1. f[i] = WithNew(f[i - 1], t[i])
      BY <1>1
    <3>2. PICK q \in Seq(S) : q = f[i - 1]
      BY <2>1
    <3>3. PICK e \in S : e = t[i]
      BY <2>1
    <3>4. ToSet(WithNew(q, e)) = ToSet(q) \cup {e}
      BY WithNewElements
    <3>5. QED BY <3>1, <3>2, <3>3, <3>4
  <2>3. Before(i) = Before(i - 1) \cup {t[i]}
    OBVIOUS
  <2>4. QED BY <1>4, <2>2, <2>3
<1>5. 0..N \subseteq P
  <2> HIDE DEF P, N
  <2>1. QED BY <1>2, <1>3, <1>4, InductionUpto
<1>6. ToSet(f[N]) = ToSet(s) \cup Before(N)
  BY <1>2, <1>5
<1>7. Before(N) = ToSet(t)
  BY DEF ToSet
<1>8. f[N] \in Seq(S)
  BY <1>2
<1>9. QED BY <1>1, <1>6, <1>7, <1>8

-----------------------------------------------------------------------------
(* Where a context comes from. *)

LineageOf(S) == UNION {lineage[d] : d \in S}

\* A context's lineage is itself and the lineages of what its id hashes; it is
\* closed, and the parent is in it.
DescentOK(c) ==
  /\ c \in lineage[c] /\ lineage[c] \subseteq DOMAIN contexts
  /\ contexts[c].parent \in lineage[c] \cup {NoContext}
  /\ \A d \in lineage[c] : lineage[d] \subseteq lineage[c]
  /\ c # Root => \E S \in Sources(c) :
                   S \subseteq DOMAIN contexts /\ lineage[c] = {c} \cup LineageOf(S)

Descent ==
  /\ IsFiniteSet(DOMAIN contexts)
  /\ \A c \in DOMAIN contexts : DescentOK(c)

\* The inductive invariant: a context made again is made from what it was made
\* from, so that what its heirs inherited stays theirs.
CtxInv == Shaped /\ CtxTypeOK /\ Descent /\ NoSiblingLeak /\ DetectedSeen

\* Claims of the contexts a context comes from.
FromLineage(c) == {n \in DOMAIN claims : n[2] \in lineage[c]}

\* A round of branch's loop stays among the ancestors.
LEMMA ClimbStays ==
  ASSUME CtxTypeOK, Descent, NEW p \in DOMAIN contexts,
         NEW w \in [at : lineage[p] \cup {NoContext}, seen : Seq(FromLineage(p))]
  PROVE  Climb(w) \in [at : lineage[p] \cup {NoContext}, seen : Seq(FromLineage(p))]
<1> DEFINE C == FromLineage(p)
           a == w.at
<1>1. CASE ~Known(a)
  BY <1>1 DEF Climb
<1>2. CASE Known(a)
  <2>1. a \in DOMAIN contexts /\ a # NoContext
    BY <1>2, ContextsAssumption DEF Known, CtxTypeOK
  <2>2. a \in lineage[p]
    BY <2>1
  <2>3. contexts[a].parent \in lineage[p] \cup {NoContext}
    BY <2>1, <2>2 DEF Descent, DescentOK
  <2>4. contexts[a].local \in Seq({n \in DOMAIN claims : n[2] = a})
    BY <2>1 DEF CtxTypeOK, ContextOK
  <2>5. {n \in DOMAIN claims : n[2] = a} \subseteq C
    BY <2>2 DEF FromLineage
  <2>6. contexts[a].local \in Seq(C) /\ w.seen \in Seq(C)
    BY <2>4, <2>5, SeqGrows
  <2>7. Merged(w.seen, contexts[a].local) \in Seq(C)
    BY <2>6, MergedElements
  <2>8. QED BY <1>2, <2>3, <2>7 DEF Climb
<1>3. QED BY <1>1, <1>2

\* A branch of p inherits claims of p's lineage.
LEMMA InheritedElements ==
  ASSUME CtxTypeOK, Descent, NEW p \in DOMAIN contexts
  PROVE  Inherited(p) \in Seq(FromLineage(p))
<1> DEFINE N == Cardinality(DOMAIN contexts)
           W == [at : lineage[p] \cup {NoContext}, seen : Seq(FromLineage(p))]
           start == [at |-> p, seen |-> <<>>]
           up[k \in 0..N] == IF k = 0 THEN [at |-> p, seen |-> <<>>] ELSE Climb(up[k - 1])
           step == [i \in 1..N |-> [w \in W |-> Climb(w)]]
<1>1. N \in Nat
  BY FS_CardinalityType DEF Descent
<1>2. start \in W
  BY DEF Descent, DescentOK
<1>3. \A w \in W : Climb(w) \in W
  BY ClimbStays
<1>4. \A i \in 1..N : \A w \in W : step[i][w] = Climb(w)
  OBVIOUS
<1> HIDE DEF N, W, step
<1>5. \A i \in 1..N : \A w \in W : step[i][w] \in W
  BY <1>3, <1>4
<1>6. PICK g : Runs(g, N, W, start, step)
  <2> HIDE DEF start
  <2>1. QED BY <1>1, <1>2, <1>5, RecursionExists, Zenon
<1>7. \A i \in 1..N : g[i] = Climb(g[i - 1])
  <2>1. \A i \in 1..N : i - 1 \in 0..N
    BY <1>1
  <2>2. QED BY <1>4, <1>6, <2>1 DEF Runs
<1>8. g = [k \in 0..N |-> IF k = 0 THEN [at |-> p, seen |-> <<>>] ELSE Climb(g[k - 1])]
  BY <1>1, <1>6, <1>7 DEF Runs
<1>9. up = [k \in 0..N |-> IF k = 0 THEN [at |-> p, seen |-> <<>>] ELSE Climb(up[k - 1])]
  BY <1>8, Zenon
<1> HIDE DEF up
<1>10. up[0] = start /\ \A i \in 1..N : up[i] = Climb(up[i - 1])
  BY <1>1, <1>9
<1> DEFINE P == {i \in 0..N : up[i] \in W}
<1>11. 0 \in P
  BY <1>1, <1>2, <1>10
<1>12. ASSUME NEW i \in 1..N, i - 1 \in P PROVE i \in P
  <2>1. up[i - 1] \in W /\ i \in 0..N
    BY <1>1, <1>12
  <2>2. QED BY <1>3, <1>10, <2>1
<1>13. 0..N \subseteq P
  <2> HIDE DEF P
  <2>1. QED BY <1>1, <1>11, <1>12, InductionUpto
<1>14. up[N] \in W
  BY <1>1, <1>13
<1>15. Inherited(p) = up[N].seen
  BY DEF Inherited, up, N
<1>16. QED BY <1>14, <1>15 DEF W

\* What a context sees comes from its lineage.
LEMMA FullClaimSetElements ==
  ASSUME CtxTypeOK, NEW c \in DOMAIN contexts
  PROVE  /\ FullClaimSet(c) \in Seq(DOMAIN claims)
         /\ ToSet(FullClaimSet(c)) = Seen(c)
         /\ Seen(c) \subseteq DOMAIN claims
<1>1. contexts[c].local \in Seq({n \in DOMAIN claims : n[2] = c})
      /\ contexts[c].inherited \in Seq(DOMAIN claims)
  BY DEF CtxTypeOK, ContextOK
<1>2. contexts[c].local \in Seq(DOMAIN claims)
  BY <1>1, SeqGrows
<1>3. QED BY <1>1, <1>2, MergedElements, ElementsOfSeq DEF FullClaimSet, Seen

-----------------------------------------------------------------------------
(* The steps that leave the contexts in place. *)

\* What listing a claim does to the records.
LEMMA ListRecords ==
  ASSUME Shaped, NEW n, NEW as, List(n, as)
  PROVE  /\ DOMAIN contexts' = DOMAIN contexts
         /\ \A c \in DOMAIN contexts :
              /\ contexts'[c].parent = contexts[c].parent
              /\ contexts'[c].inherited = contexts[c].inherited
              /\ contexts'[c].contradictions = contexts[c].contradictions
              /\ IF c = n[2]
                   THEN /\ contexts'[c].local = Append(contexts[c].local, n)
                        /\ contexts'[c].assumptions = contexts[c].assumptions \cup as
                   ELSE contexts'[c] = contexts[c]
<1>1. CASE ~Known(n[2])
  BY <1>1 DEF List, Known
<1>2. CASE Known(n[2])
  <2> DEFINE k == n[2]
             old == contexts[k]
  <2>1. old = [parent |-> old.parent, assumptions |-> old.assumptions,
               inherited |-> old.inherited, local |-> old.local,
               contradictions |-> old.contradictions]
    BY <1>2 DEF Known, Shaped
  <2>2. contexts' = [contexts EXCEPT ![k].local = Append(@, n),
                                     ![k].assumptions = @ \cup as]
    BY <1>2 DEF List
  <2>3. /\ DOMAIN contexts' = DOMAIN contexts
        /\ \A c \in DOMAIN contexts \ {k} : contexts'[c] = contexts[c]
        /\ contexts'[k] = [old EXCEPT !.local = Append(@, n), !.assumptions = @ \cup as]
    BY <1>2, <2>2 DEF Known
  <2>4. contexts'[k] = [parent |-> old.parent, assumptions |-> old.assumptions \cup as,
                        inherited |-> old.inherited, local |-> Append(old.local, n),
                        contradictions |-> old.contradictions]
    <3> HIDE DEF old
    <3>1. QED BY <2>1, <2>3
  <2>5. QED BY <2>3, <2>4
<1>3. QED BY <1>1, <1>2

\* What recording contradictions does to them.
LEMMA RecordRecords ==
  ASSUME Shaped, NEW new, NEW k, Record(new, k)
  PROVE  /\ DOMAIN contexts' = DOMAIN contexts
         /\ \A c \in DOMAIN contexts :
              /\ contexts'[c].parent = contexts[c].parent
              /\ contexts'[c].inherited = contexts[c].inherited
              /\ contexts'[c].local = contexts[c].local
              /\ contexts'[c].assumptions = contexts[c].assumptions
              /\ contexts'[c].contradictions =
                   contexts[c].contradictions \cup (IF c = k THEN new ELSE {})
<1>1. CASE ~Known(k)
  BY <1>1 DEF Record, Known
<1>2. CASE Known(k)
  <2> DEFINE old == contexts[k]
  <2>1. old = [parent |-> old.parent, assumptions |-> old.assumptions,
               inherited |-> old.inherited, local |-> old.local,
               contradictions |-> old.contradictions]
    BY <1>2 DEF Known, Shaped
  <2>2. contexts' = [contexts EXCEPT ![k].contradictions = @ \cup new]
    BY <1>2 DEF Record
  <2>3. /\ DOMAIN contexts' = DOMAIN contexts
        /\ \A c \in DOMAIN contexts \ {k} : contexts'[c] = contexts[c]
        /\ contexts'[k] = [old EXCEPT !.contradictions = @ \cup new]
    BY <1>2, <2>2 DEF Known
  <2>4. contexts'[k] = [parent |-> old.parent, assumptions |-> old.assumptions,
                        inherited |-> old.inherited, local |-> old.local,
                        contradictions |-> old.contradictions \cup new]
    <3> HIDE DEF old
    <3>1. QED BY <2>1, <2>3
  <2>5. QED BY <2>3, <2>4
<1>3. QED BY <1>1, <1>2

\* Contexts that keep their parents keep their descent.
LEMMA DescentKept ==
  ASSUME Descent, DOMAIN contexts' = DOMAIN contexts, lineage' = lineage,
         \A c \in DOMAIN contexts : contexts'[c].parent = contexts[c].parent
  PROVE  Descent'
<1>1. \A S : LineageOf(S)' = LineageOf(S)
  BY DEF LineageOf
<1>2. ASSUME NEW c \in DOMAIN contexts PROVE DescentOK(c)'
  BY <1>1 DEF Descent, DescentOK
<1>3. QED BY <1>2 DEF Descent

\* A claim that is stated is seen from its own context.
LEMMA StateKeeps ==
  ASSUME CtxInv, NEW n \in Node, NEW v \in Value,
         NEW status \in {"Asserted", "Assumed", "Pending"}, NEW as, NEW listed,
         State(n, v, status, as), List(n, listed),
         as \subseteq assumptions', listed \subseteq assumptions',
         assumptions \subseteq assumptions', assumptions' \subseteq Assumption
  PROVE  CtxTypeOK' /\ Descent' /\ NoSiblingLeak' /\ DetectedSeen'
<1>1. /\ DOMAIN contexts' = DOMAIN contexts
      /\ \A c \in DOMAIN contexts :
           /\ contexts'[c].parent = contexts[c].parent
           /\ contexts'[c].inherited = contexts[c].inherited
           /\ contexts'[c].contradictions = contexts[c].contradictions
           /\ IF c = n[2]
                THEN /\ contexts'[c].local = Append(contexts[c].local, n)
                     /\ contexts'[c].assumptions = contexts[c].assumptions \cup listed
                ELSE contexts'[c] = contexts[c]
  BY ListRecords DEF CtxInv
<1>2. /\ DOMAIN claims' = DOMAIN claims \cup {n}
      /\ claims'[n] = [value |-> v, status |-> status, assumptions |-> as, failed |-> FALSE]
      /\ \A m \in DOMAIN claims : m # n => claims'[m] = claims[m]
      /\ UNCHANGED <<contradictions, lineage>>
  BY DEF State, Bind
<1>3. ClaimsOK'
  <2>1. \A k \in contradictions : k.claims \in Seq(DOMAIN claims')
    BY <1>2, SeqGrows DEF CtxInv, CtxTypeOK, ClaimsOK
  <2>2. \A m \in DOMAIN claims' :
          claims'[m] \in [value : Value, status : {"Asserted", "Assumed", "Pending"},
                          assumptions : SUBSET assumptions', failed : BOOLEAN]
    <3>1. ASSUME NEW m \in DOMAIN claims, m # n
          PROVE claims'[m] \in [value : Value, status : {"Asserted", "Assumed", "Pending"},
                                assumptions : SUBSET assumptions', failed : BOOLEAN]
      BY <1>2, <3>1 DEF CtxInv, CtxTypeOK, ClaimsOK
    <3>2. claims'[n] \in [value : Value, status : {"Asserted", "Assumed", "Pending"},
                         assumptions : SUBSET assumptions', failed : BOOLEAN]
      <4>1. as \in SUBSET assumptions' /\ FALSE \in BOOLEAN
        OBVIOUS
      <4>2. PICK A : A = SUBSET assumptions'
        OBVIOUS
      <4>3. [value |-> v, status |-> status, assumptions |-> as, failed |-> FALSE]
              \in [value : Value, status : {"Asserted", "Assumed", "Pending"},
                   assumptions : A, failed : BOOLEAN]
        BY <4>1, <4>2
      <4>4. QED BY <1>2, <4>2, <4>3
    <3>3. \A m \in DOMAIN claims' : m = n \/ (m \in DOMAIN claims /\ m # n)
      BY <1>2
    <3>4. QED BY <3>1, <3>2, <3>3
  <2>3. QED BY <1>2, <2>1, <2>2 DEF CtxInv, CtxTypeOK, ClaimsOK
<1>4. ASSUME NEW c \in DOMAIN contexts
      PROVE  /\ contexts'[c].local \in Seq({m \in DOMAIN claims' : m[2] = c})
             /\ ToSet(contexts[c].local) \subseteq ToSet(contexts'[c].local)
             /\ ToSet(contexts'[c].local) \subseteq {m \in DOMAIN claims' : m[2] = c}
  <2> DEFINE C == {m \in DOMAIN claims' : m[2] = c}
  <2>1. contexts[c].local \in Seq({m \in DOMAIN claims : m[2] = c})
    BY DEF CtxInv, CtxTypeOK, ContextOK
  <2>2. {m \in DOMAIN claims : m[2] = c} \subseteq C
    BY <1>2
  <2>3. contexts[c].local \in Seq(C)
    BY <2>1, <2>2, SeqGrows
  <2>4. CASE c = n[2]
    <3>1. n \in C
      BY <1>2, <2>4
    <3> HIDE DEF C
    <3>2. /\ Append(contexts[c].local, n) \in Seq(C)
          /\ ToSet(Append(contexts[c].local, n)) = ToSet(contexts[c].local) \cup {n}
      BY <2>3, <3>1, AppendElements
    <3>3. contexts'[c].local = Append(contexts[c].local, n)
      BY <1>1, <2>4
    <3>4. contexts'[c].local \in Seq(C)
          /\ ToSet(contexts[c].local) \subseteq ToSet(contexts'[c].local)
      BY <3>2, <3>3
    <3>5. QED BY <3>4, ElementsOfSeq DEF C
  <2>5. CASE c # n[2]
    BY <1>1, <2>3, <2>5, ElementsOfSeq
  <2>6. QED BY <2>4, <2>5
<1>5. CtxTypeOK'
  <2>1. ASSUME NEW c \in DOMAIN contexts PROVE ContextOK(c)'
    <3>1. contexts[c].inherited \in Seq(DOMAIN claims')
      BY <1>2, SeqGrows DEF CtxInv, CtxTypeOK, ContextOK
    <3>2. contexts'[c].assumptions \subseteq assumptions'
      BY <1>1 DEF CtxInv, CtxTypeOK, ContextOK
    <3>3. QED BY <1>1, <1>2, <1>4, <3>1, <3>2 DEF CtxInv, CtxTypeOK, ContextOK
  <2>2. QED BY <1>1, <1>2, <1>3, <2>1 DEF CtxInv, CtxTypeOK
<1>6. Descent'
  BY <1>1, <1>2, DescentKept DEF CtxInv
<1>7. \A c \in DOMAIN contexts : Seen(c) \subseteq Seen(c)'
  BY <1>1, <1>4 DEF Seen
<1>8. NoSiblingLeak'
  <2>1. ASSUME NEW c \in DOMAIN contexts, NEW m \in Seen(c)' PROVE m[2] \in lineage[c]
    <3>1. CASE m \in Seen(c)
      BY <3>1 DEF CtxInv, NoSiblingLeak
    <3>2. CASE m \in ToSet(contexts'[c].local)
      <4>1. m[2] = c
        BY <1>4, <3>2
      <4>2. c \in lineage[c]
        BY DEF CtxInv, Descent, DescentOK
      <4>3. QED BY <4>1, <4>2
    <3>3. QED BY <1>1, <2>1, <3>1, <3>2 DEF Seen
  <2>2. QED BY <1>1, <1>2, <2>1 DEF NoSiblingLeak
<1>9. DetectedSeen'
  BY <1>1, <1>7 DEF CtxInv, DetectedSeen
<1>10. QED BY <1>5, <1>6, <1>8, <1>9

\* Settling obligations changes nothing that a context lists.
LEMMA SettleKeeps ==
  ASSUME CtxInv, NEW n, NEW fails \in BOOLEAN, SettleObligations(n, fails)
  PROVE  CtxTypeOK' /\ Descent' /\ NoSiblingLeak' /\ DetectedSeen'
<1> DEFINE R == [value : Value, status : {"Asserted", "Assumed", "Pending"},
                 assumptions : SUBSET assumptions, failed : BOOLEAN]
<1>1. /\ DOMAIN claims' = DOMAIN claims /\ n \in DOMAIN claims
      /\ claims' = [claims EXCEPT ![n].failed = fails]
      /\ UNCHANGED <<contexts, assumptions, contradictions, lineage>>
  BY DEF SettleObligations
<1>2. \A m \in DOMAIN claims : claims[m] \in R
  BY DEF CtxInv, CtxTypeOK, ClaimsOK
<1>3. \A m \in DOMAIN claims : claims'[m] \in R
  BY <1>1, <1>2
<1>4. ClaimsOK'
  BY <1>1, <1>3 DEF CtxInv, CtxTypeOK, ClaimsOK
<1>5. CtxTypeOK'
  BY <1>1, <1>4 DEF CtxInv, CtxTypeOK, ContextOK
<1>6. Descent'
  BY <1>1, DescentKept DEF CtxInv
<1>7. NoSiblingLeak' /\ DetectedSeen'
  BY <1>1 DEF CtxInv, NoSiblingLeak, DetectedSeen, Seen
<1>8. QED BY <1>5, <1>6, <1>7

-----------------------------------------------------------------------------
(* The steps that make a context. *)

\* A context made from S, whether it is new or made again, lists claims of S's
\* lineages and leaves every lineage as it was.
LEMMA MakeKeeps ==
  ASSUME CtxInv, NEW id \in Context \ {Root},
         NEW S \in Sources(id), S \subseteq DOMAIN contexts,
         NEW p \in S \cup {NoContext}, NEW as \in SUBSET assumptions,
         NEW q \in Seq(DOMAIN claims), \A m \in ToSet(q) : m[2] \in LineageOf(S),
         contexts' = Bind(contexts, id, NewContext(p, as, q)),
         lineage' = Bind(lineage, id, {id} \cup LineageOf(S)),
         UNCHANGED <<claims, assumptions, contradictions>>
  PROVE  CtxTypeOK' /\ Descent' /\ NoSiblingLeak' /\ DetectedSeen'
<1>1. /\ DOMAIN contexts' = DOMAIN contexts \cup {id}
      /\ contexts'[id] = NewContext(p, as, q)
      /\ \A c \in DOMAIN contexts \ {id} : contexts'[c] = contexts[c]
  BY DEF Bind
<1>2. /\ contexts'[id].parent = p /\ contexts'[id].assumptions = as
      /\ contexts'[id].inherited = q /\ contexts'[id].local = <<>>
      /\ contexts'[id].contradictions = {}
  <2>1. PICK r : r = contexts'[id]
    OBVIOUS
  <2>2. r = [parent |-> p, assumptions |-> as, inherited |-> q,
             local |-> <<>>, contradictions |-> {}]
    BY <1>1, <2>1 DEF NewContext
  <2>3. /\ r.parent = p /\ r.assumptions = as /\ r.inherited = q
        /\ r.local = <<>> /\ r.contradictions = {}
    BY <2>2
  <2>4. QED BY <2>1, <2>3
<1>3. DOMAIN lineage = DOMAIN contexts
  BY DEF CtxInv, CtxTypeOK
<1>4. /\ DOMAIN lineage' = DOMAIN contexts \cup {id}
      /\ lineage'[id] = {id} \cup LineageOf(S)
      /\ \A c \in DOMAIN contexts \ {id} : lineage'[c] = lineage[c]
  BY <1>3 DEF Bind
<1>5. \A c \in DOMAIN contexts : lineage'[c] = lineage[c]
  <2>1. ASSUME id \in DOMAIN contexts PROVE lineage[id] = {id} \cup LineageOf(S)
    <3>1. PICK T \in Sources(id) : lineage[id] = {id} \cup LineageOf(T)
      BY <2>1 DEF CtxInv, Descent, DescentOK
    <3>2. T = S
      BY IdAssumption
    <3>3. QED BY <3>1, <3>2
  <2>2. QED BY <1>4, <2>1
<1>6. \A d \in DOMAIN contexts : DescentOK(d)
  BY DEF CtxInv, Descent
<1>7. CtxTypeOK'
  <2>1. ClaimsOK'
    BY DEF CtxInv, CtxTypeOK, ClaimsOK
  <2>2. ContextOK(id)'
    <3>1. p \in DOMAIN contexts' \cup {NoContext}
      BY <1>1
    <3>2. q \in Seq(DOMAIN claims') /\ as \subseteq assumptions'
      OBVIOUS
    <3>3. \A T : <<>> \in Seq(T)
      OBVIOUS
    <3>4. QED BY <1>2, <3>1, <3>2, <3>3 DEF ContextOK
  <2>3. ASSUME NEW c \in DOMAIN contexts \ {id} PROVE ContextOK(c)'
    BY <1>1 DEF CtxInv, CtxTypeOK, ContextOK
  <2>4. QED BY <1>1, <1>4, <2>1, <2>2, <2>3 DEF CtxInv, CtxTypeOK
<1>8. \A T : T \subseteq DOMAIN contexts => LineageOf(T)' = LineageOf(T)
  BY <1>5 DEF LineageOf
<1>9. DescentOK(id)'
  <2> DEFINE L == {id} \cup LineageOf(S)
  <2>1. L \subseteq DOMAIN contexts'
    BY <1>1, <1>6 DEF LineageOf, DescentOK
  <2>2. p \in L \cup {NoContext}
    BY <1>6 DEF LineageOf, DescentOK
  <2>3. ASSUME NEW d \in L PROVE lineage'[d] \subseteq L
    <3>1. CASE d = id
      BY <1>4, <3>1
    <3>2. CASE d \in LineageOf(S)
      <4>1. PICK s \in S : d \in lineage[s]
        BY <3>2 DEF LineageOf
      <4>2. d \in DOMAIN contexts /\ lineage[d] \subseteq lineage[s]
        BY <1>6, <4>1 DEF DescentOK
      <4>3. QED BY <1>5, <4>2 DEF LineageOf
    <3>3. QED BY <2>3, <3>1, <3>2
  <2>4. S \in Sources(id) /\ S \subseteq DOMAIN contexts' /\ L = {id} \cup LineageOf(S)'
    BY <1>1, <1>8
  <2>5. lineage'[id] = L
    BY <1>4
  <2> HIDE DEF L
  <2>6. id \in L
    BY DEF L
  <2>7. QED BY <1>2, <2>1, <2>2, <2>3, <2>4, <2>5, <2>6 DEF DescentOK, Sources
<1>10. Descent'
  <2>1. IsFiniteSet(DOMAIN contexts')
    BY <1>1, FS_AddElement DEF CtxInv, Descent
  <2>2. ASSUME NEW c \in DOMAIN contexts \ {id} PROVE DescentOK(c)'
    <3>1. DescentOK(c) /\ lineage[c] \subseteq DOMAIN contexts
      BY <1>6 DEF DescentOK
    <3>2. /\ lineage'[c] = lineage[c] /\ contexts'[c] = contexts[c]
          /\ \A d \in lineage[c] : lineage'[d] = lineage[d]
      BY <1>1, <1>5, <3>1
    <3>3. c # Root => \E T \in Sources(c) :
                        /\ T \subseteq DOMAIN contexts'
                        /\ lineage'[c] = {c} \cup LineageOf(T)'
      BY <1>1, <1>8, <3>1, <3>2 DEF DescentOK
    <3>4. QED BY <1>1, <3>1, <3>2, <3>3 DEF DescentOK, Sources
  <2>3. QED BY <1>1, <1>9, <2>1, <2>2 DEF Descent
<1>11. ToSet(<<>>) = {}
  BY DEF ToSet
<1>12. Seen(id)' = ToSet(q) /\ \A c \in DOMAIN contexts \ {id} : Seen(c)' = Seen(c)
  BY <1>1, <1>2, <1>11 DEF Seen
<1>13. NoSiblingLeak'
  <2>1. \A m \in ToSet(q) : m[2] \in lineage'[id]
    BY <1>4
  <2>2. \A c \in DOMAIN contexts \ {id} : \A m \in Seen(c) : m[2] \in lineage'[c]
    BY <1>4 DEF CtxInv, NoSiblingLeak
  <2>3. \A c \in DOMAIN contexts' : \A m \in Seen(c)' : m[2] \in lineage'[c]
    <3>1. ASSUME NEW c \in DOMAIN contexts', NEW m \in Seen(c)' PROVE m[2] \in lineage'[c]
      <4>1. CASE c = id
        BY <1>12, <2>1, <3>1, <4>1
      <4>2. CASE c # id
        BY <1>1, <1>12, <2>2, <3>1, <4>2
      <4>3. QED BY <4>1, <4>2
    <3>2. QED BY <3>1
  <2>4. QED BY <2>3 DEF NoSiblingLeak
<1>14. DetectedSeen'
  <2>1. ASSUME NEW c \in DOMAIN contexts', NEW k \in contexts'[c].contradictions,
               k.kind \notin RaisedKind
        PROVE  ToSet(k.claims) \subseteq Seen(c)'
    <3>1. c # id
      BY <1>2, <2>1
    <3>2. c \in DOMAIN contexts \ {id} /\ k \in contexts[c].contradictions
      BY <1>1, <2>1, <3>1
    <3>3. ToSet(k.claims) \subseteq Seen(c)
      BY <2>1, <3>2 DEF CtxInv, DetectedSeen
    <3>4. Seen(c)' = Seen(c)
      BY <1>12, <3>2
    <3>5. QED BY <3>3, <3>4
  <2>2. QED BY <2>1 DEF DetectedSeen
<1>15. QED BY <1>7, <1>10, <1>13, <1>14

\* A branch inherits claims of its parent's lineage only.
LEMMA BranchKeeps ==
  ASSUME CtxInv, NEW p \in Context, NEW l \in ContextLabel,
         NEW as \in BoundedSeq(assumptions, MaxListed), Branch(p, l, as)
  PROVE  CtxTypeOK' /\ Descent' /\ NoSiblingLeak' /\ DetectedSeen'
<1> DEFINE id == BranchId(p, l, as)
<1>1. /\ id \in Context \ {Root} /\ p \in DOMAIN contexts
      /\ contexts' = Bind(contexts, id, NewContext(p, ToSet(as), Inherited(p)))
      /\ lineage' = Bind(lineage, id, {id} \cup lineage[p])
      /\ UNCHANGED <<claims, assumptions, contradictions>>
  BY DEF Branch, Known
<1>2. as \in BoundedSeq(Assumption, MaxListed)
  <2>1. assumptions \subseteq Assumption
    BY DEF CtxInv, CtxTypeOK, ClaimsOK
  <2>2. PICK m \in 0..MaxListed : as \in [1..m -> assumptions]
    BY DEF BoundedSeq, SeqOf
  <2>3. as \in [1..m -> Assumption]
    BY <2>1, <2>2
  <2>4. QED BY <2>3 DEF BoundedSeq, SeqOf
<1>3. {p} \in Sources(id)
  BY <1>1, <1>2 DEF Sources
<1>4. LineageOf({p}) = lineage[p]
  BY DEF LineageOf
<1>5. Inherited(p) \in Seq(FromLineage(p))
  BY <1>1, InheritedElements DEF CtxInv
<1>6. PICK q : q = Inherited(p)
  OBVIOUS
<1>7. q \in Seq(DOMAIN claims)
  BY <1>5, <1>6, SeqGrows DEF FromLineage
<1>8. \A m \in ToSet(q) : m[2] \in LineageOf({p})
  BY <1>4, <1>5, <1>6, ElementsOfSeq DEF FromLineage
<1>9. PICK listed \in SUBSET assumptions : listed = ToSet(as)
  BY DEF Branch
<1>10. contexts' = Bind(contexts, id, NewContext(p, listed, q))
  BY <1>1, <1>6, <1>9
<1> HIDE DEF id
<1>11. QED BY <1>1, <1>3, <1>4, <1>7, <1>8, <1>9, <1>10, MakeKeeps

\* A merge inherits claims of its two sides' lineages only.
LEMMA MergeKeeps ==
  ASSUME CtxInv, NEW a \in Context, NEW b \in Context, NEW l \in ContextLabel,
         Merge(a, b, l)
  PROVE  CtxTypeOK' /\ Descent' /\ NoSiblingLeak' /\ DetectedSeen'
<1> DEFINE id == MergeId(a, b, l)
<1>1. /\ id \in Context \ {Root} /\ a \in DOMAIN contexts /\ b \in DOMAIN contexts
      /\ contexts' = Bind(contexts, id,
                          NewContext(NoContext,
                                     contexts[a].assumptions \cup contexts[b].assumptions,
                                     Merged(FullClaimSet(a), FullClaimSet(b))))
      /\ lineage' = Bind(lineage, id, {id} \cup lineage[a] \cup lineage[b])
      /\ UNCHANGED <<claims, assumptions, contradictions>>
  BY DEF Merge, Known
<1>2. {a, b} \in Sources(id)
  <2>1. <<a, b>> \in {q \in Context \X Context : \E k \in ContextLabel :
                        MergeId(q[1], q[2], k) = id}
    OBVIOUS
  <2>2. QED BY <2>1 DEF Sources
<1>3. LineageOf({a, b}) = lineage[a] \cup lineage[b]
  BY DEF LineageOf
<1>4. PICK as \in SUBSET assumptions :
             as = contexts[a].assumptions \cup contexts[b].assumptions
  BY <1>1 DEF CtxInv, CtxTypeOK, ContextOK
<1>5. PICK q : q = Merged(FullClaimSet(a), FullClaimSet(b))
  OBVIOUS
<1>6. \A c \in {a, b} : /\ FullClaimSet(c) \in Seq(DOMAIN claims)
                        /\ ToSet(FullClaimSet(c)) = Seen(c)
  BY <1>1, FullClaimSetElements DEF CtxInv
<1>7. q \in Seq(DOMAIN claims) /\ ToSet(q) = Seen(a) \cup Seen(b)
  BY <1>5, <1>6, MergedElements
<1>8. \A m \in ToSet(q) : m[2] \in LineageOf({a, b})
  BY <1>1, <1>3, <1>7 DEF CtxInv, NoSiblingLeak
<1>9. lineage' = Bind(lineage, id, {id} \cup LineageOf({a, b}))
  <2>1. {id} \cup LineageOf({a, b}) = {id} \cup lineage[a] \cup lineage[b]
    BY <1>3
  <2>2. QED BY <1>1, <2>1
<1>10. contexts' = Bind(contexts, id, NewContext(NoContext, as, q))
  BY <1>1, <1>4, <1>5
<1>11. {a, b} \subseteq DOMAIN contexts
  BY <1>1
<1> HIDE DEF id
<1>12. QED BY <1>1, <1>2, <1>4, <1>7, <1>8, <1>9, <1>10, <1>11, MakeKeeps

-----------------------------------------------------------------------------
(* Contradictions. *)

\* Contradictions between recorded claims, seen from the context if a scan
\* found them, may be listed in it.
LEMMA RecordKeeps ==
  ASSUME CtxInv, NEW new, NEW c, Record(new, c),
         \A k \in new : /\ k.claims \in Seq(DOMAIN claims)
                        /\ Known(c) /\ k.kind \notin RaisedKind =>
                             ToSet(k.claims) \subseteq Seen(c)
  PROVE  CtxTypeOK' /\ Descent' /\ NoSiblingLeak' /\ DetectedSeen'
<1>1. /\ DOMAIN contexts' = DOMAIN contexts
      /\ \A d \in DOMAIN contexts :
           /\ contexts'[d].parent = contexts[d].parent
           /\ contexts'[d].inherited = contexts[d].inherited
           /\ contexts'[d].local = contexts[d].local
           /\ contexts'[d].assumptions = contexts[d].assumptions
           /\ contexts'[d].contradictions =
                contexts[d].contradictions \cup (IF d = c THEN new ELSE {})
  BY RecordRecords DEF CtxInv
<1>2. /\ contradictions' = contradictions \cup new
      /\ UNCHANGED <<claims, assumptions, lineage>>
  BY DEF Record
<1>3. ClaimsOK'
  BY <1>2 DEF CtxInv, CtxTypeOK, ClaimsOK
<1>4. \A d \in DOMAIN contexts : ContextOK(d)'
  BY <1>1, <1>2 DEF CtxInv, CtxTypeOK, ContextOK
<1>5. CtxTypeOK'
  BY <1>1, <1>2, <1>3, <1>4 DEF CtxInv, CtxTypeOK
<1>6. Descent'
  BY <1>1, <1>2, DescentKept DEF CtxInv
<1>7. \A d \in DOMAIN contexts : Seen(d)' = Seen(d)
  BY <1>1 DEF Seen
<1>8. NoSiblingLeak'
  BY <1>1, <1>2, <1>7 DEF CtxInv, NoSiblingLeak
<1>9. DetectedSeen'
  <2>1. ASSUME NEW d \in DOMAIN contexts, NEW k \in contexts'[d].contradictions,
               k.kind \notin RaisedKind
        PROVE  ToSet(k.claims) \subseteq Seen(d)
    <3>1. CASE k \in contexts[d].contradictions
      BY <2>1, <3>1 DEF CtxInv, DetectedSeen
    <3>2. CASE d = c /\ k \in new
      BY <2>1, <3>2 DEF Known
    <3>3. QED BY <1>1, <2>1, <3>1, <3>2
  <2>2. QED BY <1>1, <1>7, <2>1 DEF DetectedSeen
<1>10. QED BY <1>5, <1>6, <1>8, <1>9

\* A scan pairs claims seen from its context.
LEMMA DetectedPairs ==
  ASSUME CtxTypeOK, NEW c \in DOMAIN contexts, NEW k \in Detected(c)
  PROVE  /\ k.claims \in Seq(DOMAIN claims)
         /\ ToSet(k.claims) \subseteq Seen(c)
<1> DEFINE seen == FullClaimSet(c)
<1>1. seen \in Seq(DOMAIN claims) /\ ToSet(seen) = Seen(c) /\ Seen(c) \subseteq DOMAIN claims
  BY FullClaimSetElements
<1>2. \E p \in (1..Len(seen)) \X (1..Len(seen)) :
        \E kind \in Classify(seen[p[1]], seen[p[2]]) :
          k = [kind |-> kind, claims |-> <<seen[p[1]], seen[p[2]]>>, context |-> c]
  BY DEF Detected, Scanned
<1>3. PICK p \in (1..Len(seen)) \X (1..Len(seen)) : k.claims = <<seen[p[1]], seen[p[2]]>>
  BY <1>2
<1>4. seen[p[1]] \in Seen(c) /\ seen[p[2]] \in Seen(c)
  BY <1>1 DEF ToSet
<1> HIDE DEF seen
<1>5. PICK n \in Seen(c), m \in Seen(c) : k.claims = <<n, m>>
  BY <1>3, <1>4
<1>6. QED BY <1>1, <1>5, PairElements

-----------------------------------------------------------------------------
(* The inductive invariant. *)

LEMMA CtxInitOK == CtxInit => CtxTypeOK /\ Descent /\ NoSiblingLeak /\ DetectedSeen
<1> SUFFICES ASSUME CtxInit PROVE CtxTypeOK /\ Descent /\ NoSiblingLeak /\ DetectedSeen
  OBVIOUS
<1>1. /\ DOMAIN contexts = {Root} /\ DOMAIN lineage = {Root} /\ lineage[Root] = {Root}
      /\ contexts[Root] = NewContext(NoContext, {}, <<>>)
      /\ claims = <<>> /\ assumptions = {} /\ contradictions = {}
  BY DEF CtxInit
<1>2. /\ contexts[Root].parent = NoContext /\ contexts[Root].assumptions = {}
      /\ contexts[Root].inherited = <<>> /\ contexts[Root].local = <<>>
      /\ contexts[Root].contradictions = {}
  <2>1. PICK r : r = contexts[Root]
    OBVIOUS
  <2>2. r = [parent |-> NoContext, assumptions |-> {}, inherited |-> <<>>,
             local |-> <<>>, contradictions |-> {}]
    BY <1>1, <2>1 DEF NewContext
  <2>3. /\ r.parent = NoContext /\ r.assumptions = {} /\ r.inherited = <<>>
        /\ r.local = <<>> /\ r.contradictions = {}
    BY <2>2
  <2>4. QED BY <2>1, <2>3
<1>3. DOMAIN claims = {} /\ \A T : <<>> \in Seq(T)
  BY <1>1
<1>4. ClaimsOK
  BY <1>1, <1>3 DEF ClaimsOK
<1>5. ContextOK(Root)
  BY <1>2, <1>3 DEF ContextOK
<1>6. CtxTypeOK
  BY <1>1, <1>4, <1>5, ContextsAssumption DEF CtxTypeOK
<1>7. DescentOK(Root)
  BY <1>1, <1>2 DEF DescentOK
<1>8. Descent
  BY <1>1, <1>7, FS_Singleton DEF Descent
<1>9. Seen(Root) = {}
  BY <1>2 DEF Seen, ToSet
<1>10. NoSiblingLeak /\ DetectedSeen
  BY <1>1, <1>2, <1>9 DEF NoSiblingLeak, DetectedSeen
<1>11. QED BY <1>6, <1>8, <1>10

\* Every statement keeps the invariant.
LEMMA StateSomeKeeps ==
  ASSUME CtxInv, StateSome
  PROVE  CtxTypeOK' /\ Descent' /\ NoSiblingLeak' /\ DetectedSeen'
<1>1. assumptions \subseteq Assumption
  BY DEF CtxInv, CtxTypeOK, ClaimsOK
<1>2. CASE \E s \in Asserted : AssertIn(s[1], s[2], s[3])
  <2>1. PICK s \in Asserted : AssertIn(s[1], s[2], s[3])
    BY <1>2
  <2>2. PICK n \in Node, v \in Value : n = <<s[1], s[2]>> /\ v = s[3]
    BY ContextsAssumption DEF Node
  <2>3. State(n, v, "Asserted", {}) /\ List(n, {}) /\ assumptions' = assumptions
    BY <2>1, <2>2 DEF AssertIn
  <2>4. QED BY <1>1, <2>3, StateKeeps
<1>3. CASE \E s \in Assumed : AssumeIn(s[1], s[2], s[3], s[4])
  <2>1. PICK s \in Assumed : AssumeIn(s[1], s[2], s[3], s[4])
    BY <1>3
  <2>2. PICK n \in Node, v \in Value, scope \in Scope :
               n = <<s[1], s[2]>> /\ v = s[3] /\ scope = s[4]
    BY ContextsAssumption DEF Node
  <2>3. PICK as : as = {<<n, scope>>}
    OBVIOUS
  <2>4. State(n, v, "Assumed", as) /\ List(n, as) /\ assumptions' = assumptions \cup as
    BY <2>1, <2>2, <2>3 DEF AssumeIn
  <2>5. as \subseteq Assumption
    BY <2>2, <2>3 DEF Assumption
  <2>6. as \subseteq assumptions' /\ assumptions \subseteq assumptions'
        /\ assumptions' \subseteq Assumption
    BY <1>1, <2>4, <2>5
  <2>7. QED BY <2>4, <2>6, StateKeeps
<1>4. CASE \E s \in Derived : DeriveIn(s[1], s[2], s[3])
  <2>1. PICK s \in Derived : DeriveIn(s[1], s[2], s[3])
    BY <1>4
  <2> DEFINE inputs == s[1]
  <2>2. PICK n \in Node : n = <<s[2], s[3]>>
    BY ContextsAssumption DEF Node
  <2>3. PICK as, v : /\ as = UNION {claims[m].assumptions : m \in inputs}
                     /\ v = Combine({claims[m].value : m \in inputs})
    OBVIOUS
  <2>4. /\ inputs \subseteq DOMAIN claims /\ State(n, v, "Pending", as)
        /\ List(n, {}) /\ assumptions' = assumptions
    BY <2>1, <2>2, <2>3 DEF DeriveIn
  <2>5. \A m \in inputs : claims[m].value \in Value /\ claims[m].assumptions \subseteq assumptions
    BY <2>4 DEF CtxInv, CtxTypeOK, ClaimsOK
  <2>6. as \subseteq assumptions
    BY <2>3, <2>5
  <2>7. v \in Value
    <3>1. {claims[m].value : m \in inputs} \in SUBSET Value
      BY <2>5
    <3> HIDE DEF inputs
    <3>2. QED BY <2>3, <3>1, ContextsAssumption
  <2> HIDE DEF inputs
  <2>8. PICK listed : listed = {}
    OBVIOUS
  <2>9. /\ as \subseteq assumptions' /\ listed \subseteq assumptions'
        /\ assumptions \subseteq assumptions' /\ assumptions' \subseteq Assumption
    BY <1>1, <2>4, <2>6, <2>8
  <2>10. State(n, v, "Pending", as) /\ List(n, listed)
    BY <2>4, <2>8
  <2>11. QED BY <2>7, <2>9, <2>10, StateKeeps
<1>5. QED BY <1>2, <1>3, <1>4 DEF StateSome

\* So does every scan and every explicit contradiction.
LEMMA DisputeKeeps ==
  ASSUME CtxInv, Dispute
  PROVE  CtxTypeOK' /\ Descent' /\ NoSiblingLeak' /\ DetectedSeen'
<1>1. CASE \E c \in Scannable : DetectContradictions(c)
  <2>1. PICK c \in Scannable : DetectContradictions(c)
    BY <1>1
  <2>2. PICK new : new = Detected(c)
    OBVIOUS
  <2>3. Known(c) /\ Record(new, c)
    BY <2>1, <2>2 DEF DetectContradictions
  <2>4. \A k \in new : k.claims \in Seq(DOMAIN claims) /\ ToSet(k.claims) \subseteq Seen(c)
    BY <2>2, <2>3, DetectedPairs DEF CtxInv, Known
  <2>5. QED BY <2>3, <2>4, RecordKeeps
<1>2. CASE \E s \in Raised, kind \in RaisedKind : Contradict(s[1], s[2], kind, s[3])
  <2>1. PICK s \in Raised, kind \in RaisedKind : Contradict(s[1], s[2], kind, s[3])
    BY <1>2
  <2>2. PICK a, b, c : a = s[1] /\ b = s[2] /\ c = s[3]
    OBVIOUS
  <2>3. PICK new : new = {[kind |-> kind, claims |-> <<a, b>>, context |-> c]}
    OBVIOUS
  <2>4. a \in DOMAIN claims /\ b \in DOMAIN claims /\ Record(new, c)
    BY <2>1, <2>2, <2>3 DEF Contradict
  <2>5. \A k \in new : k.kind = kind /\ k.claims = <<a, b>>
    BY <2>3
  <2>6. <<a, b>> \in Seq(DOMAIN claims)
    BY <2>4
  <2>7. QED BY <2>4, <2>5, <2>6, RecordKeeps
<1>3. QED BY <1>1, <1>2 DEF Dispute

\* The invariant holds in every behaviour.
THEOREM CtxInvariant == CtxSpec => []CtxInv
<1>1. CtxInit => CtxTypeOK /\ Descent /\ NoSiblingLeak /\ DetectedSeen
  BY CtxInitOK
<1>2. ASSUME CtxInv, CtxNext
      PROVE  CtxTypeOK' /\ Descent' /\ NoSiblingLeak' /\ DetectedSeen'
  <2>1. CASE StateSome BY <1>2, <2>1, StateSomeKeeps
  <2>2. CASE \E n \in Judged, fails \in BOOLEAN : SettleObligations(n, fails) BY <1>2, <2>2, SettleKeeps
  <2>3. CASE MakeContext
    <3>1. CASE \E p \in Context, l \in ContextLabel, as \in BoundedSeq(assumptions, MaxListed) :
                 Branch(p, l, as)
      BY <1>2, <3>1, BranchKeeps
    <3>2. CASE \E a, b \in Context, l \in ContextLabel : Merge(a, b, l)
      BY <1>2, <3>2, MergeKeeps
    <3>3. QED BY <2>3, <3>1, <3>2 DEF MakeContext
  <2>4. CASE Dispute BY <1>2, <2>4, DisputeKeeps
  <2>5. QED BY <1>2, <2>1, <2>2, <2>3, <2>4 DEF CtxNext
<1>3. ASSUME CtxInv, UNCHANGED ctxVars
      PROVE  CtxTypeOK' /\ Descent' /\ NoSiblingLeak' /\ DetectedSeen'
  <2>1. /\ contexts' = contexts /\ claims' = claims /\ assumptions' = assumptions
        /\ contradictions' = contradictions /\ lineage' = lineage
    BY <1>3 DEF ctxVars
  <2>2. Descent'
    BY <1>3, <2>1, DescentKept DEF CtxInv
  <2>3. CtxTypeOK'
    BY <1>3, <2>1 DEF CtxInv, CtxTypeOK, ClaimsOK, ContextOK
  <2>4. NoSiblingLeak' /\ DetectedSeen'
    BY <1>3, <2>1 DEF CtxInv, NoSiblingLeak, DetectedSeen, Seen
  <2>5. QED BY <2>2, <2>3, <2>4
<1>4. CtxInv /\ Shaped' /\ [CtxNext]_ctxVars => CtxInv'
  BY <1>2, <1>3 DEF CtxInv
<1>5. CtxInit /\ Shaped => CtxInv
  BY <1>1 DEF CtxInv
<1>6. QED BY <1>4, <1>5, ShapeInvariant, PTL DEF CtxSpec

\* What contexts list is recorded, whatever ids branches and merges make again.
THEOREM CtxTypeTheorem == CtxSpec => []CtxTypeOK
<1>1. CtxInv => CtxTypeOK BY DEF CtxInv
<1>2. QED BY <1>1, CtxInvariant, PTL

\* A context sees claims of the contexts it was made from only, so far as a
\* context id determines what it was made from: a context that is made again is
\* made from the same ones, and its heirs keep what they inherited.
THEOREM NoLeakTheorem == CtxSpec => []NoSiblingLeak
<1>1. CtxInv => NoSiblingLeak BY DEF CtxInv
<1>2. QED BY <1>1, CtxInvariant, PTL

\* What a scan listed in a context stays between claims seen from it.
THEOREM DetectedTheorem == CtxSpec => []DetectedSeen
<1>1. CtxInv => DetectedSeen BY DEF CtxInv
<1>2. QED BY <1>1, CtxInvariant, PTL

-----------------------------------------------------------------------------
(* What a scan finds. *)

\* Two claims under one label with two values are in contradiction, of some kind.
LEMMA DisagreementKind ==
  ASSUME NEW a, NEW b, a[1] = b[1], claims[a].value # claims[b].value
  PROVE  \E kind : kind \in Classify(a, b)
BY DEF Classify

\* Two distinct claims that a context sees are paired by its scan.
LEMMA ScanPairs ==
  ASSUME CtxTypeOK, NEW c \in DOMAIN contexts,
         NEW n \in Seen(c), NEW p \in Seen(c), n # p
  PROVE  \E a, b \in Seen(c) :
           /\ {a, b} = {n, p}
           /\ \A kind \in Classify(a, b) :
                [kind |-> kind, claims |-> <<a, b>>, context |-> c] \in Detected(c)
<1> DEFINE seen == FullClaimSet(c)
           Pair(q) == {[kind |-> kind, claims |-> <<seen[q[1]], seen[q[2]]>>, context |-> c] :
                         kind \in Classify(seen[q[1]], seen[q[2]])}
           Pairs == {q \in (1..Len(seen)) \X (1..Len(seen)) : q[1] < q[2]}
<1>1. seen \in Seq(DOMAIN claims) /\ ToSet(seen) = Seen(c)
  BY FullClaimSetElements
<1>2. PICK i \in 1..Len(seen), j \in 1..Len(seen) : seen[i] = n /\ seen[j] = p
  BY <1>1 DEF ToSet
<1>3. Detected(c) = UNION {Pair(q) : q \in Pairs}
  BY DEF Detected, Scanned
<1>4. ASSUME NEW k \in 1..Len(seen), NEW m \in 1..Len(seen), k < m
      PROVE  \A kind \in Classify(seen[k], seen[m]) :
               [kind |-> kind, claims |-> <<seen[k], seen[m]>>, context |-> c] \in Detected(c)
  <2>1. <<k, m>> \in Pairs
    BY <1>4
  <2>2. Pair(<<k, m>>) \subseteq Detected(c)
    <3> HIDE DEF Pair, Pairs
    <3>1. QED BY <1>3, <2>1
  <2>3. QED BY <2>2
<1>5. i < j \/ j < i
  BY <1>1, <1>2
<1> HIDE DEF seen, Pair, Pairs
<1>6. QED BY <1>2, <1>4, <1>5

\* A scan finds every disagreement among the claims its context sees, inherited
\* ones included, in every reachable state.
THEOREM ScanTheorem == CtxSpec => []ScanFindsDisagreement
<1>1. ASSUME CtxTypeOK PROVE ScanFindsDisagreement
  <2> SUFFICES ASSUME NEW c \in DOMAIN contexts, NEW n \in Seen(c), NEW p \in Seen(c),
                      n[1] = p[1], claims[n].value # claims[p].value
               PROVE  \E k \in Detected(c) : {n, p} = ToSet(k.claims)
    BY DEF ScanFindsDisagreement
  <2>1. PICK a \in Seen(c), b \in Seen(c) :
               /\ {a, b} = {n, p}
               /\ \A kind \in Classify(a, b) :
                    [kind |-> kind, claims |-> <<a, b>>, context |-> c] \in Detected(c)
    BY <1>1, ScanPairs
  <2>2. a[1] = b[1] /\ claims[a].value # claims[b].value
    BY <2>1
  <2>3. PICK kind : kind \in Classify(a, b)
    BY <2>2, DisagreementKind
  <2>4. PICK k : k = [kind |-> kind, claims |-> <<a, b>>, context |-> c]
    OBVIOUS
  <2>5. k \in Detected(c) /\ k.claims = <<a, b>>
    BY <2>1, <2>3, <2>4
  <2>6. ToSet(<<a, b>>) = {a, b}
    BY PairElements
  <2>7. QED BY <2>1, <2>5, <2>6
<1>2. QED BY <1>1, CtxTypeTheorem, PTL

=============================================================================
