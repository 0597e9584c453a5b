---------------------------- MODULE ContextsProps ----------------------------
(***************************************************************************)
(* The properties of contexts.                                             *)
(***************************************************************************)
EXTENDS Contexts

Seen(c) == ToSet(contexts[c].local) \cup ToSet(contexts[c].inherited)

ClaimsOK ==
  /\ DOMAIN claims \subseteq Node /\ assumptions \subseteq Assumption
  /\ \A n \in DOMAIN claims :
       claims[n] \in [value : Value, status : {"Asserted", "Assumed", "Pending"},
                     assumptions : SUBSET assumptions, failed : BOOLEAN]
  /\ \A k \in contradictions : k.claims \in Seq(DOMAIN claims)

ContextOK(c) ==
  LET r == contexts[c] IN
    /\ r.parent \in DOMAIN contexts \cup {NoContext}
    /\ r.local \in Seq({n \in DOMAIN claims : n[2] = c})
    /\ r.inherited \in Seq(DOMAIN claims)
    /\ r.assumptions \subseteq assumptions
    /\ r.contradictions \subseteq contradictions

\* What contexts list is recorded: claims, assumptions and contradictions.
CtxTypeOK ==
  /\ Root \in DOMAIN contexts /\ DOMAIN contexts \subseteq Context
  /\ DOMAIN lineage = DOMAIN contexts
  /\ ClaimsOK
  /\ \A c \in DOMAIN contexts : ContextOK(c)

\* However contexts are branched, merged and made again, a context sees claims
\* only of the contexts it was made from and its own: never those of a sibling
\* or a child (spec/contexts.md:28-29).
NoSiblingLeak ==
  \A c \in DOMAIN contexts : \A n \in Seen(c) : n[2] \in lineage[c]

\* The contradictions that the scan listed in a context are between claims seen
\* from it, whatever was stated or made again since.
DetectedSeen ==
  \A c \in DOMAIN contexts : \A k \in contexts[c].contradictions :
    k.kind \notin RaisedKind => ToSet(k.claims) \subseteq Seen(c)

\* A call touches one context and the claims of one context: a statement, a
\* contradiction, a branch or a status change in one leaves the claims and the
\* records of the others as they are (spec/contexts.md section 5).
StepsAreLocal ==
  [][\E c \in Context :
       /\ \A d \in DOMAIN contexts \ {c} : contexts'[d] = contexts[d]
       /\ \A n \in DOMAIN claims : claims'[n] = claims[n] \/ n[2] = c]_ctxVars

\* A context sees what it saw until a branch or merge makes it again; nothing
\* makes the root again.
SeenStaysSeen ==
  [][\A c \in DOMAIN contexts :
       \/ Seen(c) \subseteq Seen(c)'
       \/ c # Root /\ contexts'[c].local = <<>>
                   /\ contexts'[c].contradictions = {}]_ctxVars

\* A scan leaves no two claims seen from its context, inherited ones included,
\* under one label with two values and no contradiction between them.
ScanFindsDisagreement ==
  \A c \in DOMAIN contexts :
    LET found == {ToSet(k.claims) : k \in Detected(c)} IN
    \A n, p \in Seen(c) :
      n[1] = p[1] /\ claims[n].value # claims[p].value => {n, p} \in found

\* What spec/contexts.md:26 says of a branch: "The new context sees every claim
\* of its parent."  The claims of a merged context are all inherited, and a
\* branch copies the local claims of its ancestors only.
BranchSeesParent ==
  [][\A p \in DOMAIN contexts, c \in Context :
       /\ contexts' # contexts
       /\ c \in DOMAIN contexts' /\ c \notin DOMAIN contexts
       /\ contexts'[c].parent = p
       => Seen(p) \subseteq Seen(c)']_ctxVars
=============================================================================
