-------------------------- MODULE VerificationGate --------------------------
(***************************************************************************)
(* What axiom-core promises about the standing of claims, with everything  *)
(* else about a module forgotten: each claim has a standing, the operation *)
(* it was concluded by, and a gate that says whether its support is        *)
(* complete.  A claim becomes verified only through its open gate, and a   *)
(* step concerns one claim only, but for a new definition of an operation: *)
(* that concerns the gates of the claims concluded by it.  The gate of a   *)
(* verified claim may still move: what becomes of a claim whose support is *)
(* lost is the caller's business.                                          *)
(***************************************************************************)
CONSTANTS Node, Operation

VARIABLES standing, gate, basis

gateVars == <<standing, gate, basis>>

GateInit ==
  /\ standing = [n \in Node |-> "none"]
  /\ gate = [n \in Node |-> FALSE]
  /\ basis = [n \in Node |-> {}]

\* A premise is stated or restated; nothing derived supports it.
Introduce(n) ==
  /\ standing' = [standing EXCEPT ![n] = "premise"]
  /\ gate' = [gate EXCEPT ![n] = FALSE]
  /\ basis' = [basis EXCEPT ![n] = {}]

\* A conclusion is drawn or redrawn, by an operation; it waits for its gate.
Conclude(n, op) ==
  /\ standing' = [standing EXCEPT ![n] = "pending"]
  /\ \E open \in BOOLEAN : gate' = [gate EXCEPT ![n] = open]
  /\ basis' = [basis EXCEPT ![n] = {op}]

\* An obligation of the claim is attached or changes state; a premise has no
\* derivation and its gate stays shut.
MoveGate(n) ==
  /\ standing[n] # "none" /\ standing[n] # "premise"
  /\ \E open \in BOOLEAN : gate' = [gate EXCEPT ![n] = open]
  /\ UNCHANGED <<standing, basis>>

Admit(n) ==
  /\ gate[n]
  /\ standing' = [standing EXCEPT ![n] = "verified"]
  /\ UNCHANGED <<gate, basis>>

Withdraw(n) ==
  /\ standing[n] # "none"
  /\ standing' = [standing EXCEPT ![n] = "withdrawn"]
  /\ UNCHANGED <<gate, basis>>

\* An operation gets a new definition.
Redefine(op) ==
  /\ gate' \in [Node -> BOOLEAN]
  /\ \A n \in Node : op \notin basis[n] => gate'[n] = gate[n]
  /\ UNCHANGED <<standing, basis>>

GateNext ==
  \/ \E n \in Node :
       \/ Introduce(n) \/ MoveGate(n) \/ Admit(n) \/ Withdraw(n)
       \/ \E op \in Operation : Conclude(n, op)
  \/ \E op \in Operation : Redefine(op)

GateSpec == GateInit /\ [][GateNext]_gateVars
=============================================================================
