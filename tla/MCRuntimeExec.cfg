SPECIFICATION ExecSpec
CONSTANTS
  v0 = v0
  v1 = v1
  trusted = trusted
  untrusted = untrusted
  unverified = unverified
  neg = neg
  div = div
  tool = tool
  short = short
  calc = calc
  NoReceipt = NoReceipt
  NoDerivation = NoDerivation
  NoStmt = NoStmt
  Node <- MCNode
  Value = {v0, v1}
  Evidence = {trusted, untrusted, unverified}
  Untrusted = {untrusted}
  Trusted = {trusted}
  Operation = {neg, div, tool, short}
  Signature = {1, 2}
  Definition <- MCDefinition
  Core <- MCCore
  CallTypes <- MCCallTypes
  Builtin <- MCBuiltin
  Receipt <- MCReceipt
  Provider = {calc}
  TrustRoots = {calc}
  Granted = {"tool:calculator"}
  Statement <- MCStatement
  Judged <- MCNode
  Verdict = {"verify", "challenge", "invalidate", "attest"}
  Application <- MCApplication
  Requirable <- MCRequirable
  DischargeState = {"Satisfied"}
  Accepts <- MCAccepts
  Yields <- MCYields
  Exec <- MCExec
  Program <- MCProgram
  Followup <- MCFollowup
  Plan <- MCPlan
  Sanitize <- MCSanitize
  EvidenceLabel <- MCEvidenceLabel
  Resolve <- MCResolve
  Arity <- MCArity
  OutputType <- MCOutputType
  NoEvidence = NoEvidence
  NoType = NoType
  NoLabel = NoLabel
  MaxExecutions = 2
  MaxStmts = 12
  RootLabel = "root"
INVARIANTS ExecTypeOK AuthenticBasis VerifiedAsAsked StuckIsGenuine ReplayReproduces PlanSettled
PROPERTIES StepsAreCalculus ExecutionEnds
CHECK_DEADLOCK FALSE
