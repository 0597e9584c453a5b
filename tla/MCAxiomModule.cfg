SPECIFICATION Spec
CONSTANTS
  x = x
  y = y
  v0 = v0
  v1 = v1
  eu = eu
  div = div
  tool = tool
  probe = probe
  p = p
  wide = wide
  narrow = narrow
  NoReceipt = NoReceipt
  NoDerivation = NoDerivation
  Node <- MCNode
  Value <- MCValue
  Evidence = {eu}
  Untrusted = {eu}
  Operation = {div, tool, probe}
  Signature = {wide, narrow}
  Definition <- MCDefinition
  Receipt <- MCReceipt
  Provider = {p}
  Statement <- MCStatement
  Judged = {y}
  Verdict = {"verify", "challenge", "invalidate", "attest"}
  Application <- MCApplication
  Requirable <- MCRequirable
  DischargeState = {"Satisfied", "Failed"}
  Accepts <- MCAccepts
  Yields <- MCYields
  Exec <- MCExec
INVARIANTS TypeOK Grounded VerifiedIsSupported LogExplainsStatus
PROPERTIES GateBreaksHaveCause ImplementsGate
CHECK_DEADLOCK FALSE
