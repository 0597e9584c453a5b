INIT IncInit
NEXT IncNext
CONSTANTS
  x = x
  y = y
  z = z
  v0 = v0
  v1 = v1
  e = e
  neg = neg
  div = div
  tool = tool
  p = p
  NoReceipt = NoReceipt
  NoDerivation = NoDerivation
  Nothing = Nothing
  NoNode = NoNode
  Node <- MCNode
  Value = {v0, v1}
  Evidence = {e}
  Untrusted = {}
  Operation = {neg, div}
  Signature = {neg, div, tool}
  Definition = {}
  Builtin <- MCBuiltin
  Receipt = {}
  Provider = {}
  Statement <- MCStatement
  Judged <- MCNode
  Verdict = {"verify", "invalidate"}
  Application <- MCApplication
  Requirable = {}
  DischargeState = {"Satisfied"}
  Accepts <- MCAccepts
  Yields <- MCYields
  Exec <- MCExec
INVARIANT AssumptionFrontierClosed
CHECK_DEADLOCK FALSE
