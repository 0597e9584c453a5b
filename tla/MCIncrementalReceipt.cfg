INIT IncInit
NEXT IncNext
CONSTANTS
  x = x
  y = y
  z = z
  v0 = v0
  v1 = v1
  e = e
  neg = neg
  div = div
  tool = tool
  p = p
  NoReceipt = NoReceipt
  NoDerivation = NoDerivation
  Nothing = Nothing
  NoNode = NoNode
  Node <- MCNode
  Value = {v0, v1}
  Evidence = {e}
  Untrusted = {}
  Operation = {neg, div, tool}
  Signature = {neg, div, tool}
  Definition <- MCTool
  Builtin <- MCBuiltin
  Receipt <- MCReceipt
  Provider = {p}
  Statement <- MCStatement
  Judged <- MCNode
  Verdict = {"verify", "invalidate"}
  Application <- MCToolApplication
  Requirable = {}
  DischargeState = {"Satisfied"}
  Accepts <- MCAccepts
  Yields <- MCYields
  Exec <- MCExec
INVARIANT ReceiptDependentsFound
CHECK_DEADLOCK FALSE
