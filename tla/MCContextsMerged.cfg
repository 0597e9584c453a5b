SPECIFICATION CtxSpec
CONSTANTS
  x = x
  y = y
  s = s
  root = root
  a = a
  b = b
  ab = ab
  ax = ax
  none = none
  elsewhere = elsewhere
  NoContext = none
  Context = {root, a, b, ab, ax}
  Root = root
  BranchId <- MCBranchId
  MergeId <- MCMergeId
  ContextLabel = {"a", "b"}
  Label = {x, y}
  Scope = {s}
  Value <- MCValue
  Asserted <- MCAsserted
  Assumed <- MCAssumed
  Derived <- MCDerived
  Raised <- MCRaised
  Scannable = {ab}
  Judged <- MCJudged
  Combine <- MCCombine
  RaisedKind = {"EvidenceConflict"}
  MaxLocal = 1
  MaxListed = 1
PROPERTY BranchSeesParent
CHECK_DEADLOCK FALSE
