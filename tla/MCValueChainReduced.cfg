SPECIFICATION ChainSpec
CONSTANTS
  MaxInt = 127
  MaxScale = 2
  Premises <- MCFractions
  Bases = {"m", "s"}
  MaxDerives = 3
INVARIANT RationalsReduced
CHECK_DEADLOCK FALSE
