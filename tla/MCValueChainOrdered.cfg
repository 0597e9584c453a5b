SPECIFICATION ChainSpec
CONSTANTS
  MaxInt = 127
  MaxScale = 2
  Premises <- MCPremises
  Bases = {"m", "s"}
  MaxDerives = 3
INVARIANT IntervalsOrdered
CHECK_DEADLOCK FALSE
