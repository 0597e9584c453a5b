SPECIFICATION ChainSpec
CONSTANTS
  MaxInt = 127
  MaxScale = 2
  Premises <- MCPremises
  Bases = {"m", "s"}
  MaxDerives = 3
INVARIANTS ChainTypeOK ExactWhileRoomy UnitsAreDimensions StrongestDoubt IntervalIsIntersection
CHECK_DEADLOCK FALSE
