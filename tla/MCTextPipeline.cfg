SPECIFICATION TextSpec
CONSTANTS
  MaxDepth = 2
  Bytes <- MCBytes
  Literals <- MCLiterals
  Modules <- MCModules
  Texts <- MCTexts
INVARIANTS TextTypeOK PlainRoundTrips LoudOrEqual CallsBounded
CHECK_DEADLOCK FALSE
