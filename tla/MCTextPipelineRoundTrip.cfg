SPECIFICATION TextSpec
CONSTANTS
  MaxDepth = 2
  Bytes <- MCBytes
  Literals <- MCLiterals
  Modules <- MCModules
  Texts <- MCTexts
INVARIANT RoundTrip
CHECK_DEADLOCK FALSE
