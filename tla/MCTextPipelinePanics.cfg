SPECIFICATION TextSpec
CONSTANTS
  MaxDepth = 2
  Bytes <- MCBytes
  Literals <- MCLiterals
  Modules <- MCModules
  Texts <- MCTexts
INVARIANT NeverPanics
CHECK_DEADLOCK FALSE
