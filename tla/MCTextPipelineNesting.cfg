SPECIFICATION TextSpec
CONSTANTS
  MaxDepth = 2
  Bytes <- MCBytes
  Literals <- MCLiterals
  Modules <- MCModules
  Texts <- MCTexts
INVARIANT NestingBounded
CHECK_DEADLOCK FALSE
