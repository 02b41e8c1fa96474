SPECIFICATION Spec
CONSTANTS
  Chars = {a, b, c}
  MaxLength = 3
  Texts <- MCTexts
INVARIANTS
  FastInv
  ReturnsDistance
PROPERTIES
  FastFollowsMatrix
CHECK_DEADLOCK FALSE
