SPECIFICATION Spec
CONSTANTS
  Chars = {a, b, c}
  MaxLength = 3
  Texts <- MCTexts
INVARIANTS
  MatrixInv
  LeastInv
  DistanceIsLeast
CHECK_DEADLOCK FALSE
