SPECIFICATION Spec
CONSTANTS
  Bits <- MCBits
  Enumerators <- MCEnumerators
INVARIANTS
  UnequalNegatesEqual
