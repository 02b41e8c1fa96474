SPECIFICATION Spec
CONSTANTS
  Numbers <- MCNumbers
  Machines <- MCBigEndian
  Wrong <- MCWrong
  MaxNumbers = 2
INVARIANTS
  ReadsBack
CHECK_DEADLOCK FALSE
