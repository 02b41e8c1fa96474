SPECIFICATION Spec
CONSTANTS
  Numbers <- MCNumbers
  Machines <- MCMachines
  Wrong <- MCWrong
  MaxNumbers = 2
INVARIANTS
  TransferInv
  OthersReadBack
  RefusesDamaged
CHECK_DEADLOCK FALSE
