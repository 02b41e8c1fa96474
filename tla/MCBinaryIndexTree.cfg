SPECIFICATION FairSpec
CONSTANTS
  MaxSize = 8
  WordSize = 32
  StartSizes = {0, 1, 3, 4}
  Indexes <- MCIndexes
  Values = {0, 1}
INVARIANTS
  TypeOK
  NodesHoldRanges
  TreeInv
PROPERTIES
  KeepsPromise
  CallsReturn
