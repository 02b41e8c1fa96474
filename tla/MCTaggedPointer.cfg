SPECIFICATION Spec
CONSTANTS
  Alignment = 4
  Addresses = {0, 4, 8}
  Pointers = {4, 8}
  Threads = {t1, t2}
  MaxSince = 9
INVARIANTS
  TaggedInv
  OnlyFullRounds
PROPERTIES
  LooksLikePair
