SPECIFICATION FairSpec
CONSTANTS
  Word = 2
  HeaderSz = 2
  ValueSz = 2
  TupleSz = 2
  ArraySz = 2
  Lengths <- Odd
  Counts <- Two
  Pairs = {0, 1}
  Kinds = {"array", "buffer", "table"}
  InitGrow = 1
  InitCap = 8
  MaxCap = 16
  MaxObjects = 4
  MaxRoots = 3
  MaxMail = 1
INVARIANTS
  HeapTypeOK
  NoStaleReference
  NoObjectTwice
  HeapWithinCapacity
  Tricolor
PROPERTIES
  GrowsOnlyWhenFull
  CollectionEnds
CHECK_DEADLOCK FALSE
