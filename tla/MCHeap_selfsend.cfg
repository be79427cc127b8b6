SPECIFICATION Spec
CONSTANTS
  Word = 2
  HeaderSz = 2
  ValueSz = 2
  TupleSz = 2
  ArraySz = 2
  Lengths <- Odd
  Counts <- Odd
  Pairs = {}
  Kinds = {"array", "buffer"}
  InitGrow = 1
  InitCap = 8
  MaxCap = 16
  MaxObjects = 4
  MaxRoots = 2
  MaxMail = 2
INVARIANT SentStringIsKept
CHECK_DEADLOCK FALSE
