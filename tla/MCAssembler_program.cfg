SPECIFICATION Spec
CONSTANTS
  i1 = i1
  k1 = k1
  f = f
  g = g
  h = h
  EMPTY = EMPTY
  Strings = {f, g, h}
  StrLen <- Lengths
  HashOf <- Hashes
  Codes = {i1}
  Plain = {k1}
  DefaultRoom <- Room
  INIT_SLOT_COUNT = 1
  MaxNested = 1
  Names = {f}
  Externals <- OneImport
  Rooms <- Tight
  LocalVars = {1}
  MaxItems = 4
INVARIANTS
  AssemblerTypeOK
  PrototypesAreApart
  LookupsEnd
  InternedAreFound
PROPERTY KeepsProgram
CHECK_DEADLOCK FALSE
