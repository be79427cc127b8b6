SPECIFICATION Spec
CONSTANTS
  a1 = a1
  a2 = a2
  b2 = b2
  b1 = b1
  NIL = NIL
  NATIVE = NATIVE
  UNSET = UNSET
  Chunks <- AllChunks
  ModOf <- Modules
  Exports <- Functions
  Imports <- Needs
  Libs <- Natives
INVARIANTS
  LoaderTypeOK
  ImportsAgreeWithFind
  NothingFreedIsReachable
PROPERTY LinkKeepsUntouchedModules
CHECK_DEADLOCK FALSE
