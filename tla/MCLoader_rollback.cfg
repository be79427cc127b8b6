SPECIFICATION Spec
CONSTANTS
  a1 = a1
  a2 = a2
  b2 = b2
  b1 = b1
  NIL = NIL
  NATIVE = NATIVE
  UNSET = UNSET
  Chunks <- AllChunks
  ModOf <- Modules
  Exports <- Functions
  Imports <- Needs
  Libs <- Natives
PROPERTY SafeLinkRollsBack
CHECK_DEADLOCK FALSE
