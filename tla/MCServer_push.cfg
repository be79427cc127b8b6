SPECIFICATION FairDSpec
CONSTANTS
  a1 = a1
  c1 = c1
  c2 = c2
  NIL = NIL
  NATIVE = NATIVE
  UNSET = UNSET
  NOBODY = NOBODY
  BAD = BAD
  Chunks <- OneChunk
  ModOf <- Modules
  Exports <- Functions
  Imports <- Needs
  Libs = {}
  Clients = {c1, c2}
  ConnectionMax = 2
  Asks <- SomeAsks
  HasBody <- PostsChunk
INVARIANTS
  SubscribersAreTold
  SlotsKeepApart
PROPERTY AnswersCome
CHECK_DEADLOCK FALSE
