SPECIFICATION Spec
CONSTANTS
  m1 = m1
  m2 = m2
  NumProcs = 2
  NumGens = 2
  PidUnit = 2
  Msgs <- TwoMsgs
  Periods <- SomePeriods
  MaxLag = 1
  MaxMbox = 2
  MaxLives = 3
INVARIANTS
  TypeOK
  ListsPartitionProcesses
  OnlyWaitersWait
  NoLostWakeup
  StalePidFindsNobodyElse
  TimerAccountsForEveryTick
PROPERTY KeepsPromise
SYMMETRY MessagesAlike
CHECK_DEADLOCK FALSE
