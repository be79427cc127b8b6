SPECIFICATION FairSpec
CONSTANTS
  m1 = m1
  m2 = m2
  NumProcs = 2
  NumGens = 2
  PidUnit = 1
  Msgs <- OneMsg
  Periods <- SomePeriods
  MaxLag = 1
  MaxMbox = 1
  MaxLives = 2
PROPERTIES
  TimeoutsFire
  ExitedAreFreed
  RunnableRuns
CHECK_DEADLOCK FALSE
