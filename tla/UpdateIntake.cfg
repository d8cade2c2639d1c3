SPECIFICATION FairSpec
CONSTANTS
  i1 = i1
  i2 = i2
  w1 = w1
  None = None
  Instances <- TwoInstances
  Workers <- OneWorker
  QueueSize = 1
  BatchSize = 2
  Last = 3
  MaxExits = 1
  MaxBreaks = 1
  MaxFaults = 1
INVARIANTS
  NothingForgotten
  LossIsBounded
  RepeatsHaveReasons
  PolledInOrder
  OneAtWork
PROPERTIES
  EveryUpdateEnds
CHECK_DEADLOCK FALSE
