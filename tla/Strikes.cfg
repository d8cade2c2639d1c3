SPECIFICATION FairSpec
CONSTANTS
  u = u
  w1 = w1
  w2 = w2
  Keys <- OneUser
  User = u
  Workers <- TwoWorkers
  BatchSize = 2
  MaxAttempts = 2
  RetryUnit = 1
  RetryCap = 3
  CleanupAge = 1
  MuteTime = 2
  Horizon = 3
  MaxStrikes = 5
  MaxPardons = 1
  MaxCrashes = 1
  MaxFaults = 1
INVARIANTS
  CountIsHonest
  MuteIsBacked
PROPERTIES
  NoEarlyUnmute
  MuteEnds
CHECK_DEADLOCK FALSE
