SPECIFICATION Spec
CONSTANTS
  i1 = i1
  i2 = i2
  kUser = kUser
  kMsg = kMsg
  kMsg2 = kMsg2
  Instances <- TwoInstances
  Keys <- UserAndMessage
  Reusable <- UserKey
  BatchSize = 2
  MaxAttempts = 2
  RetryUnit = 1
  RetryCap = 3
  CleanupAge = 1
  Delays = {0, 1}
  Horizon = 1
  MaxEnqueues = 2
  MaxCrashes = 1
  MaxFaults = 1
SYMMETRY Symmetry
INVARIANTS
  DoneWasRun
  NeverEarly
  CancelSticks
  RetryBudget
  ExclusiveRun
  ClaimTokensUnique
CHECK_DEADLOCK FALSE
