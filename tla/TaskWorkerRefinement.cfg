SPECIFICATION FairSpec
CONSTANTS
  i1 = i1
  i2 = i2
  kUser = kUser
  kMsg = kMsg
  kMsg2 = kMsg2
  Instances <- OneInstance
  Keys <- MessageKeys
  Reusable = {}
  BatchSize = 1
  MaxAttempts = 2
  RetryUnit = 1
  RetryCap = 3
  CleanupAge = 1
  Delays = {0, 1}
  Horizon = 2
  MaxEnqueues = 3
  MaxCrashes = 1
  MaxFaults = 1
PROPERTIES
  ServedOrStuck
  ImplementsDelayedAction
CHECK_DEADLOCK FALSE
