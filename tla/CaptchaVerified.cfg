SPECIFICATION Spec
CONSTANTS
  u1 = u1
  Keys <- OneUser
  BatchSize = 2
  MaxAttempts = 2
  RetryUnit = 1
  RetryCap = 3
  CleanupAge = 3
  TTL = 1
  Horizon = 1
  MaxJoins = 1
  MaxPresses = 1
  MaxCrashes = 0
  MaxFaults = 0
INVARIANT
  VerifiedIsFinal
CHECK_DEADLOCK FALSE
