SPECIFICATION FairSpec
CONSTANTS
  u1 = u1
  Keys <- OneUser
  BatchSize = 2
  MaxAttempts = 2
  RetryUnit = 1
  RetryCap = 3
  CleanupAge = 1
  TTL = 2
  Horizon = 1
  MaxJoins = 2
  MaxPresses = 2
  MaxCrashes = 1
  MaxFaults = 1
INVARIANTS
  MemoryBacked
  NoLimbo
  PromptsTidied
PROPERTIES
  ExpiryDecides
  CancelledNotBanned
  NoHastyBan
CHECK_DEADLOCK FALSE
