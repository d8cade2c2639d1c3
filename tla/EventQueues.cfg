SPECIFICATION Spec
CONSTANTS
  w1 = w1
  w2 = w2
  Workers <- TwoWorkers
  MetricQueueSize = 1
  AuditQueueSize = 1
  LogChannel = TRUE
  MaxDeletes = 1
  MaxActs = 2
  MaxDay = 1
  MaxFaults = 1
  MaxCrashes = 1
SYMMETRY Symmetry
INVARIANTS
  CountsAreHonest
  LossesHaveReasons
  NeverHeldUp
CHECK_DEADLOCK FALSE
