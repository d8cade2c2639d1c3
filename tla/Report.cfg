SPECIFICATION Spec
CONSTANTS
  u1 = u1
  w1 = w1
  w2 = w2
  r1 = r1
  Users <- OneUser
  Workers <- TwoWorkers
  Reports <- OneReport
  TTL = 1
  Cooldown = 2
  MaxWait = 1
  MaxLag = 1
  Horizon = 3
  MaxRoles = 1
  MaxFaults = 1
  MaxCrashes = 1
SYMMETRY Symmetry
INVARIANTS
  RoleIsRecent
  ReportsSpaced
  SaidIsDone
