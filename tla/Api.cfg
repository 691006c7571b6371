SPECIFICATION FairSpec
CONSTANTS
  None = None
  u1 = u1  u2 = u2
  Users = {u1, u2}
  MaxServed = 2  MaxTasks = 1
  Suites <- SmallSuites
  UserLimit = 1  GlobalLimit = 2
  Window = 2  GlobalWindow = 2
  AccessLife = 3  RefreshLife = 3
  JobTtl = 2
  ChunkCount = 2  ParentCount = 1
  MaxStarted = 4
  MaxFaults = 1
CHECK_DEADLOCK FALSE
INVARIANTS TokensRotate LimitsHonest OwnersOnly  UploadsWholeOrAbsent
PROPERTIES ReportsHold Ends
