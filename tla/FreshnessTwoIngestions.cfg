SPECIFICATION Spec
CONSTANTS
  v1 = v1  v2 = v2  v3 = v3  i1 = i1  i2 = i2  r1 = r1  r2 = r2  w1 = w1
  None = None
  Texts = {v1, v2}
  Ingesters = {i1, i2}
  Refreshers = {}
  Reviewers = {}
  Scopes = {"tenant"}
  Intervals = {1}
  VolatileBelow = 2
  DemoteAfterChanges = 1
  PromoteAfterQuietMultiple = 2
  TtlNum = 1  TtlDen = 1
  FaultyCalls = {}
  MaxClock = 0
  MaxVersions = 2
  MaxFaults = 0
INVARIANT StoresAgreeAtRest
CHECK_DEADLOCK FALSE
