SPECIFICATION FairSpec
CONSTANTS
  v1 = v1  v2 = v2  v3 = v3  i1 = i1  i2 = i2  r1 = r1  r2 = r2  w1 = w1
  None = None
  Texts = {v1, v2}
  Ingesters = {i1}
  Refreshers = {r1}
  Reviewers = {}
  Scopes = {"tenant"}
  Intervals = {2}
  VolatileBelow = 2
  DemoteAfterChanges = 1
  PromoteAfterQuietMultiple = 2
  TtlNum = 1  TtlDen = 2
  FaultyCalls = {"ingest", "crash"}
  MaxClock = 2
  MaxVersions = 3
  MaxFaults = 1
INVARIANTS CachedCopyIsCurrent ExpiryAnchored
CHECK_DEADLOCK FALSE
PROPERTIES PendingIsResolved StaleCopyGoes
