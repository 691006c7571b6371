SPECIFICATION Spec
CONSTANTS
  c1 = c1  c2 = c2  k1 = k1  k2 = k2  v1 = v1  v2 = v2
  None = None  Set = Set
  Keys = {k1}
  Values = {v1, v2}
  Commands = {c1, c2}
  Ops = {"record", "update", "refine", "invalidate", "archive", "evolve", "consolidate", "capture", "procedure", "procedures"}
  MaxStarted = 3
  MaxFaults = 0
  BatchSize = 1
PROPERTIES StatusSurvivesContent
CHECK_DEADLOCK FALSE
