SPECIFICATION FairSpec
CONSTANTS
  q1 = q1  q2 = q2
  Requests = {q1}
  Tiers = {"mag", "rag"}
  MaxBackground = 1
  HasSink = TRUE
  TierRaisesCancelled = TRUE
  CallersCancel = TRUE
INVARIANTS NoOrphanTier LateFindingIsNew
PROPERTIES DrainCoversSettledRuns RunsEnd
CHECK_DEADLOCK FALSE
