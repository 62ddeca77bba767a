SPECIFICATION FairSpec
CONSTANTS
  e1 = e1
  e2 = e2
  e3 = e3
  v1 = v1
  v2 = v2
  Execution = {e1, e2}
  Scope = {1, 2}
  Variant = {v1, v2}
  Nothing = Nothing
  MaxOverlap = 2
  MaxProcessorFailures = 1
  MaxDbFaults = 1
  MaxCrashes = 1
INVARIANT PublishedIsDurable
INVARIANT RowsFollowObjects
INVARIANT ProcessingIsAttended
PROPERTY ProcessingEnds
CHECK_DEADLOCK FALSE
