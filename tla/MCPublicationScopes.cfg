SPECIFICATION FairSpec
CONSTANTS
  e1 = e1
  e2 = e2
  e3 = e3
  v1 = v1
  v2 = v2
  Execution = {e1}
  Scope = {1, 2}
  Variant = {v1}
  Nothing = Nothing
  MaxOverlap = 1
  MaxProcessorFailures = 0
  MaxDbFaults = 0
  MaxCrashes = 0
PROPERTY EveryScopePublished
CHECK_DEADLOCK FALSE
