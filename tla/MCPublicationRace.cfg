SPECIFICATION Spec
CONSTANTS
  e1 = e1
  e2 = e2
  e3 = e3
  v1 = v1
  v2 = v2
  Execution = {e1, e2}
  Scope = {1}
  Variant = {v1}
  Nothing = Nothing
  MaxOverlap = 2
  MaxProcessorFailures = 0
  MaxDbFaults = 0
  MaxCrashes = 0
INVARIANT ManifestMatchesObject
CHECK_DEADLOCK FALSE
