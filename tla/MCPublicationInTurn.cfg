SPECIFICATION Spec
CONSTANTS
  e1 = e1
  e2 = e2
  e3 = e3
  v1 = v1
  v2 = v2
  Execution = {e1, e2, e3}
  Scope = {1, 2}
  Variant = {v1, v2}
  Nothing = Nothing
  MaxOverlap = 1
  MaxProcessorFailures = 1
  MaxDbFaults = 2
  MaxCrashes = 1
INVARIANT ManifestMatchesObject
CHECK_DEADLOCK FALSE
