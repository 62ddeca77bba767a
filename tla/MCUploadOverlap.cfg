SPECIFICATION FairSpec
CONSTANTS
  c1 = c1
  c2 = c2
  k1 = k1
  k2 = k2
  x1 = x1
  x2 = x2
  MaxVersions = 1
  Client = {c1, c2}
  Key = {k1}
  Hash = {1}
  Source = {x1, x2}
  NoSource = NoSource
  SnapshotOf <- FreshSnapshots
  MaxRepositoryFailures = 0
  MaxWorkflowFailures = 0
  MaxDbFaults = 0
  MaxCrashes = 0
PROPERTY CanonicalizingEnds
CHECK_DEADLOCK FALSE
