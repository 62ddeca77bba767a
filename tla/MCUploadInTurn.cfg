SPECIFICATION FairSpec
CONSTANTS
  c1 = c1
  c2 = c2
  k1 = k1
  k2 = k2
  x1 = x1
  x2 = x2
  MaxVersions = 2
  Client = {c1}
  Key = {k1, k2}
  Hash = {1, 2}
  Source = {x1}
  NoSource = NoSource
  SnapshotOf <- EqualBytes
  MaxRepositoryFailures = 1
  MaxWorkflowFailures = 1
  MaxDbFaults = 0
  MaxCrashes = 1
INVARIANT KeyBindsOneRequest
INVARIANT RetryableIsExplained
INVARIANT CanonicalizingIsAttended
PROPERTY CompletionLeavesDispatchedAlone
PROPERTY CanonicalizingEnds
CHECK_DEADLOCK FALSE
