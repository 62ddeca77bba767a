SPECIFICATION PipelineFairSpec
CONSTANTS
  c1 = c1
  c2 = c2
  k1 = k1
  x1 = x1
  x2 = x2
  p1 = p1
  MaxVersions = 1
  Dispatch = {1}
  Client = {c1, c2}
  Key = {k1}
  Hash = {1}
  Source = {x1}
  NoSource = NoSource
  SnapshotOf <- FreshSnapshots
  MaxRepositoryFailures = 0
  MaxWorkflowFailures = 1
  MaxApiDbFaults = 0
  MaxApiCrashes = 0
  Unregistered = {}
  Dispatcher = {p1}
  BatchSize = 1
  MaxToken = 4
  MaxOutages = 1
  MaxDbFaults = 1
  MaxCrashes = 0
INVARIANT DeliveryIsGrounded
INVARIANT ToldIsOnItsWay
PROPERTY ImplementsVersionContract
PROPERTY ToldIsExecuted
CHECK_DEADLOCK FALSE
