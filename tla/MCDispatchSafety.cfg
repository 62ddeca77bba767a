SPECIFICATION FairSpec
CONSTANTS
  p1 = p1
  p2 = p2
  Dispatch = {1, 2}
  Unregistered = {2}
  Dispatcher = {p1, p2}
  BatchSize = 2
  MaxToken = 6
  MaxOutages = 1
  MaxDbFaults = 1
  MaxCrashes = 1
INVARIANT TypeOK
INVARIANT ExclusiveClaim
INVARIANT CommitUnderClaim
INVARIANT RecordedTruthfully
INVARIANT OneExecutionPerClaim
INVARIANT StrandedByFaultOnly
PROPERTY TransitionsAsDocumented
PROPERTY ImplementsContract
PROPERTY IntentSettlesWhileUp
CHECK_DEADLOCK FALSE
