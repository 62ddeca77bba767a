SPECIFICATION Spec
CONSTANTS
  c1 = c1
  c2 = c2
  k1 = k1
  k2 = k2
  h1 = h1
  MaxVersions = 2
  Client = {c1, c2}
  Boot = Boot
  IssueKey = {k1, k2}
  CompleteKey = {k1}
  Hash = {h1}
  Generic = {1}
  MaxFaults = 1
INVARIANT TypeOK
INVARIANT RetriesConverge
INVARIANT PublishedIsServable
INVARIANT PendingIsAttended


CHECK_DEADLOCK FALSE
