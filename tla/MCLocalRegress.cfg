SPECIFICATION Spec
CONSTANTS
  c1 = c1
  c2 = c2
  k1 = k1
  k2 = k2
  h1 = h1
  MaxVersions = 1
  Client = {c1}
  Boot = Boot
  IssueKey = {k1}
  CompleteKey = {k1}
  Hash = {h1}
  Generic = {1}
  MaxFaults = 1
INVARIANT DeliveryReadyAfterRestart
CHECK_DEADLOCK FALSE
