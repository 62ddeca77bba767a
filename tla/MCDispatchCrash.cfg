SPECIFICATION FairSpec
CONSTANTS
  p1 = p1
  p2 = p2
  Dispatch = {1}
  Unregistered = {}
  Dispatcher = {p1}
  BatchSize = 1
  MaxToken = 6
  MaxOutages = 0
  MaxDbFaults = 0
  MaxCrashes = 1
PROPERTY IntentSettles
CHECK_DEADLOCK FALSE
