SPECIFICATION Spec
CONSTANTS
  v1 = v1
  v2 = v2
  o1 = o1
  o2 = o2
  Version = {v1}
  Call = {o1}
  Restorable = {v1}
  MaxEvents = 4
PROPERTY QuarantineHolds
CHECK_DEADLOCK FALSE
