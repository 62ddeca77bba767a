SPECIFICATION Spec
CONSTANTS
  v1 = v1
  v2 = v2
  o1 = o1
  o2 = o2
  Version = {v1, v2}
  Call = {o1, o2}
  Restorable = {v1}
  MaxEvents = 4
INVARIANT StateIsAudited
INVARIANT TakedownsAreLifted
CHECK_DEADLOCK FALSE
