SPECIFICATION Spec
CONSTANTS
  p1 = p1
  p2 = p2
  q1 = q1
  q2 = q2
  k1 = k1
  v1 = v1
  i1 = i1
  i2 = i2
  Caller = {p1, p2}
  Consumer = {q1}
  Key = {k1}
  Variant = {v1}
  Id = {i1, i2}
  NoId = NoId
  Lifetime = 2
  MaxClock = 3
  MaxFaults = 1
SYMMETRY LinksSymmetry
INVARIANT OneGrantPerKey
INVARIANT AnsweredFromRecord
INVARIANT ToldLinkWorks
INVARIANT OneTimeOpensOnce
CHECK_DEADLOCK FALSE
