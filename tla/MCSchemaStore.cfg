SPECIFICATION Spec
CONSTANTS
  c1 = c1
  c2 = c2
  c3 = c3
  Client = {c1, c2}
  Newest = 3
  Ttl = 2
  MaxCalls = 4
  MaxFaults = 1
  MaxTicks = 3
CHECK_DEADLOCK FALSE
SYMMETRY ClientSymmetry
INVARIANTS TypeOK OnlyFaultsPersist
PROPERTIES KeepsLatest WritesMendTheIndex LatestIsFound
