SPECIFICATION Spec
CONSTANTS
  c1 = c1
  e1 = e1
  e2 = e2
  x = x
  y = y
  Client = {c1}
  Engine = {e1, e2}
  Op = {x, y}
  Blocked = {y}
  FlushEvery = 1
  RedisMayFail = TRUE
  MaxObjects = 3
  MaxLines = 1
  MaxFaults = 2
CHECK_DEADLOCK FALSE
SYMMETRY EngineSymmetry
PROPERTIES StoredNeverRegresses ResumeIsFresh ClosedIsSaved
