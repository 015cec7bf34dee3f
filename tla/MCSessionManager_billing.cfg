SPECIFICATION FairSpec
CONSTANTS
  c1 = c1
  e1 = e1
  e2 = e2
  x = x
  y = y
  Client = {c1}
  Engine = {e1, e2}
  Op = {}
  Blocked = {}
  FlushEvery = 10
  RedisMayFail = FALSE
  MaxObjects = 3
  MaxLines = 3
  MaxFaults = 1
CHECK_DEADLOCK FALSE
INVARIANTS TypeOK LinesBilledOnce
PROPERTIES ClosedIsRemoved
