SPECIFICATION Spec
CONSTANTS
  c1 = c1
  e1 = e1
  e2 = e2
  x = x
  y = y
  Client = {c1}
  Engine = {e1}
  Op = {}
  Blocked = {}
  FlushEvery = 2
  RedisMayFail = FALSE
  MaxObjects = 1
  MaxLines = 2
  MaxFaults = 0
CHECK_DEADLOCK FALSE
INVARIANTS LinesBilledOnce
