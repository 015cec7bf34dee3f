SPECIFICATION FairSpec
CONSTANTS
  r1 = r1
  r2 = r2
  r3 = r3
  Request = {r1, r2}
  LineLimit = 5
  MaxLines = 3
  MaxChunk = 2
  MaxText = 4
CHECK_DEADLOCK FALSE
INVARIANTS TypeOK LinesBilledExactly ForwardedUnderLimit
PROPERTIES QuotaKept RequestsEnd
