SPECIFICATION FairSpec
CONSTANTS
  r1 = r1
  r2 = r2
  t1 = t1
  t2 = t2
  None = None
  Request = {r1, r2}
  Terms = {t1, t2}
  Ttl = 2
  MaxFaults = 2
INVARIANTS TypeOK StaleAnswersAreYoung
PROPERTY RowTakesHold
