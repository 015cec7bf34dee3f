SPECIFICATION Spec
CONSTANTS
  m1 = m1
  m2 = m2
  r1 = r1
  r2 = r2
  Model = {m1}
  Corrupt = Corrupt
  MaxChanges = 1
  Request = {r1, r2}
  LocLimit = 2
  Rpm = 1
  Rph = 2
  Minute = 2
  Hour = 6
  LineSize = 2
  Digits = 2
  MaxPart = 1
  MaxBuffer = 2
SYMMETRY RequestSymmetry
INVARIANTS TypeOK BurstsAreBounded OvershootIsBounded UnpaidIsBuffered
