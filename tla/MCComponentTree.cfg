SPECIFICATION Spec
CONSTANTS
  a = a
  b = b
  c = c
  Panel = Panel
  Card = Card
  v1 = v1
  v2 = v2
  NoParent = NoParent
  Id = {a, b, c}
  Component = {Panel, Card}
  Value = {v1, v2}
  Permitted = {Panel}
  MaxSeq = 3
SYMMETRY Symmetry
INVARIANTS TypeOK ParentsComeFirst IndexIsInverse SeqIsAnOrder SnapshotRestorable RestoreRebuilds
PROPERTIES UnmountIsACascade
