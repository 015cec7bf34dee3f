SPECIFICATION Spec
CONSTANTS
  a = a
  b = b
  e1 = e1
  e2 = e2
  Engine = {e1, e2}
  Id <- Names
  Component <- Components
  Registered <- Catalogue
  Claim <- Claims
  Field = {"title", "kind"}
  Content <- Plain
  Odd <- Peculiar
  Permitted <- OnlyCard
  MaxEntries = 2
  MaxLines = 3
  MaxNotes = 1
CHECK_DEADLOCK FALSE
SYMMETRY Symmetry
INVARIANTS TypeOK RoundTripIfClean VerdictsHold ReplayShowsThePast
