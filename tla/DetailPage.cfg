SPECIFICATION Spec
CONSTANTS
  Docs = {d1, d2}
  Paths = {p1, p2}
  None = None
  MaxSteps = 5
  MaxInFlight = 3
  MaxFaults = 1
SYMMETRY Symmetry
INVARIANTS
  NoForeignDocument
  KeySaveWritesShown
  SpinnerMeansRequest
  TabsAreDistinct
  OpenTabsShown
CHECK_DEADLOCK FALSE
