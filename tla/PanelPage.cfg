SPECIFICATION Spec
CONSTANTS
  Docs = {d1, d2}
  None = None
  Views <- MCViews
  MaxVersion = 1
  MaxSteps = 5
  MaxInFlight = 2
  MaxFaults = 1
INVARIANTS NoTimerLeft SpinnersEnd
PROPERTY ShowsTheDocument
CHECK_DEADLOCK FALSE
