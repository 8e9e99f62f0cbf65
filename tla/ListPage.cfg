SPECIFICATION FairSpec
CONSTANTS
  Views <- AllViews
  NumIds = 3
  MaxSteps = 4
  MaxInFlight = 3
  MaxFaults = 1
INVARIANTS SpinnerEnds ConfirmSpinnerEnds
PROPERTIES NoResurrection OthersKept ShowsTheQuery
CHECK_DEADLOCK FALSE
