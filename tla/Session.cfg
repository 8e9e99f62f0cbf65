SPECIFICATION FairSpec
CONSTANTS
  w1 = w1
  w2 = w2
  s1 = s1
  s2 = s2
  NoWindow = NoWindow
  Windows = {w1, w2}
  Slots = {s1, s2}
  MaxPairs = 2
  MaxRequests = 3
  MaxFaults = 1
INVARIANTS TypeOK OwnRotationKept NobodyLeftWaiting
PROPERTIES NoNeedlessDrop StoreSpec RequestSettles
CHECK_DEADLOCK FALSE
