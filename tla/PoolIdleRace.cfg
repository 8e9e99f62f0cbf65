SPECIFICATION FairSpec
CONSTANTS
  Requests = {r1, r2, r3}
  Workers = {w1, w2, w3}
  Limits <- MCOneLimit
  ConfiguredSize = 2
  UnlimitedSize = 3
  PerWorker = 1
  MinSize = 1
  MaxUpdates = 0
  MaxIdle = 1
  NoReq = NoReq
PROPERTIES
  TaskRunsDespiteIdle
CHECK_DEADLOCK FALSE
