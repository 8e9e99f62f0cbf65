SPECIFICATION FairSpec
CONSTANTS
  Requests = {r1, r2}
  Workers = {w1, w2}
  Limits <- MCLimits
  ConfiguredSize <- MCNotConfigured
  UnlimitedSize = 3
  PerWorker = 1
  MinSize = 1
  MaxUpdates = 2
  MaxIdle = 1
  NoReq = NoReq
INVARIANTS
  TypeOK
  NoSilentLoss
  SingleOwner
  OldQueueDrained
  WorkersWithinLimit
PROPERTIES
  AcceptedTaskRuns
  StopCompletes
CHECK_DEADLOCK FALSE
