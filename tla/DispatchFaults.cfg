SPECIFICATION Spec
CONSTANTS
  n1 = n1
  NoNode = NoNode
  NoTask = NoTask
  NoRun = NoRun
  Tasks = {t1}
  Nodes = {n1}
  Runs = {r1, r2}
  Home <- OneNode
  MaxRunners = 1
  QueueSize = 2
  MaxSaves = 1
  MaxRequeues = 1
  MaxCancels = 1
  MaxLost = 1
  MaxFaults = 1
  MaxOutages = 1
  MaxCrashes = 1
  MaxRestarts = 1
SYMMETRY RunSymmetry
INVARIANTS ExtraRunsNeedRequeue RegistryIsLive FinishedWasStarted
PROPERTIES LifecycleSpec
CHECK_DEADLOCK FALSE
