SPECIFICATION FairSpec
CONSTANTS
  n1 = n1
  NoNode = NoNode
  NoTask = NoTask
  NoRun = NoRun
  Tasks = {t1}
  Nodes = {n1, n2}
  Runs = {r1, r2}
  Home <- OneNode
  MaxRunners = 1
  QueueSize = 2
  MaxSaves = 2
  MaxRequeues = 1
  MaxCancels = 0
  MaxLost = 1
  MaxFaults = 0
  MaxOutages = 0
  MaxCrashes = 0
  MaxRestarts = 1
INVARIANTS RunsWhereBound
PROPERTIES EveryTaskSettles
CHECK_DEADLOCK FALSE
