SPECIFICATION FairSpec
CONSTANTS
  i1 = i1
  i2 = i2
  c1 = c1
  c2 = c2
  c3 = c3
  Ids = {i1, i2}
  Calls = {c1, c2, c3}
INVARIANTS TypeOK ReadOnlyHub RemovalConfirmed OneChangePerCall
PROPERTIES EveryCallReturns
CHECK_DEADLOCK FALSE
