SPECIFICATION FairSpec
CONSTANTS
  None = None
  Empty = Empty
  o1 = o1
  o2 = o2
  x1 = x1
  x2 = x2
  Others = {o1, o2}
  Contents = {x1, x2}
  Servers <- AllServers
  Starts <- AnyStart
  Budget = 2
INVARIANTS TypeOK SyncedAtRest
PROPERTIES OthersKept EventuallySynced
CHECK_DEADLOCK FALSE
