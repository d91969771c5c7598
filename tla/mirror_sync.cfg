SPECIFICATION FairSpec
CONSTANTS
  a = a
  b = b
  ra = ra
  rb = rb
  d = d
  e = e
  f = f
  g = g
  Clients <- TwoClients
  Nodes <- AllNodes
  Dirs <- AllDirs
  Kids <- MCKids
  Size <- MCSize
  Root <- MCRoot
  MaxBuff = 2
  PipeCap = 2
  MaxFaults = 1
INVARIANTS   FailureLeavesNothing ChildrenToldToEnd
PROPERTIES  ToldEnds BothComplete
CHECK_DEADLOCK FALSE
