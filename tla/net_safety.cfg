SPECIFICATION FairSpec
CONSTANTS
  c1 = c1
  c2 = c2
  c3 = c3
  Clients = {c1, c2, c3}
  MaxStarts = 3
  Faults = TRUE
INVARIANTS NoDuplicates CountMatches ListsAgree
 
CHECK_DEADLOCK FALSE
