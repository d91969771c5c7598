SPECIFICATION Spec
CONSTANTS
  c1 = c1
  c2 = c2
  c3 = c3
  Clients = {c1, c2, c3}
  MaxStarts = 3
  Faults = FALSE
INVARIANT KnowEachOther
CHECK_DEADLOCK FALSE
