SPECIFICATION FairSpec
CONSTANTS
  Peers <- OnePeer
  MaxStarts = 2
  MaxSig = 1
  MaxProcs = 4
  Faults = TRUE
INVARIANTS TriesBounded OneChildEach ChildrenTold
PROPERTIES StopsUnlessLost FailureHeard
CHECK_DEADLOCK FALSE
