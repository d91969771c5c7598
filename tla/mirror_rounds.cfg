SPECIFICATION FairSpec
CONSTANTS
  Peers <- TwoPeers
  MaxStarts = 2
  MaxSig = 0
  MaxProcs = 4
  Faults = FALSE
PROPERTY Repeats
CHECK_DEADLOCK FALSE
