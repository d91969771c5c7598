SPECIFICATION Spec
CONSTANTS
  c1 = c1
  c2 = c2
  f1 = f1
  Clients = {c1, c2}
  Self = Self
  Files = {f1}
  NoFile = NoFile
  NoElem = NoElem
  Elem <- MCElem
  bufferSize = 3
  workerThreads = 1
  StartLists <- TwoOthers
  FileLists <- UpToOneFile
  PeerDrops = TRUE
  ServerDrops = TRUE
  MaxOn = 2
  MaxSig = 1
INVARIANTS  ElementStable 
CHECK_DEADLOCK FALSE
