SPECIFICATION FairSpec
CONSTANTS
  c1 = c1
  c2 = c2
  f1 = f1
  Clients = {c1}
  Self = Self
  Files = {f1}
  NoFile = NoFile
  NoElem = NoElem
  Elem <- MCElem
  bufferSize = 3
  workerThreads = 2
  StartLists <- OneOther
  FileLists <- NoFiles
  PeerDrops = FALSE
  ServerDrops = FALSE
  MaxOn = 2
  MaxSig = 1
INVARIANTS TypeOK NoMissedWakeup
PROPERTIES    BufferIsFIFO
CHECK_DEADLOCK FALSE
