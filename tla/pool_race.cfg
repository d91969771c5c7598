SPECIFICATION Spec
CONSTANTS
  c1 = c1
  c2 = c2
  f1 = f1
  Clients = {c1, c2}
  Self = Self
  Files = {f1}
  NoFile = NoFile
  NoElem = NoElem
  Elem <- MCElem
  bufferSize = 2
  workerThreads = 2
  StartLists <- OneOther
  FileLists <- UpToOneFile
  PeerDrops = FALSE
  ServerDrops = FALSE
  MaxOn = 2
  MaxSig = 0
INVARIANT ElementStable
CHECK_DEADLOCK FALSE
