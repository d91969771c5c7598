SPECIFICATION FairSpec
CONSTANTS
  c1 = c1
  c2 = c2
  f1 = f1
  Clients = {c1}
  Self = Self
  Files = {f1}
  NoFile = NoFile
  NoElem = NoElem
  Elem <- MCElem
  bufferSize = 2
  workerThreads = 2
  StartLists <- OneOther
  FileLists <- TwoEntries
  PeerDrops = FALSE
  ServerDrops = FALSE
  MaxOn = 1
  MaxSig = 0
PROPERTY PusherUnblocks
CHECK_DEADLOCK FALSE
