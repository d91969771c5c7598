SPECIFICATION Spec
CONSTANTS
  Root = "root"
  Dirs <- MCDirs
  Files <- MCFiles
  Entries <- MCEntries
  Contents <- MCContents
  InitFiles <- MCInitFiles
  InitCopies <- MCInitCopies
  MD5 <- WeakDigest
  x = x
  y = y
  Junk = Junk
  Absent = Absent
  Chunk = 2
  FdLimit = 5
  MaxRounds = 2
  MaxEdits = 1
  MaxFaults = 1
INVARIANT UpToDateMeansEqual
CHECK_DEADLOCK FALSE
