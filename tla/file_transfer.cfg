SPECIFICATION FairSpec
CONSTANTS
  Root = "root"
  Dirs <- MCDirs
  Files <- MCFiles
  Entries <- MCEntries
  Contents <- MCContents
  InitFiles <- MCInitFiles
  InitCopies <- MCInitCopies
  MD5 <- Digest
  x = x
  y = y
  Junk = Junk
  Absent = Absent
  Chunk = 2
  FdLimit = 5
  MaxRounds = 2
  MaxEdits = 1
  MaxFaults = 1
INVARIANTS TypeOK CleanCopy UpToDateMeansEqual RoundMirrors 
 
CHECK_DEADLOCK FALSE
