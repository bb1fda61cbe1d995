CONSTANTS
  Files <- MCFiles
  Size <- MCSize
  Disks <- AnyDisks
  MaxRetries = 3
  Hashed = {"data"}
  MayIgnoreRange = TRUE
  DiskMayFail = TRUE
SPECIFICATION FairSpec
INVARIANTS PrefixesOnly ReturnedComplete VerifiedIntact
PROPERTIES CallEnds
