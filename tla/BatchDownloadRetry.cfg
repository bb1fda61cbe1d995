CONSTANTS
  Files <- OneFile
  Size <- OneSize
  Disks <- ForeignPartial
  MaxRetries = 2
  Hashed = {"data"}
  MayIgnoreRange = FALSE
  DiskMayFail = FALSE
SPECIFICATION Spec
INVARIANTS DocChecksum
