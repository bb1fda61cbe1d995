CONSTANTS
  Uninit = Uninit
  BufferSizes = {3, 6}
  HeaderLen = 2
  MaxRecordLen = 3
  RecordLens = {3}
  AuthLen = 1
  MetadataLen = 4
  HbTimeout = 1
  Timeouts = {1}
  SymbolLists <- MCSymbolLists
  ChunkSize = 1
  MaxSubId = 1
  MaxRecords = 2
  MaxSubs = 1
  MaxMessages = 1
SPECIFICATION FairSpec
INVARIANTS RecordsInOrder MetadataFits
PROPERTIES OnlyClosedWhenDrained HeartbeatMeansSilence CallsReturn
