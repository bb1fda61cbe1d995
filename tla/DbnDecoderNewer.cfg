CONSTANTS
  Uninit = Uninit
  Sources <- MCSources
  Records <- MCRecords
  BufferSizes = {3, 6, 7}
  MaxRecordLen = 3
  MetadataLen = 4
SPECIFICATION Spec
INVARIANTS NewerVersionsFail
