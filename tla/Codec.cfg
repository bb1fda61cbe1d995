CONSTANTS
  Metadatas <- MCMetadatas
  Texts <- MCTexts
  None = None
  Garbled = Garbled
  Uninit = Uninit
  Byte = {a, b}
  InitCapacity = 3
  MaxWrite = 2
  MaxCapacity = 5
  InSize = 3
  OutSize = 3
  Writes <- MCWrites
  MaxCalls = 4
  Mapped <- MCMapped
  Dates = {0, 1, 2, 3}
  Numbers <- MCNumbers
  Ids = {101, 102}
  Names = {"ESH4", "ESM4"}
  Formats <- MCFormats
SPECIFICATION Spec
INVARIANTS TablesAgree MetadataReadsBack UpgradesKeepRecords UnreadIsInitialised FlushedReadsBack SymbolMapsAgree
PROPERTIES ImplementsFifo
