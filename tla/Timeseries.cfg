CONSTANTS
  Uninit = Uninit
  Responses <- MCResponses
  RecordLens <- MCRecordLens
  BufferSize = 4
  MaxRecordLen = 3
  PreludeLen = 2
  MetadataLen = 5
SPECIFICATION FairSpec
INVARIANTS ReturnedMeansAll ErrorBodyIsThrown
PROPERTIES ImplementsRecordStream CallEnds
