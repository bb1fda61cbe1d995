CONSTANTS
  Confs <- MCConfs
  Addresses = 2
  Sessions <- MCSessions
  PreludeLen = 1
  HeaderLen = 3
  BufferSize = 3
  Timeouts = {0, 2}
  MaxConnections = 2
SPECIFICATION Spec
INVARIANTS DecodesSession ClosedMeansDrained ConnectTriesAll
PROPERTIES CallsEnd
