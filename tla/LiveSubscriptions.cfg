CONSTANTS
  SymbolLists <- MCSymbolLists
  ChunkSize = 2
  MaxSubId = 3
  MaxSubs = 2
  MaxMessages = 6
SPECIFICATION SubSpec
INVARIANTS GatewayMirrorsClient IdsAgree
PROPERTIES ResubscribeDropsStarts
