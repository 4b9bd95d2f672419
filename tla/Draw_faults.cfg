\* Two goroutines per service, and any service killed twice, draw for a block.
SPECIFICATION FairSpec
CONSTANTS
  NBlocks = 1
  NTransfers = 6
  Log <- SwapAndSends
  Address <- Addresses
  Null = "null"
  FeeSwitch <- PaidInstead
  Seawater = "seawater"
  AmmPool = "lps"
  Unsupported = {}
  Goroutines = 2
  MessageRetries = 4
  Mortal <- AllServices
  MaxCrashes = 2
INVARIANTS
  DrawnOnce WholeAndRecorded WonOnceUnlessKilled
PROPERTIES
  EventuallyJudged
CHECK_DEADLOCK FALSE
