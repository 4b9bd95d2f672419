\* Swaps through an application, one of which its fee shows not to be one.
SPECIFICATION Spec
CONSTANTS
  NBlocks = 2
  NTransfers = 3
  Log <- Swaps
  Address <- Addresses
  Null = "null"
  FeeSwitch <- PaidInstead
  Seawater = "seawater"
  AmmPool = "lps"
  Unsupported = {}
  Goroutines = 1
  MessageRetries = 3
  Mortal = {}
  MaxCrashes = 0
PROPERTIES
  OnlyEmptySkipped
CHECK_DEADLOCK FALSE
