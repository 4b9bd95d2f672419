SPECIFICATION MCSpec
CONSTANTS
  alice = alice
  bob = bob
  Owner <- MCOwner
  Chains = {"arbitrum", "solana"}
  Unclaimed = "dust"
  MaxTimers = 1
  People = {alice, bob}
  Nobody = none
  Served = {"arbitrum"}
  MaxSockets = 2
  MaxWins = 1
  Client = {k}
  MaxSubscriptions = 2
  MaxTransfers = 1
  MaxRows = 2
  MaxReconnects = 1
  First = 2
  PerPage = 1
  Cap = 2
  LastPage = 2
  TypedPages = {3}
  MaxChanges = 2
  MaxFaults = 1
INVARIANTS FrameYields ToldOnce 
 
CHECK_DEADLOCK FALSE
