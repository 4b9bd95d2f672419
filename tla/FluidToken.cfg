SPECIFICATION MCSpec
CONSTANTS
  Account <- TwoAccounts
  Provider <- LendingAndCircular
  Circular <- StupidProvider
  NoAccount = "nobody"
  FeeDenom = 2
  Unlimited = 4
  FirstProvider = "aave"
  FirstOperator = "alice"
  FirstOracle = "alice"
  FirstCouncil = "bob"
  FirstThreshold = 1
  Wallet <- AliceHasTwo
  Amount = {1, 2}
  Threshold = {}
  Fee = {0, 1}
  Recipient <- FeesToPoolOrBob
  Appointee = {}
  Suspect = {}
  Grantee = {}
  Grant = {}
  MaxBatch = 2
  MaxBlocked = 2
  MaxUnderlying = 3
  MaxReleased = 1
  MaxBudget = 0
  MaxPermits = 0
INVARIANTS SupplyIsSumOfBalances BackedUpToReleases ExitStaysOpen WithinGrants
PROPERTIES ControlsHold
CHECK_DEADLOCK FALSE
