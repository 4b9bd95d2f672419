SPECIFICATION MCSpec
CONSTANTS
  Wins <- MCWins
  Transactions = 2
  Fluid = "FLUID"
  FluidTokens = {"USDC"}
  CacheLife = 2
  All = "all"
  PerPage = 1
  Windows <- MCWindows
  WinnersLimit = 4
  PendingLimit = 3
  Views <- MCViews
  Amounts = {1, 2}
  MaxVolumes = 3
  Start = 6
  MaxDelay = 1
INVARIANTS PageIsTrue SumsAreTrue GraphsAreTrue
PROPERTIES BoardIsOfPeriod
CHECK_DEADLOCK FALSE
