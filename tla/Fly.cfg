SPECIFICATION MCSpec
CONSTANTS
  Account <- Stakers
  Operator = "operator"
  FirstDistributor = "operator"
  Wallet <- Funds
  MaxPositions = 2
  Unbonding = 2
  BonusTime = 3
  PointUnit = 2
  Staker <- JustAlice
  Amount <- UpToThree
  MaxEmergencies = 1
  MaxTime = 3
  User = {a, b}
  Selected = a
  Purse <- MCPurse
  Typed = {2}
  Owed <- MCOwed
  Index <- MCIndex
  NoAccount = NoAccount
  MaxEvents = 2
  MaxRuns = 2
  MaxRenders = 3
  MaxOpens = 2
  MaxClaims = 2
INVARIANTS Solvent StepsHaveCauses SaysWhatWasDone OwedIsOwn
PROPERTIES StepsFair WaitsEnd
CHECK_DEADLOCK FALSE
