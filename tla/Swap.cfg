CONSTANTS
  Account = {a, b}
  Rich = a
  NoAccount = NoAccount
  Networks = {"evm", "solana", "sui"}
  Eager = {a}
  Linked = {"fluid"}
  Narrow = {TRUE}
  Decimals = 1
  Typed <- MCTyped
  Holds <- MCHolds
  Allowed = {1}
  MaxFlows = 2
  MaxSwitches = 1
  MaxVisits = 2
SPECIFICATION Spec
INVARIANTS FailuresAreTrue
PROPERTIES FilledAtMostOnce SwapEndsWait
CHECK_DEADLOCK FALSE
