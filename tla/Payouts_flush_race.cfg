\* Two goroutines, each with a win above the threshold.
SPECIFICATION AsConfigured
CONSTANTS
  Win <- Wins
  TransferOf <- Transfers
  Sending <- Senders
  Account <- BothAccounts
  NMessages = 2
  WinsIn <- Separately
  BlockOf <- Heights
  WinnerOf <- BobLarge
  PrizeOf <- Prizes
  InstantThreshold = 0
  BatchThreshold = 2
  Goroutine = {g1, g2}
  DailyRelease = FALSE
  Quarantined = {}
  MayRevert = FALSE
  MessageRetries = 3
  Mortal = {}
  MaxCrashes = 0
INVARIANTS
  FlushFindsRewards
CHECK_DEADLOCK FALSE
