CONSTANTS
  Win <- Wins
  TransferOf <- Transfers
  Sending <- Senders
  Account <- BothAccounts
  NMessages = 3
  WinsIn <- WithLate
  BlockOf <- Heights
  WinnerOf <- BobLarge
  PrizeOf <- Prizes
  InstantThreshold = 2
  BatchThreshold = 3
  Goroutine = {g1}
  DailyRelease = FALSE
  Quarantined <- OnlyBob
  MayRevert = FALSE
  MessageRetries = 3
  Mortal = {}
  MaxCrashes = 0
SPECIFICATION MCSpec
INVARIANTS PaidOnce RepeatsAreBounded ReportsAreTrue
PROPERTIES OrderlyReported
CHECK_DEADLOCK FALSE
