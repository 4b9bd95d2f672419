SPECIFICATION MCSpec
CONSTANTS
  Wallet <- MCWallet
  Typed = {2}
  Ratio = {1}
  Minimum = 2
  MaxTests = 1
  MaxSlides = 2
  MaxOpens = 1
  Address = {a, b}
  Owing = {a}
  Stranger = s
  Boards <- MCBoards
  Nobody = none
  Top = 1
  MaxSwitches = 2
  MaxFetches = 2
  MaxVisits = 3
  Tab = {t1}
  Code = {c1, c2, c3}
  NoCode = NoCode
  Required = 2
  Won = {1, 2}
  MaxFaults = 1
  MaxEpochs = 2
  MaxAccepts = 1
  MaxWins = 2
  Handlers = 2
PROPERTY RaisedOnlyWhenLow
CHECK_DEADLOCK FALSE
