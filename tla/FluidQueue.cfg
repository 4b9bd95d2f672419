\* Two instances of one worker id, a poison and a healthy message.
SPECIFICATION MCSpec
CONSTANTS
  g1 = g1
  g2 = g2
  Worker <- OneWorker
  Process <- TwoInstances
  WorkerOf <- AllW1
  Goroutine = {g1, g2}
  NMessages = 2
  Key <- OneKey
  RoutingKey <- SameKey
  Bound <- BoundToAll
  Exact <- OneWorker
  Body <- TwoBodies
  BodyOf <- PoisonFirst
  Poison <- BadOnly
  DeadLetterEnabled = TRUE
  MessageRetries = 3
  RestartAlways = TRUE
  MaxCrashes = 2
  MaxExpiries = 1
INVARIANTS InOnePlace SettledForCause HealthyGivenUpByCrashes
PROPERTIES ContractSpec EventuallySettled
CHECK_DEADLOCK FALSE
