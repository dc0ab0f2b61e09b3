SPECIFICATION FairSpec
CONSTANTS
  ak = ak
  Sources <- OneSource
  Consumers <- OneConsumer
  InvalidGens <- NoInvalid
  MaxGen = 2
  MaxCred = 2
  MaxFaults = 0
  CounterSpan = 2
  RotateInWindow = FALSE
  AtomicFill = TRUE
  FailedBuilds = FALSE
  LaggingStart = TRUE
  DisablePolling = FALSE
PROPERTIES
  Converges
