SPECIFICATION Spec
CONSTANTS
  ak = ak
  Sources <- OneSource
  Consumers <- OneConsumer
  InvalidGens <- NoInvalid
  MaxGen = 1
  MaxCred = 1
  MaxFaults = 0
  CounterSpan = 9
  RotateInWindow = FALSE
  AtomicFill = TRUE
  FailedBuilds = TRUE
  LaggingStart = TRUE
  DisablePolling = TRUE
PROPERTIES
  MonotoneGeneration
CHECK_DEADLOCK FALSE
