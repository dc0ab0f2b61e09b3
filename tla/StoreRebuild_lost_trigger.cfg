SPECIFICATION Spec
CONSTANTS
  ak = ak
  Sources <- OneSource
  Consumers <- OneConsumer
  InvalidGens <- NoInvalid
  MaxGen = 1
  MaxCred = 2
  MaxFaults = 0
  CounterSpan = 2
  RotateInWindow = TRUE
  AtomicFill = TRUE
  FailedBuilds = TRUE
  LaggingStart = FALSE
  DisablePolling = TRUE
INVARIANTS
  NoLostRotation
CHECK_DEADLOCK FALSE
