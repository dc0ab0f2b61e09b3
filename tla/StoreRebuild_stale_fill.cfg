SPECIFICATION Spec
CONSTANTS
  ak = ak
  Sources <- OneSource
  Consumers <- OneConsumer
  InvalidGens <- NoInvalid
  MaxGen = 2
  MaxCred = 1
  MaxFaults = 0
  CounterSpan = 2
  RotateInWindow = FALSE
  AtomicFill = FALSE
  FailedBuilds = TRUE
  LaggingStart = FALSE
  DisablePolling = TRUE
INVARIANTS
  NoLostSpecEdit
CHECK_DEADLOCK FALSE
