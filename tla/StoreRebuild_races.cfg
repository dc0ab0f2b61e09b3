SPECIFICATION Spec
CONSTANTS
  ak = ak
  Sources <- OneSource
  Consumers <- OneConsumer
  InvalidGens <- NoInvalid
  MaxGen = 2
  MaxCred = 2
  MaxFaults = 0
  CounterSpan = 2
  RotateInWindow = TRUE
  AtomicFill = FALSE
  FailedBuilds = TRUE
  LaggingStart = TRUE
  DisablePolling = TRUE
INVARIANTS
  NoStuckGuard
PROPERTIES
  ClearedAfterSignal
  TriggerHonoured
CHECK_DEADLOCK FALSE
