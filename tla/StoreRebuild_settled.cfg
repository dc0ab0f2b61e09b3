SPECIFICATION Spec
CONSTANTS
  ak = ak
  Sources <- OneSource
  Consumers <- OneConsumer
  InvalidGens <- SecondInvalid
  MaxGen = 3
  MaxCred = 2
  MaxFaults = 1
  CounterSpan = 2
  RotateInWindow = FALSE
  AtomicFill = TRUE
  FailedBuilds = FALSE
  LaggingStart = FALSE
  DisablePolling = TRUE
INVARIANTS
  TypeOK
  NoLostSpecEdit
  NoLostRotation
  NoStuckGuard
  NoLostSignal
CHECK_DEADLOCK FALSE
