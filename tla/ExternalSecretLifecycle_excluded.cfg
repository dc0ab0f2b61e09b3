SPECIFICATION LifecycleSpec
CONSTANTS
  n1 = n1
  Namespaces = {n1}
  Scopes <- MayExclude
  Polling = TRUE
  MaxEvents = 2
  MaxFaults = 1
INVARIANT DeletionIsPending
CHECK_DEADLOCK FALSE
