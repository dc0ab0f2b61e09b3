SPECIFICATION FairSpec
CONSTANTS
  n1 = n1
  n2 = n2
  Namespaces = {n1}
  Labels = {"in", "out"}
  Specs <- ByLabel
  Stores <- Anybody
  Scopes <- Unscoped
  Polling = TRUE
  MaxEvents = 1
  MaxFaults = 1
PROPERTIES Provisioning Reclaiming
CHECK_DEADLOCK FALSE
