SPECIFICATION Spec
CONSTANTS
  n1 = n1
  n2 = n2
  Namespaces = {n1}
  Labels = {"in", "out"}
  Specs <- Selections
  Stores <- Anybody
  Scopes <- Unscoped
  Polling = FALSE
  MaxEvents = 2
  MaxFaults = 1
INVARIANTS TypeOK DeletionIsPending StatusExact LedgerAccounts
PROPERTY ManagedWhileThere
CHECK_DEADLOCK FALSE
