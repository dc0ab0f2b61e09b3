SPECIFICATION Spec
CONSTANTS
  e1 = e1
  e2 = e2
  Store = Store
  ExternalSecrets <- Two
  Providers = {"kms"}
  StoreProvider = "kms"
  Endpoints = {"ep"}
  EsSpecs <- OneBackend
  Slots = {1, 2, 3, 4, 5, 6}
  MergedEdits = FALSE
  TimedRounds = FALSE
  MaxEvents = 2
INVARIANTS TypeOK RegistryExact ServedUnlessRaced UnusedReclaimed
SYMMETRY Symmetry
CHECK_DEADLOCK FALSE
