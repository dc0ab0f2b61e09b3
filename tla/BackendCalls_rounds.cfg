SPECIFICATION Spec
CONSTANTS
  Workers = {"w1", "w2"}
  Providers = {"kms", "oos"}
  EnvAuths <- KeyOrNothing
  StoreAuths <- StoreKinds
  BadEndpoints <- BadOrNot
  Lifetimes = {2}
  DefaultLife = 5
  TTL = 2
  MaxAttempts = 3
INVARIANTS TypeOK  RetriesBounded MutexesOwned
PROPERTIES WorkingProviderServed ServesLiveCredential
