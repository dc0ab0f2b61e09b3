SPECIFICATION FairSpec
CONSTANTS
  Keys = {"k1", "k2"}
  Fields = {"f", "g"}
  Specs <- Documents
  CleanUp = TRUE
  LaggingStart = FALSE
  MaxTime = 1
  MaxEdits = 1
  MaxFaults = 1
INVARIANTS TypeOK NoFalseSuccess StatusMatchesRound
PROPERTIES WholeEntryProtects FailedEntriesKeepTheirKeys NoValueRegresses Converges
