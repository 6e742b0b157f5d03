SPECIFICATION OperatorFairSpec
CONSTANTS
  Key = {k1, k2}
  Kind = {"PAPER", "ACTIVATE", "CLEAR"}
  EvidenceTTL = 1
  MaxCrashes = 1
  MaxDrift = 0
  MaxTime = 1
  None = None
  Torn = Torn
CHECK_DEADLOCK FALSE
INVARIANTS OperatorTypeOK JournalLoads KillReceiptsTruthful
PROPERTIES AppliedIsFinal IntentsConclude
