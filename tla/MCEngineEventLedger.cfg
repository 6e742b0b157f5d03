CONSTANTS
  Session = {s1, s2, s3}
  Run = {"r1", "r2"}
  Message = {1, 2, 3}
  Batch = {"b1", "b2", "b3", "b4", "b5"}
  Content <- MCContent
  Claim = {"c1", "c2"}
  Completing = {"b3"}
SPECIFICATION LedgerSpec
INVARIANTS LedgerTypeOK ProjectionsExact LedgerReplays NoUniqueError AnswersTruthful NoWaitCycle
PROPERTIES CompletedRunsFinal
SYMMETRY SessionSymmetry
CHECK_DEADLOCK FALSE
