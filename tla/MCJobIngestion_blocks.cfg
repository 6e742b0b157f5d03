CONSTANTS
  Job = {1}
  Worker = {w1, w2}
  OperatorKey = {"k1"}
  ScheduleKey = {}
  Actor = {"a1"}
  Priority = {0}
  FinalReason <- WorkerReason
  BusySets <- MCIdleRows
  MaxAttempts = 2
  LeaseSeconds = 1
  RetryDelay = 0
  MaxLockWait = 0
  MaxTime = 2
SPECIFICATION IngestionSpec
INVARIANTS AmbiguousOutcomeBlocks
SYMMETRY ServiceSymmetry
