CONSTANTS
  Job = {1}
  Worker = {w1, w2}
  OperatorKey = {"k1"}
  ScheduleKey = {}
  Actor = {"a1"}
  Priority = {0}
  FinalReason <- WorkerReason
  BusySets <- MCIdleRows
  MaxAttempts = 2
  LeaseSeconds = 1
  RetryDelay = 0
  MaxLockWait = 0
  MaxTime = 3
SPECIFICATION IngestionSpec
INVARIANTS IngestionTypeOK NoRerunAfterResult DurableBeforeSuccess OwnFailureNeverDurable LiveChildAccountedFor WorkerInv
PROPERTIES ImplementsWorker
SYMMETRY ServiceSymmetry
