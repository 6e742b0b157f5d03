CONSTANTS
  Job = {1}
  Worker = {"w1"}
  OperatorKey = {"k1"}
  ScheduleKey = {}
  Actor = {"a1"}
  Priority = {0}
  FinalReason <- WorkerReason
  BusySets <- MCBusySets
  MaxAttempts = 2
  LeaseSeconds = 2
  RetryDelay = 1
  MaxLockWait = 1
  MaxTime = 4
SPECIFICATION FairWorkerSpec
PROPERTIES CrashLeftoversRecovered
