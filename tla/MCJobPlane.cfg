CONSTANTS
  Job = {1}
  Worker = {"w1", "w2"}
  OperatorKey = {"k1"}
  ScheduleKey = {"s1"}
  Actor = {"a1"}
  Priority = {0}
  FinalReason = {"R"}
  BusySets <- MCBusySets
  MaxAttempts = 2
  LeaseSeconds = 2
  RetryDelay = 1
  MaxLockWait = 1
  MaxTime = 5
SPECIFICATION Spec
INVARIANTS TypeOK EventChainClean OwnershipConsistent NothingCarriedOver AcceptedCancelHonoured
PROPERTIES EndedAttemptsFrozen ImplementsLifecycle
