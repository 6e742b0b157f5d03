CONSTANTS
  TickProcess = {t1, t2, t3}
  Actor = {"a1", "a2"}
  SlotMinutes = 2
  MaxMinute = 3
SPECIFICATION SchedulerSpec
INVARIANTS SchedulerTypeOK HeartbeatsExplainJobs
CHECK_DEADLOCK FALSE
