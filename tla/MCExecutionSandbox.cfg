CONSTANTS
  Order = {"o1", "o2"}
  Command = {"submit", "modify", "cancel", "off", "on", "other"}
  Report = {1, 2, 3, 4, 5, 6, 7}
  Scenario <- MCScenario
  MaxTime = 1
SPECIFICATION SandboxSpec
INVARIANTS QueueLeadsToVenue ReconciliationTruthful RestoreIsExact
CHECK_DEADLOCK FALSE
