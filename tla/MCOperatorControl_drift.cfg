SPECIFICATION OperatorSpec
CONSTANTS
  Key = {k1}
  Kind = {"PAPER", "ACTIVATE", "CLEAR"}
  EvidenceTTL = 1
  MaxCrashes = 1
  MaxDrift = 2
  MaxTime = 1
  None = None
  Torn = Torn
CHECK_DEADLOCK FALSE
PROPERTY UnseenActivationRestored
