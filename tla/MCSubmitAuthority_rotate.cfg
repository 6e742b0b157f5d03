SPECIFICATION AuthoritySpec
CONSTANTS
  Caller = {c1, c2}
  Permit = {p1}
  EventId = {e1, e2, e3, e4}
  PermitTTL = 0
  MaxTime = 1
  MaxDisturbances = 0
  None = None
CHECK_DEADLOCK FALSE
SYMMETRY AuthoritySymmetry
INVARIANTS ConsumptionsJustified RecoveriesAuthorized
