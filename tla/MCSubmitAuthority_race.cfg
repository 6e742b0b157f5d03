SPECIFICATION AuthoritySpec
CONSTANTS
  Caller = {c1, c2}
  Permit = {p1, p2}
  EventId = {e1, e2, e3, e4}
  PermitTTL = 0
  MaxTime = 0
  MaxDisturbances = 1
  None = None
CHECK_DEADLOCK FALSE
SYMMETRY AuthoritySymmetry
INVARIANTS AuthorityTypeOK StreamReplays AuthorityReturnedOnce
PROPERTY PermitsPromise
