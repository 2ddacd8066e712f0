SPECIFICATION Spec
CONSTANTS
  Uploads = {u1, u2}
  None = None
  MaxCuts = 1
CHECK_DEADLOCK FALSE
INVARIANTS FileAndRowInSync
