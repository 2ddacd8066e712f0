SPECIFICATION Spec
CONSTANTS
  Uploads = {u1, u2, u3, u4}
  None = None
  MaxCuts = 2
SYMMETRY Symmetric
CHECK_DEADLOCK FALSE
INVARIANTS RowHasFile TornOnlyByACut
