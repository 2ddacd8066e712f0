CONSTANTS
  Writers = {member, outsider}
  Members = {member}
  Sigs = {s1, s2}
  None = None
  Nobody = Nobody
  MaxOld = 2
  MaxRows = 3
  MaxTurns = 1
  MaxSteps = 1
SPECIFICATION Spec
INVARIANTS ChainIsCommitOrder LinksAreWhole
PROPERTY LockoutEnds
SYMMETRY Symmetry
