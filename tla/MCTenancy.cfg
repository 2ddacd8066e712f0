CONSTANTS
  Claims = {own, other}
  OwnClaims = {own}
  N = 3
  MaxOps = 5
  NoTx = NoTx
SPECIFICATION FairSpec
INVARIANT DerivedFollowParent
PROPERTIES OnlyTurnsExpose SweepLeavesNone ExposureEnds
