SPECIFICATION Spec
CONSTANTS
  NumClaims = 5
  SeedBudget = 2
  MaxClusters = 2
  MaxPieces = 3
  MaxRetries = 1
  Outsider = outsider
  Worlds <- MCWorlds
INVARIANTS TraversalIsExact ConflictsAreHalved ClustersPartition CallsAreAccounted OnlyTheComposerIsRejected
PROPERTIES StopsAreTerminal PassEnds
