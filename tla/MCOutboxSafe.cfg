CONSTANTS
  Claims = {own, read, other}
  OwnClaims = {own}
  Readable = {own, read}
  Agent = agent
  Refused = {read}
  RetryCap = 2
  MaxAttempts = 2
  MaxTurns = 3
  MaxAborts = 1
SPECIFICATION FairSpec
INVARIANT CompleteHasProvenance
PROPERTIES EdgesAreJustified CompletionPublishes PendingIsWritten
CHECK_DEADLOCK FALSE
