CONSTANTS
  Jobs = {j1, j2, j3}
  Workers = {w1, w2}
  NoJob = NoJob
  MaxAttempts = 2
  QueueCallTries = 1
  LoseReplies = FALSE
  MaxFaults = 1
  MaxPutBacks = 0
  Ceiling = 1
  LoseCommits = FALSE
  PublishEvents = TRUE
  MaxRoots = 1
  MaxDeletes = 1
  MaxRevokes = 0
SPECIFICATION SynSpec
INVARIANTS CompleteIsWhole OneRefinementChild JobAgreesWithRow
PROPERTY NothingAfterDelete
SYMMETRY Symmetry
CHECK_DEADLOCK FALSE
