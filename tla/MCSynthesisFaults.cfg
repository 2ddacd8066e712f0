CONSTANTS
  Jobs = {j1, j2}
  Workers = {w1}
  NoJob = NoJob
  MaxAttempts = 1
  QueueCallTries = 2
  LoseReplies = TRUE
  MaxFaults = 2
  MaxPutBacks = 1
  Ceiling = 1
  LoseCommits = TRUE
  PublishEvents = FALSE
  MaxRoots = 1
  MaxDeletes = 1
  MaxRevokes = 1
SPECIFICATION FairSynSpec
INVARIANTS CompleteIsWhole SuccessMeansEnded AttemptsBounded
PROPERTIES SynthesisSettles
CHECK_DEADLOCK FALSE
