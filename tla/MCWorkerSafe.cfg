CONSTANTS
  Jobs = {j1, j2}
  Workers = {w1, w2}
  NoJob = NoJob
  MaxAttempts = 2
  QueueCallTries = 2
  LoseReplies = FALSE
  MaxFaults = 3
  MaxPutBacks = 1
SPECIFICATION FairSpec
INVARIANT OneRunner
PROPERTIES LeaseKept EveryJobSettles
CHECK_DEADLOCK FALSE
