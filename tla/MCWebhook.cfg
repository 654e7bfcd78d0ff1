SPECIFICATION FairSpec
CONSTANTS
  Records = {r1, r2}
  Endpoints = {e1, e2}
  MaxBatchSize = 2
  MaxRetries = 1
INVARIANTS EachRecordOnce ShutdownFlushes
PROPERTIES ShutdownEnds SentInTimeIfTimerRuns
CHECK_DEADLOCK FALSE
