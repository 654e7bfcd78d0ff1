SPECIFICATION Spec
CONSTANTS
  Records = {r1, r2}
  Endpoints = {e1}
  MaxBatchSize = 2
  MaxRetries = 1
INVARIANT SentIsReceived
CHECK_DEADLOCK FALSE
