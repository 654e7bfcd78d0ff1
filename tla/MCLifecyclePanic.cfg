SPECIFICATION Spec
CONSTANTS
    r1 = r1
    r2 = r2
    r3 = r3
    r4 = r4
    j1 = j1
    j2 = j2
    Results = {r1, r2, r3, r4}
    Bad = {r4}
    JobOf <- MCJobOf
    Writers = {"results", "leads"}
    MaxBatchSize = 2
    MaxSaveFaults = 1
    t1 = t1
    t2 = t2
    Tasks = {t1, t2}
    Test = t1
    Kinds = {"scrape", "email", "wrapped", "flat", "unknown"}
    SubscriptionQueues = {"pro"}
    MaxRetry = 1
    Modes = {"worker", "grpc", "database", "file", "produce"}
PROPERTY StopClosedOnce
CHECK_DEADLOCK FALSE
