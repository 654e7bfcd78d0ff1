SPECIFICATION FairSpec
CONSTANTS
  Workers = {w1, w2}
  Slots = {f1}
  Jobs = {j1, j2}
  BatchSize = 1
  MaxRestarts = 1
  MaxErrors = 1
INVARIANTS InOnePlace
PROPERTIES HealthyLosesNothing QueueSpec NewIsClaimed ClaimedIsHanded
