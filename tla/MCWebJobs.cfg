SPECIFICATION FairSpec
CONSTANTS
  Jobs = {j1, j2}
  MaxRestarts = 1
  MaxErrors = 1
INVARIANTS JobInv ScrapedOnce OkIsNotCut OkHasFile
PROPERTIES StatusForward PendingTaken
CHECK_DEADLOCK FALSE
