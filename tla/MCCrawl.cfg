SPECIFICATION FairSpec
CONSTANTS
  Seeds = {s1, s2}
  Links = {l1, l2}
  ExtractEmail = TRUE
  SeedCount = 2
INVARIANTS NoEarlyExit EveryShownPlaceScraped LinkScheduledOnce
PROPERTIES DoneIsStable CompletionSpec CrawlEnds
CHECK_DEADLOCK FALSE
