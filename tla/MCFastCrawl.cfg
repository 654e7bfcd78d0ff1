SPECIFICATION FastFairSpec
CONSTANTS
  Seeds = {s1, s2, s3}
  MaxEntries = 2
  SeedCount = 3
INVARIANT VerdictAfterParsing
PROPERTY FastCrawlEnds
CHECK_DEADLOCK FALSE
