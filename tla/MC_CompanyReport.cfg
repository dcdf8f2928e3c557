SPECIFICATION ReportSpec
CONSTANTS
  p1 = p1
  p2 = p2
  Procs = {p1}
  Companies = {1, 2}
  Assignment <- OneProcess
  Resume = {TRUE}
  NQ = 1
  TRIES = 1
  PAGES = 0
  MaxStarts = 1
  MaxCrashes = 1
  NonStartup = {2}
  SAMPLE = 1
  MaxJobs = 3
  MaxFragments = 1
INVARIANTS MergeIsComplete HalvesFillTogether
PROPERTY JobsEnd
CHECK_DEADLOCK FALSE
