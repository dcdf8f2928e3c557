SPECIFICATION DownloadSpec
CONSTANTS
  p1 = p1
  p2 = p2
  t1 = t1
  t2 = t2
  TAB = TAB
  backslash_t = backslash_t
  PAPERS <- LiteralPapers
  RETRY = 2
  MaxRuns = 3
INVARIANT RowsMatchFiles
PROPERTIES WholePapersStay RunEnds
CHECK_DEADLOCK FALSE
