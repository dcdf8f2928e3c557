SPECIFICATION Spec
CONSTANTS
  p1 = p1
  p2 = p2
  Procs = {p1, p2}
  Companies = {1, 2}
  Assignment <- Disjoint
  Resume = {TRUE, FALSE}
  NQ = 1
  TRIES = 2
  PAGES = 1
  MaxStarts = 3
  MaxCrashes = 1
INVARIANTS RecordsAreTraceable NoCompanyDropped
PROPERTIES ResumeKeepsRecords ProcessesEnd
CHECK_DEADLOCK FALSE
