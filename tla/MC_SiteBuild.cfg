SPECIFICATION Spec
CONSTANTS
  f1 = f1
  f2 = f2
  a = a
  b = b
  r1 = r1
  Files = {f1, f2}
  Rank <- TwoRanks
  Slugs = {a, b}
  Slug <- OwnSlugs
  Reports = {r1}
  Featured = {r1}
  LatestReport = r1
  RECENT = 1
  Saved = {"post", "untagged", "escape"}
  NoMarker = NoMarker
  NoPage = NoPage
  TornPage = TornPage
  MaxEdits = 3
  MaxBuilds = 2
  MaxCrashes = 1
INVARIANTS OneParsePerPage PagesAgree ListedPostsHavePages MarkersOnlyLostByCrash
CHECK_DEADLOCK FALSE
