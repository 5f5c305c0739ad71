CONSTANTS
  Readers = {r1}
  Ids = {1, 2}
  Limits = {1}
  Befores <- UsualBefores
  None = None
  Cleanup = Cleanup
  CacheTtl = 1
SPECIFICATION FairSpec
INVARIANTS TypeOK ServedPagesWereTrue NoMissedPage
PROPERTIES CacheConverges
CHECK_DEADLOCK FALSE
