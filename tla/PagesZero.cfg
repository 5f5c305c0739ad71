CONSTANTS
  Readers = {r1}
  Ids = {1}
  Limits = {1}
  Befores <- AllBefores
  None = None
  Cleanup = Cleanup
  CacheTtl = 1
SPECIFICATION Spec
INVARIANTS ServedPagesWereTrue
CHECK_DEADLOCK FALSE
