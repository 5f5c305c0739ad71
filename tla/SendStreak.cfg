CONSTANTS
  Users = {u1}
  Requests = {r1, r2, r3}
  Bodies = {b1, b2}
  None = None
  RateLimit = 1
  LockTtl = 14
  SpamTtl = 14
  MaxSame = 1
  MaxFaults = 0
SPECIFICATION Spec
SYMMETRY Symmetry
INVARIANTS NoLongRunStored
CHECK_DEADLOCK FALSE
