CONSTANTS
  Confirms = {c1, c2, c3, c4}
  Codes = {k1, k2}
  User = User
  None = None
  Forever = Forever
  RateTtl = 1
  CodeTtl = 2
  AttemptsTtl = 2
  LockTtl = 2
  MaxAttempts = 2
  MaxFaults = 1
SPECIFICATION Spec
SYMMETRY Symmetry
CONSTRAINT InTime
INVARIANTS TypeOK GuessesBounded CodeSingleUse
CHECK_DEADLOCK FALSE
