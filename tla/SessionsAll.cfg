CONSTANTS
  Logins = {l1, l2}
  Revokers = {v1, v2}
  SessionTtl = 2
  Forever = Forever
  MaxFaults = 0
SPECIFICATION Spec
SYMMETRY Symmetry
INVARIANTS AllSessionsRevoked
CHECK_DEADLOCK FALSE
