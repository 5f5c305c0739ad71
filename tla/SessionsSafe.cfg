CONSTANTS
  Logins = {l1, l2}
  Revokers = {v1, v2}
  SessionTtl = 2
  Forever = Forever
  MaxFaults = 1
SPECIFICATION Spec
SYMMETRY Symmetry
INVARIANTS TypeOK SessionsListed LogoutAllComplete OldPasswordsAreOut
CHECK_DEADLOCK FALSE
