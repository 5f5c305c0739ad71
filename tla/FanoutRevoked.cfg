CONSTANTS
  Sockets = {s1}
  MaxMessages = 1
  MaxFaults = 0
SPECIFICATION Spec
PROPERTIES RevokedAreOut
CHECK_DEADLOCK FALSE
