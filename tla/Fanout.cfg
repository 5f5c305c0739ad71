CONSTANTS
  Sockets = {s1, s2}
  MaxMessages = 2
  MaxFaults = 1
SPECIFICATION FairSpec
INVARIANTS TypeOK
PROPERTIES ImplementsBroadcast EveryoneHears
CHECK_DEADLOCK FALSE
