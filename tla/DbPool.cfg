CONSTANTS
  Sockets = {s1, s2}
  Requests = {r1}
  Probes = {p1}
  Capacity = 2
  MaxOutages = 1
SPECIFICATION FairSpec
INVARIANTS TypeOK FailuresHaveReasons
PROPERTIES EveryoneAnswered HealthReturns
