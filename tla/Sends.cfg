CONSTANTS
  Users = {u1}
  Requests = {r1, r2}
  Bodies = {b1, b2}
  None = None
  RateLimit = 1
  LockTtl = 2
  SpamTtl = 1
  MaxSame = 1
  MaxFaults = 1
SPECIFICATION FairSpec
INVARIANTS TypeOK LeaseExclusion HolderAccountable SpamStreak SerializedPerUser AnswerIsHonest PublishedIsReadable FailuresArePaid
PROPERTIES AdmissionSpacing ImplementsLeaseLock EveryCallEnds
CHECK_DEADLOCK FALSE
