CONSTANTS
  Messages = {m1, m2}
  WithFile = {m1}
  Images = {m1}
  Workers = {w1, w2}
  None = None
  MaxList = 1
  Batch = 1
  MaxBeats = 1
  MaxFaults = 1
SPECIFICATION FairSpec
INVARIANTS TypeOK RowsHaveObjects OnlyLateThumbnailsRemain NotFoundIsDeleted NewestKept NotifiedOnce
PROPERTIES EachIsNotified
CHECK_DEADLOCK FALSE
