SPECIFICATION FairSpec
CONSTANTS
  Sources = {"store", "http"}
  Paths = {p1, p2}
  ETags = {t1, t2}
  NoETag = NoETag
  Absent = Absent
  TagsMissing = FALSE
  Interval = 1
  MaxBackoff = 4
  Capacity = 1
  MaxChanges = 3
  MaxFailures = 3
INVARIANTS TypeOK NothingLost
PROPERTIES EventsFit MirrorCatchesUp
CHECK_DEADLOCK FALSE
