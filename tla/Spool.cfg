CONSTANTS
  SegmentBytes = 4
  DiskLimit = 5
  MaxPayload = 3
  Overhead = 1
  FsyncAlways = FALSE
  Lens = {1, 3}
  SeqNos = {0, 1}
  Withheld = 1
  Faults = {"rename", "dirsync", "read", "open"}
  MaxAppends = 3
  MaxCrashes = 1
SPECIFICATION SpoolSpec
INVARIANTS
  SpoolInOrder
  ReplayIsRight
  FlushedActiveSurvives
PROPERTY ImplementsRecordLog
CHECK_DEADLOCK FALSE
