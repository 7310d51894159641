CONSTANTS
  SegmentBytes = 1
  DiskLimit = 2
  Publishers = {p1}
  Task = task
  Subscribers = {}
  Modes = {TRUE, FALSE}
  AppendFails = TRUE
  Capacity = 1
  RingSize = 1
  MaxSeq = 2
  MaxBoots = 2
SPECIFICATION FairSpec
INVARIANT BusKeeps
PROPERTY BusDelivers
CHECK_DEADLOCK FALSE
