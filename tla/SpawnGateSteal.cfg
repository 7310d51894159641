CONSTANTS
  Pids = {p1, p2}
  Spawners = {s1, s2}
  MaxProcs = 3
SPECIFICATION Spec
INVARIANT NoStatusTaken
CHECK_DEADLOCK FALSE
