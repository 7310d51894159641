CONSTANTS
  s1 = s1
  s2 = s2
  p1 = p1
  p2 = p2
  c1 = c1
  Pids = {p1, p2}
  Spawners = {s1}
  MaxProcs = 3
SPECIFICATION ProcessesSpec
PROPERTY EverythingEnds
CHECK_DEADLOCK FALSE
