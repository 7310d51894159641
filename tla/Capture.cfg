CONSTANTS
  w1 = w1
  w2 = w2
  o1 = o1
  o2 = o2
  o3 = o3
SPECIFICATION CaptureSpec
PROPERTIES
  CaptureAdvances
  HeldWorkProceeds
CHECK_DEADLOCK FALSE
