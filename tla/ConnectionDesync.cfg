CONSTANTS
  Kinds = {"plain", "forward"}
  Splits = TRUE
  Reads = TRUE
  Escapes = FALSE
  Mismatched = FALSE
  OutCapacity = 1
  InCapacity = 1
  MaxFrames = 2
  MaxOutput = 1
SPECIFICATION Spec
INVARIANT NeverDesynced
CHECK_DEADLOCK FALSE
