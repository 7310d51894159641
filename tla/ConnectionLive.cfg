CONSTANTS
  Kinds = {"forward", "exec"}
  Splits = FALSE
  Reads = TRUE
  Escapes = FALSE
  Mismatched = FALSE
  OutCapacity = 1
  InCapacity = 1
  MaxFrames = 2
  MaxOutput = 0
SPECIFICATION ConnectionSpec
PROPERTY ConnectionEnds
CHECK_DEADLOCK FALSE
