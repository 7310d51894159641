CONSTANTS
  Chunks = {x, y}
  MaxGen = 4
  Limits <- Quiet
SPECIFICATION Spec
INVARIANT NeverOvertaken
CHECK_DEADLOCK FALSE
