CONSTANTS
  Chunks = {x, y}
  MaxGen = 4
  Limits <- Any
SPECIFICATION FairSpec
INVARIANTS
  
  StagedIsUploadable
PROPERTY StagedRegisters
CHECK_DEADLOCK FALSE
