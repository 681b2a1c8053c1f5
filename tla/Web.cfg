SPECIFICATION WebSpec
CONSTANTS
  Frame = {a, b}
  Batch = 2
  MaxRequest = 3
  None = None
INVARIANTS
  AnsweredRight
  OwnAnswer

  
CHECK_DEADLOCK FALSE
