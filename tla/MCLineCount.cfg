CONSTANTS
  BUFSIZE = 2
  NUM_TERM = 2
  Letter = {"a"}
  Counts = {2}
SPECIFICATION Spec
INVARIANT
  ReturnsBytesRead
CHECK_DEADLOCK FALSE
