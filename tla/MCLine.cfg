CONSTANTS
  BUFSIZE = 2
  NUM_TERM = 2
  Letter = {"a"}
  Counts = {2}
SPECIFICATION Spec
INVARIANTS
  TypeOK
  LineKept
PROPERTY
  EnterReturns
CHECK_DEADLOCK FALSE
