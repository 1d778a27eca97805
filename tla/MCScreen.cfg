CONSTANTS
  NUM_ROWS = 2
  NUM_COLS = 2
  NUM_TERM = 2
  Char = {"a"}
SPECIFICATION Spec
CONSTRAINT NotDisturbed
INVARIANTS
  TypeOK
  ShowsItsOutput
PROPERTY
  OutputStaysHome
