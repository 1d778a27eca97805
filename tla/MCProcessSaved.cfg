CONSTANTS
  NUM_PROCESS = 3
  BITMAP_WIDTH = 4
  NUM_TERM = 2
  MAX_OPEN_FILES = 2
  Prog = {"shell", "prog"}
  Shell = "shell"
SPECIFICATION Spec
INVARIANT
  ContextsSaved
