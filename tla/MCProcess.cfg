CONSTANTS
  NUM_PROCESS = 3
  BITMAP_WIDTH = 4
  NUM_TERM = 2
  MAX_OPEN_FILES = 3
  Prog = {"shell", "prog"}
  Shell = "shell"
SPECIFICATION Spec
INVARIANTS
  TypeCorrect
  FamilyLinks
  OneForeground
  RunsItself
  ImagesIntact
  ParentFrameWaits
  SearchEnds
  HaltClearsOwnBit
  FreePidHoldsNoFiles
CONSTRAINT NotRaced
