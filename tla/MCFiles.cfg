CONSTANTS
  BYTES_PER_BLOCK = 6
  MAX_OPEN_FILES = 4
  UINT32 = 64
  Dentry <- Image
  Inode <- Inodes
  Data <- Blocks6
  Counts <- Requests
  Opens <- Opened3
  BUFSIZE = 5
  ARGSIZE = 4
  NUM_DENTRY_NAME = 4
  Limits <- Counted
  Commands <- Lines
  Answers <- Replies
  Leftovers <- Stale
  Clobbered = {2}
SPECIFICATION ProgSpec
INVARIANTS
  TypeOK
  EmptyMeansEnd
  WholeImageAtOnce
  CommandsPrint
  GrepReports
  TestsPass
  BuffersKept
PROPERTY
  ImplementsStreams
  PromptReturns
