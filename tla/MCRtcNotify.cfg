CONSTANTS
  Proc = {"p1", "p2"}
  Freqs <- Requests
SPECIFICATION Spec
INVARIANT
  ReadersNotified
