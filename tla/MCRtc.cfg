CONSTANTS
  Proc = {"p1", "p2"}
  Freqs <- Requests
SPECIFICATION FairSpec
INVARIANTS
  RtcInv
  ReadsWait
  OnlyRateChanges
  RunsAtRequested
  AcceptsPowersOfTwo
PROPERTY
  ReadReturns
