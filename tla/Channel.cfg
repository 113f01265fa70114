CONSTANTS
  Bufs = {b1, b2}
  NoBuf = none
  MaxCloses = 2
  MaxCalls = 3
  MayStop = TRUE
SPECIFICATION FairSpec
INVARIANT RefsMatchHolders
INVARIANT FaultsOnlyAtTheEnd
INVARIANT ReportedOnce
PROPERTY EventuallyClosed
PROPERTY PeerCloseNoticed
\* Once the channel is closed and gone, nothing happens.
CHECK_DEADLOCK FALSE
