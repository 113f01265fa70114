CONSTANTS
  Shapes <- MCShapes
  MaxIov = 3
  MaxBatch = 4
  MaxRoom = 3
  MaxDepth = 3
  Messages <- MCMessages
  Digit = 3
  TpackShort = 3
  SocketShort = 4
  FrameRoom = 2
  Payloads <- MCPayloads
  Parts <- MCParts
  Token <- MCToken
  Mask <- MCMask
  MaxWrites = 2
  Align = 4
  Spare = 2
  MaxContent = 5
  Texts <- MCTexts
  Handles = {c1, c2, c3, c4}
  NULL = NULL
  Garbage = Garbage
  InitialCapacity = 1
  MaxCapacity = 3
  MaxSequence = 4
  MaxRegistrations = 5
  Lockers = {t1, t2, t3, t4}
SPECIFICATION Spec
INVARIANT ReportsInOrder
INVARIANT PackedIsUnpacked
INVARIANT CutShortGivesNothingElse
INVARIANT MessagesArriveWhole
INVARIANT QueueIsSequence
INVARIANT StaleIDsMiss
INVARIANT LocksExclude
CHECK_DEADLOCK FALSE
