CONSTANTS
  AttemptMayStop = TRUE
  Loops = {l1, l2}
  Peers = {p1, p2}
  MaxAccepted = 4
  Workers = 1
  MaxEvents = 2
SPECIFICATION Spec
INVARIANT Counted
INVARIANT AnsweredOnce
INVARIANT OneConnectionPerPeer
INVARIANT AlarmsAreRight
PROPERTY SetupEnds
CHECK_DEADLOCK FALSE
