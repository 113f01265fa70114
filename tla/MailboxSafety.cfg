CONSTANTS
  Senders = {s1, s2}
  Workers = {w1, w2}
  Starter = starter
  Stop = stop
  MaxSends = 2
  Quiet = FALSE
SPECIFICATION Spec
INVARIANT SerialCallbacks
INVARIANT TokenUnique
INVARIANT NoLostWakeup
INVARIANT FaultOnlyAfterStop
PROPERTY ImplementsMailbox
SYMMETRY Symmetry
\* The senders are bounded and a stopped service rests.
CHECK_DEADLOCK FALSE
