CONSTANTS
  Senders = {s1, s2}
  Workers = {w1, w2}
  Starter = starter
  Stop = stop
  MaxSends = 1
  Quiet = FALSE
SPECIFICATION Spec
INVARIANT NoAssertFailure
\* The senders are bounded and a stopped service rests.
CHECK_DEADLOCK FALSE
