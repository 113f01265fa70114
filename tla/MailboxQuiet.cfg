CONSTANTS
  Senders = {s1, s2}
  Workers = {w1, w2}
  Starter = starter
  Stop = stop
  MaxSends = 1
  Quiet = TRUE
SPECIFICATION FairSpec
PROPERTY EventuallyDelivered
PROPERTY EventuallyFreed
\* The senders are bounded and a stopped service rests.
CHECK_DEADLOCK FALSE
