CONSTANTS
  Timers = {t1, t2}
  None = none
  MaxMail = 1
SPECIFICATION FairSpec
INVARIANT RefsMatchHolders
PROPERTY NoStrayCallback
PROPERTY EventuallyFreed
INVARIANT NoTimeoutLost
\* Once the dispatch has returned and the service is stopped, nothing happens.
CHECK_DEADLOCK FALSE
