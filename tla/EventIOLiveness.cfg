CONSTANTS
  MaxLoops = 2
  Threads = {t1, t2}
  Main = main
  Events = {e1}
  Stop = stop
SPECIFICATION FairSpec
PROPERTY EventuallyHandled
PROPERTY EventuallyFreed
\* An eventIO that was stopped and freed rests.
CHECK_DEADLOCK FALSE
