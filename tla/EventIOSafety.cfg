CONSTANTS
  MaxLoops = 2
  Threads = {t1, t2}
  Main = main
  Events = {e1, e2}
  Stop = stop
SPECIFICATION Spec
INVARIANT NoLostWakeup
INVARIANT NoUseAfterFree
PROPERTY ImplementsExecutor
SYMMETRY Symmetry
\* An eventIO that was stopped and freed rests.
CHECK_DEADLOCK FALSE
