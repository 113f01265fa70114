CONSTANTS
  Handles = {h1, h2, h3, h4}
  Threads = {t1}
  Names = {1, 2}
  NULL = null
  Garbage = garbage
  InitialCapacity = 1
  MaxCapacity = 3
SPECIFICATION Spec
INVARIANT SlotsPartitioned
INVARIANT IdsLeadHome
INVARIANT NoDangling
INVARIANT NamesFollowServices
SYMMETRY Symmetry
\* A service is registered once: everything ends.
CHECK_DEADLOCK FALSE
