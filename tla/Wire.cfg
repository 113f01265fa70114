CONSTANTS
  Shapes <- MCShapes
  MaxIov = 3
  MaxBatch = 4
  MaxRoom = 3
SPECIFICATION SendSpec
INVARIANT WireInOrder
CHECK_DEADLOCK FALSE
