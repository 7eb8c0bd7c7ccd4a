SPECIFICATION Spec
CONSTANTS
  K = 6
  MaxDist = 2
  Sizes = {1, 2, 4}
  MaxMarked = 1
INVARIANTS TypeOK PicksNearest
\* Every behaviour ends.
CHECK_DEADLOCK FALSE
