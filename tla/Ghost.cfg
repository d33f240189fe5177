SPECIFICATION Spec
CONSTANTS
  Sizes = {1, 4, 7, 8, 9, 12, 16, 20, 23, 24, 25, 32, 40}
  Gaps = {2, 3, 4}
  NeighbourSizes = {3, 8, 20}
  TRAVERSE_THRESHOLD = 4
  REDZONE_SIZE = 16
INVARIANTS GhostsAreTrue NeighboursUntouched NewBytesCleared WithinOneShadowByte
CHECK_DEADLOCK FALSE
