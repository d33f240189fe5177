SPECIFICATION Spec
CONSTANTS
  ByteValues = 4
  Expressions <- MCExpressions
  Frames <- MCFrames
  NewValues <- MCNewValues
  MaxPrefix = 2
  TRAVERSE_THRESHOLD = 8
  REDZONE_SIZE = 16
INVARIANTS LocationsRight NoDeepNesting GhostsMatchPointers MutationShown
CHECK_DEADLOCK FALSE
