SPECIFICATION Spec
CONSTANTS
  MaxRuns = 3
INVARIANTS WaitsForOwnChild MarksOfThisRun
PROPERTIES ImplementsRunService NobodyWaitsForever
CHECK_DEADLOCK FALSE
