SPECIFICATION Spec
CONSTANTS
  Addresses = {1, 3, 4}
  Programs <- MCPrograms
  Options <- MCOptions
INVARIANTS CoverageTellsPaths PointOnEveryEntry VerifierAgrees
CHECK_DEADLOCK FALSE
