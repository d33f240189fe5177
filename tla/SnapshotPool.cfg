SPECIFICATION PoolSpec
CONSTANTS
  a = a
  b = b
  c = c
  Vars = {a, b, c}
  Vals = {0, 1}
  Absent = Absent
  Inputs <- MCInputs
  MaxBatch = 2
  Refining = TRUE
  MaxCycles = 1
INVARIANTS PoolTypeOK UniversalKeys KeysWithinCandidates EntriesFaithful HashesInUse
PROPERTY EvidenceKept
CHECK_DEADLOCK FALSE
