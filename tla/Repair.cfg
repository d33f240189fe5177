SPECIFICATION FairSpec
CONSTANTS
  a = a
  b = b
  Vars = {a, b}
  Vals = {0, 1}
  Absent = Absent
  Inputs <- MCInputs
  MaxBatch = 1
  Refining = TRUE
  MaxCycles = 1
  PassTests = {p1}
  FailTests = {exploit, f1}
  Exploit = exploit
  Flaky = {f1}
  NoTest = NoTest
  EarlyTerm = TRUE
  InitComplexity = 4
  PacSamples <- MCPacSamples
  MaxRound = 2
INVARIANTS CandidatesExplainPool AnswerNotLost EarlyTermIsStable EveryTestGetsItsRound
PROPERTIES PoolSpec Terminates
CHECK_DEADLOCK FALSE
