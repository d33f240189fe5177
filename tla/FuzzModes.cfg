SPECIFICATION ModesSpec
CONSTANTS
  a = a
  b = b
  exploit = exploit
  crash = crash
  pass = pass
  flaky = flaky
  Vars = {a, b}
  Vals = {0, 1}
  Absent = Absent
  Inputs <- MCInputs
  MaxBatch = 4
  Refining = FALSE
  MaxCycles = 3
  Tests = {exploit, crash, pass, flaky}
  Exploit = exploit
  Flaky = {flaky}
  Result <- MCResult
  Shots <- MCShots
  NumSeeds = 2
  MaxLen = 2
  SMALL_FILE_LEN = 2
  Hashes = {1, 2, 3}
  MaxRuns = 4
INVARIANTS FuzzerQuiet CrashesReachPool EveryStateHasItsTest
PROPERTY ConcFuzzEnds
CHECK_DEADLOCK FALSE
