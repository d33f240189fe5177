SPECIFICATION Spec
CONSTANTS
  a = a
  b = b
  exploit = exploit
  crash = crash
  pass = pass
  flaky = flaky
  Vars = {a, b}
  Vals = {0, 1}
  Absent = Absent
  Inputs <- MCInputs
  MaxBatch = 4
  Refining = FALSE
  MaxCycles = 3
  Tests = {exploit, crash, pass, flaky}
  Exploit = exploit
  Flaky = {flaky}
  Result <- MCResult
  Shots <- MCShots
INVARIANT PassingInputsSeparated
CHECK_DEADLOCK FALSE
