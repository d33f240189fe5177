SPECIFICATION FairSpec
CONSTANTS
  i1 = i1
  i2 = i2
  i3 = i3
  NoInv = NoInv
  NoFile = NoFile
  Source <- MCSource
  FixLine = 3
  Invs <- MCInvs
  GhostInvs = {i2}
  FailInputs <- MCFailInputs
INVARIANTS TypeOK SavedPatchesValidated FirstValidOption ProgramKept
PROPERTY PatchGenTerminates
CHECK_DEADLOCK FALSE
