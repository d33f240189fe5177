SPECIFICATION Spec
CONSTANTS
  MaxRuns = 3
  MaxHits = 3
  Ks = {1, 2}
  SameLoc = {TRUE, FALSE}
  Timeouts = TRUE
INVARIANTS OwnSnapshotsInOrder FirstMutationCertified RawRemovedBetweenRuns
CHECK_DEADLOCK FALSE
