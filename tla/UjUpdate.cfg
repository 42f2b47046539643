CONSTANTS
  NB = 2
  Version = {1, 2}
  OldVersion = 1
  NewVersion = 2
  BuiltIn = 3
  HasBuiltIn = {TRUE, FALSE}
  Replaces = {TRUE, FALSE}

SPECIFICATION UpdateFairSpec

INVARIANTS
  AlwaysWhole
  LostOnlyByAbort
  RunsInstalled

PROPERTIES
  Recoverable

CHECK_DEADLOCK FALSE
