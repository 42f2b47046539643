CONSTANTS
  NH = 4
  MaxLength = 2
  MaxSlots = 3
  MaxFrames = 2
  MaxThreads = 2
  MaxSteps = 6

SPECIFICATION FairSpec

INVARIANTS
  TypeOK
  MarkExact
  NeverParsesRaw
  NoDangling
  NativesKeepWhatTheyNeed

PROPERTY MarkingEnds

CHECK_DEADLOCK FALSE
