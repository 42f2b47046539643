CONSTANTS
  NH = 3
  MaxLength = 1
  MaxSlots = 2
  MaxFrames = 1
  MaxThreads = 1
  MaxSteps = 3

SPECIFICATION Spec

INVARIANT NothingLost

CHECK_DEADLOCK FALSE
