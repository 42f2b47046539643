CONSTANTS
  Classes <- MCClasses
  Byte <- MCByte
  Reach <- MCReach

SPECIFICATION Spec

INVARIANTS
  TargetsKept
  ReferencesKept

CHECK_DEADLOCK FALSE
