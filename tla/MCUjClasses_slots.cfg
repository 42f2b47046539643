CONSTANTS
  Natives <- MCNatives
  Packages <- MCPackages
  Descriptors <- MCDescriptors
  Names <- MCNames

SPECIFICATION Spec

INVARIANT SlotsCounted

CHECK_DEADLOCK FALSE
