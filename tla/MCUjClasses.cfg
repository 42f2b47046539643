CONSTANTS
  Natives <- MCNatives
  Packages <- MCPackages
  Descriptors <- MCFewDescriptors
  Names <- MCNames

SPECIFICATION FairSpec

INVARIANTS
  LoaderResolves
  LayoutSound
  MembersFound
  InstanceofAnswers

PROPERTIES
  InstanceofEnds

CHECK_DEADLOCK FALSE
