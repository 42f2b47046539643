CONSTANTS
  FIRST = 2
  END = 18
  HDR = 2
  ALIGN = 2
  SIZES = 64
  NH = 3
  Requests <- MCRequests

SPECIFICATION FairSpec

INVARIANTS
  TypeOK
  Tiled
  NoSlack
  HandlesNameOwnChunk
  SweepExact
  CompactionCoalesces

PROPERTIES
  Pinned
  AllocationReturns
  StoreSpec
