CONSTANTS
  NE = 4
  Reserve = 1
  QueueSize = 2
  MaxReq = 3
  Programs = {"default", "any"}

SPECIFICATION FairSpec

INVARIANTS
  TypeOK
  OwnedOnce
  RequestTracked

PROPERTIES
  OnlyKnownLeaks
  CoapThreadReturns

CHECK_DEADLOCK FALSE
