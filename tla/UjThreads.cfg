CONSTANTS
  NT = 3
  Monitor = {m1}
  Starts = {"none"}
  QUANTUM = 3
  NC = 2
  MaxNest = 2

SPECIFICATION FairSpec

INVARIANTS
  TypeOK
  MonitorsMatch
  CurIsListed

PROPERTIES
  EveryThreadRuns
  WaiterGetsFreeMonitor

CHECK_DEADLOCK FALSE
