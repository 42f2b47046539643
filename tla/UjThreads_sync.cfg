CONSTANTS
  NT = 2
  Monitor = {m1}
  Starts = {"none", m1}
  QUANTUM = 2
  NC = 0
  MaxNest = 1

SPECIFICATION Spec

INVARIANT SynchronizedExcludes

CHECK_DEADLOCK FALSE
