SPECIFICATION Spec
CONSTANTS
  Object = {1}
  Site = {0, 1}
  LIMIT = 8
  ClassOf <- MCClassOf
  Method <- MCMethod
  Info <- MCInfo
INVARIANTS TypeOK BitsNameHandles
PROPERTIES FramesSpec UnwindingDescends
CHECK_DEADLOCK FALSE
