SPECIFICATION Spec
CONSTANTS
  Object = {1}
  Site = {0, 1}
  LIMIT = 7
  ClassOf <- MCClassOf
  Method <- MCMethod
  Info <- MCInfo
INVARIANTS RunsInItsClass
CHECK_DEADLOCK FALSE
