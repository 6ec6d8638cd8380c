SPECIFICATION Spec
CONSTANTS
  MaxSize = 1
  MaxRequests = 2
CHECK_DEADLOCK FALSE
INVARIANTS
  ReusedBodyExact
