SPECIFICATION Spec
CONSTANTS
  Callbacks = {c1, c2}
  MaxAssign = 1
  MaxRuns = 2
  MaxDepth = 2
CHECK_DEADLOCK FALSE
INVARIANTS
  NoUseAfterDelete
  ArgumentsInOrder
  SelfDeleting
