SPECIFICATION Spec
CONSTANTS
  Threads = {t1, t2, t3}
  Refs = {r1, r2, r3}
  NoThread = NoThread
  NoRef = NoRef
  Wrap = 16
SYMMETRY Symmetry
CHECK_DEADLOCK FALSE
INVARIANTS
  CountIsReferences
  NoUseAfterDelete
  DeleteIsOrdered
  Reclaimed
PROPERTIES
  ImplementsSharedObject
