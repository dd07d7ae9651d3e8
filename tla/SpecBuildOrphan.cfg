SPECIFICATION Spec
CONSTANTS
  a = a
  b = b
  c = c
  x = x
  TaskIds = {a, b, c, x}
  Specs <- MCSpecs
INVARIANTS
  NoOrphanTasks
CHECK_DEADLOCK FALSE
