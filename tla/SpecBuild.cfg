SPECIFICATION Spec
CONSTANTS
  a = a
  b = b
  c = c
  x = x
  TaskIds = {a, b, c, x}
  Specs <- MCSpecs
INVARIANTS
  TypeOK
  VerdictIsRight
  DagIsDeclared
  DagIsRunnable
CHECK_DEADLOCK FALSE
