SPECIFICATION Spec
CONSTANTS
  a1 = a1
  a2 = a2
  r1 = r1
  r2 = r2
  ta = ta
  tb = tb
  tc = tc
  Null = Null
  TaskIds = {ta, tb, tc}
  Runs = {r1, r2}
  Attempts = {a1, a2}
  RunOf <- OverlapRunOf
  Dags <- RetryDags
INVARIANTS
  RowIsOneExecution
CHECK_DEADLOCK FALSE
