SPECIFICATION MCSpec
CONSTANTS
  a1 = a1
  a2 = a2
  r1 = r1
  r2 = r2
  ta = ta
  tb = tb
  tc = tc
  Null = Null
  TaskIds = {ta, tb, tc}
  Runs = {r1, r2}
  Attempts = {a1, a2}
  Self = a1
  Watched = r1
  RunOf <- ApartRunOf
  Dags <- ApartDags
INVARIANTS
  RenderIsTopology
  NeighboursAreTopology
PROPERTIES
  ImplementsDagRun
CHECK_DEADLOCK FALSE
