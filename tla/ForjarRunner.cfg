SPECIFICATION MCFairSpec
CONSTANTS
  a1 = a1
  a2 = a2
  a3 = a3
  r1 = r1
  r2 = r2
  ta = ta
  tb = tb
  tc = tc
  tx = tx
  Null = Null
  TaskIds = {ta, tb, tc, tx}
  Runs = {r1, r2}
  Attempts = {a1, a2, a3}
  Self = a3
  RunOf <- MCRunOf
  Files <- MCFiles
INVARIANTS
  TypeOK
  LineageIsTopology
  OneVerdict
  SucceededUpstreamFirst
  RefusedIsSettled
  ReportIsDurable
  ReportedEdgesAreKnown
PROPERTIES
  RetryRepairs
  Terminates
  ImplementsFileRun
CHECK_DEADLOCK FALSE
