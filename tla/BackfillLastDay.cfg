SPECIFICATION BackfillSpec
CONSTANTS
  c1 = c1
  c2 = c2
  ta = ta
  tb = tb
  Null = Null
  TaskIds = {ta, tb}
  Calls = {c1, c2}
  Dates = {0, 1}
  DayLen = 2
  Ranges <- MCRanges
  Attempts <- MCAttempts
  Runs = {0, 1}
  RunOf <- MCRunOf
  Dags <- MCDags
INVARIANT EveryDateRuns
CHECK_DEADLOCK FALSE
