SPECIFICATION FairSpec
CONSTANTS
  c1 = c1
  c2 = c2
  c3 = c3
  daily = daily
  lastDay = lastDay
  bad = bad
  Stranger = Stranger
  Calls = {c1, c2, c3}
  CronOf <- MCCronOf
  JobCrons = {daily, lastDay}
  NextFireCrons = {daily}
  MaxRuns = 2
INVARIANTS
  TypeOK
  RegistryMatchesJobs
  AnswersAreRight
  RegistryIsLive
PROPERTIES
  CallsReturn
CHECK_DEADLOCK FALSE
