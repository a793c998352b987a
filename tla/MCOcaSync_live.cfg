SPECIFICATION FairSpec
CONSTANTS
  cron = cron
  click = click
  op = op
  t1 = t1
  t2 = t2
  t3 = t3
  j1 = j1
  j2 = j2
  None = None
  Callers = {cron, click}
  Manual = {click}
  Operators = {}
  Tickets = {t1}
  Jobs = {j1}
  PageSize = 1
  ChunkSize = 1
  BatchSize = 1
  MaxVersion = 2
  CronGap = 1
  ManualGap = 0
  JobTimeout = 1
  FallbackEnabled = TRUE
  MaxRestarts = 1
PROPERTIES
  RunEnds
  EventuallyFresh
