SPECIFICATION Spec
CONSTANTS
  cron = cron
  click = click
  op = op
  t1 = t1
  t2 = t2
  t3 = t3
  j1 = j1
  j2 = j2
  None = None
  Callers = {cron}
  Manual = {}
  Operators = {op}
  Tickets = {t1, t2}
  Jobs = {j1, j2}
  PageSize = 2
  ChunkSize = 2
  BatchSize = 1
  MaxVersion = 1
  CronGap = 0
  ManualGap = 0
  JobTimeout = 1
  FallbackEnabled = TRUE
  MaxRestarts = 1
SYMMETRY Symmetry
INVARIANTS
  FallbackIsImported
