\* The get-list path alone: OCA_SYNC_FALLBACK_ENABLED is 'false'.
SPECIFICATION Spec
CONSTANTS
  cron = cron
  click = click
  op = op
  t1 = t1
  t2 = t2
  t3 = t3
  j1 = j1
  j2 = j2
  None = None
  Callers = {cron, click}
  Manual = {click}
  Operators = {}
  Tickets = {t1, t2, t3}
  Jobs = {}
  PageSize = 2
  ChunkSize = 2
  BatchSize = 1
  MaxVersion = 2
  CronGap = 0
  ManualGap = 0
  JobTimeout = 1
  FallbackEnabled = FALSE
  MaxRestarts = 1
SYMMETRY Symmetry
INVARIANTS
  IInv
  MutualExclusion
  VouchedIsStored
  ToastIsHonest
PROPERTIES
  ImplementsLedger
