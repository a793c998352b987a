SPECIFICATION Spec
CONSTANTS
  Tickets = {t1, t2}
  Files = {{t1, t2}}
  Requests = {r1, r2}
  Timed = {t1}
  BatchSize = 1
  MaxRequests = 5
  None = None
SYMMETRY Symmetry
INVARIANTS
  TypeOK
  PendingOrTapped
  OnePendingRekon
  ScoresFollowVerdict
  RepliesKept
CHECK_DEADLOCK FALSE
