SPECIFICATION Spec
CONSTANTS
  ani = ani
  budi = budi
  Confirmations = 2
  Tickets = {t1}
  Requests = {r1, r2}
  Agents = {ani, budi}
  NoAgent = NoAgent
  Recaps <- MCRecaps
  UploadStatus = {None, "Open"}
  MaxRequests = 4
  None = None
INVARIANTS
  PicAndPksSuffice
CHECK_DEADLOCK FALSE
