SPECIFICATION Spec
CONSTANTS
  r1 = r1
  r2 = r2
  Requests = {r1, r2}
  MaxRequests = 4
  SettingsRequests = 3
  None = None
  Numeric = {"7"}
  Dates = {}
  SeedFields <- MCSeed
  Definitions <- MCDefinitions
  Submissions <- MCSubmissions
  Patches <- MCPatches
  Rekaps <- MCRekaps
  ChunkSize = 1
  Users = {"u"}
  Lists = {"all"}
  Initial <- MCInitial
  Ranks <- MCRanks
  Pages <- MCPages
  Uploads <- MCUploads
  Work <- MCWork
CHECK_DEADLOCK FALSE
INVARIANTS PortalTypeOK NoRecordLost EditsKept GeneratedIsCurrent OldRecordsRepairable ImportOnce SearchTextFresh TogglesAsAnswered OnePeakOneTapper SavingBackKeepsTargets
PROPERTIES OutdatedExpires
