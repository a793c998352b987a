SPECIFICATION FairSpec
CONSTANTS
  Uploads = {u1, u2, u3}
  Reports = {r1}
  None = None
  MaxStalled = 1
  MaxRestarts = 1
INVARIANTS
  IInv
  CompletedMeansImported
  FilesRemoved
PROPERTIES
  AnswersAdvance
  ImplementsJobQueue
  EveryJobSettles
CHECK_DEADLOCK FALSE
