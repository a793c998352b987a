SPECIFICATION Spec
CONSTANTS
  None = None
  Kip <- MCKip
  Groups <- MCGroups
  Zone <- MCZone
  Pareto = {"p1"}
  BillcoKip <- MCBillcoKip
  AmKip <- MCAmKip
  Bases <- MCBases
  Creations <- MCCreations
  Logs <- MCLogs
  Values <- MCValues
  MaxChanges = 2
INVARIANT PathsAgree
