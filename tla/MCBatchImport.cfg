SPECIFICATION Spec
CONSTANTS
  upload = upload
  report = report
  k1 = k1
  v1 = v1
  v2 = v2
  s1 = s1
  s2 = s2
  s3 = s3
  d1 = d1
  d2 = d2
  None = None
  Importers = {upload, report}
  Keys = {k1, v1, v2, s1, s2, s3}
  CsatKeys = {s1, s2, s3}
  Values = {1, 2, 3, 4}
  Satisfied = {4}
  Dates = {d1, d2}
  SlotOf <- MCSlotOf
  DateOf <- MCDateOf
  Files <- MCFiles
  BatchSize = 2
INVARIANTS
  TypeOK
  LastRowWins
  StatsAgree
