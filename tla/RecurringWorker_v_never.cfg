SPECIFICATION FairSpec
CONSTANTS
  u1 = u1
  u2 = u2
  Templates = {t1, t2}
  Users = {u1, u2}
  Owner = u1
  Editors = {e1}
  NewRows <- MCNewRows
  Payloads <- MCPayloads
  Week = 2
  YearMonths = 2
  LastMonth = 4
  FirstOf <- MCFirstOf
  HasUpdatedAt = FALSE
  MaxDay = 3
  MaxEdits = 1
  MaxFaults = 1
PROPERTY DueIsMaterialised
