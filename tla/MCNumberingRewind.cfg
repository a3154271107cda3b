SPECIFICATION Spec
CONSTANTS
  d1 = d1
  d2 = d2
  NoRule = NoRule
  Docs = {d1, d2}
  Department <- MCDepartment
  Times = {2, 3}
  YearOf <- MCYearOf
  Scopes = {"YEAR"}
  Admins = {a1}
  MaxNumber = 2
  MaxEdits = 2
PROPERTY CounterIsNeverRewound
CHECK_DEADLOCK FALSE
