SPECIFICATION Spec
CHECK_DEADLOCK FALSE
CONSTANTS
  DayLen = 3
  Cutoff = 1
  Owner = owner
  Carers = {}
  Managers = {m1, m2}
  Reviewers = {reviewer}
  ScopeSettings <- ShortOnly
  Contents = {c1}
  Blank = blank
  None = none
  ReportDay = 0
  MaxNow = 7
  MaxRevisions = 2
  MaxInflight = 2
  RequestLife = 1
INVARIANTS VerdictHasItsReview DecidedOrOverdue RoundOfLatest
PROPERTIES VerdictStands ImplementsLedger OpenWindowStands
SYMMETRY ManagerSymmetry
