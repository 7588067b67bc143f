SPECIFICATION FairSpec
CHECK_DEADLOCK FALSE
CONSTANTS
  DayLen = 3
  Cutoff = 1
  Owner = owner
  Carers = {carer}
  Managers = {}
  Reviewers = {}
  ScopeSettings <- TuesdayOff
  Contents = {c1, c2}
  Blank = blank
  None = none
  ReportDay = 0
  MaxNow = 7
  MaxRevisions = 3
  MaxInflight = 2
  RequestLife = 1
INVARIANTS FrozenWhileSubmitted FirstSubmissionInTime
PROPERTIES HistoryStands OverdueIsClosed
