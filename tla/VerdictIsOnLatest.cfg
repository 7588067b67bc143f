SPECIFICATION Spec
CHECK_DEADLOCK FALSE
CONSTANTS
  DayLen = 3
  Cutoff = 1
  Owner = owner
  Carers = {}
  Managers = {manager}
  Reviewers = {reviewer}
  ScopeSettings <- ShortOnly
  Contents = {c1}
  Blank = blank
  None = none
  ReportDay = 0
  MaxNow = 2
  MaxRevisions = 2
  MaxInflight = 2
  RequestLife = 1
INVARIANT VerdictIsOnLatest
