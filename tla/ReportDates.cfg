SPECIFICATION CalendarSpec
CHECK_DEADLOCK FALSE
CONSTANTS
  DayLen = 2
  Cutoff = 1
  MaxDay = 8
  MaxWindow = 4
INVARIANTS DeadlineIsNthDay EditWindowIsOpen
