SPECIFICATION FairSpec
CHECK_DEADLOCK FALSE
CONSTANTS
  Users = {u1, u2}
  Owner = u1
  Cron = cron
  Calls = {c1, c2}
  MaxNow = 2
  MaxUpdates = 2
  MaxCrashes = 1
  MaxStarts = 2
INVARIANTS ObligationIsFixed
PROPERTY DraftIsAnnounced
