SPECIFICATION Spec
CHECK_DEADLOCK FALSE
CONSTANTS
  Ids = {t1, t2, t3}
  Requesters = {r1, r2}
  p1 = p1
  p2 = p2
  s1 = s1
  s2 = s2
  s3 = s3
  Processes = {p1, p2}
  Sweeps = {s1, s2, s3}
  Home <- TwoHomes
  Settings <- StatusOrDue
  Keep = keep
  Dues = {0, 1}
  Window = 0
  ScanLimit = 1
  MaxAttempts = 2
  MaxNow = 1
  MaxEvents = 3
  MaxFaults = 1
SYMMETRY Symmetry
INVARIANTS ClashNeedsRival RemindedOnce 
