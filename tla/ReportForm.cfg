SPECIFICATION FormFairSpec
CHECK_DEADLOCK FALSE
CONSTANTS
  MaxText = 2
  MaxReopens = 1
  MaxLost = 1
  MaxHides = 1
INVARIANTS SubmittedAsShown
PROPERTY TextArrives
