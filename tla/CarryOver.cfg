SPECIFICATION Spec
CHECK_DEADLOCK FALSE
CONSTANTS
    Managers = {manager}
    Reviewers = {reviewer}
    Tasks = {t1}
    None = none
    Days = {1, 2}
    RestDays = {3}
    MaxSubmits = 3
    MaxReviews = 2
    MaxRows = 2
    MaxItems = 1
INVARIANTS CarriedOnce ChainsAreLinked
PROPERTIES ContinuedHasWork CancelledKnowingly
