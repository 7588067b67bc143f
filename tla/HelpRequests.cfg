SPECIFICATION Spec
CHECK_DEADLOCK FALSE
CONSTANTS
    Requester = requester
    Helpers = {helper}
    Questions = {q1, q2}
    None = none
    MaxRequests = 3
    MaxSubmits = 3
INVARIANTS QuestionIsKept OneIsOpen
PROPERTY AnsweredStays
