SPECIFICATION FairSpec
CONSTANTS
    Rows = {remind, notify}
    Reminders = {remind}
    Workers = {w1, w2}
    None = None
    Life = 1
    Delays <- TwoDelays
    Lease = 3
    Limit = 2
    LotTime = 2
    MaxCrashes = 1
INVARIANTS OneWorkerPerRow DeliveredOnce SentIsTrue
PROPERTIES FinalStays ReminderIsTimely NoticeEnds
