---------------------------- MODULE MCReportDates ----------------------------
(* The calendar against its definition in words, at every instant of a     *)
(* week and for every choice of working days: a clock walks over it.       *)
EXTENDS ReportDates, FiniteSets

CONSTANTS MaxDay, MaxWindow

VARIABLES
    anyScope,   \* weekdays and reviewWindowDays of a scope
    instant

calendarVars == <<anyScope, instant>>

CalendarInit ==
    /\ anyScope \in [weekdays : (SUBSET (1 .. 7)) \ {{}},
                     reviewWindowDays : 0 .. MaxWindow]
    /\ instant = 0

NextInstant ==
    instant < MaxDay * DayLen /\ instant' = instant + 1 /\ UNCHANGED anyScope

CalendarSpec == CalendarInit /\ [][NextInstant]_calendarVars

WorkingDaysIn(days) == {d \in days : IsWorkingDay(d, anyScope.weekdays)}

\* A window of N days ends at the cutoff of the N-th day: the day of the
\* submission when N is 1 (or 0), else the working day up to which, from the day
\* after the submission, there are exactly N - 1 (reviewDeadlineAt).
DeadlineIsNthDay ==
    LET deadline == ReviewDeadlineAt(instant, anyScope)
        last == DayOf(deadline)
        n == anyScope.reviewWindowDays
    IN  /\ MinuteOf(deadline) = Cutoff
        /\ IF n <= 1 THEN last = DayOf(instant)
           ELSE /\ IsWorkingDay(last, anyScope.weekdays)
                /\ Cardinality(WorkingDaysIn(DayOf(instant) + 1 .. last)) = n - 1

\* An edit window is open when it is granted, until a working day of the
\* scope within a week (review, reopen, nextWorkingDate).
EditWindowIsOpen ==
    LET end == EditWindowEnd(instant, anyScope)
    IN  /\ instant < end /\ end <= instant + 8 * DayLen
        /\ WorkingDaysIn(DayOf(instant) + 1 .. DayOf(end)) = {DayOf(end)}

=============================================================================
