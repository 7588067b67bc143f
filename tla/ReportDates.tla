----------------------------- MODULE ReportDates -----------------------------
(***************************************************************************)
(* The calendar of the daily reports: helpers/report-date.helper.ts, which *)
(* every date computation of the feature goes through.                     *)
(*                                                                         *)
(* An instant is a natural number, a day is DayLen consecutive instants    *)
(* and the "minute of the day" is the offset in it; day 0 is a Monday.     *)
(* One zone only (the default one has no daylight saving time), so the     *)
(* conversions of a label to an instant and back are \div, % and *.        *)
(* A scope's settings are a record with its `weekdays` (ISO numbers,       *)
(* 1 = Monday) and its `reviewWindowDays`.                                 *)
(***************************************************************************)
EXTENDS Integers

CONSTANTS
    DayLen,         \* instants in a day
    Cutoff          \* cutoffMinute: the instant of the day that closes writing

ASSUME CalendarAssumption == /\ DayLen \in Nat \ {0}
                             /\ Cutoff \in 0 .. DayLen - 1

DayOf(t) == t \div DayLen
MinuteOf(t) == t % DayLen
MinuteOfDayInstant(day, minute) == day * DayLen + minute
IsoWeekday(day) == (day % 7) + 1

IsWorkingDay(day, weekdays) == IsoWeekday(day) \in weekdays

-----------------------------------------------------------------------------
(* Mistakes this code could have made (see ReviewCycle): the search for    *)
(* the next working day starts with the day itself; the days of a window   *)
(* are counted from the day after.                                         *)
NextWorkingDate_FromToday(day, weekdays) ==
    CHOOSE d \in day .. day + 7 :
        /\ IsWorkingDay(d, weekdays)
        /\ \A e \in day .. d - 1 : ~ IsWorkingDay(e, weekdays)

WindowDays_OneMore(scope) == scope.reviewWindowDays + 1

-----------------------------------------------------------------------------
\* The first day after `day` that the scope works on; a scope always has one.
NextWorkingDate(day, weekdays) ==
    CHOOSE d \in day + 1 .. day + 7 :
        /\ IsWorkingDay(d, weekdays)
        /\ \A e \in day + 1 .. d - 1 : ~ IsWorkingDay(e, weekdays)

\* The cutoff of the next working day, where an edit window granted at t ends.
EditWindowEnd(t, scope) ==
    MinuteOfDayInstant(NextWorkingDate(DayOf(t), scope.weekdays), Cutoff)

WindowDays(scope) ==
    IF scope.reviewWindowDays < 1 THEN 1 ELSE scope.reviewWindowDays

\* The cutoff of the N-th working day, the day of t being the first one even
\* when the scope does not work on it.
ReviewDeadlineAt(t, scope) ==
    LET nth[n \in Nat] == IF n <= 1 THEN DayOf(t)
                          ELSE NextWorkingDate(nth[n - 1], scope.weekdays)
    IN  MinuteOfDayInstant(nth[WindowDays(scope)], Cutoff)

\* A report of an earlier day is locked, one of a later day is not, and one of
\* today is from the cutoff on.
IsReportLockedAt(reportDay, t) ==
    \/ DayOf(t) > reportDay
    \/ DayOf(t) = reportDay /\ MinuteOf(t) >= Cutoff

=============================================================================
