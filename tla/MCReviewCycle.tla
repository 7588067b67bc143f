---------------------------- MODULE MCReviewCycle ----------------------------
(* Small instances of ReviewCycle for TLC.                                 *)
EXTENDS ReviewClaims, ReviewRefinement, TLC

\* Day 0 is a Monday. Scopes that work every day of the bounded calendar, with
\* a window of one or two working days, and one that rests on the Tuesday and
\* may be disabled.
Window(days, n, enabled) ==
    [weekdays |-> days, reviewWindowDays |-> n, isEnabled |-> enabled]
ShortOnly == {Window(1 .. 7, 1, TRUE)}
ShortAndLong == {Window(1 .. 7, n, TRUE) : n \in {1, 2}}
TuesdayOff == {Window({1, 3, 4, 5}, n, enabled) : n \in {1, 2}, enabled \in BOOLEAN}

\* The managers may be exchanged: for the run without liveness properties.
ManagerSymmetry == Permutations(Managers)

=============================================================================
