----------------------------- MODULE ReviewLedger -----------------------------
(***************************************************************************)
(* What the review cycle promises, without requests, users or clocks: a    *)
(* report is a sequence of rounds, one per submission. A round is closed   *)
(* at most once, by a verdict or by the end of its window, and only while  *)
(* the report waits for it; the outcome stays on the report until the next *)
(* submission; an archived report does not change.                         *)
(*                                                                         *)
(* A verdict may be put on an earlier round than the last one, as long as  *)
(* that has none: the code allows it (ReviewClaims!VerdictIsOnLatest).     *)
(***************************************************************************)
EXTENDS Naturals, Sequences

CONSTANTS Verdicts, Rejected, Overdue, Open

VARIABLES
    phase,      \* "draft", "waiting", "open" or "archived"
    rounds,     \* the rounds, each with its verdict and whether it lapsed
    outcome     \* what the report shows: Open, Overdue or a verdict

vars == <<phase, rounds, outcome>>

Init == phase = "draft" /\ rounds = <<>> /\ outcome = Open

Submit ==
    /\ phase \in {"draft", "open"}
    /\ phase' = "waiting"
    /\ rounds' = Append(rounds, [verdict |-> Open, lapsed |-> FALSE])
    /\ outcome' = Open

Waiting == phase = "waiting" /\ outcome = Open

Decide(k, verdict) ==
    /\ Waiting
    /\ rounds[k].verdict = Open
    /\ rounds' = [rounds EXCEPT ![k].verdict = verdict]
    /\ outcome' = verdict
    /\ phase' = IF verdict = Rejected THEN "open" ELSE "waiting"

Lapse ==
    /\ Waiting
    /\ rounds' = [rounds EXCEPT ![Len(rounds)].lapsed = TRUE]
    /\ outcome' = Overdue
    /\ UNCHANGED phase

Reopen ==
    /\ phase = "waiting"
    /\ phase' = "open"
    /\ UNCHANGED <<rounds, outcome>>

Archive ==
    /\ phase # "archived"
    /\ phase' = "archived"
    /\ UNCHANGED <<rounds, outcome>>

Next ==
    \/ Submit
    \/ \E k \in 1 .. Len(rounds), verdict \in Verdicts : Decide(k, verdict)
    \/ Lapse
    \/ Reopen
    \/ Archive

Spec == Init /\ [][Next]_vars

=============================================================================
