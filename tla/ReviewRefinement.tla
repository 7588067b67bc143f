--------------------------- MODULE ReviewRefinement ---------------------------
(* The review cycle of the code implements ReviewLedger.                   *)
EXTENDS ReviewCycle

Phase == CASE report.status = "DRAFT" -> "draft"
           [] report.status = "SUBMITTED" -> "waiting"
           [] report.status = "REOPENED" -> "open"
           [] report.status = "ARCHIVED" -> "archived"

VerdictOf(i) ==
    IF \E r \in reviews : r.rev = i
    THEN (CHOOSE r \in reviews : r.rev = i).decision
    ELSE None

Rounds == [i \in 1 .. Len(revisions) |->
              [verdict |-> VerdictOf(i), lapsed |-> revisions[i].expired]]

Outcome == IF report.expired THEN "OVERDUE" ELSE report.decision

Ledger == INSTANCE ReviewLedger
    WITH Verdicts <- Decisions, Rejected <- "REJECTED", Overdue <- "OVERDUE",
         Open <- None, phase <- Phase, rounds <- Rounds, outcome <- Outcome

\* Every step of a request, of the scope, of the cron job and of the clock is a
\* step of the ledger or changes nothing in it.
ImplementsLedger == Ledger!Spec

=============================================================================
