----------------------------- MODULE ReviewClaims -----------------------------
(***************************************************************************)
(* What the documents and the comments of the repository say of the review *)
(* cycle and the code of ReviewCycle does not keep: a run of its own finds *)
(* it violated.                                                            *)
(***************************************************************************)
EXTENDS ReviewCycle

\* The review columns of the report are those of its latest submission
\* (daily-report.prisma:294). review() reads the revision before its
\* transaction, and the compare-and-set does not name it.
VerdictIsOnLatest ==
    report.decision # None => report.reviewedRev = Len(revisions)

=============================================================================
