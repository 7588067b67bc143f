----------------------------- MODULE ReviewCycle -----------------------------
(***************************************************************************)
(* The life of one daily report: saving, submitting, reviewing, reopening  *)
(* and the cron job that closes the review rounds nobody decided           *)
(* (daily-reports.service.ts and daily-report.cron.ts).                    *)
(*                                                                         *)
(* Every request reads the report and its scope first, checks what it read *)
(* and then runs one transaction whose first statement is a compare-and-   *)
(* set. A request is therefore two steps here, Load... and Commit..., and  *)
(* between them everybody else may move; `req[u]` holds what the request   *)
(* of user u carries from its reads. A transaction is one step: its first  *)
(* statement takes the lock of the report's row.                           *)
(***************************************************************************)
EXTENDS ReportDates, Sequences, FiniteSets

CONSTANTS
    Owner,          \* the member the report is of
    Carers,         \* users who may act for the owner ("làm thay")
    Managers,       \* main managers of the scope
    Reviewers,      \* secondary reviewers assigned to the owner
    ScopeSettings,  \* values the scope's settings may take
    Contents,       \* what the answers may say; Blank fails the required one
    Blank,
    None,           \* SQL NULL
    ReportDay,      \* reportDate
    MaxNow,         \* bound of the clock
    MaxRevisions,   \* bound of the submissions
    MaxInflight,    \* bound of the requests in flight together
    RequestLife     \* a request ends at most this many instants after its reads

Users == {Owner} \cup Carers \cup Managers \cup Reviewers
OwnerSide == {Owner} \cup Carers
Instants == 0 .. MaxNow
Decisions == {"ACCEPTED", "CONTINUED", "REJECTED"}
Statuses == {"DRAFT", "SUBMITTED", "REOPENED", "ARCHIVED"}
Deadlines == {ReviewDeadlineAt(t, s) : t \in Instants, s \in ScopeSettings}
WindowEnds == {EditWindowEnd(t, s) : t \in Instants, s \in ScopeSettings}

ASSUME CycleAssumption ==
    /\ None \notin Int /\ None \notin Users /\ None \notin Decisions
    /\ Blank \notin Contents
    /\ ReportDay \in Nat /\ MaxNow \in Nat /\ RequestLife \in Nat
    /\ MinuteOfDayInstant(ReportDay, 0) \in Instants
    /\ MaxRevisions \in Nat /\ MaxInflight \in Nat
    /\ \A s \in ScopeSettings : /\ s.weekdays \subseteq 1 .. 7
                                /\ s.weekdays # {}
                                /\ s.reviewWindowDays \in Nat
                                /\ s.isEnabled \in BOOLEAN

VARIABLES
    report,     \* the row of daily_reports, the columns of the review round
    answers,    \* what the report's answers say now
    revisions,  \* daily_report_revisions, in the order of revisionNumber
    reviews,    \* daily_report_reviews; revisionId is unique
    scope,      \* the scope's settings: weekdays, reviewWindowDays, isEnabled
    now,        \* the clock
    req,        \* the request each user has in flight
    sweep       \* TRUE while the cron job holds the report in its list of due ones

vars == <<report, answers, revisions, reviews, scope, now, req, sweep>>

Reports == [status : Statuses,
            isResponse : BOOLEAN,
            firstSubmittedAt : Instants \cup {None},
            decision : Decisions \cup {None},
            reviewedBy : Users \cup {None},
            reviewedRev : (1 .. MaxRevisions) \cup {None},
            editableUntil : WindowEnds \cup {None},
            deadline : Deadlines \cup {None},
            expired : BOOLEAN]
Revisions == [submittedAt : Instants, isFirst : BOOLEAN, deadline : Deadlines,
              expired : BOOLEAN, snapshot : Contents]
Reviews == [rev : 1 .. MaxRevisions, by : Users, decision : Decisions]

Idle == [op |-> "idle"]
Requests ==
    {Idle}
    \cup [op : {"save"}, since : Instants]
    \cup [op : {"submit"}, since : Instants, scope : ScopeSettings,
          firstSubmittedAt : Instants \cup {None}]
    \cup [op : {"review"}, since : Instants, scope : ScopeSettings,
          rev : 0 .. MaxRevisions]
    \cup [op : {"reopen"}, since : Instants, scope : ScopeSettings,
          expiredEdit : BOOLEAN, editableUntil : WindowEnds \cup {None},
          grants : BOOLEAN]

TypeOK ==
    /\ report \in Reports
    /\ answers \in Contents \cup {Blank}
    /\ revisions \in Seq(Revisions)
    /\ Len(revisions) <= MaxRevisions
    /\ reviews \in SUBSET Reviews
    /\ scope \in ScopeSettings
    /\ now \in Instants
    /\ req \in [Users -> Requests]
    /\ \A u \in Users : req[u].op = "review" => req[u].rev <= Len(revisions)
    /\ sweep \in BOOLEAN

\* The report the generator made this morning, its answers still empty.
Init ==
    /\ report = [status |-> "DRAFT", isResponse |-> FALSE,
                 firstSubmittedAt |-> None, decision |-> None,
                 reviewedBy |-> None, reviewedRev |-> None,
                 editableUntil |-> None, deadline |-> None, expired |-> FALSE]
    /\ answers = Blank
    /\ revisions = <<>>
    /\ reviews = {}
    /\ scope \in ScopeSettings
    /\ now = MinuteOfDayInstant(ReportDay, 0)
    /\ req = [u \in Users |-> Idle]
    /\ sweep = FALSE

\* A revision whose round the cron job closed.
Closed(revision) == [revision EXCEPT !.expired = TRUE]

-----------------------------------------------------------------------------
(* Mistakes this code could have made. Each is a variant of the definition *)
(* that it is named after and is used by no action: a property that does   *)
(* not notice the variant would not protect the code.                      *)

\* No hard stop.
IsReportLocked_Never(t) == FALSE

\* A write of the member that does not test the status in its transaction.
Writable_Unchecked == report.status # "ARCHIVED"

\* Review and cron job test the status only.
AwaitsVerdict_ByStatus == report.status = "SUBMITTED"

\* A review does not need a free revision.
RevisionFree_Unchecked(u) == TRUE

\* A new submission keeps the review columns of the one before.
Submitted_KeepsRound(at, first, deadline) ==
    [report EXCEPT !.status = "SUBMITTED", !.isResponse = TRUE,
                   !.firstSubmittedAt = IF first = None THEN at ELSE first,
                   !.editableUntil = None, !.deadline = deadline]

\* Reopening takes the verdict back.
Reopened_ClearsVerdict(until) ==
    [report EXCEPT !.status = "REOPENED", !.isResponse = FALSE,
                   !.editableUntil = until, !.decision = None,
                   !.reviewedBy = None, !.reviewedRev = None]

\* Reopening compares the status only, also when it extends a passed window.
ReopenClaim_ByStatus(u) ==
    report.status = IF req[u].expiredEdit THEN "REOPENED" ELSE "SUBMITTED"

\* Deadlines follow the scope's window instead of being fixed when submitted.
UpdateScope_MovesDeadlines(settings) ==
    /\ scope' = settings
    /\ revisions' = [i \in 1 .. Len(revisions) |->
            [revisions[i] EXCEPT !.deadline =
                ReviewDeadlineAt(revisions[i].submittedAt, settings)]]
    /\ UNCHANGED <<report, answers, reviews, now, req, sweep>>

\* The cron job looks at the deadlines of its own day only.
IsDue_Today == /\ report.deadline < now
               /\ DayOf(report.deadline) = DayOf(now)

\* The cron job stamps what it listed without looking again.
SweepMark_Unconditional ==
    /\ sweep
    /\ sweep' = FALSE
    /\ report' = [report EXCEPT !.expired = TRUE]
    /\ revisions' = [revisions EXCEPT ![Len(revisions)] = Closed(@)]
    /\ UNCHANGED <<answers, reviews, scope, now, req>>

-----------------------------------------------------------------------------
(* What the code reads off the report, and what it makes of it.            *)

\* The only exception to the hard stop: a reopened report whose edit window
\* has not passed.
IsReportLocked(t) ==
    /\ ~ (/\ report.status = "REOPENED"
          /\ report.editableUntil # None
          /\ t <= report.editableUntil)
    /\ IsReportLockedAt(ReportDay, t)

IsSameReportDay(t) == DayOf(t) = ReportDay

\* The status test of every write of the member: nobody submitted meanwhile.
Writable == report.status \in {"DRAFT", "REOPENED"}

\* The compare-and-set that decides between two reviewers, and between a
\* reviewer and the cron job.
AwaitsVerdict == /\ report.status = "SUBMITTED"
                 /\ report.decision = None
                 /\ ~ report.expired

CanReview(u) == u # Owner /\ u \in Managers \cup Reviewers

IsDue == report.deadline < now

\* A review is of the revision it read; revisionId is unique among the reviews.
RevisionFound(u) == req[u].rev # 0
RevisionFree(u) == \A r \in reviews : r.rev # req[u].rev

\* Six columns of the review round go back to null, the deadline is the new one.
Submitted(at, first, deadline) ==
    [status |-> "SUBMITTED", isResponse |-> TRUE,
     firstSubmittedAt |-> IF first = None THEN at ELSE first,
     decision |-> None, reviewedBy |-> None, reviewedRev |-> None,
     editableUntil |-> None, deadline |-> deadline, expired |-> FALSE]

\* A rejection opens the edit window with the verdict.
Decided(u, decision, until) ==
    IF decision = "REJECTED"
    THEN [report EXCEPT !.decision = decision, !.reviewedBy = u,
                        !.reviewedRev = req[u].rev, !.status = "REOPENED",
                        !.isResponse = FALSE, !.editableUntil = until]
    ELSE [report EXCEPT !.decision = decision, !.reviewedBy = u,
                        !.reviewedRev = req[u].rev]

\* The verdict stays: only a new submission clears it.
Reopened(until) ==
    [report EXCEPT !.status = "REOPENED", !.isResponse = FALSE,
                   !.editableUntil = until]

\* The compare-and-set of reopen; one that extends a passed edit window names
\* the window it saw.
ReopenClaim(u) ==
    IF req[u].expiredEdit
    THEN /\ report.status = "REOPENED"
         /\ report.editableUntil = req[u].editableUntil
    ELSE report.status = "SUBMITTED"

-----------------------------------------------------------------------------
(* Requests.                                                               *)

\* A user starts a request. Nothing answers for an archived scope.
Start(u, request) ==
    /\ req[u] = Idle
    /\ Cardinality({v \in Users : req[v] # Idle}) < MaxInflight
    /\ report.status # "ARCHIVED"
    /\ req' = [req EXCEPT ![u] = request]
    /\ UNCHANGED <<report, answers, revisions, reviews, scope, now, sweep>>

Finish(u) == req' = [req EXCEPT ![u] = Idle]

\* The transaction fails and leaves nothing: a lost compare-and-set, a
\* violated unique index, an invalid or a missing answer, a crash.
Abort(u) ==
    /\ req[u] # Idle
    /\ Finish(u)
    /\ UNCHANGED <<report, answers, revisions, reviews, scope, now, sweep>>

\* PATCH /daily-reports/:id (assertCanEdit).
LoadSave(u) ==
    /\ u \in OwnerSide
    /\ report.status # "SUBMITTED"
    /\ ~ IsReportLocked(now)
    /\ Start(u, [op |-> "save", since |-> now])

CommitSave(u) ==
    /\ req[u].op = "save"
    /\ Writable
    /\ \E content \in Contents \cup {Blank} : answers' = content
    /\ Finish(u)
    /\ UNCHANGED <<report, revisions, reviews, scope, now, sweep>>

\* POST /daily-reports/:id/submit. A submitted report answers at once.
LoadSubmit(u) ==
    /\ u \in OwnerSide
    /\ report.status # "SUBMITTED"
    /\ ~ IsReportLocked(now)
    /\ Start(u, [op |-> "submit", since |-> now, scope |-> scope,
                 firstSubmittedAt |-> report.firstSubmittedAt])

\* `at` is the instant the service took between the reads and the transaction;
\* `content` is what the answers say once those of the request are applied.
CommitSubmit(u) ==
    /\ req[u].op = "submit"
    /\ Writable
    /\ Len(revisions) < MaxRevisions
    /\ \E at \in req[u].since .. now, content \in Contents :
        LET deadline == ReviewDeadlineAt(at, req[u].scope)
            first == req[u].firstSubmittedAt
        IN  /\ report' = Submitted(at, first, deadline)
            /\ answers' = content
            /\ revisions' = Append(revisions,
                    [submittedAt |-> at, isFirst |-> first = None,
                     deadline |-> deadline, expired |-> FALSE,
                     snapshot |-> content])
    /\ Finish(u)
    /\ UNCHANGED <<reviews, scope, now, sweep>>

\* POST /daily-reports/:id/review: the report and the scope ...
LoadReview(u) ==
    /\ CanReview(u)
    /\ AwaitsVerdict
    /\ Start(u, [op |-> "review", since |-> now, scope |-> scope, rev |-> 0])

\* ... then, in a query of its own, the latest revision.
LoadRevision(u) ==
    /\ req[u].op = "review"
    /\ req[u].rev = 0
    /\ revisions # <<>>
    /\ req[u].since <= revisions[Len(revisions)].deadline
    /\ req' = [req EXCEPT ![u].rev = Len(revisions)]
    /\ UNCHANGED <<report, answers, revisions, reviews, scope, now, sweep>>

CommitReview(u, decision) ==
    /\ req[u].op = "review"
    /\ RevisionFound(u)
    /\ AwaitsVerdict
    /\ RevisionFree(u)
    /\ report' = Decided(u, decision, EditWindowEnd(req[u].since, req[u].scope))
    /\ reviews' = reviews \cup
            {[rev |-> req[u].rev, by |-> u, decision |-> decision]}
    /\ Finish(u)
    /\ UNCHANGED <<answers, revisions, scope, now, sweep>>

\* POST /daily-reports/:id/reopen, by u acting for the owner or not. Four ways
\* in: the one who decided, a manager once the round was touched, the owner on
\* the day before the cutoff, and a manager when the edit window has passed.
LoadReopen(u, asOwner) ==
    LET expiredEdit == report.status = "REOPENED" /\ IsReportLocked(now)
        isDecider == report.reviewedBy = u
        isManager == u \in Managers
        inReviewCycle == report.decision # None \/ report.expired
        inTime == IsSameReportDay(now) /\ ~ IsReportLocked(now)
    IN  /\ asOwner => u \in OwnerSide
        /\ u = Owner => asOwner
        /\ \/ expiredEdit /\ isManager
           \/ /\ report.status = "SUBMITTED"
              /\ \/ isDecider /\ inReviewCycle
                 \/ isManager /\ (inReviewCycle \/ inTime)
                 \/ asOwner /\ inTime
        /\ Start(u, [op |-> "reopen", since |-> now, scope |-> scope,
                     expiredEdit |-> expiredEdit,
                     editableUntil |-> IF expiredEdit THEN report.editableUntil
                                                      ELSE None,
                     grants |-> isDecider \/ isManager])

CommitReopen(u) ==
    /\ req[u].op = "reopen"
    /\ ReopenClaim(u)
    /\ \E at \in req[u].since .. now :
        report' = Reopened(IF req[u].grants
                           THEN EditWindowEnd(at, req[u].scope) ELSE None)
    /\ Finish(u)
    /\ UNCHANGED <<answers, revisions, reviews, scope, now, sweep>>

-----------------------------------------------------------------------------
(* The scope, the cron job and the clock.                                  *)

\* A manager edits the scope's settings at any time.
UpdateScope(settings) ==
    /\ report.status # "ARCHIVED"
    /\ scope' = settings
    /\ UNCHANGED <<report, answers, revisions, reviews, now, req, sweep>>

\* A manager archives the scope: every report of it is archived with it.
ArchiveScope ==
    /\ report.status # "ARCHIVED"
    /\ report' = [report EXCEPT !.status = "ARCHIVED"]
    /\ UNCHANGED <<answers, revisions, reviews, scope, now, req, sweep>>

\* markExpiredReviews lists the reports past their deadline, of the enabled
\* scopes and on the days they work ...
SweepFind ==
    /\ ~ sweep
    /\ scope.isEnabled
    /\ IsWorkingDay(DayOf(now), scope.weekdays)
    /\ AwaitsVerdict
    /\ IsDue
    /\ sweep' = TRUE
    /\ UNCHANGED <<report, answers, revisions, reviews, scope, now, req>>

\* ... and closes the round of each in a transaction, unless someone was faster.
SweepMark ==
    /\ sweep
    /\ sweep' = FALSE
    /\ IF AwaitsVerdict
       THEN /\ report' = [report EXCEPT !.expired = TRUE]
            /\ revisions' = [revisions EXCEPT ![Len(revisions)] = Closed(@)]
       ELSE UNCHANGED <<report, revisions>>
    /\ UNCHANGED <<answers, reviews, scope, now, req>>

\* A request that is too old by then was cut off by its timeout.
Tick ==
    /\ now < MaxNow
    /\ now' = now + 1
    /\ req' = [u \in Users |->
                IF req[u] # Idle /\ now' - req[u].since > RequestLife
                THEN Idle ELSE req[u]]
    /\ UNCHANGED <<report, answers, revisions, reviews, scope, sweep>>

-----------------------------------------------------------------------------
UserStep(u) ==
    \/ LoadSave(u) \/ CommitSave(u)
    \/ LoadSubmit(u) \/ CommitSubmit(u)
    \/ LoadReview(u) \/ LoadRevision(u)
    \/ \E decision \in Decisions : CommitReview(u, decision)
    \/ \E asOwner \in BOOLEAN : LoadReopen(u, asOwner)
    \/ CommitReopen(u)
    \/ Abort(u)

Next ==
    \/ \E u \in Users : UserStep(u)
    \/ \E settings \in ScopeSettings : UpdateScope(settings)
    \/ ArchiveScope
    \/ SweepFind
    \/ SweepMark
    \/ Tick

Spec == Init /\ [][Next]_vars

\* Users owe nothing; the clock and the five-minute cron job go on.
Fairness == WF_vars(Tick) /\ WF_vars(SweepFind) /\ WF_vars(SweepMark)
FairSpec == Spec /\ Fairness

-----------------------------------------------------------------------------
(* Safety.                                                                 *)

Latest == revisions[Len(revisions)]

\* The report's verdict columns are null together, or copy one row of
\* daily_report_reviews; no verdict on the latest submission is missing from
\* the report, and a submission has at most one (review, submit).
VerdictHasItsReview ==
    /\ (report.decision = None) <=> (report.reviewedBy = None)
    /\ (report.decision = None) <=> (report.reviewedRev = None)
    /\ report.decision # None =>
            [rev |-> report.reviewedRev, by |-> report.reviewedBy,
             decision |-> report.decision] \in reviews
    /\ (\E r \in reviews : r.rev = Len(revisions)) => report.decision # None
    /\ \A r \in reviews : r.rev \in 1 .. Len(revisions)
    /\ \A r, s \in reviews : r.rev = s.rev => r = s

\* Between a reviewer and the cron job one wins: a report is never both decided
\* and overdue (markExpiredReviews, review).
DecidedOrOverdue == ~ (report.decision # None /\ report.expired)

\* The report's review round is the one of its latest submission: the same
\* deadline, closed by the cron job or not in both places (submit,
\* markExpiredReviews).
RoundOfLatest ==
    IF revisions = <<>>
    THEN report.deadline = None /\ ~ report.expired /\ report.decision = None
    ELSE report.deadline = Latest.deadline /\ report.expired = Latest.expired

\* What a reviewer reads is what was submitted: while the report counts as
\* answered its answers are those of its latest revision, no edit window is
\* open and it was not sent back (saveAnswers, submit, reopen, review).
FrozenWhileSubmitted ==
    report.status = "SUBMITTED" =>
        /\ report.isResponse
        /\ revisions # <<>>
        /\ answers = Latest.snapshot
        /\ report.editableUntil = None
        /\ report.decision # "REJECTED"

\* The obligation is met before the hard stop, or by a request that was let in
\* before it; only later submissions may use an edit window (submit).
FirstSubmissionInTime ==
    report.firstSubmittedAt # None =>
        report.firstSubmittedAt
            < MinuteOfDayInstant(ReportDay, Cutoff) + RequestLife

-----------------------------------------------------------------------------
(* What a step may never do.                                               *)

\* A verdict stands, reopened or not, until a new submission (submit, reopen).
VerdictStands ==
    [][report.decision # None =>
        \/ /\ report'.decision = report.decision
           /\ report'.reviewedBy = report.reviewedBy
           /\ report'.reviewedRev = report.reviewedRev
        \/ Len(revisions') = Len(revisions) + 1]_vars

\* History is only added to: a submission keeps its contents and its deadline
\* whatever the scope's window becomes, a closed round stays closed, and no
\* review goes away (submit, markExpiredReviews, UpdateScope).
HistoryStands ==
    [][/\ reviews \subseteq reviews'
       /\ Len(revisions') >= Len(revisions)
       /\ \A i \in 1 .. Len(revisions) :
            /\ [revisions'[i] EXCEPT !.expired = FALSE]
                    = [revisions[i] EXCEPT !.expired = FALSE]
            /\ revisions[i].expired => revisions'[i].expired]_vars

\* An edit window that is still open is not moved while the report stays
\* reopened: of two managers that extend a passed one, one wins (reopen).
OpenWindowStands ==
    [][/\ report.status = "REOPENED" /\ report'.status = "REOPENED"
       /\ report.editableUntil # None /\ now <= report.editableUntil
       => report'.editableUntil = report.editableUntil]_vars

-----------------------------------------------------------------------------
(* Liveness.                                                               *)

\* A submission whose deadline passed without a verdict does not wait for ever:
\* the cron job closes its round, unless somebody moves the report first or
\* disables the scope (markExpiredReviews). It may take until the scope's next
\* working day.
OverdueIsClosed ==
    (AwaitsVerdict /\ report.deadline < now)
        ~> (~ AwaitsVerdict \/ ~ scope.isEnabled)

=============================================================================
