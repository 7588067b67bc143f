----------------------------- MODULE HelpRequests -----------------------------
(***************************************************************************)
(* The help requests of one daily report: what submit() makes of the       *)
(* question "do you need help?" (daily-reports.service.ts) and what the    *)
(* people concerned do with the requests meanwhile                         *)
(* (daily-report-help-requests.service.ts).                                *)
(*                                                                         *)
(* A submission reads the report first, and then runs a transaction that   *)
(* holds the lock of the report's row from its first statement on. The     *)
(* requests are rows of their own: they are acknowledged, resolved,        *)
(* reopened and cancelled between the statements of that transaction.      *)
(* Everything the transaction writes is seen when it commits.              *)
(***************************************************************************)
EXTENDS Integers, SequencesExt

CONSTANTS
    Requester,   \* the member the report is of, who asks
    Helpers,     \* who may submit for the member, or answer the requests
    Questions,   \* what the answer to the question may say
    None,        \* the question is left blank
    MaxRequests, \* bound of the requests of the report
    MaxSubmits   \* bound of the submissions

Users == {Requester} \cup Helpers

ASSUME HelpAssumption ==
    /\ None \notin Questions /\ None \notin Users
    /\ MaxRequests \in Nat /\ MaxSubmits \in Nat

VARIABLES
    submitted, \* the report's status is SUBMITTED
    asked,     \* the answer of the latest submission
    helps,     \* daily_report_help_requests of the report, by createdAt
    resolved,  \* the resolved ones, by resolvedAt
    notices,   \* keys of the notices in the outbox, without their recipients
    unticked,  \* history: the requests whose tick was ever taken off
    loaded,    \* what each user's submission has read of the report
    tx,        \* the transaction that holds the lock of the report
    submits    \* submissions so far

vars == <<submitted, asked, helps, resolved, notices, unticked, loaded, tx, submits>>

OPEN_HELP_STATUSES == {"OPEN", "ACKNOWLEDGED"}
Statuses == OPEN_HELP_STATUSES \cup {"RESOLVED", "CANCELLED"}
Ids == 1 .. MaxRequests
Loads == {"idle", "open", "noneOpen"}
Answers == Questions \cup {None}

\* `found` is the open request the transaction updates, 0 if there is none;
\* `last` the content of the request resolved last, read only in that case.
Idle == [by |-> None]
Transactions ==
    {Idle} \cup
    [by : Users, asks : Answers, found : 0 .. MaxRequests,
     last : Answers, step : {"found", "ready"}]

TypeOK ==
    /\ submitted \in BOOLEAN
    /\ asked \in Answers
    /\ helps \in Seq([status : Statuses, content : Questions])
    /\ Len(helps) <= MaxRequests
    /\ resolved \in Seq(Ids)
    /\ notices \subseteq Ids \X (Questions \cup Statuses)
    /\ unticked \subseteq Ids
    /\ loaded \in [Users -> Loads]
    /\ tx \in Transactions
    /\ submits \in 0 .. MaxSubmits

Init ==
    /\ submitted = FALSE
    /\ asked = None
    /\ helps = <<>>
    /\ resolved = <<>>
    /\ notices = {}
    /\ unticked = {}
    /\ loaded = [u \in Users |-> "idle"]
    /\ tx = Idle
    /\ submits = 0

IsHelpOpen(id) == helps[id].status \in OPEN_HELP_STATUSES
OpenRequests == {id \in DOMAIN helps : IsHelpOpen(id)}

-----------------------------------------------------------------------------
(* Mistakes this code could have made.                                     *)

\* A blank answer cancels every request of the report.
WithdrawnBy_Any(u) == IF loaded[u] = "open" THEN DOMAIN helps ELSE {}

\* No new request once any request was resolved.
IsAnswered_Once(t) == t.last # None

\* A request somebody has acknowledged is not looked for.
NewestOpen_Waiting ==
    LET waiting == {id \in DOMAIN helps : helps[id].status = "OPEN"}
    IN  IF waiting = {} THEN 0 ELSE Max(waiting)

-----------------------------------------------------------------------------
(* Submissions.                                                            *)

\* submit() loads the report with its requests. A submitted one answers at
\* once.
LoadSubmit(u) ==
    /\ ~ submitted
    /\ loaded[u] = "idle"
    /\ loaded' = [loaded EXCEPT ![u] =
                    IF OpenRequests # {} THEN "open" ELSE "noneOpen"]
    /\ UNCHANGED <<submitted, asked, helps, resolved, notices, unticked, tx, submits>>

NewestOpen == IF OpenRequests = {} THEN 0 ELSE Max(OpenRequests)

\* The transaction claims the report and, if the question is answered, looks
\* for the newest request that is open.
Claim(u, answer) ==
    /\ loaded[u] # "idle"
    /\ tx = Idle
    /\ ~ submitted
    /\ submits < MaxSubmits
    /\ LET newest == IF answer = None THEN 0 ELSE NewestOpen
       IN  tx' = [by |-> u, asks |-> answer, found |-> newest, last |-> None,
                  step |-> IF answer = None \/ newest # 0 THEN "ready"
                                                          ELSE "found"]
    /\ UNCHANGED <<submitted, asked, helps, resolved, notices, unticked, loaded, submits>>

\* No request is open: the one that was resolved last tells whether the
\* question was answered already.
FindResolved ==
    /\ tx # Idle
    /\ tx.step = "found"
    /\ tx' = [tx EXCEPT !.step = "ready",
                !.last = IF resolved = <<>> THEN None
                         ELSE helps[Last(resolved)].content]
    /\ UNCHANGED <<submitted, asked, helps, resolved, notices, unticked, loaded, submits>>

IsAnswered(t) == t.last = t.asks

\* A blank answer cancels what is open now, if something was when it was read.
WithdrawnBy(u) == IF loaded[u] = "open" THEN OpenRequests ELSE {}

\* The notice of a question has its request and its content for a key, so a content
\* that comes back in the same request is not announced again.
Ask(id, content) ==
    /\ helps' = IF id \in DOMAIN helps
                THEN [helps EXCEPT ![id].content = content]
                ELSE Append(helps, [status |-> "OPEN", content |-> content])
    /\ notices' = notices \cup {<<id, content>>}

Withdraw(u) ==
    /\ helps' = [id \in DOMAIN helps |->
                    IF id \in WithdrawnBy(u)
                    THEN [helps[id] EXCEPT !.status = "CANCELLED"]
                    ELSE helps[id]]
    /\ UNCHANGED notices

\* The writes of the transaction. The update names the request it found by its
\* id only.
CommitSubmit ==
    /\ tx # Idle
    /\ tx.step = "ready"
    /\ \/ tx.asks = None /\ Withdraw(tx.by)
       \/ tx.asks # None /\ tx.found # 0 /\ Ask(tx.found, tx.asks)
       \/ /\ tx.asks # None /\ tx.found = 0 /\ ~ IsAnswered(tx)
          /\ Len(helps) < MaxRequests
          /\ Ask(Len(helps) + 1, tx.asks)
       \/ /\ tx.asks # None /\ tx.found = 0 /\ IsAnswered(tx)
          /\ UNCHANGED <<helps, notices>>
    /\ submitted' = TRUE
    /\ asked' = tx.asks
    /\ loaded' = [loaded EXCEPT ![tx.by] = "idle"]
    /\ tx' = Idle
    /\ submits' = submits + 1
    /\ UNCHANGED <<resolved, unticked>>

\* The submission fails before or in its transaction, and leaves nothing.
AbortSubmit(u) ==
    /\ loaded[u] # "idle"
    /\ loaded' = [loaded EXCEPT ![u] = "idle"]
    /\ tx' = IF tx.by = u THEN Idle ELSE tx
    /\ UNCHANGED <<submitted, asked, helps, resolved, notices, unticked, submits>>

\* The report is sent back or reopened (see ReviewCycle).
ReopenReport ==
    /\ submitted
    /\ tx = Idle
    /\ submitted' = FALSE
    /\ UNCHANGED <<asked, helps, resolved, notices, unticked, loaded, tx, submits>>

-----------------------------------------------------------------------------
(* Transitions. Each is one compare-and-set on the request's status, with  *)
(* the notice to the member in its transaction unless he did it himself.   *)

Transition(u, id, from, to) ==
    /\ helps[id].status \in from
    /\ helps' = [helps EXCEPT ![id].status = to]
    /\ notices' = IF u # Requester /\ to # "OPEN"
                  THEN notices \cup {<<id, to>>} ELSE notices
    /\ UNCHANGED <<submitted, asked, loaded, tx, submits>>

Acknowledge(u, id) ==
    /\ u \in Helpers
    /\ Transition(u, id, {"OPEN"}, "ACKNOWLEDGED")
    /\ UNCHANGED <<resolved, unticked>>

Resolve(u, id) ==
    /\ Transition(u, id, OPEN_HELP_STATUSES, "RESOLVED")
    /\ resolved' = Append(resolved, id)
    /\ UNCHANGED unticked

\* The box is unticked: nothing looks for another request that is open.
Reopen(u, id) ==
    /\ Transition(u, id, {"RESOLVED"}, "OPEN")
    /\ resolved' = RemoveFirst(resolved, id)
    /\ unticked' = unticked \cup {id}

Cancel(id) ==
    /\ Transition(Requester, id, OPEN_HELP_STATUSES, "CANCELLED")
    /\ UNCHANGED <<resolved, unticked>>

-----------------------------------------------------------------------------
Next ==
    \/ \E u \in Users : LoadSubmit(u) \/ AbortSubmit(u)
    \/ \E u \in Users, answer \in Answers : Claim(u, answer)
    \/ FindResolved
    \/ CommitSubmit
    \/ ReopenReport
    \/ \E id \in DOMAIN helps :
        \/ \E u \in Users : Acknowledge(u, id) \/ Resolve(u, id) \/ Reopen(u, id)
        \/ Cancel(id)

Spec == Init /\ [][Next]_vars

-----------------------------------------------------------------------------
\* What was resolved or cancelled stays so whatever is submitted: a request
\* that is ticked while a submission withdraws the question is not cancelled
\* with it, and only the tick that is taken off opens one again (submit,
\* transition).
AnsweredStays ==
    [][\A id \in DOMAIN helps :
        /\ helps[id].status = "CANCELLED" => helps'[id].status = "CANCELLED"
        /\ helps[id].status = "RESOLVED" =>
            \/ helps'[id].status = "RESOLVED"
            \/ helps'[id].status = "OPEN" /\ submits' = submits]_vars

\* While the report counts as submitted, the question it asks is on record in
\* one of its requests, whatever became of that one, and never lost between a
\* submission and those who move the requests while it is made (submit).
QuestionIsKept ==
    submitted /\ asked # None =>
        \E id \in DOMAIN helps : helps[id].content = asked

\* Submissions never leave a second question open: of two open requests, one was
\* opened by a tick that was taken off, however the submissions and those who move
\* the requests come between each other (submit). The form counts on one that is open
\* (report-form.tsx:223).
OneIsOpen ==
    \A a, b \in OpenRequests : a # b => a \in unticked \/ b \in unticked

=============================================================================
