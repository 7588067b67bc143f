------------------------------ MODULE CarryOver ------------------------------
(***************************************************************************)
(* The work a reviewer carries over to a later day with the verdict "to be *)
(* continued" (daily-reports.service.ts): the reports of one member on     *)
(* several days, the reviews, and the rows of daily_report_carry_overs,    *)
(* which form chains over the days.                                        *)
(*                                                                         *)
(* A review reads the report, its latest revision and the rows around it,  *)
(* works out item by item which row each item of the request means, and    *)
(* then runs one transaction. A cancellation reads the row and then writes *)
(* it with a compare-and-set. Requests of other people come in between.    *)
(***************************************************************************)
EXTENDS Integers, SequencesExt

CONSTANTS
    Managers,     \* may cancel any row
    Reviewers,    \* other people who may review the member's reports
    Tasks,        \* tasks a report may refer to
    None,         \* no task: work that was typed in by hand
    Days,         \* the days with a report, the first ones of the calendar
    RestDays,     \* days that are not worked
    MaxSubmits,   \* bound of the submissions, of all the reports
    MaxReviews,   \* bound of the reviews
    MaxRows,      \* bound of the rows
    MaxItems      \* bound of the items of a review

Users == Managers \cup Reviewers

ASSUME CarryAssumption ==
    /\ IsFiniteSet(Users) /\ None \notin Tasks
    /\ Days # {} /\ Days \subseteq Nat /\ RestDays \subseteq Nat /\ Days \cap RestDays = {}
    /\ MaxSubmits \in Nat /\ MaxReviews \in Nat /\ MaxRows \in Nat /\ MaxItems \in Nat
    /\ IsFiniteSet(RestDays)

VARIABLES
    today,
    report,   \* the reports by day: latest revision, its tasks, whether it waits
    reviews,  \* daily_report_reviews of all the reports, in their order
    rows,     \* daily_report_carry_overs, in the order of createdAt
    req       \* the request each user has in flight

vars == <<today, report, reviews, rows, req>>

\* Acceptance and rejection carry nothing over; they are not told apart here.
Decisions == {"CONTINUED", "OTHER"}
RowIds == 1 .. MaxRows

Work == Tasks \cup {None}
Items == [chain : Nat, task : Work, confirm : 0 .. MaxRows]

NextWorkingDate(day) ==
    Min((day + 1 .. day + 1 + Cardinality(RestDays)) \ RestDays)

Idle == [op |-> "idle"]
Requests ==
    {Idle}
    \cup [op : {"review"}, report : Days, rev : Nat, to : Nat,
          allowed : SUBSET Tasks, around : SUBSET RowIds, items : SUBSET Items]
    \cup [op : {"cancel"}, row : RowIds, confirmedBy : Nat, seen : Nat]

TypeOK ==
    /\ today \in Days
    /\ report \in [Days -> [rev : Nat, tasks : SUBSET Tasks, waits : BOOLEAN]]
    /\ reviews \in Seq([report : Days, rev : Nat, by : Users,
                        decision : Decisions])
    /\ rows \in Seq([chain : Nat, from : Days, to : Nat, task : Work,
                     review : Nat, confirmedBy : Nat, cancelled : BOOLEAN])
    /\ Len(rows) <= MaxRows
    /\ req \in [Users -> Requests]

Init ==
    /\ today = Min(Days)
    /\ report = [d \in Days |-> [rev |-> 0, tasks |-> {}, waits |-> FALSE]]
    /\ reviews = <<>>
    /\ rows = <<>>
    /\ req = [u \in Users |-> Idle]

Live(id) == id \in DOMAIN rows /\ ~ rows[id].cancelled

\* The review that a row stands for: the one that confirmed it last, or the
\* one that made it.
Directive(row) == IF row.confirmedBy # 0 THEN row.confirmedBy ELSE row.review

-----------------------------------------------------------------------------
(* Mistakes this code could have made.                                     *)

\* Every live row of the member is one the report may continue.
LandsOn_AnyDay(id, day) == rows[id].from < day

\* The partial unique indexes are missing.
RowsFree_Unchecked(day, new) == TRUE

\* The number of rows confirmed is not compared with the number asked for.
AllLive_Unchecked(ids) == TRUE

\* The cancellation tests only that nobody cancelled the row before.
CancelClaim_ByRow(u) == Live(req[u].row)

-----------------------------------------------------------------------------
(* The member and the calendar.                                            *)

Tick ==
    /\ today # Max(Days)
    /\ today' = Min({d \in Days : d > today})
    /\ UNCHANGED <<report, reviews, rows, req>>

\* The member submits a report, or submits it again after it was reopened,
\* with the tasks its answers refer to.
Submit(day, tasks) ==
    /\ day <= today
    /\ ~ report[day].waits
    /\ MapThenSumSet(LAMBDA d : report[d].rev, Days) < MaxSubmits
    /\ report' = [report EXCEPT ![day] =
                    [rev |-> @.rev + 1, tasks |-> tasks, waits |-> TRUE]]
    /\ UNCHANGED <<today, reviews, rows, req>>

\* The report no longer waits for a verdict: it was reopened, or the cron job
\* closed its round (see ReviewCycle).
Close(day) ==
    /\ report[day].waits
    /\ report' = [report EXCEPT ![day].waits = FALSE]
    /\ UNCHANGED <<today, reviews, rows, req>>

-----------------------------------------------------------------------------
(* POST /daily-reports/:id/review.                                         *)

LandsOn(id, day) == rows[id].to = day

\* The live rows that land on the report, and those that leave from it.
Around(day) ==
    {id \in DOMAIN rows : Live(id) /\ (LandsOn(id, day) \/ rows[id].from = day)}

LoadReview(u, day) ==
    /\ req[u] = Idle
    /\ report[day].waits
    /\ req' = [req EXCEPT ![u] =
            [op |-> "review", report |-> day, rev |-> report[day].rev,
             to |-> NextWorkingDate(today), allowed |-> report[day].tasks,
             around |-> Around(day), items |-> {}]]
    /\ UNCHANGED <<today, report, reviews, rows>>

Incoming(u) == {id \in req[u].around : rows[id].from # req[u].report}
Outgoing(u) == {id \in req[u].around : rows[id].from = req[u].report}
IncomingOf(u, task) == {id \in Incoming(u) : rows[id].task = task}

UsedChains ==
    {rows[id].chain : id \in DOMAIN rows}
    \cup UNION {{item.chain : item \in req[u].items} :
                    u \in {v \in Users : req[v].op = "review"}}
FreshChain == Min((1 .. Cardinality(UsedChains) + 1) \ UsedChains)

\* The chain of an item: that of the row it continues, that of a row of its
\* task which lands on the report (the newest, if there are several), or a new
\* one.
ChainOf(u, task, previous) ==
    IF previous # 0 THEN rows[previous].chain
    ELSE IF task # None /\ IncomingOf(u, task) # {}
         THEN rows[Max(IncomingOf(u, task))].chain
         ELSE FreshChain

Confirmed(id) == [chain |-> rows[id].chain, task |-> rows[id].task, confirm |-> id]

\* A row that leaves from the report with the item's chain, or else with its
\* task, is confirmed; without one the item becomes a row.
Resolved(u, task, chain) ==
    LET sameChain == {id \in Outgoing(u) : rows[id].chain = chain}
        sameTask == {id \in Outgoing(u) : task # None /\ rows[id].task = task}
    IN  IF sameChain # {} THEN Confirmed(Max(sameChain))
        ELSE IF sameTask # {} THEN Confirmed(Max(sameTask))
        ELSE [chain |-> chain, task |-> task, confirm |-> 0]

\* One item per chain: a second one is passed over.
Push(u, item) ==
    /\ req' = IF \E other \in req[u].items : other.chain = item.chain
              THEN req
              ELSE [req EXCEPT ![u].items = @ \cup {item}]
    /\ UNCHANGED <<today, report, reviews, rows>>

\* resolveCarryOverItems: the next item names a row to confirm ...
ConfirmItem(u, id) ==
    /\ req[u].op = "review"
    /\ Cardinality(req[u].items) < MaxItems
    /\ id \in Outgoing(u)
    /\ Push(u, Confirmed(id))

\* ... or work to carry over, which may continue a row that lands here.
CarryItem(u, task, previous) ==
    LET work == IF task = None /\ previous # 0 THEN rows[previous].task ELSE task
    IN  /\ req[u].op = "review"
        /\ Cardinality(req[u].items) < MaxItems
        /\ previous \in Incoming(u) \cup {0}
        /\ task # None /\ previous # 0 => rows[previous].task \in {task, None}
        /\ work # None => work \in req[u].allowed \/ IncomingOf(u, work) # {}
        /\ Push(u, Resolved(u, work, ChainOf(u, work, previous)))

\* The partial unique indexes of the table: live rows of a report have
\* different chains and different tasks.
Distinct(row, other) ==
    /\ row.chain # other.chain
    /\ row.task = None \/ row.task # other.task
RowsFree(day, new) ==
    /\ \A item \in new, id \in DOMAIN rows :
            Live(id) /\ rows[id].from = day => Distinct(item, rows[id])
    /\ \A item, other \in new : item # other => Distinct(item, other)

AllLive(ids) == \A id \in ids : Live(id)

\* The transaction: the compare-and-set on the report, the review, the new
\* rows, the mark of the confirmed ones.
CommitReview(u, decision) ==
    LET day == req[u].report
        id == Len(reviews) + 1
        new == {item \in req[u].items : item.confirm = 0}
        confirmed == {item.confirm : item \in req[u].items \ new}
        made == [k \in 1 .. Cardinality(new) |->
                    [chain |-> SetToSeq(new)[k].chain, from |-> day,
                     to |-> req[u].to, task |-> SetToSeq(new)[k].task,
                     review |-> id, confirmedBy |-> 0, cancelled |-> FALSE]]
    IN  /\ req[u].op = "review"
        /\ (decision = "CONTINUED") <=> (req[u].items # {})
        /\ report[day].waits
        /\ \A k \in DOMAIN reviews :
                reviews[k].report # day \/ reviews[k].rev # req[u].rev
        /\ id <= MaxReviews
        /\ Len(rows) + Cardinality(new) <= MaxRows
        /\ RowsFree(day, new)
        /\ AllLive(confirmed)
        /\ report' = [report EXCEPT ![day].waits = FALSE]
        /\ reviews' = Append(reviews, [report |-> day, rev |-> req[u].rev,
                                       by |-> u, decision |-> decision])
        /\ rows' = [k \in DOMAIN rows |->
                        IF k \in confirmed /\ Live(k)
                        THEN [rows[k] EXCEPT !.confirmedBy = id]
                        ELSE rows[k]] \o made
        /\ req' = [req EXCEPT ![u] = Idle]
        /\ UNCHANGED <<today>>

-----------------------------------------------------------------------------
(* Cancelling a row.                                                       *)

\* carryCancelDenial: a manager, the reviewer who made the row, or the one who
\* confirmed it last.
MayCancel(u, row) ==
    \/ u \in Managers
    \/ reviews[row.review].by = u
    \/ row.confirmedBy # 0 /\ reviews[row.confirmedBy].by = u

LoadCancel(u, id) ==
    /\ req[u] = Idle
    /\ Live(id)
    /\ MayCancel(u, rows[id])
    /\ req' = [req EXCEPT ![u] =
            [op |-> "cancel", row |-> id, confirmedBy |-> rows[id].confirmedBy,
             seen |-> Len(reviews)]]
    /\ UNCHANGED <<today, report, reviews, rows>>

CancelClaim(u) ==
    /\ Live(req[u].row)
    /\ rows[req[u].row].confirmedBy = req[u].confirmedBy

CommitCancel(u) ==
    /\ req[u].op = "cancel"
    /\ CancelClaim(u)
    /\ rows' = [rows EXCEPT ![req[u].row].cancelled = TRUE]
    /\ req' = [req EXCEPT ![u] = Idle]
    /\ UNCHANGED <<today, report, reviews>>

\* A request is refused (a task of its items may be done or deleted by now),
\* loses its compare-and-set, hits an index or dies.
Abort(u) ==
    /\ req[u] # Idle
    /\ req' = [req EXCEPT ![u] = Idle]
    /\ UNCHANGED <<today, report, reviews, rows>>

-----------------------------------------------------------------------------
UserStep(u) ==
    \/ \E day \in Days : LoadReview(u, day)
    \/ \E id \in DOMAIN rows : ConfirmItem(u, id) \/ LoadCancel(u, id)
    \/ \E task \in Work, previous \in 0 .. Len(rows) : CarryItem(u, task, previous)
    \/ \E decision \in Decisions : CommitReview(u, decision)
    \/ CommitCancel(u)
    \/ Abort(u)

Next ==
    \/ Tick
    \/ \E day \in Days, tasks \in SUBSET Tasks : Submit(day, tasks)
    \/ \E day \in Days : Close(day)
    \/ \E u \in Users : UserStep(u)

Spec == Init /\ [][Next]_vars

-----------------------------------------------------------------------------
\* Work is carried over once: a report has at most one live row of a chain, and
\* at most one of a task, although a review decides between making and
\* confirming a row by rows it read earlier (resolveCarryOverItems,
\* reviewWriteSteps).
CarriedOnce ==
    \A i, j \in DOMAIN rows :
        /\ i # j /\ Live(i) /\ Live(j) /\ rows[i].from = rows[j].from
        => Distinct(rows[i], rows[j])

\* A chain goes from day to day without a gap: a row that continues an earlier
\* one leaves from a report on which a row of the chain had landed
\* (loadCarryRowsAround, resolveCarryOverItems).
ChainsAreLinked ==
    \A i \in DOMAIN rows :
        (\E j \in 1 .. i - 1 : rows[j].chain = rows[i].chain)
        => \E j \in 1 .. i - 1 : /\ rows[j].chain = rows[i].chain
                                 /\ rows[j].to = rows[i].from

\* A verdict "to be continued" has work that is carried over when it is given:
\* if an item was cancelled while the reviewer decided, the review leaves
\* nothing (reviewWriteSteps).
ContinuedHasWork ==
    [][Len(reviews') > Len(reviews) /\ Last(reviews').decision = "CONTINUED"
       => \E row \in ToSet(rows') :
            ~ row.cancelled /\ Directive(row) = Len(reviews')]_vars

\* Nobody takes back an instruction he had not seen: who cancels a row read it
\* after the review that it stands for (cancelCarryOver).
CancelledKnowingly ==
    [][\A id \in DOMAIN rows : Live(id) /\ rows'[id].cancelled
        => \E u \in Users : /\ req[u].op = "cancel" /\ req[u].row = id
                            /\ Directive(rows[id]) <= req[u].seen
                            /\ req'[u] = Idle]_vars

=============================================================================
