# Verification of the daily reports

TLA+ models of the parts of the repository that decide something together: how
a daily report comes to exist, the form it is written in, the review cycle, the
work a review carries over, the help requests a report makes, the lock of the
cron jobs, the outbox the notices leave through, the queue that hands
notifications from the web process to the workers, and the tasks of the
business forms. TLC checks each model on small instances, and TLAPS proves every
safety property that a run checks, and the refinement of the review cycle, for
every value of the constants.

Paths below are relative to `src/backend/src` unless they begin with `docs/`,
`prisma/` or `frontend/`.

## 1. The system

The repository is a NestJS backend on PostgreSQL (through Prisma), a web client
and a design library. The backend runs as several processes of the same code: web
replicas that answer requests, and processes in a background role that run
cron jobs and drain queues. They share nothing but the database. There is no
`SERIALIZABLE` transaction in the modelled parts. What keeps concurrent
requests apart is a compare-and-set (`updateMany ... where` followed by a test of
`count`), a unique index, `FOR UPDATE SKIP LOCKED`, or nothing.

| Component | Source | State | Operations | What makes it correct | Modelled |
|---|---|---|---|---|---|
| Report calendar | `daily-reports/helpers/report-date.helper.ts` | none | next working day, deadline of a review window, end of an edit window, the day's lock | the N-th working day, never off by one; a lock that does not open again | `ReportDates` |
| Report and review cycle | `daily-reports/services/daily-reports.service.ts`, `prisma/schema/daily-report.prisma` | `daily_reports`, answers, revisions, reviews | save, submit, review, reopen | one verdict per submission, the report shows the verdict its reviews record, nothing is edited while it counts as submitted | `ReviewCycle` |
| Expiry of review rounds | `daily-reports/crons/daily-report.cron.ts` | two columns of the report, one of the revision | `markExpiredReviews` | a round is decided or overdue, never both; a round nobody decides is closed | `ReviewCycle` |
| Cron job lock | `common/services/cron-job-lock.service.ts` and the callbacks of the cron file | `cron_job_locks`, one flag per job and process | acquire with takeover, release | one replica in the job; a dead one is replaced | `CronLock` |
| Notification outbox | `daily-reports/services/daily-report-outbox.service.ts` | `daily_report_notification_outbox`, `remindedAt` | enqueue, claim, deliver, mark | no notice twice, none lost, none marked that was not delivered | `Outbox` |
| Notification queue | `common/services/background-job.service.ts`, `notifications/notification-queue.service.ts` | `background_jobs`, the set `processing` of each worker | enqueue, claim a batch, run, mark, retry, clear | one worker per row, bounded attempts, no row waits for ever | `NotificationQueue` |
| Carry-over of unfinished work | `daily-reports/services/daily-reports.service.ts` | `daily_report_carry_overs`, in chains over the days | make, confirm, cancel | work is carried over once, chains have no gap, nobody cancels an instruction unseen | `CarryOver` |
| Help requests | `daily-reports/services/daily-report-help-requests.service.ts` and `submit` | one row per request | ask, withdraw, acknowledge, resolve, reopen, cancel | an answer is not undone, a question is not lost nor asked twice at a time | `HelpRequests` |
| Report generation | `daily-reports/services/daily-report-generator.service.ts` | the day's drafts, the notice of each | for the cron, a member, a leader, a reader | who owes a report is fixed; every draft is announced | `Generation` |
| Scopes and membership | `daily-reports/services/daily-report-scope.service.ts` | settings, members | create, update, archive | nothing is written for a scope that is off | `update` and `remove`, in `ReviewCycle` and `Generation` |
| Report form | `frontend/components/daily-report/report/report-form.tsx`, `frontend/hooks/queries/daily-report-queries.ts` | the text, a timer, a dirty flag, what was fetched | type, save, submit, reopen, hide, leave | a submission is what the screen showed; no text is lost in silence | `ReportForm` |
| Tasks of business forms | `business-forms/services/business-form-tasks.service.ts`, `business-forms-admin.service.ts` | tasks with a code, status, due date and stamps | create, edit by four doors, delete, restore, sweep reminders | codes are found, reminders come once and before their stamp | `FormTasks` |
| Reminders and summaries | `daily-reports/crons/daily-report.cron.ts` | rows of the outbox | enqueue at a time of the day | once per key, to those it concerns | no |
| Review groups | `daily-reports/services/daily-report-review-groups.service.ts` | groups of a scope | save, delete | names unique, count bounded, no lost update | no: each save holds a lock throughout |
| Business forms, assign groups, their reminders | `business-forms/services/*` | forms, groups | edit, publish, remind | one record each | tasks of a form's page, and the deletion of a group, in `Generation` |
| Templates, questions, KPIs, mail templates | `daily-reports/services/*` | one record each | edit | none across records | no |
| Notifications and counters | `notifications/notification.service.ts` | notifications, counters | create once per key, count | counters follow the rows | external in `Outbox` |
| Gamification | `gamification/**` | point awards | award | totals follow the awards | no: no module provides it |
| Drafts, previews, activity log, mail, cache, authentication, administration, database access, other screens | see PROJECT.json | | | | no |

### How the components interact

- A request of a user reads the report and its scope, checks what it read with
  the calendar, and runs one transaction. Other requests and the cron job may
  move between the two.
- The cron job runs every minute or five, under a row of `cron_job_locks` and a
  flag of its process. It closes review rounds, enqueues reminders and
  summaries into the outbox, and works the outbox off.
- The outbox is written in the transactions of the review cycle too (a verdict, a
  reopening), with a key made of the event, so that it holds each notice
  once. It delivers through the notification service, whose idempotency key is
  unique, and through the mail provider, which gets the key.
- A review that sends work on writes carry-over rows in its transaction, and a
  submission reconciles the help requests in its own. Both work out what to write
  before; helpers, reviewers and owners change the same rows by requests of their
  own.
- The form talks to `saveAnswers`, `submit` and `reopen` over a network that may
  pass one request by another, and learns of the report's status by fetching it again.
- The queue takes notifications of the rest of the backend. The web process
  inserts rows and the background processes poll for them.

### What is hard here

- *Reads before a transaction.* `submit`, `review` and `reopen` decide by a
  report, a scope, a clock and (in `review`) a revision that were read before the
  transaction. The compare-and-set names some of the columns read, not all.
- *Two columns for one fact.* The report copies the verdict of a review and the
  deadline of its latest revision. Four writers must keep the copies right.
- *Leases.* The lock and the outbox have a lease that nothing renews. A job may
  take longer.
- *Names reused.* The lock knows its holder by `HOSTNAME-pid`, which a later
  callback, or a restarted container, shares.
- *At least once.* A process may die between a delivery and its mark, and an
  answer may be lost when the work was done.
- *Count, then insert.* The codes of tasks are counted before they are inserted;
  whether a day has drafts, and which are missing, is read before they are created.
- *Send, then stamp.* The reminder sweep notifies a batch and marks it afterwards.
- *A text in two places.* The form sends a draft from a timer and the text with the
  submission, and lowers its dirty flag before it knows whether either arrived.
- *Days.* Deadlines count working days of a scope, from days that may be rest
  days, and everything ends at a cutoff within a day.

PROJECT.json lists every hazard with its line, and the properties that would
notice it, or a note that says why none does.

## 2. The modules

| Module | Stands for | Uses |
|---|---|---|
| `ReportDates` | the calendar functions | |
| `ReviewCycle` | one report: requests, cron job, scope, clock | `ReportDates` |
| `ReviewLedger` | what the review cycle promises, without requests or clocks | |
| `ReviewRefinement` | the mapping of `ReviewCycle` to `ReviewLedger` | both |
| `ReviewClaims` | a sentence of the schema the code does not keep | `ReviewCycle` |
| `CarryOver` | the reports of a member on several days, their reviews, the carry-over rows | |
| `HelpRequests` | one report, its submissions and its help requests | |
| `Generation` | the drafts of one scope on one day, and who makes them | |
| `ReportForm` | the form of one report, the network, the server's handlers | |
| `FormTasks` | the tasks of one day, the requests that write them, the reminder sweep | |
| `CronLock` | one lock row, the callbacks of several processes | |
| `Outbox` | the outbox rows and their workers | |
| `NotificationQueue` | the background jobs of one type and their workers | |
| `MCReportDates`, `MCReviewCycle`, `MCOutbox`, `MCFormTasks` | instances for TLC | the module named |
| `ReviewCycleProofs` | theorems, with those of the calendar and of the refinement | `ReviewRefinement`, `MCReportDates`, TLAPS |
| `DraftProofs` | theorems of how a draft comes to be and how it is written | `Generation`, `ReportForm`, TLAPS |
| `CronLockProofs`, `OutboxProofs`, `NotificationQueueProofs`, `CarryOverProofs`, `HelpRequestsProofs`, `FormTasksProofs` | theorems | the module named, TLAPS |

`ReportForm` and `MCReportDates` say `FormInit`, `CalendarSpec` and the like where the other
modules say `Init` and `Spec`, because their proofs stand beside those of another module.

Each component module has a section of *mistakes*: variants of its definitions,
used by no action. PROJECT.json pairs each property with the variant it
notices, so that a property nothing could violate does not stay unseen.

### ReportDates

An instant is a number, a day is `DayLen` instants, day 0 is a Monday. A scope's
settings are its working days and its window. There is one time zone. The
default zone of the feature, Asia/Ho_Chi_Minh, has no daylight saving time, so
the conversions between an instant and its day and minute are division and
remainder. `NextWorkingDate` is the loop of `nextWorkingDate`, whose bound is a
week; `ReviewDeadlineAt` repeats it as a recursive function.

### ReviewCycle

| Variable | Code |
|---|---|
| `report` | the row of `daily_reports`: status, `isResponse`, `firstSubmittedAt`, `reviewDecision`, `reviewedById`, `reviewedRevisionNumber`, `editableUntil`, `reviewDeadlineAt`, `reviewExpiredAt` (set or not) |
| `answers` | what the answer rows say together |
| `revisions` | `daily_report_revisions` in the order of their number |
| `reviews` | `daily_report_reviews` |
| `scope` | working days, `reviewWindowDays`, `isEnabled` |
| `req[u]` | the local variables of the request of user u, between its reads and its transaction |
| `sweep` | whether the report is in the list `markExpiredReviews` has read |
| `now` | the clock |

| Action | Code |
|---|---|
| `LoadSave`, `CommitSave` | `saveAnswers`: checks, then the transaction |
| `LoadSubmit`, `CommitSubmit` | `submit` |
| `LoadReview`, `LoadRevision`, `CommitReview` | `review`: the report and the scope, the latest revision in another query, the transaction |
| `LoadReopen`, `CommitReopen` | `reopen`, with its four ways in |
| `Abort` | every way in which a transaction leaves nothing |
| `UpdateScope`, `ArchiveScope` | `update` and `remove` of the scope service |
| `SweepFind`, `SweepMark` | `markExpiredReviews` for this report |
| `Tick` | time; a request older than `RequestLife` was cut off |

A transaction is one step. Its first statement is an `updateMany` on the report's
row, whose lock it keeps, and every other transaction on the report begins in the
same way, so nothing of the report moves inside it. The report and the scope of a
request are read in one step: the requests read them one after the other, but
the report's checks do not depend on which is first, and the settings may change
before or after. A user has one request in flight. The rows that the same
transactions write for carried-over work and help requests are not read by the
review cycle; they are `CarryOver` and `HelpRequests`, which keep of the report
only what those rows depend on.

`ReviewLedger` says the same without requests: rounds that are opened by a
submission and closed at most once, an outcome that stays until the next round.
It lets a verdict go to an earlier round than the last, because the code does.

### CronLock

`lock` is the row of one job. `flag[i]` is the field `isSweeping` (or its sisters) of
process i. `run[p]` is a callback: where it is, the time it read before the
query, and `covered`. That field is history: it is true from the write of the row
until the callback's own process writes or deletes the row for another callback.
`Fire`, `Reclaim`, `Create`, `Begin`, `End`, `Release` are the statements of a
callback and of `tryAcquireLockWithCleanup` and `releaseLock`, one step each. `Fail`
is a query that throws. `Crash` ends a process and starts another one under
the same name, as a container does that keeps its `HOSTNAME` and its pid.

### Outbox

`row`, `reminded` and `delivered` are the table, the stamp `remindedAt` and what
the recipient got. `worker[w]` is the local state of `processDue`: the rows left of
the lot, those it will find expired, the attempts it read, and the outcome of the
delivery in hand. Times are kept as what is left of them, so that the clock needs
no bound: `wait` until `nextAttemptAt`, `life` until `expiresAt`. The code reads the
clock once for a lot, so expiry is decided in `Claim`, and a retry's delay counts from there (`Left`).
`Deliver` may work and report an error, and so may the mark: `markSent` is
called inside the `try`, so a mark that was committed without an answer (`Unanswered`) leads to the catch,
which writes the row by its id (`MarkFailed`). `Received` is the
unique idempotency key of notifications, and that of the mail provider, which is
external. `Crash` is the death of a process, or an error outside the `try`, which
ends the lot. The two kinds of notice have lists of delays of different lengths in the
code; the model has one list.

### NotificationQueue

`job` is `background_jobs`, numbered by `createdAt`. `created` counts the
notifications made of a row: there is no idempotency key here. `worker[w]` has
the answer of a claim that is on its way and, for each row, where its run is.
`Claim` is one statement (`UPDATE ... FROM (SELECT ... FOR UPDATE SKIP LOCKED)`),
so it is one step. `Dispatch` starts the runs and passes over rows that are in
`processing`, which a run leaves only one step after its mark (`Leave`). `Create`,
`MarkDone` and `MarkFailed` may fail before or after they did their work.
`RetryItem` and `ClearQueue` are the operator's. A worker has one poll under
way at a time; in the code the one-second timer could start a second one while a
claim takes longer than that.

### CarryOver

`report[d]` is the report of day d (latest revision, the tasks it names, whether it
awaits a verdict), `reviews` the reviews of all days, `rows` the table in the order
of `createdAt`, `req[u]` what a request has read. `LoadReview` reads the report, the
revision and the rows around it; `ConfirmItem` and `CarryItem` are the two branches
of `resolveCarryOverItems` for one item of the request, and `CommitReview` the
transaction with its partial unique indexes (`RowsFree`), its confirmation of rows
(`AllLive`) and the new rows. `LoadCancel` and `CommitCancel` are `cancelCarryOver`, whose
compare-and-set names the confirmation it has read. `Submit` and `Close` are the member's
submissions and the end of a report's wait by the other decisions.

### HelpRequests

`helps` is the table of one report by `createdAt`, `resolved` the order of `resolvedAt`,
`notices` the keys in the outbox. `tx` is the transaction of `submit` that holds the lock of
the report's row: `Claim` takes it and finds the open request, `FindResolved` reads the one
resolved last, `CommitSubmit` writes. Between them `Acknowledge`, `Resolve`, `Reopen` and
`Cancel` (`transition`, one compare-and-set each) change the rows, which nobody locks. `NewestOpen` is the
query for the open request. `unticked` is history: the requests that were resolved and opened again.

### Generation

`call[c]` is a run of `ensureReportsForScope` with its options and the instant whose members
it takes: `Begin`, `ReadExisting`, `CreateReports` and `EnqueueReady` are its statements.
`RunGeneration`, `EnsureReportsForUser`, `GenerateTodayForScope` and `EnsureReportsForRead` are
the four callers. `periodsAt` is chosen at the beginning: any people at any instant, which is what
the periods of memberships (or the rows of a team) record. The owner of a group is a member by the row of the
group, whichever instant is asked for, if the group was there by then; `RemoveGroup` deletes that row, and he is
no member of any instant any more, unless he has a period of his own. The day has three instants: before 07:30,
07:30, and after it.

### ReportForm

The form's state is the text, `dirtyRef`, the timer, whether the form is mounted, the status it has
fetched and whether a submission is pending. `net` and `answers` are bags of requests and
answers on their way: any of them may be next, and a bounded number is lost. `told` is the last
text whose loss a message told the member of. `Handle` is `saveAnswers`, `submit` or `reopen`, each with
its compare-and-set. The text is the number of the last key typed, so that an older text is a smaller one.

### FormTasks

`tasks` is the table: code of the day, status, due date, the two stamps, and whether the row is in the list,
in the bin, or gone. A creation counts (`CreateTask`, `Recount`) and inserts (`Insert`, or `Clash` on the
unique index, five times in the code). `UpdateTask`, `UpdateTaskStatus`, `AdminUpdateTask`, `AdminUpdateStatus`
and `FormUpdateTask` write the row by its id, and nothing they have read before enters what is modelled of it,
so each is one step; a due date that is sent resets the stamps, the same date or another, except on the page of
a form. The columns of the completion are left out (section 5).

`StartSweep`, `ReadBatch`, `SendBatch` and `StampBatch` are the sweep, for each of its two variants, under the
flag `isReminderSweepRunning`, which is a field of one process: `running[p]`, and `Home` says in which process a
sweep runs. `sweepDeadlineReminders` has no caller in the repository (a comment has a central cron call it), so any
number of sweeps may start in any process. Two variables are history. `reminded` counts the
reminders of a task by each process since the stamps were last reset; `crossed` has the stamps that were on
their way when that happened. The day begins without a task.

## 3. What TLC checks

| Run | Question | Instance | States |
|---|---|---|---|
| `calendar` | do the calendar functions mean what they are for? | all 127 sets of working days, windows 0 to 4, every instant of eight days of two instants | 10 795 |
| `review_race` | do reviewers, owner and cron job keep one verdict and one round per submission, and implement the ledger? | owner, two managers, one secondary reviewer; two requests in flight; two submissions; days of three instants up to instant 7 | 1.4 million |
| `review_edit` | is what was submitted what a reviewer reads, in time, for ever, and is an overdue round closed? | owner and carer; two contents; three submissions; a scope that rests on Tuesday, may be disabled, and changes its window between one and two days | 1.6 million |
| `lock` | is one replica in the job, and is a dead one replaced? | two instances with two callbacks each, any number of crashes | 0.4 million |
| `outbox` | is every notice delivered once and ended? | a reminder and a notice, two workers, one crash, delays 1 and 2, lease 3, lots of up to 2 minutes | 53 thousand |
| `queue` | are rows drained by one worker, in bounded attempts, and claimed in the end? | two rows, two workers, batches of two, two attempts, one retry, one fault | 1.0 million |
| `help` | does a submission keep questions and answers, and one question at a time, while the requests are moved? | the member and a helper, two questions, three requests, three submissions | 1.4 million |
| `carry` | is work carried over once, in chains without a gap, and never cancelled unseen? | a manager and a reviewer, one task and typed work, two days with a rest day after them, three submissions, two reviews, two rows | 4.5 million |
| `generation` | is who owes a report fixed, and is every draft announced? | two people with any periods at two instants, one of them the owner where there is a group, the cron and two other calls, two changes of the scope and its group, one crash | 2.5 million |
| `form` | is a submission what the screen showed, and is no text lost in silence? | two keys, a reopening, a lost request or answer, the page hidden once | 0.2 million |
| `tasks` | are codes found, reminders sent once, and stamps true? | three tasks, two creations at a time, two processes, two sweeps in one and one in the other with batches of one, two due dates, three requests and faults together, at most one a fault | 3.6 million |
| `f_verdict_latest` | a sentence of the schema that the code does not keep (section 6) | the smallest instance that shows it | |

What each run checks is in PROJECT.json; each property states in its comment
which behaviour it is about.

**Why the bounds are enough.** The races of the review cycle are between the
reads of one request and what others commit before its transaction. Two requests
in flight, the cron job between its two steps, and two submissions show every
pair, and a request that meets a *later* submission than it read. Three instants per
day are before the cutoff, the cutoff, and after it; eight instants reach a
deadline, an edit window that passes, its extension, and a deadline in that.
`RequestLife` lets a request cross the cutoff. The lock needs two instances to
race and two callbacks of one instance to reuse its name; one more of either
repeats what the first two do. In the outbox the lease (3) is longer than the
longest lot (2), as five minutes are meant to be longer than a lot of 100, and the life
of a reminder (1) is shorter, so that rows expire before, in and after a lot. In
the queue two rows and batches of one or two show order and fullness; the second
attempt is the last one.

Three requests for help let one be answered, one withdrawn and one asked anew, and
a request reopened while another is open. Two days, two rows and two reviews show every pair
of a review and a cancellation, and the shortest chain; a chain of two rows has all the links
there are. In `generation` an instant before, at and after 07:30 tell apart the memberships a
call could take (nobody asks for the one before), two calls and the cron are one more than a race needs, and a crash falls
between any two statements. In `form` two keys are an older and a newer text, and one lost message
is one more than the code promises to survive. Three tasks are one there, one created and its
rival; a count that goes wrong by one deleted row shows with three. Two due dates let an edit send the same date or
another one, three events are what the shortest give-up, a crossed stamp and a reminder that a crash repeats need, and
two sweeps in one process and one in another show what the flag keeps apart and what it does not. For the
properties that are proved (section 4), the bounds do not matter.

**Bounds in guards.** `MaxNow`, `MaxRevisions`, `MaxInflight` and `RequestLife` in
`ReviewCycle`; `MaxNow` in `CronLock`; `MaxCrashes` in `Outbox`; `NumJobs`,
`MaxRetries` and `MaxFaults` in `NotificationQueue`; `MaxRequests` and `MaxSubmits` in
`HelpRequests`; `MaxSubmits`, `MaxReviews`, `MaxRows` and `MaxItems` in `CarryOver`; `MaxNow`,
`MaxUpdates`, `MaxCrashes` and `MaxStarts` in `Generation`; `MaxText`, `MaxReopens`, `MaxLost` and
`MaxHides` in `ReportForm`; `MaxNow`, `MaxFaults` and `MaxEvents` (requests and faults) in `FormTasks`. Deadlock is
not checked where the system may stop: an archived report, an empty queue, a form that
was left, or a model whose users have used up their bounds and owe nothing more.

**Symmetry** is used for the two managers of `review_race`, and for the tasks, requests
and the two sweeps of one process of `tasks`; neither run has a liveness property.

**Fairness.**
- `ReviewCycle!FairSpec`: the clock and the five-minute cron job go on. Users owe
  nothing. The scheduler of the framework fires the callback for as long as a
  process runs; that some process gets the lock is what `lock` shows.
- `CronLock!FairSpec`: one instance, the survivor, is started again whenever it
  stops, and a query it repeats succeeds some day (strong fairness of `Reclaim` and
  `Release`, which crashes and failures may interrupt). Nothing is asked of the others.
- `Outbox!FairSpec`: the cron comes back every minute and a lot goes on unless its
  process dies, which happens a bounded number of times. Deliveries may fail for
  ever.
- `NotificationQueue!FairSpec`: the poll comes back every second and a run goes on;
  the bound on faults means that the database does not stay away for ever. No
  one has to enqueue, retry or clear.
- `Generation!FairSpec`: the catch-up of every five minutes comes again for as long as the scope is
  enabled, and is not kept from its end for ever; crashes are bounded. Nobody else has to call.
- `ReportForm!FormFairSpec`: the timer fires, what was sent is handled, and its answer is received or
  counted as lost, which `fetch` reports as an error. The member need not do anything.

## 4. What is proved

TLAPS checks the following for every value of the constants that the named
assumptions allow: any people, contents, settings, numbers of instances, workers
and rows, and any bounds.

| Theorem | Property | Needs |
|---|---|---|
| `ReviewCycleProofs!TypeCorrect` | `TypeOK` | |
| `ReviewCycleProofs!VerdictCorrect` | `VerdictHasItsReview` | |
| `ReviewCycleProofs!RoundClosedOnce` | `DecidedOrOverdue` | |
| `ReviewCycleProofs!RoundCorrect` | `RoundOfLatest` | |
| `ReviewCycleProofs!FrozenCorrect` | `FrozenWhileSubmitted` | |
| `ReviewCycleProofs!VerdictsStand` | `VerdictStands` | |
| `ReviewCycleProofs!HistoryIsKept` | `HistoryStands` | |
| `ReviewCycleProofs!TimeCorrect` | `TimeInv`, of the proofs | |
| `ReviewCycleProofs!FirstInTime` | `FirstSubmissionInTime` | |
| `ReviewCycleProofs!WindowsStand` | `OpenWindowStands` | |
| `ReviewCycleProofs!LateWritesCorrect`, `ClosedCorrect` | `LateWritesHaveWindow`, `ClosedForCause`, of the proofs | |
| `ReviewCycleProofs!DeadlineCorrect`, `WindowCorrect` | `DeadlineIsNthDay`, `EditWindowIsOpen` | |
| `ReviewCycleProofs!DeadlineIsRight`, `EditWindowOpens`, `DeadlineIsMonotone`, `LockStands` | of the functions of `ReportDates`, without a state | |
| `ReviewCycleProofs!LedgerImplemented` | `ImplementsLedger` | |
| `CronLockProofs!HolderCorrect`, `ReplicaCorrect`, `TakenCorrect` | `HolderKeepsRow`, `OneReplica`, `TakenWhenExpired` | |
| `CronLockProofs!ExpiryCorrect` | `ExpiryIsNear`, of the proofs | |
| `OutboxProofs!OnceCorrect`, `SentCorrect`, `TimelyCorrect` | `DeliveredOnce`, `SentIsTrue`, `ReminderIsTimely` | |
| `OutboxProofs!LeaseCorrect`, `FinalCorrect` | `OneWorkerPerRow`, `FinalStays` | `LotTime < Lease` |
| `OutboxProofs!AttemptsCorrect` | `AttemptsBounded`, of the proofs | |
| `OutboxProofs!CountedCorrect` | `AttemptsCounted`, of the proofs | `LotTime < Lease` |
| `NotificationQueueProofs!DrainedCorrect`, `CopiesCorrect`, `DoneCorrect`, `GiveUpCorrect` | `DrainedOnceAtATime`, `CopiesCounted`, `DoneIsNotified`, `GivesUpInTime` | |
| `NotificationQueueProofs!FreshCorrect` | `FreshIsDrained`, of the proofs | |
| `CarryOverProofs!OnceCorrect`, `LinkedCorrect` | `CarriedOnce`, `ChainsAreLinked` | |
| `CarryOverProofs!ContinuedCorrect`, `KnowinglyCorrect` | `ContinuedHasWork`, `CancelledKnowingly` | |
| `HelpRequestsProofs!KeptCorrect`, `OneOpenCorrect`, `AnsweredCorrect` | `QuestionIsKept`, `OneIsOpen`, `AnsweredStays` | |
| `DraftProofs!ObligationCorrect` | `ObligationIsFixed` | |
| `DraftProofs!AnnouncerCorrect` | `CreatorAnnounces`, of the proofs | |
| `DraftProofs!ShownCorrect` | `SubmittedAsShown` | |
| `DraftProofs!SubmitsOnce`, `TextKept` | `OneSubmit`, `TextIsKept /\ DirtyHasTimer`, of the proofs | |
| `FormTasksProofs!ClashCorrect`, `RemindedCorrect`, `StampedCorrect` | `ClashNeedsRival`, `RemindedOnce`, `StampedWasReminded` | |
| `TypeCorrect` of `CarryOverProofs`, `HelpRequestsProofs`, `DraftProofs`, `FormTasksProofs` | `TypeOK` | |
| `DraftProofs!FormTypeCorrect` | `FormTypeOK` | |

`TypeOK`, `FormTypeOK`, `GivesUpInTime` and the properties that the table says are of the proofs
are proved and checked by no run: the proof says more than an instance could. The type invariants of
`CronLock`, `Outbox` and
`NotificationQueue` are conjuncts of the invariants that `LockSafety`, `OutboxSafety` and
`QueueSafety` prove.

The assumptions are those that the modules state of their constants: constants have
their types, SQL NULL is none of the values, bounds are numbers, a day has instants, a
scope works on some day. Of the newer ones,

- `CarryAssumption` has finitely many users and rest days, and a report's day is no rest day;
- `HelpAssumption` tells no question from the questions, and no user from the users;
- `GenerationAssumption` has 07:30 within the day, and tells the cron job from the other callers;
- `TasksAssumption` has finitely many tasks in a day, what a request may set is a status and a due
  date of the enumerations its DTO validates (or leaves alone), and a creation has at least one attempt.

**Review cycle.** The invariant is `TypeOK` with the four safety properties together;
none is inductive alone. A review is stored on the revision its request read, which
need not be the latest. That the report still copies a stored review after it
follows from the compare-and-set (nobody decided, nobody closed the round) and
from the unique revision; that a verdict on the *latest* revision is never missing
from the report is what makes a new submission free of reviews. The last conjunct
of `TypeOK`, that a request names a revision that exists, is needed for that.
`FrozenWhileSubmitted` needs `VerdictHasItsReview` in the step of a review:
a report that is reopened by a rejection leaves the submitted state in the
same step.

The history (`HistoryStands`) follows step by step from the types and from a revision that
is only ever closed. What concerns the clock has an invariant of its own, `TimeInv`: a request
in flight is at most `RequestLife` old; a submission in flight read a report with no first
submission before the hard stop, or carries one that was in time; and a reopening
that extends an edit window has seen it end, or there was none. From the last part and the
compare-and-set on `editableUntil` follows `OpenWindowStands`.

`LateWritesHaveWindow` says what the hard stop is for once there are edit windows. A save checks
the lock before its transaction, and the transaction only that the report can be written; the report may have been
submitted, rejected and reopened in between. The invariant (`LateInv`) says what a save or a submission
that is under way would find: one let in after the hard stop finds a report reopened with a window that
ended at most the life of a request before it, or none; and without a window only the owner reopens, before
the hard stop. A window that somebody gives is later than his own reads, so it suits every request that is
under way with him (`GivenMayWrite`). Hence the two lives in the statement: one for the request that
gave the report back without a window, or lets a writer in, and one for the writer.

`ClosedForCause` is what remains of "a round is closed because it is overdue". What the job lists was due
(`FindsDue`), but it marks the rounds later without the deadline in its compare-and-set; so the
deadline that passed may be that of a submission before the latest. Deadlines stay, as submissions
are only added (`RevisionsStep`), and they are numbers because `DeadlineIsRight` says which.

**Calendar.** The next working day is less than eight days off because seven days in a row
have every weekday; `EditWindowOpens` is that. `DeadlineIsRight` is an induction over the number of
days, for a recursive function. That function exists because each beginning of it does, and longer ones continue
shorter ones (`CountExists`). The count is right for all numbers: otherwise a least one is wrong (`LeastOf`), which is not
0, and the one before it is right, so that the working days up to the next one are one more
(`OneDayMore`). `DeadlineIsMonotone` counts: were the later deadline on an earlier day, its
working days would be a proper part of the earlier one's, and as many. The theorems about
`MCReportDates` follow for calendars and windows of any length.

The refinement is proved step by step: the rounds that `ReviewRefinement` reads off the
revisions and reviews are described by two facts in every state (`VerdictsRead`,
`RoundsRead`), which the types and `VerdictHasItsReview` imply, and each action is then a step of the ledger
(a submission opens a round, a
review gives a verdict, the cron job ends a window) or a stutter.

**Cron lock.** Who takes an expired row read a time after its expiry, so the
holder is out of its time; for this the invariant says that nobody read a time
that is still to come (`CoveredSince`). `OneReplica` follows from `HolderKeepsRow`:
two that hold it would have written the same row, and one instance has one such
callback (`OneCovered`). The row's expiry counts from a time somebody read, which is not
to come, so a row whose instance died is free within its time to live (`ExpiryIsNear`).

**Outbox.** `DeliveredOnce` and `SentIsTrue` need only that a delivery reported
as good has arrived, and hold for lots that outlive their lease. `OneWorkerPerRow` and
`FinalStays` need the lease: a row in a lot is put off by at least what is
left of it, or was marked by the worker that has it in hand and got no answer (`PutOff`). `ReminderIsTimely`
does not: a row that somebody is to deliver had not expired
when the lot was claimed, so it has been expired for less time than the lot has taken
(`NotLongExpired`). A failure writes what the worker knew of the attempts when it claimed the lot, so two workers
of one row may lose a count. All the same, no row waits with more attempts than there are delays, and a row is
given up with one more (`AttemptsBounded`), because what a worker knows was in these bounds too (`LotBounded`). With the
lease nobody else writes a row of the lot, so what the worker knows is what the row says but for such a mark
(`LotIsCurrent`), and no
attempt gets lost (`AttemptsCounted`).

**Notification queue.** `DrainedOnceAtATime` needs that the answer of a claim
meets no run of the same worker (`ClaimFindsNoRun`); `CopiesCounted` that every
copy made before the next creation has been paid for by a counted failure, and
that a row somebody drains has attempts left (`CopiesPaid`). `FreshIsDrained` says what the queue
does promise of a claimed row: until a fault, a failed attempt or a retry it has a worker. It would not hold of a row that
was put back, which may be passed over because its first run has not left `processing` (section 5); of a fresh
row no worker has a run when it is offered, nor when its claim arrives (`FreshIsOut`).

**Carry-over.** A review resolves its items from the rows it has read, and writes them after
others may have written theirs. The indexes alone give `CarriedOnce`, because they
see the rows as they are at the commit. A gapless chain needs more: every new row of a review in
flight continues a chain that has a row landing on the report, which a cancellation does not
take away, or begins a chain that is in no row and in no other review's items
(`ItemsStand`); the items must be finitely many to be numbered. `CancelledKnowingly` rests on
`CancelSeen`: the confirmation that a cancellation read, and compares again in its
compare-and-set, is of a review that it has seen.

**Help requests.** Helpers move the rows between the statements of a submission. What the submission
found is still a row when it commits, and the question it read last is still on record
(`FoundStands`), since a transition changes only status and times. `OneIsOpen` is about what the transaction did
not find: while it goes on without an open request, the only requests that can have become open are those whose
tick was taken off (`NoneAsked`), because a new one is made by a submission and the lock of the report lets no other in.

**Generation.** For a scope that existed at 07:30, every call under way asks for the members of 07:30
(`CallsOfTheMorning`), and what a call is about to create are members of 07:30, among them all who
have no report yet (`MissingCompletes`), and at most the owner besides if the group was deleted after the call
read (`LostOwner`). The second stays true while others create, since reports are
only added; and so the call that creates leaves either all of them or what was there. From the same facts
follows who announces (`CreatorAnnounces`): whoever does not announce reads the board and goes on only where
there is a report (`ReadersRequire`), and then none is missing, so he never creates; and whoever creates has
the enqueueing
before him, which only a crash takes away.

**Form.** Every draft and submission on its way carries what the screen showed when it was sent (`CarriesText`),
and a draft that arrives late meets a submitted report and is refused; `SubmittedAsShown` follows. That no text
gets lost in silence needs more, since a submission of a report that is submitted already is answered as if it had
been stored: one submission at most is under way, as a request or as its answer, and the form waits for it
(`OneSubmit`); and unless an acceptance was lost, a submission on its way finds a report that can be
edited (`Aware`). Messages are bags, so the lemmas say what one message more or less does to a bag's
domain and to its submissions (`MessageAdded`, `MessageTaken`, `SubmitsAdded`). `TextKept` is the safety half of
`TextArrives`: the last text is stored, told of, on its way, or dirty under a timer. The
liveness half, that it does not stay under way, is the run's.

**Tasks of forms.** A creation has its task to itself (`Creating`). For the reminders: a process has one sweep
running (`OneSweep`); a batch is of tasks that are there or were (`Batches`); what a process sent more often than
faults can explain is stamped, or about to be stamped by its sweep (`Counted`); what is about to be sent was not sent
by that process, but for faults (`Unsent`). Every stamp, and every batch on its way
to be stamped, has a reminder behind it, or its due date was sent in between (`Backed`).
For the codes: no code of the day exceeds the number of tasks, a counted code is at most one more, and a
creation whose code is taken has met a rival it has not lost an attempt to yet (`FairTry`). A task
that is deleted for good breaks this, so the invariant is `Purged \/ FairCodes`.

**Only model-checked.**
- Liveness (`OverdueIsClosed`, `DeadHolderIsReplaced`, `NoticeEnds`, `PendingIsClaimed`,
  `DraftIsAnnounced`, `TextArrives`) and fairness are out of the prover's reach: they need `ENABLED`.
  What a state must satisfy for them is proved where there is such a thing: `ClosedForCause`, `ExpiryIsNear`,
  `AttemptsBounded`, `CreatorAnnounces` and `TextIsKept`. `FreshIsDrained` takes over where `PendingIsClaimed`
  ends.
- The proofs of the review cycle use deadlines and edit windows as opaque values of the type they span,
  where the theorems on the calendar are not cited.
- `VerdictIsOnLatest` is false, and `f_verdict_latest` shows why.

## 5. What is abstracted or left out

- *Contents.* Answers are one value; `Blank` fails the required question. Reasons,
  comments, names and texts are not modelled.
- *Roles* are constants. A request is checked against the roles of its beginning, as
  in the code, but they do not change.
- *The cutoff* is a constant of the calendar; the code keeps it in the scope, read
  with the report.
- *Requests end.* A request is cut off `RequestLife` instants after its reads. The
  code has no such limit of its own; the HTTP server and the transaction's timeout
  have. `FirstSubmissionInTime` and `LateWritesHaveWindow` depend on it.
- *Reports submitted before there was a review cycle* have no deadline and are left out;
  `submit` always writes one.
- *One job* in `CronLock`. The jobs share no row. Whether a callback that outlives
  its lock does harm is a question to the job: `ReviewCycle` lets its cron job
  stamp at any later time, `Outbox` lets several workers work at once.
- *The provider.* Notifications are unique by key in the database. That mail with the
  same key is sent once is what the code relies on, not something it does.
- *One day, one scope, one report* each in `Generation`, `ReportForm` and `HelpRequests`; one member in
  `CarryOver`; one day's codes in `FormTasks`. Nothing in the code ties two of them together, except that a
  lot of the cron goes through the scopes one after the other.
- *Memberships* are given (`periodsAt`). The periods of the groups are only read in this repository. The
  owner of a group is taken from its row (`daily-report-scope.service.ts:153`), which `RemoveGroup` deletes; nothing
  changes who he is.
- *The completion of a task* (`completedAt`, `completedById`) is left out. Four doors write it, one from the status
  it read before its transaction and two without keeping it in step with the status, so what could be said of it that
  holds is what a single assignment does (sections 5 and 6 have the rest).
- *The answer of a form to a submission that failed in the network* is a message to the member; `ReportForm` counts it
  as told also when the page is being left.
- *Assignees, items and comments of a task* are left out. Each is a list that a request replaces by what it
  was sent, merged with what it read before; two such requests overlap freely, and there is no sentence
  about what should come of it.
- *A transaction that reads what others may change while it runs* is one step where it holds the lock of the
  report's row and all the others take it first. In `submit` the help requests are not under that lock, so
  there it is three.

### Not modelled, and why

The modelled code is some four thousand lines of the repository's 146 thousand. Most of the rest has
nothing that a model could be about:

- *Screens* (`frontend/components`, 42 thousand lines) show what the queries return. `ReportForm` is the
  one that keeps something of its own while requests are under way.
- *Mail and its templates* (34 thousand lines), texts of notices, exports, previews and drafts turn data
  into text.
- *Lists, boards, statistics, history* are queries. What they write in passing is `EnsureReportsForRead`.
- *DTOs, enums, schema files, guards, modules* are declarations.
- *Gamification* is mounted by no module of the repository and does not run.
- *Edits of one record* by one administrator (templates, questions, KPIs, settings, forms) read nothing
  that another step could change to its harm, or are plain overwrites.
- *Reminders and summaries* compare the minute of the day and enqueue under a key; the rows are `Outbox`.
- *Review groups* are read, compared and written under one advisory lock per scope, which leaves no
  interleaving to look at.
- *The purge of archived scopes* deletes what is a year old.

### What the models show, and no run states

A reviewer of the code may want to know of these. The models have each of them, except where it says
otherwise. Those that a document contradicts are named in section 6 too.

*Review cycle, queue, lock, outbox*

- The job may close the round of a new submission because it listed the one before: the compare-and-set
  does not repeat the deadline (`daily-reports/crons/daily-report.cron.ts:325`).
- A submission made after the cutoff, in a scope with a window of one day, is overdue when it is made
  (`daily-reports/helpers/report-date.helper.ts:226`).
- A second submit of the draft, loaded before the first one committed, counts as the
  first again when the report was reopened in between (`daily-reports.service.ts:966`).
- A secondary reviewer may reopen a submission that came after the one he decided
  (`daily-reports.service.ts:1758`).
- An owner who manages the scope gets an edit window from his own reopening
  (`daily-reports.service.ts:1738`).
- A callback lowers its flag before its lock's row is deleted; the deletion may take the row that the next
  callback of the same process has refreshed, and lets another replica in (`daily-report.cron.ts:135`).
- A mark that was committed without an answer is taken back: `markSent` is inside the `try`
  (`daily-report-outbox.service.ts:218`), and the catch writes RETRYING or DEAD over SENT by the row's id. The
  recipient still gets the notice once, and the row may end as DEAD although it was delivered.
- With lots longer than the lease two workers have one row, and a row that was sent
  may go back to be retried (`daily-report-outbox.service.ts:269`). Its recipient
  still gets it once.
- A row of the queue whose worker died stays claimed: nothing looks at claimed rows
  (`background-job.service.ts:93`). So does one that its own worker put back and claimed again before the
  first run left `processing` (`notification-queue.service.ts:144`).

*Carry-over*

- A task that was finished between a review's check and its commit is carried over all the same.
- The same task twice in one review makes two chains, which the unique index refuses with a 409.
- A chain may branch: its row is cancelled and a late review of the earlier day makes another one.
- An item that confirms a row by its chain may name another task than the row.

*Help requests*

- A resolved request that is reopened while another is open makes two, against the comment in the form
  (`frontend/components/daily-report/report/report-form.tsx:224`); the next submission finds the newer one.
- A submission may rewrite the question of a request that was resolved or cancelled after it found it open; the
  question is on record, in a request that is closed (`daily-reports.service.ts:1127`).
- A question that is replaced and comes back in the same open request is not announced again: its key is in the
  outbox from the first time (`daily-reports.service.ts:1203`).
- The notice `HELP_CANCELLED` is never sent: only the one who asked may cancel.

*Generation*

- If the group was deleted before the first call of the day, its owner owes no report though he was a member at 07:30.
- A call that read the scope before it was archived creates drafts in it afterwards, which no step archives.
- Two requests may create two active scopes of one group (`daily-report-scope.service.ts:897`).

*Form*

- What is typed while a submission is pending is dropped when the form turns read-only.
- If the answer of an accepted submission is lost, a second one is answered as if it had stored its text.
- A draft may overtake a newer one, and one that arrives after a reopening overwrites what was submitted.
- After a save or a submission failed the form is not dirty: leaving it does not save again.

*Tasks*

- A code is used again after the page of a form deleted a task for good
  (`business-forms-admin.service.ts:2093`), against `business-forms/helpers/task-code.helper.ts:25`; if it was
not the last
  of the day, every creation for the rest of the day meets a code in use, five times, and fails.
- An edit that sends the due date a task has resets its stamps (`business-form-tasks.service.ts:1424`, and the
  administrator's), and the next sweep reminds again of the same date.
- A due date that is changed between the sweep's sending and its stamp is stamped as reminded, and nobody is
  reminded of it (`crossed`).
- Two processes may each remind of one task: the flag is a field of the process
  (`business-form-tasks.service.ts:533`).
- The page of a form changes a due date without resetting the stamps.
- Not in the model: `updateTaskStatus` writes `completedAt` from a status it read before its transaction,
  `adminUpdateTask` sets a status without completion or activity, and `adminUpdateStatus` never takes a completion
  back.

## 6. Where the code and its documents differ

One run checks a sentence of the schema and finds that the code does something else.

| Run | Sentence | What the code does |
|---|---|---|
| `f_verdict_latest` | the review columns are of the latest submission (`prisma/schema/daily-report.prisma:294`) | a verdict in flight lands on a submission that has been replaced |

These are sentences too that the code does not keep. No run is spent on them, because a few steps show each.

| Sentence | What the code does |
|---|---|
| an edited question is announced to everybody again (`daily-reports/services/daily-reports.service.ts:1193`) | a content that the open request had before finds its old key, and nobody is told |
| the server keeps at most one help request open (`frontend/components/daily-report/report/report-form.tsx:224`) | a resolved request that is reopened may be a second one; `OneIsOpen` says that nothing else is |
| an administrator who sets a task to done stamps its completion, and clearing the status clears it (`business-forms/dto/admin-task.dto.ts:207`) | `adminUpdateTask` does neither (`business-forms/services/business-form-tasks.service.ts:3371`) |
| a code is never used again (`business-forms/helpers/task-code.helper.ts:25`) | it is, after the page of a form deleted a task for good |

## 7. Plan

What is left, in this order.

1. *OutboxOnLock*: `Outbox` with workers that run under `CronLock`; which of the outbox's promises the lock alone
   gives.
2. *Reminders*: what the cron enqueues and when, in front of `Outbox`.

## 8. How to run

    tlc -workers 2 -config ReviewCycle_race.cfg MCReviewCycle
    tlapm ReviewCycleProofs.tla

PROJECT.json names the module and the configuration of each run.
