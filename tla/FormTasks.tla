------------------------------ MODULE FormTasks -------------------------------
(***************************************************************************)
(* The tasks of the business forms: their codes, their status, their due   *)
(* date and the sweep that reminds of it (business-form-tasks.service.ts,  *)
(* and the tasks of a form's page in business-forms-admin.service.ts).     *)
(*                                                                         *)
(* An edit updates the row by its id, and nothing it has read before       *)
(* enters the columns of this module, so it is one step. A creation counts *)
(* first and inserts later; the sweep reads a batch, sends, and stamps the *)
(* batch by the ids it has read. All this happens within one Vietnamese    *)
(* day, the day of the codes.                                              *)
(***************************************************************************)
EXTENDS Integers, FiniteSetsExt

CONSTANTS
    Ids,          \* ids of the tasks created this day
    Requesters,   \* creations under way at a time
    Processes,    \* of the backend
    Sweeps,       \* runs of sweepDeadlineReminders at a time
    Home,         \* the process each of them runs in
    Settings,     \* status and due date that an edit may set, Keep for neither
    Keep,         \* a field the edit leaves out
    Dues,         \* due dates
    Window,       \* DUE_SOON_WINDOW_MS
    ScanLimit,    \* REMINDER_SCAN_LIMIT
    MaxAttempts,  \* MAX_ATTEMPTS of createTaskWithCode
    MaxNow,       \* bound of the clock
    MaxFaults,    \* bound of crashes and of sweeps that fail
    MaxEvents     \* bound of these and of the requests together

\* "open" stands for pending and in_progress, the statuses of
\* REMINDER_ACTIVE_STATUSES: nothing here tells them apart.
Statuses == {"open", "done", "cancelled"}

ASSUME TasksAssumption ==
    /\ IsFiniteSet(Ids) /\ Home \in [Sweeps -> Processes]
    /\ Settings \subseteq [status : Statuses \cup {Keep}, due : Dues \cup {Keep}]
    /\ Dues \subseteq Nat /\ Window \in Nat /\ MaxNow \in Nat
    /\ ScanLimit \in Nat \ {0} /\ MaxAttempts \in Nat \ {0}
    /\ MaxFaults \in Nat /\ MaxEvents \in Nat

VARIABLES
    now,
    tasks,     \* business_form_tasks
    request,   \* what each creation has counted
    running,   \* isReminderSweepRunning, a field of each process
    sweep,     \* how far each sweep is
    reminded,  \* history: the reminders of a task by each process since the stamps
               \* were last reset, which every due date that is sent does
    crossed,   \* history: the stamps that were on their way when that happened
    refused,   \* creations that gave up
    requests,  \* requests so far
    faults     \* crashes and failed sweeps so far

vars == <<now, tasks, request, running, sweep, reminded, crossed, refused,
          requests, faults>>

Variants == {"due-soon", "overdue"}

\* `code` is the number of the code within the day, 0 for none; `sent` are the
\* stamps dueSoonNotifiedAt and overdueNotifiedAt. A row that was deleted for
\* good is remembered as "gone".
Rows == [code : Nat, status : Statuses, due : Dues, sent : SUBSET Variants,
         place : {"list", "bin", "gone"}]
Unborn == [place |-> "none"]
Exists(id) == tasks[id].place \in {"list", "bin"}
Existing == {id \in Ids : Exists(id)}
Purged == \E id \in Ids : tasks[id].place = "gone"

Free == [kind |-> "none"]
\* `clashes` counts the codes that were taken, `rivals` the tasks created by
\* others since the request came.
Requests ==
    {Free}
    \cup [kind : {"create"}, id : Ids, code : Nat, due : Dues,
          clashes : 0 .. MaxAttempts, rivals : Nat]

NotSweeping == [at |-> -1, variant |-> "due-soon", step |-> "read", batch |-> {}]
SweepStates == [at : -1 .. MaxNow, variant : Variants,
                step : {"read", "send", "stamp"}, batch : SUBSET Ids]

TypeOK ==
    /\ now \in 0 .. MaxNow
    /\ tasks \in [Ids -> Rows \cup {Unborn}]
    /\ request \in [Requesters -> Requests]
    /\ running \in [Processes -> BOOLEAN]
    /\ sweep \in [Sweeps -> SweepStates]
    /\ reminded \in [Processes -> [Ids -> [Variants -> Nat]]]
    /\ crossed \in [Ids -> SUBSET Variants]
    /\ refused \subseteq [clashes : {MaxAttempts}, rivals : Nat]
    /\ requests \in 0 .. MaxEvents
    /\ faults \in 0 .. MaxFaults

NewTask(code, due) ==
    [code |-> code, status |-> "open", due |-> due, sent |-> {}, place |-> "list"]

\* The day has no task yet.
Init ==
    /\ now = 0
    /\ tasks = [id \in Ids |-> Unborn]
    /\ request = [r \in Requesters |-> Free]
    /\ running = [p \in Processes |-> FALSE]
    /\ sweep = [s \in Sweeps |-> NotSweeping]
    /\ reminded = [p \in Processes |-> [id \in Ids |-> [v \in Variants |-> 0]]]
    /\ crossed = [id \in Ids |-> {}]
    /\ refused = {}
    /\ requests = 0
    /\ faults = 0

-----------------------------------------------------------------------------
(* Mistakes this code could have made.                                     *)

\* Tasks in the bin are not counted.
CodeCount_Visible == Cardinality({id \in Existing : tasks[id].place = "list"})

\* The sweep does not look whether another one is running.
MaySweep_Always(p) == TRUE

\* Every open task is stamped, not only those that were sent.
StampedIds_Open(s) == {id \in Existing : tasks[id].status = "open"}

-----------------------------------------------------------------------------
(* Codes.                                                                  *)

\* generateTaskCode: tasks in the bin count, and so do those without a code.
CodeCount == Cardinality(Existing)
GenerateTaskCode == CodeCount + 1

CodeTaken(code) == \E id \in Existing : tasks[id].code = code

NewIds == {id \in Ids : tasks[id] = Unborn /\
             \A r \in Requesters : request[r].kind = "create" => request[r].id # id}

Serve == requests + faults < MaxEvents /\ requests' = requests + 1

\* createTask, adminCreateTask: createTaskWithCode counts the day's tasks ...
CreateTask(r) ==
    /\ request[r] = Free
    /\ Serve
    /\ \E id \in NewIds, due \in Dues :
        /\ request' = [request EXCEPT ![r] =
             [kind |-> "create", id |-> id, code |-> GenerateTaskCode,
              due |-> due, clashes |-> 0, rivals |-> 0]]
    /\ UNCHANGED <<now, tasks, running, sweep, reminded, crossed, refused, faults>>

WithRival(q, r) ==
    IF q # r /\ request[q].kind = "create"
    THEN [request[q] EXCEPT !.rivals = @ + 1] ELSE request[q]

\* ... and inserts with the next code. The unique index of the code refuses a
\* code that was given meanwhile.
Insert(r) ==
    /\ request[r].kind = "create"
    /\ request[r].code > 0
    /\ ~CodeTaken(request[r].code)
    /\ tasks' = [tasks EXCEPT ![request[r].id] =
                    NewTask(request[r].code, request[r].due)]
    /\ request' = [q \in Requesters |-> IF q = r THEN Free ELSE WithRival(q, r)]
    /\ UNCHANGED <<now, running, sweep, reminded, crossed, refused, requests, faults>>

Clash(r) ==
    LET clashes == request[r].clashes + 1 IN
    /\ request[r].kind = "create"
    /\ request[r].code > 0
    /\ CodeTaken(request[r].code)
    /\ IF clashes < MaxAttempts
       THEN /\ request' = [request EXCEPT ![r].clashes = clashes, ![r].code = 0]
            /\ UNCHANGED refused
       ELSE /\ request' = [request EXCEPT ![r] = Free]
            /\ refused' = refused \cup {[clashes |-> clashes, rivals |-> request[r].rivals]}
    /\ UNCHANGED <<now, tasks, running, sweep, reminded, crossed, requests, faults>>

Recount(r) ==
    /\ request[r].kind = "create"
    /\ request[r].code = 0
    /\ request' = [request EXCEPT ![r].code = GenerateTaskCode]
    /\ UNCHANGED <<now, tasks, running, sweep, reminded, crossed, refused, requests,
                   faults>>

\* addTask, on the page of a form: the task has no code, and counts.
AddTask ==
    /\ Serve
    /\ \E id \in NewIds, due \in Dues :
        tasks' = [tasks EXCEPT ![id] = NewTask(0, due)]
    /\ UNCHANGED <<now, request, running, sweep, reminded, crossed, refused, faults>>

-----------------------------------------------------------------------------
(* Status, due date and bin.                                               *)

Edited(row, to, renewed) ==
    [row EXCEPT
        !.status = IF to.status = Keep THEN @ ELSE to.status,
        !.due = IF to.due = Keep THEN @ ELSE to.due,
        !.sent = IF renewed THEN {} ELSE @]

\* The stamps of a task that a sweep is about to write.
OnTheirWay(id) ==
    LET stamping == {s \in Sweeps : sweep[s].step = "stamp" /\ id \in sweep[s].batch}
    IN  {sweep[s].variant : s \in stamping}

\* A task may be edited in the bin. A due date that is sent resets both stamps where
\* `resets` holds, be it a new date or the same.
Edit(settings, resets) ==
    /\ Serve
    /\ \E id \in Existing, to \in settings :
        LET renewed == resets /\ to.due # Keep IN
        /\ tasks' = [tasks EXCEPT ![id] = Edited(@, to, renewed)]
        /\ IF renewed
           THEN /\ reminded' = [p \in Processes |->
                     [reminded[p] EXCEPT ![id] = [v \in Variants |-> 0]]]
                /\ crossed' = [crossed EXCEPT ![id] = OnTheirWay(id)]
           ELSE UNCHANGED <<reminded, crossed>>
    /\ UNCHANGED <<now, request, running, sweep, refused, faults>>

OnlyStatus == {to \in Settings : to.status # Keep /\ to.due = Keep}

\* What the doors do with completedAt differs, and is left out. Those of a form's page
\* do not reset the stamps.
UpdateTask == Edit(Settings, TRUE)
UpdateTaskStatus == Edit(OnlyStatus, TRUE)
AdminUpdateTask == Edit(Settings, TRUE)
AdminUpdateStatus == Edit(OnlyStatus, TRUE)
FormUpdateTask == Edit(Settings, FALSE)

\* deleteTask and adminDeleteTask, restoreTask and adminRestoreTask.
Move(from, to) ==
    /\ Serve
    /\ \E id \in Ids :
        /\ tasks[id].place = from
        /\ tasks' = [tasks EXCEPT ![id].place = to]
    /\ UNCHANGED <<now, request, running, sweep, reminded, crossed, refused, faults>>
DeleteTask == Move("list", "bin")
RestoreTask == Move("bin", "list")

\* deleteTask, on the page of a form, removes the row.
FormDeleteTask ==
    /\ Serve
    /\ \E id \in Existing : tasks' = [tasks EXCEPT ![id].place = "gone"]
    /\ UNCHANGED <<now, request, running, sweep, reminded, crossed, refused, faults>>

-----------------------------------------------------------------------------
(* sweepDeadlineReminders.                                                 *)

MaySweep(p) == ~running[p]

StartSweep(s) ==
    /\ sweep[s] = NotSweeping
    /\ MaySweep(Home[s])
    /\ running' = [running EXCEPT ![Home[s]] = TRUE]
    /\ sweep' = [sweep EXCEPT ![s] = [NotSweeping EXCEPT !.at = now]]
    /\ UNCHANGED <<now, tasks, request, reminded, crossed, refused, requests, faults>>

InTime(due, variant, at) ==
    IF variant = "due-soon" THEN due \in at .. at + Window ELSE due < at

ToRemind(variant, at) ==
    {id \in Existing :
        /\ tasks[id].status = "open"
        /\ InTime(tasks[id].due, variant, at)
        /\ variant \notin tasks[id].sent
        /\ tasks[id].place = "list"}

AfterVariant(s) ==
    IF sweep[s].variant = "due-soon"
    THEN /\ sweep' = [sweep EXCEPT ![s] =
               [NotSweeping EXCEPT !.at = sweep[s].at, !.variant = "overdue"]]
         /\ UNCHANGED running
    ELSE /\ sweep' = [sweep EXCEPT ![s] = NotSweeping]
         /\ running' = [running EXCEPT ![Home[s]] = FALSE]

\* findMany takes at most ScanLimit rows, in no order.
ReadBatch(s) ==
    /\ sweep[s].at >= 0 /\ sweep[s].step = "read"
    /\ LET due == ToRemind(sweep[s].variant, sweep[s].at) IN
       \/ /\ due = {}
          /\ AfterVariant(s)
       \/ /\ due # {}
          /\ \E batch \in kSubset(Min({ScanLimit, Cardinality(due)}), due) :
                sweep' = [sweep EXCEPT ![s].step = "send", ![s].batch = batch]
          /\ UNCHANGED running
    /\ UNCHANGED <<now, tasks, request, reminded, crossed, refused, requests, faults>>

\* The counts of reminders with another one for each task of the batch.
OneMore(s, counts) ==
    [id \in Ids |->
        IF id \in sweep[s].batch
        THEN [counts[id] EXCEPT ![sweep[s].variant] = @ + 1] ELSE counts[id]]

\* notifyReminderTask catches its errors: a reminder that fails counts as sent.
SendBatch(s) ==
    /\ sweep[s].at >= 0 /\ sweep[s].step = "send"
    /\ reminded' = [reminded EXCEPT ![Home[s]] = OneMore(s, @)]
    /\ sweep' = [sweep EXCEPT ![s].step = "stamp"]
    /\ UNCHANGED <<now, tasks, request, running, crossed, refused, requests, faults>>

StampedIds(s) == sweep[s].batch

\* The whole batch is stamped, whatever has become of its tasks.
StampBatch(s) ==
    /\ sweep[s].at >= 0 /\ sweep[s].step = "stamp"
    /\ tasks' = [id \in Ids |->
            IF Exists(id) /\ id \in StampedIds(s)
            THEN [tasks[id] EXCEPT !.sent = @ \cup {sweep[s].variant}]
            ELSE tasks[id]]
    /\ AfterVariant(s)
    /\ UNCHANGED <<now, request, reminded, crossed, refused, requests, faults>>

Fault ==
    /\ faults < MaxFaults /\ requests + faults < MaxEvents
    /\ faults' = faults + 1

\* A read or a stamp that fails ends the sweep.
SweepFails(s) ==
    /\ sweep[s].at >= 0 /\ sweep[s].step # "send"
    /\ Fault
    /\ sweep' = [sweep EXCEPT ![s] = NotSweeping]
    /\ running' = [running EXCEPT ![Home[s]] = FALSE]
    /\ UNCHANGED <<now, tasks, request, reminded, crossed, refused, requests>>

\* A process stops and starts again; the creations under way in it are lost.
Crash(p) ==
    /\ Fault
    /\ \E lost \in SUBSET Requesters :
        request' = [r \in Requesters |-> IF r \in lost THEN Free ELSE request[r]]
    /\ sweep' = [s \in Sweeps |-> IF Home[s] = p THEN NotSweeping ELSE sweep[s]]
    /\ running' = [running EXCEPT ![p] = FALSE]
    /\ UNCHANGED <<now, tasks, reminded, crossed, refused, requests>>

Tick ==
    /\ now < MaxNow
    /\ now' = now + 1
    /\ UNCHANGED <<tasks, request, running, sweep, reminded, crossed, refused,
                   requests, faults>>

Next ==
    \/ \E r \in Requesters : CreateTask(r) \/ Insert(r) \/ Clash(r) \/ Recount(r)
    \/ AddTask
    \/ UpdateTask \/ UpdateTaskStatus
    \/ AdminUpdateTask \/ AdminUpdateStatus \/ FormUpdateTask
    \/ DeleteTask \/ RestoreTask \/ FormDeleteTask
    \/ \E s \in Sweeps :
        \/ StartSweep(s) \/ ReadBatch(s) \/ SendBatch(s) \/ StampBatch(s)
        \/ SweepFails(s)
    \/ \E p \in Processes : Crash(p)
    \/ Tick

Spec == Init /\ [][Next]_vars

-----------------------------------------------------------------------------
(* Properties.                                                             *)

\* A creation loses an attempt only to a task that was created while it ran
\* (createTaskWithCode, "unique constraint bung P2002 và ta sinh lại"): it
\* never gives up for the day's own history. That holds until a task is
\* deleted for good, which leaves a count that points at a code in use.
ClashNeedsRival ==
    LET creating == {r \in Requesters : request[r].kind = "create"} IN
    \A q \in refused \cup {request[r] : r \in creating} :
        q.clashes <= q.rivals \/ Purged

\* Each process reminds of a task at most once for each time its due date was sent
\* by a door that resets the stamps, the same date or another, whoever edits the task
\* meanwhile and however often the sweep is triggered; only a crash or an error
\* between sending and stamping repeats it (the stamps, isReminderSweepRunning).
RemindedOnce ==
    \A p \in Processes, id \in Ids, v \in Variants : reminded[p][id][v] <= 1 + faults

\* No stamp without a reminder: one was sent since the due date was last sent by such
\* a door, unless that was between the sending and the stamping of a sweep, which then
\* stamps a date nobody was reminded of (handleReminderDueSoon, handleReminderOverdue).
StampedWasReminded ==
    \A id \in Existing : \A v \in tasks[id].sent :
        v \in crossed[id] \/ \E p \in Processes : reminded[p][id][v] > 0

=============================================================================
