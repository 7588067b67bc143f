--------------------------- MODULE FormTasksProofs ---------------------------
(***************************************************************************)
(* The safety of FormTasks for any tasks, requests, processes, sweeps,     *)
(* attempts, crashes and size of a batch. Nothing that was read is checked *)
(* again when it is used, so each property rests on what such a reading    *)
(* still tells: that a code was free when it was counted, that the task of *)
(* a batch had not been reminded, that a batch to be stamped was sent.     *)
(***************************************************************************)
EXTENDS FormTasks, FiniteSetTheorems, TLAPS

CreateReqs == [kind : {"create"}, id : Ids, code : Nat, due : Dues,
               clashes : 0 .. MaxAttempts, rivals : Nat]

IsCreating(r) == request[r].kind = "create"
Sweeping(s) == sweep[s].at >= 0

\* Every creation has a task of its own to come, and an attempt left.
Creating ==
    \A r \in Requesters : IsCreating(r) =>
        /\ tasks[request[r].id] = Unborn
        /\ request[r].clashes < MaxAttempts
        /\ \A q \in Requesters : IsCreating(q) /\ request[q].id = request[r].id => q = r

\* isReminderSweepRunning lets one sweep of the process in, and is given back by it
\* only.
OneSweep ==
    \A s \in Sweeps : Sweeping(s) =>
        /\ running[Home[s]]
        /\ \A t \in Sweeps : Sweeping(t) /\ Home[t] = Home[s] => t = s

\* A batch is of tasks that are there, or were.
Batches == \A s \in Sweeps : \A id \in sweep[s].batch : tasks[id] # Unborn

\* The process has sent the task in the batch of this variant, which is not yet
\* stamped.
Sent(p, id, v) ==
    \E s \in Sweeps : /\ Home[s] = p /\ Sweeping(s) /\ sweep[s].step = "stamp"
                      /\ sweep[s].variant = v /\ id \in sweep[s].batch

\* Beyond the faults a process sends one reminder, and then the task is stamped or
\* will be by the sweep that has sent it.
CountedOf(p, id, v) ==
    /\ reminded[p][id][v] <= 1 + faults
    /\ tasks[id] = Unborn => reminded[p][id][v] = 0
    /\ Exists(id) /\ reminded[p][id][v] > faults =>
            v \in tasks[id].sent \/ Sent(p, id, v)

Counted == \A p \in Processes, id \in Ids, v \in Variants : CountedOf(p, id, v)

\* What a sweep is about to send its process has not sent, but for faults.
Unsent ==
    \A s \in Sweeps : Sweeping(s) /\ sweep[s].step = "send" =>
        \A id \in sweep[s].batch : reminded[Home[s]][id][sweep[s].variant] <= faults

\* The stamp was sent since the due date was, or was on its way at that time.
Backed(id, v) == v \in crossed[id] \/ \E p \in Processes : reminded[p][id][v] > 0

\* So it is with the stamps a sweep is about to write.
BackedBatch(s) ==
    sweep[s].step = "stamp" => \A id \in sweep[s].batch : Backed(id, sweep[s].variant)

\* And with every stamp.
Stamped ==
    /\ \A id \in Ids : Exists(id) => \A v \in tasks[id].sent : Backed(id, v)
    /\ \A s \in Sweeps : BackedBatch(s)

SweepInv == OneSweep /\ Batches /\ Counted /\ Unsent /\ Stamped

\* No code is above the number of the tasks, nor the next one more than one above
\* it, and a creation whose code is taken has had one more rival than clashes.
FairTry(r) ==
    LET q == request[r]
    IN  /\ q.code <= CodeCount + 1
        /\ q.clashes <= q.rivals
        /\ q.code > 0 /\ CodeTaken(q.code) => q.clashes < q.rivals

FairCodes ==
    /\ \A id \in Existing : tasks[id].code <= CodeCount
    /\ \A r \in Requesters : IsCreating(r) => FairTry(r)
    /\ \A q \in refused : q.clashes <= q.rivals

\* So it is until a task is deleted for good.
CodesInv == Purged \/ FairCodes

-----------------------------------------------------------------------------
(* What the handlers write.                                                *)

\* A request under way is a creation or an edit, with the fields of one.
\* A request under way is a creation, with the fields of one.
LEMMA RequestRead ==
    ASSUME TypeOK, NEW r \in Requesters
    PROVE  /\ request[r] \in Requests
           /\ IsCreating(r) => request[r] \in CreateReqs
<1>1. request[r] \in Requests
  BY DEF TypeOK
<1>2. request[r] = Free \/ request[r] \in CreateReqs
  BY <1>1 DEF Requests, CreateReqs
<1> QED
  BY <1>1, <1>2 DEF IsCreating, CreateReqs, Free

\* A task is a row or is not born.
LEMMA RowRead ==
    ASSUME TypeOK, NEW id \in Ids
    PROVE  /\ tasks[id] \in Rows \cup {Unborn}
           /\ tasks[id] # Unborn => tasks[id] \in Rows
           /\ Exists(id) => tasks[id] \in Rows /\ tasks[id] # Unborn
           /\ tasks[id].place \in {"list", "bin", "gone", "none"}
           /\ tasks[id] = Unborn <=> tasks[id].place = "none"
BY DEF TypeOK, Rows, Unborn, Exists

\* A new task is an open row of the list, without a stamp.
LEMMA NewTaskIs ==
    ASSUME NEW code \in Nat, NEW due \in Dues
    PROVE  /\ NewTask(code, due) \in Rows
           /\ NewTask(code, due).code = code
           /\ NewTask(code, due).sent = {}
           /\ NewTask(code, due).place = "list"
BY DEF NewTask, Rows, Statuses

\* A row of which only the place is written.
LEMMA MovedIs ==
    ASSUME NEW row \in Rows, NEW to \in {"list", "bin", "gone"}
    PROVE  LET e == [row EXCEPT !.place = to]
           IN  /\ e \in Rows /\ e.place = to /\ e.code = row.code
               /\ e.sent = row.sent
BY DEF Rows

\* A stamped row.
LEMMA StampedIs ==
    ASSUME NEW row \in Rows, NEW v \in Variants
    PROVE  LET e == [row EXCEPT !.sent = @ \cup {v}]
           IN  /\ e \in Rows /\ e.place = row.place /\ e.code = row.code
               /\ e.sent = row.sent \cup {v}
BY DEF Rows

\* A row of which an edit may write three fields.
WithFields(row, a, c, d) == [row EXCEPT !.status = a, !.due = c, !.sent = d]

\* What it keeps of the row.
LEMMA EditFields ==
    ASSUME NEW row \in Rows, NEW a \in Statuses, NEW c \in Dues,
           NEW d \in SUBSET Variants
    PROVE  LET e == WithFields(row, a, c, d)
           IN  /\ e \in Rows /\ e.place = row.place /\ e.code = row.code
               /\ e.sent = d
BY DEF Rows, WithFields

\* An edited row keeps its place and its code, and its stamps if they are not renewed.
LEMMA EditedIs ==
    ASSUME NEW row \in Rows, NEW to \in Settings, NEW renewed \in BOOLEAN
    PROVE  LET e == Edited(row, to, renewed)
           IN  /\ e \in Rows /\ e.place = row.place /\ e.code = row.code
               /\ e.sent = IF renewed THEN {} ELSE row.sent
<1> DEFINE status == IF to.status = Keep THEN row.status ELSE to.status
           due == IF to.due = Keep THEN row.due ELSE to.due
           sent == IF renewed THEN {} ELSE row.sent
<1>1. /\ to.status \in Statuses \cup {Keep} /\ to.due \in Dues \cup {Keep}
  BY TasksAssumption
<1>2. status \in Statuses /\ due \in Dues /\ sent \in SUBSET Variants
  BY <1>1 DEF Rows
<1>3. Edited(row, to, renewed) = WithFields(row, status, due, sent)
  BY DEF Edited, WithFields
<1> HIDE DEF status, due, sent
<1> DEFINE e == Edited(row, to, renewed)
<1>4. /\ e \in Rows /\ e.place = row.place /\ e.code = row.code /\ e.sent = sent
  BY <1>2, <1>3, EditFields
<1> HIDE DEF e
<1>5. /\ e \in Rows /\ e.place = row.place /\ e.code = row.code
      /\ e.sent = IF renewed THEN {} ELSE row.sent
  BY <1>4, Zenon DEF sent
<1> QED
  BY <1>5, Zenon DEF e

\* Writing one task, one request or one sweep leaves the others alone.
LEMMA PutTask ==
    ASSUME TypeOK, NEW id \in Ids, NEW e \in Rows, tasks' = [tasks EXCEPT ![id] = e]
    PROVE  /\ tasks' \in [Ids -> Rows \cup {Unborn}] /\ tasks'[id] = e
           /\ \A j \in Ids : j # id => tasks'[j] = tasks[j]
BY DEF TypeOK

\* A step writes the local variables of one request.
LEMMA PutRequest ==
    ASSUME TypeOK, NEW r \in Requesters, NEW q \in Requests,
           request' = [request EXCEPT ![r] = q]
    PROVE  /\ request' \in [Requesters -> Requests] /\ request'[r] = q
           /\ \A p \in Requesters : p # r => request'[p] = request[p]
BY DEF TypeOK

\* A step writes the local variables of one sweep.
LEMMA PutSweep ==
    ASSUME TypeOK, NEW s \in Sweeps, NEW e \in SweepStates,
           sweep' = [sweep EXCEPT ![s] = e]
    PROVE  /\ sweep' \in [Sweeps -> SweepStates] /\ sweep'[s] = e
           /\ \A t \in Sweeps : t # s => sweep'[t] = sweep[t]
BY DEF TypeOK

\* The tasks there are can be counted.
LEMMA CountIs ==
    /\ IsFiniteSet(Existing) /\ CodeCount \in Nat /\ GenerateTaskCode \in Nat
    /\ GenerateTaskCode = CodeCount + 1
<1>1. IsFiniteSet(Existing)
  BY TasksAssumption, FS_Subset DEF Existing
<1> QED
  BY <1>1, FS_CardinalityType DEF CodeCount, GenerateTaskCode

\* Taking up a creation.
CreateReq(id, code, due, clashes, rivals) ==
    [kind |-> "create", id |-> id, code |-> code, due |-> due,
     clashes |-> clashes, rivals |-> rivals]

\* The fields of a creation under way.
LEMMA CreateReqIs ==
    ASSUME NEW id \in Ids, NEW code \in Nat, NEW due \in Dues,
           NEW clashes \in 0 .. MaxAttempts, NEW rivals \in Nat
    PROVE  /\ CreateReq(id, code, due, clashes, rivals) \in CreateReqs \cap Requests
           /\ CreateReq(id, code, due, clashes, rivals).kind = "create"
           /\ CreateReq(id, code, due, clashes, rivals).id = id
           /\ CreateReq(id, code, due, clashes, rivals).code = code
           /\ CreateReq(id, code, due, clashes, rivals).clashes = clashes
           /\ CreateReq(id, code, due, clashes, rivals).rivals = rivals
BY DEF CreateReq, CreateReqs, Requests

\* A creation under way is made of its fields.
LEMMA CreateReqRead ==
    ASSUME NEW q \in CreateReqs
    PROVE  q = CreateReq(q.id, q.code, q.due, q.clashes, q.rivals)
BY DEF CreateReqs, CreateReq

\* A creation begins with the count of the day and no attempt made.
LEMMA CreateTaskMakes ==
    ASSUME TypeOK, NEW r \in Requesters, CreateTask(r)
    PROVE  \E id \in NewIds, due \in Dues :
             /\ request' = [request EXCEPT ![r] =
                    CreateReq(id, GenerateTaskCode, due, 0, 0)]
             /\ request[r] = Free
BY DEF CreateTask, CreateReq

\* A clash costs an attempt: the creation goes on, to be counted again, or ends.
LEMMA ClashMakes ==
    ASSUME TypeOK, Creating, NEW r \in Requesters, Clash(r)
    PROVE  LET q == request[r]
               c == q.clashes + 1
           IN  \/ /\ c < MaxAttempts /\ UNCHANGED refused
                  /\ request' = [request EXCEPT ![r] =
                        CreateReq(q.id, 0, q.due, c, q.rivals)]
               \/ /\ c = MaxAttempts /\ request' = [request EXCEPT ![r] = Free]
                  /\ refused' = refused \cup {[clashes |-> c, rivals |-> q.rivals]}
<1> DEFINE q == request[r]
           c == q.clashes + 1
<1>1. q \in CreateReqs /\ IsCreating(r)
  BY RequestRead DEF Clash, IsCreating
<1>2. c \in Nat /\ c <= MaxAttempts
  BY <1>1, TasksAssumption DEF Creating, CreateReqs
<1>3. CASE c < MaxAttempts
  <2>1. request' = [request EXCEPT ![r].clashes = c, ![r].code = 0] /\ UNCHANGED refused
    BY <1>3 DEF Clash
  <2>2. request' = [request EXCEPT ![r] = [[q EXCEPT !.clashes = c] EXCEPT !.code = 0]]
    BY <2>1 DEF TypeOK
  <2>3. [[q EXCEPT !.clashes = c] EXCEPT !.code = 0]
        = CreateReq(q.id, 0, q.due, c, q.rivals)
    <3> DEFINE f == [q EXCEPT !.clashes = c]
    <3>1. f = CreateReq(q.id, q.code, q.due, c, q.rivals)
      BY <1>1 DEF CreateReqs, CreateReq
    <3> HIDE DEF f
    <3>2. [f EXCEPT !.code = 0] = CreateReq(q.id, 0, q.due, c, q.rivals)
      BY <3>1 DEF CreateReq
    <3> QED
      BY <3>2 DEF f
  <2> QED
    BY <1>3, <2>1, <2>2, <2>3
<1>4. CASE ~ (c < MaxAttempts)
  BY <1>2, <1>4, TasksAssumption DEF Clash
<1> QED
  BY <1>3, <1>4

\* The next attempt takes a new count and keeps the rest.
LEMMA RecountMakes ==
    ASSUME TypeOK, NEW r \in Requesters, Recount(r)
    PROVE  LET q == request[r]
           IN  request' = [request EXCEPT ![r] =
                    CreateReq(q.id, GenerateTaskCode, q.due, q.clashes, q.rivals)]
<1> DEFINE q == request[r]
<1>1. q \in CreateReqs
  BY RequestRead DEF Recount, IsCreating
<1>2. request' = [request EXCEPT ![r] = [q EXCEPT !.code = GenerateTaskCode]]
  BY DEF Recount, TypeOK
<1>3. [q EXCEPT !.code = GenerateTaskCode]
      = CreateReq(q.id, GenerateTaskCode, q.due, q.clashes, q.rivals)
  BY <1>1 DEF CreateReqs, CreateReq
<1> QED
  BY <1>2, <1>3

\* The task that is inserted is a new one, and every other creation has a rival
\* more.
LEMMA InsertMakes ==
    ASSUME TypeOK, Creating, NEW r \in Requesters, Insert(r)
    PROVE  /\ request[r] \in CreateReqs /\ IsCreating(r)
           /\ tasks[request[r].id] = Unborn
           /\ tasks' = [tasks EXCEPT ![request[r].id] =
                            NewTask(request[r].code, request[r].due)]
           /\ request' \in [Requesters -> Requests]
           /\ request'[r] = Free
           /\ \A p \in Requesters : p # r /\ ~ IsCreating(p) => request'[p] = request[p]
           /\ \A p \in Requesters : p # r /\ IsCreating(p) =>
                LET q == request[p]
                IN  request'[p] = CreateReq(q.id, q.code, q.due, q.clashes, q.rivals + 1)
<1>1. request[r] \in CreateReqs /\ IsCreating(r)
  BY RequestRead DEF Insert, IsCreating
<1>2. request' = [p \in Requesters |-> IF p = r THEN Free ELSE WithRival(p, r)]
  BY DEF Insert
<1>3. ASSUME NEW p \in Requesters, p # r, IsCreating(p)
      PROVE  LET q == request[p]
             IN  /\ request'[p] = CreateReq(q.id, q.code, q.due, q.clashes, q.rivals + 1)
                 /\ request'[p] \in Requests
  <2> DEFINE q == request[p]
  <2>1. q \in CreateReqs
    BY <1>3, RequestRead
  <2>2. request'[p] = [q EXCEPT !.rivals = q.rivals + 1]
    BY <1>2, <1>3 DEF WithRival, IsCreating
  <2>3. q.rivals + 1 \in Nat
    BY <2>1 DEF CreateReqs
  <2>4. [q EXCEPT !.rivals = q.rivals + 1]
        = CreateReq(q.id, q.code, q.due, q.clashes, q.rivals + 1)
    BY <2>1 DEF CreateReqs, CreateReq
  <2>5. CreateReq(q.id, q.code, q.due, q.clashes, q.rivals + 1) \in Requests
    BY <2>1, <2>3, CreateReqIs DEF CreateReqs
  <2> QED
    BY <2>2, <2>4, <2>5
<1>4. \A p \in Requesters : p # r /\ ~ IsCreating(p) => request'[p] = request[p]
  BY <1>2 DEF WithRival, IsCreating
<1>5. request'[r] = Free /\ Free \in Requests
  BY <1>2 DEF Requests
<1>6. \A p \in Requesters : request'[p] \in Requests
  BY <1>3, <1>4, <1>5, RequestRead
<1>7. request' \in [Requesters -> Requests]
  BY <1>2, <1>6
<1> QED
  BY <1>1, <1>3, <1>4, <1>5, <1>7 DEF Insert, Creating

\* The sweep that a step writes.
SweepAt(at, variant, step, batch) ==
    [at |-> at, variant |-> variant, step |-> step, batch |-> batch]

\* The fields of a sweep under way.
LEMMA SweepAtIs ==
    ASSUME NEW at \in -1 .. MaxNow, NEW v \in Variants,
           NEW step \in {"read", "send", "stamp"}, NEW B \in SUBSET Ids
    PROVE  LET e == SweepAt(at, v, step, B)
           IN  /\ e \in SweepStates /\ e.at = at /\ e.variant = v
               /\ e.step = step /\ e.batch = B
BY DEF SweepAt, SweepStates

\* A sweep that does not run has read nothing.
LEMMA NotSweepingIs ==
    /\ NotSweeping \in SweepStates /\ ~ (NotSweeping.at >= 0)
    /\ NotSweeping.batch = {}
BY TasksAssumption DEF NotSweeping, SweepStates, Variants

\* A sweep starts with the reminders of tasks that are due soon.
LEMMA NotSweepingAt ==
    ASSUME NEW at
    PROVE  [NotSweeping EXCEPT !.at = at] = SweepAt(at, "due-soon", "read", {})
BY DEF NotSweeping, SweepAt

\* A sweep under way is made of its fields.
LEMMA SweepRead ==
    ASSUME TypeOK, NEW s \in Sweeps
    PROVE  /\ sweep[s] \in SweepStates
           /\ sweep[s].at \in -1 .. MaxNow /\ sweep[s].variant \in Variants
           /\ sweep[s].batch \in SUBSET Ids
           /\ sweep[s] = SweepAt(sweep[s].at, sweep[s].variant, sweep[s].step,
                                 sweep[s].batch)
<1>1. sweep[s] \in SweepStates
  BY DEF TypeOK
<1> QED
  BY <1>1 DEF SweepStates, SweepAt

\* A sweep starts when none runs, and raises the flag.
\* A sweep starts when none runs in its process, and raises the flag.
LEMMA StartMakes ==
    ASSUME TypeOK, NEW s \in Sweeps, StartSweep(s)
    PROVE  /\ sweep' = [sweep EXCEPT ![s] = SweepAt(now, "due-soon", "read", {})]
           /\ running[Home[s]] = FALSE /\ running' = [running EXCEPT ![Home[s]] = TRUE]
<1>1. Home[s] \in Processes
  BY TasksAssumption
<1>2. sweep' = [sweep EXCEPT ![s] = [NotSweeping EXCEPT !.at = now]]
  BY DEF StartSweep
<1>3. running[Home[s]] = FALSE /\ running' = [running EXCEPT ![Home[s]] = TRUE]
  BY <1>1 DEF StartSweep, MaySweep, TypeOK
<1> QED
  BY <1>2, <1>3, NotSweepingAt

\* After a variant comes the other one, or the end, which lowers the flag.
LEMMA AfterMakes ==
    ASSUME TypeOK, NEW s \in Sweeps, AfterVariant(s)
    PROVE  \/ /\ sweep' = [sweep EXCEPT ![s] =
                            SweepAt(sweep[s].at, "overdue", "read", {})]
              /\ UNCHANGED running
           \/ /\ sweep' = [sweep EXCEPT ![s] = NotSweeping]
              /\ running' = [running EXCEPT ![Home[s]] = FALSE]
<1> DEFINE at == sweep[s].at
<1>1. [NotSweeping EXCEPT !.at = at, !.variant = "overdue"]
      = SweepAt(at, "overdue", "read", {})
  <2> HIDE DEF at
  <2> DEFINE f == [NotSweeping EXCEPT !.at = at]
  <2>1. f = SweepAt(at, "due-soon", "read", {})
    BY NotSweepingAt
  <2> HIDE DEF f
  <2>2. [f EXCEPT !.variant = "overdue"] = SweepAt(at, "overdue", "read", {})
    BY <2>1 DEF SweepAt
  <2> QED
    BY <2>2 DEF f
<1> QED
  BY <1>1 DEF AfterVariant

\* A batch is read of tasks that have not been stamped.
\* A batch is read of tasks that have not been stamped.
LEMMA ReadMakes ==
    ASSUME TypeOK, NEW s \in Sweeps, ReadBatch(s)
    PROVE  \/ AfterVariant(s)
           \/ \E B \in SUBSET ToRemind(sweep[s].variant, sweep[s].at) :
                /\ sweep' = [sweep EXCEPT ![s] =
                        SweepAt(sweep[s].at, sweep[s].variant, "send", B)]
                /\ UNCHANGED running
<1> DEFINE due == ToRemind(sweep[s].variant, sweep[s].at)
<1>1. CASE due = {}
  BY <1>1 DEF ReadBatch
<1>2. CASE due # {}
  <2>1. PICK B \in kSubset(Min({ScanLimit, Cardinality(due)}), due) :
            sweep' = [sweep EXCEPT ![s].step = "send", ![s].batch = B]
    BY <1>2 DEF ReadBatch
  <2>2. B \in SUBSET due
    BY <2>1 DEF kSubset
  <2> DEFINE e == sweep[s]
             f == [e EXCEPT !.step = "send"]
  <2>3. sweep' = [sweep EXCEPT ![s] = [f EXCEPT !.batch = B]]
    BY <2>1 DEF TypeOK
  <2>4. f = SweepAt(e.at, e.variant, "send", e.batch)
    <3>1. e \in SweepStates
      BY SweepRead
    <3> HIDE DEF e
    <3> QED
      BY <3>1 DEF SweepAt, SweepStates
  <2> HIDE DEF f
  <2>5. [f EXCEPT !.batch = B] = SweepAt(e.at, e.variant, "send", B)
    BY <2>4 DEF SweepAt
  <2>6. UNCHANGED running
    BY <1>2 DEF ReadBatch
  <2> QED
    BY <2>2, <2>3, <2>5, <2>6
<1> QED
  BY <1>1, <1>2

\* What is sent is counted for each task of the batch, and not stamped yet.
LEMMA SendMakes ==
    ASSUME TypeOK, NEW s \in Sweeps, SendBatch(s)
    PROVE  /\ sweep' = [sweep EXCEPT ![s] =
                    SweepAt(sweep[s].at, sweep[s].variant, "stamp", sweep[s].batch)]
           /\ reminded' \in [Processes -> [Ids -> [Variants -> Nat]]]
           /\ \A p \in Processes, id \in Ids, v \in Variants :
                reminded'[p][id][v] =
                    IF p = Home[s] /\ id \in sweep[s].batch /\ v = sweep[s].variant
                    THEN reminded[p][id][v] + 1 ELSE reminded[p][id][v]
<1> DEFINE e == sweep[s]
           h == Home[s]
           new == OneMore(s, reminded[h])
<1>1. e \in SweepStates /\ e.variant \in Variants /\ h \in Processes
  BY SweepRead, TasksAssumption
<1>2. [e EXCEPT !.step = "stamp"] = SweepAt(e.at, e.variant, "stamp", e.batch)
  BY <1>1 DEF SweepAt, SweepStates
<1>3. sweep' = [sweep EXCEPT ![s] = [e EXCEPT !.step = "stamp"]]
  BY DEF SendBatch, TypeOK
<1>4. reminded \in [Processes -> [Ids -> [Variants -> Nat]]]
  BY DEF TypeOK
<1>5. reminded' = [reminded EXCEPT ![h] = new]
  BY DEF SendBatch
<1>6. ASSUME NEW id \in Ids
      PROVE  /\ new[id] \in [Variants -> Nat]
             /\ \A v \in Variants :
                    new[id][v] = IF id \in e.batch /\ v = e.variant
                                 THEN reminded[h][id][v] + 1 ELSE reminded[h][id][v]
  <2>1. reminded[h][id] \in [Variants -> Nat]
    BY <1>1, <1>4
  <2>2. new[id] = IF id \in e.batch
                  THEN [reminded[h][id] EXCEPT ![e.variant] = @ + 1]
                  ELSE reminded[h][id]
    BY DEF OneMore
  <2> HIDE DEF e, new, h
  <2> QED
    BY <1>1, <2>1, <2>2
<1>7. new \in [Ids -> [Variants -> Nat]]
  <2>1. new = [id \in Ids |-> new[id]]
    BY DEF OneMore
  <2> HIDE DEF new
  <2> QED
    BY <1>6, <2>1
<1> HIDE DEF new
<1>8. /\ reminded'[h] = new /\ \A p \in Processes : p # h => reminded'[p] = reminded[p]
      /\ reminded' \in [Processes -> [Ids -> [Variants -> Nat]]]
  BY <1>1, <1>4, <1>5, <1>7
<1>9. ASSUME NEW p \in Processes, NEW id \in Ids, NEW v \in Variants
      PROVE  reminded'[p][id][v] = IF p = h /\ id \in e.batch /\ v = e.variant
                                   THEN reminded[p][id][v] + 1 ELSE reminded[p][id][v]
  <2> HIDE DEF e, h
  <2>1. CASE p = h
    BY <1>6, <1>8, <2>1
  <2>2. CASE p # h
    BY <1>8, <2>2
  <2> QED
    BY <2>1, <2>2
<1> QED
  BY <1>2, <1>3, <1>8, <1>9

\* The tasks of a batch that are there still are stamped; nothing else happens to
\* a task.
LEMMA StampMakes ==
    ASSUME TypeOK, NEW s \in Sweeps, StampBatch(s)
    PROVE  /\ tasks' \in [Ids -> Rows \cup {Unborn}]
           /\ \A id \in Ids :
                /\ ~ (Exists(id) /\ id \in sweep[s].batch) => tasks'[id] = tasks[id]
                /\ Exists(id) /\ id \in sweep[s].batch =>
                     /\ tasks'[id] \in Rows
                     /\ tasks'[id].place = tasks[id].place
                     /\ tasks'[id].code = tasks[id].code
                     /\ tasks'[id].sent = tasks[id].sent \cup {sweep[s].variant}
<1>1. sweep[s].variant \in Variants
  BY SweepRead
<1>2. ASSUME NEW id \in Ids, Exists(id), id \in sweep[s].batch
      PROVE  /\ tasks'[id] \in Rows
             /\ tasks'[id].place = tasks[id].place
             /\ tasks'[id].code = tasks[id].code
             /\ tasks'[id].sent = tasks[id].sent \cup {sweep[s].variant}
  <2> DEFINE row == tasks[id]
             v == sweep[s].variant
             e == [row EXCEPT !.sent = @ \cup {v}]
  <2>1. row \in Rows /\ v \in Variants
    BY <1>1, <1>2, RowRead
  <2>2. tasks'[id] = e
    BY <1>2 DEF StampBatch, StampedIds
  <2> HIDE DEF row, v
  <2>3. /\ e \in Rows /\ e.place = row.place /\ e.code = row.code
        /\ e.sent = row.sent \cup {v}
    BY <2>1, StampedIs
  <2> HIDE DEF e
  <2>4. /\ tasks'[id] \in Rows /\ tasks'[id].place = row.place
        /\ tasks'[id].code = row.code /\ tasks'[id].sent = row.sent \cup {v}
    BY <2>2, <2>3
  <2> QED
    BY <2>4 DEF row, v
<1>3. \A id \in Ids : ~ (Exists(id) /\ id \in sweep[s].batch) => tasks'[id] = tasks[id]
  BY DEF StampBatch, StampedIds
<1>4. \A id \in Ids : tasks'[id] \in Rows \cup {Unborn}
  BY <1>2, <1>3, RowRead
<1>5. tasks' = [id \in Ids |-> tasks'[id]]
  BY DEF StampBatch
<1>6. tasks' \in [Ids -> Rows \cup {Unborn}]
  BY <1>4, <1>5
<1> QED
  BY <1>2, <1>3, <1>6

\* Every edit, and every way to the bin and back or out of the table.
EditStep ==
    \/ UpdateTask \/ UpdateTaskStatus
    \/ AdminUpdateTask \/ AdminUpdateStatus \/ FormUpdateTask
MoveStep == DeleteTask \/ RestoreTask \/ FormDeleteTask

\* A request that is served is one more, within the bound.
LEMMA ServeMakes ==
    ASSUME TypeOK, Serve
    PROVE  requests' \in 0 .. MaxEvents
BY TasksAssumption DEF Serve, TypeOK

\* The stamps on their way are those of the two variants.
LEMMA OnTheirWayIs ==
    ASSUME TypeOK, NEW id \in Ids
    PROVE  /\ OnTheirWay(id) \in SUBSET Variants
           /\ \A s \in Sweeps : sweep[s].step = "stamp" /\ id \in sweep[s].batch =>
                    sweep[s].variant \in OnTheirWay(id)
BY SweepRead DEF OnTheirWay

\* What an edit leaves of the reminders and the stamps of its task.
Renewed(id) ==
    /\ reminded' = [p \in Processes |->
            [reminded[p] EXCEPT ![id] = [v \in Variants |-> 0]]]
    /\ crossed' = [crossed EXCEPT ![id] = OnTheirWay(id)]

\* What an edit writes: the stamps and their history are kept, or begin again.
LEMMA EditMakes ==
    ASSUME TypeOK, EditStep
    PROVE  /\ UNCHANGED <<now, request, running, sweep, refused, faults>>
           /\ requests' \in 0 .. MaxEvents
           /\ \E id \in Ids, e \in Rows :
                /\ Exists(id) /\ tasks' = [tasks EXCEPT ![id] = e]
                /\ e.place = tasks[id].place /\ e.code = tasks[id].code
                /\ \/ e.sent = tasks[id].sent /\ UNCHANGED <<reminded, crossed>>
                   \/ e.sent = {} /\ Renewed(id)
<1>1. OnlyStatus \subseteq Settings
  BY DEF OnlyStatus
<1>2. PICK settings \in SUBSET Settings, resets \in BOOLEAN : Edit(settings, resets)
  BY <1>1 DEF EditStep, UpdateTask, UpdateTaskStatus, AdminUpdateTask,
              AdminUpdateStatus, FormUpdateTask
<1>3. /\ UNCHANGED <<now, request, running, sweep, refused, faults>>
      /\ requests' \in 0 .. MaxEvents
  BY <1>2, ServeMakes DEF Edit
<1>4. PICK id \in Existing, to \in settings :
        LET renewed == resets /\ to.due # Keep IN
        /\ tasks' = [tasks EXCEPT ![id] = Edited(tasks[id], to, renewed)]
        /\ IF renewed THEN Renewed(id) ELSE UNCHANGED <<reminded, crossed>>
  BY <1>2 DEF Edit, Renewed
<1> DEFINE renewed == resets /\ to.due # Keep
           row == tasks[id]
           e == Edited(row, to, renewed)
<1>5. id \in Ids /\ Exists(id) /\ row \in Rows /\ to \in Settings /\ renewed \in BOOLEAN
  BY RowRead DEF Existing
<1>6. /\ e \in Rows /\ e.place = row.place /\ e.code = row.code
      /\ e.sent = IF renewed THEN {} ELSE row.sent
  <2> HIDE DEF row, renewed
  <2> QED
    BY <1>5, EditedIs
<1>7. tasks' = [tasks EXCEPT ![id] = e]
  BY <1>4
<1>8. IF renewed THEN Renewed(id) ELSE UNCHANGED <<reminded, crossed>>
  BY <1>4
<1> HIDE DEF e, renewed
<1>9. \/ e.sent = tasks[id].sent /\ UNCHANGED <<reminded, crossed>>
      \/ e.sent = {} /\ Renewed(id)
  BY <1>6, <1>8, Zenon
<1> QED
  BY <1>3, <1>5, <1>6, <1>7, <1>9

\* Deleting and restoring change the place of one task and nothing else of it.
LEMMA MoveMakes ==
    ASSUME TypeOK, MoveStep
    PROVE  /\ UNCHANGED <<now, request, running, sweep, reminded, crossed, refused, faults>>
           /\ requests' \in 0 .. MaxEvents
           /\ \E id \in Ids, e \in Rows :
                /\ Exists(id) /\ tasks' = [tasks EXCEPT ![id] = e]
                /\ e.code = tasks[id].code /\ e.sent = tasks[id].sent
<1>0. /\ UNCHANGED <<now, request, running, sweep, reminded, crossed, refused, faults>>
      /\ requests' \in 0 .. MaxEvents
  BY ServeMakes DEF MoveStep, DeleteTask, RestoreTask, FormDeleteTask, Move
<1>1. PICK id \in Ids, to \in {"list", "bin", "gone"} :
        Exists(id) /\ tasks' = [tasks EXCEPT ![id].place = to]
  BY DEF MoveStep, DeleteTask, RestoreTask, FormDeleteTask, Move, Exists, Existing
<1> DEFINE row == tasks[id]
           e == [row EXCEPT !.place = to]
<1>2. row \in Rows
  BY <1>1, RowRead
<1>3. tasks' = [tasks EXCEPT ![id] = e]
  BY <1>1 DEF TypeOK
<1>4. /\ e \in Rows /\ e.place = to /\ e.code = row.code /\ e.sent = row.sent
  <2> HIDE DEF row
  <2> QED
    BY <1>2, MovedIs
<1> HIDE DEF e
<1> QED
  BY <1>0, <1>1, <1>3, <1>4

\* Only a creation that inserts or a form's page that adds makes a task, and what
\* is gone stays gone.
NoBirth == ~ AddTask /\ \A r \in Requesters : ~ Insert(r)

\* A step that makes no task changes those that are there, and keeps their codes.
LEMMA TaskLife ==
    ASSUME TypeOK, [Next]_vars, NoBirth
    PROVE  \A id \in Ids :
             /\ ~ Exists(id) => tasks'[id] = tasks[id]
             /\ Exists(id) => tasks'[id] \in Rows /\ tasks'[id].code = tasks[id].code
<1>1. ASSUME tasks' = tasks
      PROVE  \A id \in Ids :
               /\ ~ Exists(id) => tasks'[id] = tasks[id]
               /\ Exists(id) => tasks'[id] \in Rows /\ tasks'[id].code = tasks[id].code
  BY <1>1, RowRead
<1>2. ASSUME NEW j \in Ids, NEW e \in Rows, Exists(j), tasks' = [tasks EXCEPT ![j] = e],
             e.code = tasks[j].code
      PROVE  \A id \in Ids :
               /\ ~ Exists(id) => tasks'[id] = tasks[id]
               /\ Exists(id) => tasks'[id] \in Rows /\ tasks'[id].code = tasks[id].code
  BY <1>2, PutTask, RowRead
<1>3. ASSUME EditStep \/ MoveStep
      PROVE  \A id \in Ids :
               /\ ~ Exists(id) => tasks'[id] = tasks[id]
               /\ Exists(id) => tasks'[id] \in Rows /\ tasks'[id].code = tasks[id].code
  <2>1. PICK id \in Ids, e \in Rows :
          /\ Exists(id) /\ tasks' = [tasks EXCEPT ![id] = e]
          /\ e.code = tasks[id].code
    BY <1>3, EditMakes, MoveMakes
  <2> QED
    BY <1>2, <2>1
<1>4. ASSUME NEW s \in Sweeps, StampBatch(s)
      PROVE  \A id \in Ids :
               /\ ~ Exists(id) => tasks'[id] = tasks[id]
               /\ Exists(id) => tasks'[id] \in Rows /\ tasks'[id].code = tasks[id].code
  BY <1>4, StampMakes, RowRead
<1>5. \/ tasks' = tasks
      \/ EditStep \/ MoveStep
      \/ \E s \in Sweeps : StampBatch(s)
  BY DEF Next, vars, NoBirth, EditStep, MoveStep, CreateTask, Clash, Recount,
         StartSweep, ReadBatch, SendBatch, SweepFails, Crash, Tick
<1> QED
  BY <1>1, <1>3, <1>4, <1>5

-----------------------------------------------------------------------------
(* Types, and the creations under way.                                     *)

BaseInv == TypeOK /\ Creating

\* At the start nobody creates anything.
LEMMA BaseInit == Init => BaseInv
<1> SUFFICES ASSUME Init PROVE BaseInv
  OBVIOUS
<1>1. tasks \in [Ids -> Rows \cup {Unborn}]
  BY DEF Init
<1>2. request \in [Requesters -> Requests] /\ \A r \in Requesters : ~ IsCreating(r)
  BY DEF Init, Requests, Free, IsCreating
<1>3. sweep \in [Sweeps -> SweepStates] /\ running \in [Processes -> BOOLEAN]
  BY NotSweepingIs DEF Init
<1>4. /\ reminded \in [Processes -> [Ids -> [Variants -> Nat]]]
      /\ crossed \in [Ids -> SUBSET Variants]
  BY DEF Init
<1>5. now \in 0 .. MaxNow /\ requests \in 0 .. MaxEvents /\ faults \in 0 .. MaxFaults
  BY TasksAssumption DEF Init
<1>6. TypeOK
  BY <1>1, <1>2, <1>3, <1>4, <1>5 DEF Init, TypeOK
<1> QED
  BY <1>2, <1>6 DEF BaseInv, Creating

\* A step that gives nobody another task to create, and takes no attempt beyond
\* the last.
LEMMA CreatingKept ==
    ASSUME BaseInv,
           \A id \in Ids : tasks[id] = Unborn => tasks'[id] = Unborn,
           \A r \in Requesters : request'[r].kind = "create" =>
                /\ IsCreating(r) /\ request'[r].id = request[r].id
                /\ request'[r].clashes < MaxAttempts
    PROVE  Creating'
<1>1. \A r \in Requesters : IsCreating(r) => request[r].id \in Ids
  BY RequestRead DEF BaseInv, CreateReqs
<1> QED
  BY <1>1 DEF BaseInv, Creating, IsCreating

\* A creation and its counting.
LEMMA CreateStep ==
    ASSUME BaseInv, NEW r \in Requesters, CreateTask(r) \/ Clash(r) \/ Recount(r)
    PROVE  BaseInv'
<1>0. TypeOK /\ Creating
  BY DEF BaseInv
<1>1. CASE CreateTask(r)
  <2>1. PICK id \in NewIds, due \in Dues :
          request' = [request EXCEPT ![r] = CreateReq(id, GenerateTaskCode, due, 0, 0)]
    BY <1>0, <1>1, CreateTaskMakes
  <2> DEFINE q == CreateReq(id, GenerateTaskCode, due, 0, 0)
  <2>2. id \in Ids /\ tasks[id] = Unborn
        /\ \A p \in Requesters : IsCreating(p) => request[p].id # id
    BY DEF NewIds, IsCreating
  <2>0. GenerateTaskCode \in Nat /\ 0 \in 0 .. MaxAttempts /\ 0 \in Nat
    BY <1>0, CountIs, TasksAssumption
  <2>3. q \in Requests /\ q.kind = "create" /\ q.id = id /\ q.clashes = 0
    BY <2>2, <2>0, CreateReqIs
  <2> HIDE DEF q
  <2>4. /\ request' \in [Requesters -> Requests] /\ request'[r] = q
        /\ \A p \in Requesters : p # r => request'[p] = request[p]
    BY <1>0, <2>1, <2>3, PutRequest DEF q
  <2>5. /\ UNCHANGED <<now, tasks, running, sweep, reminded, crossed, refused, faults>>
        /\ requests' \in 0 .. MaxEvents
    BY <1>0, <1>1, ServeMakes DEF CreateTask
  <2>6. TypeOK'
    BY <1>0, <2>4, <2>5 DEF TypeOK
  <2>7. Creating'
    BY <1>0, <2>2, <2>3, <2>4, <2>5, TasksAssumption DEF Creating, IsCreating
  <2> QED
    BY <2>6, <2>7 DEF BaseInv
<1>2. CASE Clash(r)
  <2> DEFINE q == request[r]
             c == q.clashes + 1
             e == CreateReq(q.id, 0, q.due, c, q.rivals)
             f == [clashes |-> c, rivals |-> q.rivals]
  <2>1. q \in CreateReqs /\ IsCreating(r) /\ c \in 0 .. MaxAttempts
    <3>1. q \in CreateReqs /\ IsCreating(r)
      BY <1>0, <1>2, RequestRead DEF Clash, IsCreating
    <3> QED
      BY <1>0, <3>1, TasksAssumption DEF Creating, CreateReqs
  <2>2. UNCHANGED <<now, tasks, running, sweep, reminded, crossed, requests, faults>>
    BY <1>2 DEF Clash
  <2>3. \/ /\ c < MaxAttempts /\ UNCHANGED refused
           /\ request' = [request EXCEPT ![r] = e]
        \/ /\ c = MaxAttempts /\ request' = [request EXCEPT ![r] = Free]
           /\ refused' = refused \cup {f}
    BY <1>0, <1>2, ClashMakes
  <2>4. /\ e \in Requests /\ e.kind = "create" /\ e.id = q.id /\ e.clashes = c
        /\ Free \in Requests /\ Free.kind # "create"
        /\ c = MaxAttempts => f \in [clashes : {MaxAttempts}, rivals : Nat]
    <3>1. q.id \in Ids /\ q.due \in Dues /\ q.rivals \in Nat /\ 0 \in Nat
      BY <2>1 DEF CreateReqs
    <3>2. e \in Requests /\ e.kind = "create" /\ e.id = q.id /\ e.clashes = c
      BY <2>1, <3>1, CreateReqIs
    <3> QED
      BY <3>1, <3>2 DEF Requests, Free
  <2> HIDE DEF e, f
  <2>5. refused' \subseteq [clashes : {MaxAttempts}, rivals : Nat]
    BY <1>0, <2>3, <2>4 DEF TypeOK
  <2>6. /\ request' \in [Requesters -> Requests]
        /\ \A p \in Requesters : p # r => request'[p] = request[p]
        /\ \/ request'[r] = Free
           \/ request'[r] = e /\ c < MaxAttempts
    BY <1>0, <2>3, <2>4, PutRequest
  <2>7. TypeOK'
    BY <1>0, <2>2, <2>5, <2>6 DEF TypeOK
  <2>8. \A p \in Requesters : request'[p].kind = "create" =>
            /\ IsCreating(p) /\ request'[p].id = request[p].id
            /\ request'[p].clashes < MaxAttempts
    <3> SUFFICES ASSUME NEW p \in Requesters, request'[p].kind = "create"
                 PROVE  /\ IsCreating(p) /\ request'[p].id = request[p].id
                        /\ request'[p].clashes < MaxAttempts
      OBVIOUS
    <3>1. CASE p = r
      BY <2>1, <2>4, <2>6, <3>1
    <3>2. CASE p # r
      BY <1>0, <2>6, <3>2 DEF Creating, IsCreating
    <3> QED
      BY <3>1, <3>2
  <2>9. Creating'
    BY <2>2, <2>8, CreatingKept
  <2> QED
    BY <2>7, <2>9 DEF BaseInv
<1>3. CASE Recount(r)
  <2> DEFINE q == request[r]
             e == CreateReq(q.id, GenerateTaskCode, q.due, q.clashes, q.rivals)
  <2>1. q \in CreateReqs /\ IsCreating(r) /\ q.clashes < MaxAttempts
    BY <1>0, <1>3, RequestRead DEF Recount, IsCreating, Creating
  <2>2. e \in Requests /\ e.kind = "create" /\ e.id = q.id /\ e.clashes = q.clashes
    <3>1. q.id \in Ids /\ q.due \in Dues /\ q.rivals \in Nat
          /\ q.clashes \in 0 .. MaxAttempts
      BY <2>1 DEF CreateReqs
    <3> QED
      BY <3>1, CountIs, CreateReqIs
  <2>3. request' = [request EXCEPT ![r] = e]
    BY <1>0, <1>3, RecountMakes
  <2> HIDE DEF e
  <2>4. /\ request' \in [Requesters -> Requests] /\ request'[r] = e
        /\ \A p \in Requesters : p # r => request'[p] = request[p]
    BY <1>0, <2>2, <2>3, PutRequest
  <2>5. UNCHANGED <<now, tasks, running, sweep, reminded, crossed, refused,
                    requests, faults>>
    BY <1>3 DEF Recount
  <2>6. TypeOK'
    BY <1>0, <2>4, <2>5 DEF TypeOK
  <2>7. \A p \in Requesters : request'[p].kind = "create" =>
            /\ IsCreating(p) /\ request'[p].id = request[p].id
            /\ request'[p].clashes < MaxAttempts
    <3> SUFFICES ASSUME NEW p \in Requesters, request'[p].kind = "create"
                 PROVE  /\ IsCreating(p) /\ request'[p].id = request[p].id
                        /\ request'[p].clashes < MaxAttempts
      OBVIOUS
    <3>1. CASE p = r
      BY <2>1, <2>2, <2>4, <3>1
    <3>2. CASE p # r
      BY <1>0, <2>4, <3>2 DEF Creating, IsCreating
    <3> QED
      BY <3>1, <3>2
  <2>8. Creating'
    BY <2>5, <2>7, CreatingKept
  <2> QED
    BY <2>6, <2>8 DEF BaseInv
<1> QED
  BY <1>1, <1>2, <1>3

\* A task that is inserted, or added to the page of a form.
LEMMA BirthStep ==
    ASSUME BaseInv, AddTask \/ \E r \in Requesters : Insert(r)
    PROVE  BaseInv'
<1>0. TypeOK /\ Creating
  BY DEF BaseInv
<1>1. ASSUME NEW r \in Requesters, Insert(r) PROVE BaseInv'
  <2> DEFINE id == request[r].id
             e == NewTask(request[r].code, request[r].due)
  <2>1. /\ id \in Ids /\ e \in Rows /\ IsCreating(r)
        /\ tasks' = [tasks EXCEPT ![id] = e]
    <3>1. request[r] \in CreateReqs
      BY <1>0, <1>1, InsertMakes
    <3> QED
      BY <1>0, <1>1, <3>1, InsertMakes, NewTaskIs DEF CreateReqs
  <2> HIDE DEF e
  <2>2. /\ tasks' \in [Ids -> Rows \cup {Unborn}]
        /\ \A j \in Ids : j # id => tasks'[j] = tasks[j]
    BY <1>0, <2>1, PutTask
  <2>3. UNCHANGED <<now, running, sweep, reminded, crossed, refused, requests, faults>>
    BY <1>1 DEF Insert
  <2>4. request' \in [Requesters -> Requests]
    BY <1>0, <1>1, InsertMakes
  <2>5. TypeOK'
    BY <1>0, <2>2, <2>3, <2>4 DEF TypeOK
  <2>6. ASSUME NEW p \in Requesters, request'[p].kind = "create"
        PROVE  /\ p # r /\ IsCreating(p) /\ request'[p].id = request[p].id
               /\ request'[p].clashes = request[p].clashes
    <3>1. p # r
      BY <1>0, <1>1, <2>6, InsertMakes DEF Free
    <3>2. IsCreating(p)
      BY <1>0, <1>1, <2>6, <3>1, InsertMakes DEF IsCreating
    <3> DEFINE q == request[p]
    <3>3. request'[p] = CreateReq(q.id, q.code, q.due, q.clashes, q.rivals + 1)
      BY <1>0, <1>1, <3>1, <3>2, InsertMakes
    <3> QED
      BY <3>1, <3>2, <3>3 DEF CreateReq
  <2>7. \A p \in Requesters : IsCreating(p) => request[p].id \in Ids
    BY <1>0, RequestRead DEF CreateReqs
  <2>8. Creating'
    BY <1>0, <2>1, <2>2, <2>6, <2>7 DEF Creating, IsCreating
  <2> QED
    BY <2>5, <2>8 DEF BaseInv
<1>2. CASE AddTask
  <2>1. PICK id \in NewIds, due \in Dues : tasks' = [tasks EXCEPT ![id] = NewTask(0, due)]
    BY <1>2 DEF AddTask
  <2> DEFINE e == NewTask(0, due)
  <2>2. id \in Ids /\ e \in Rows
    BY NewTaskIs DEF NewIds
  <2> HIDE DEF e
  <2>3. /\ tasks' \in [Ids -> Rows \cup {Unborn}]
        /\ \A j \in Ids : j # id => tasks'[j] = tasks[j]
    BY <1>0, <2>1, <2>2, PutTask DEF e
  <2>4. /\ UNCHANGED <<now, request, running, sweep, reminded, crossed, refused, faults>>
        /\ requests' \in 0 .. MaxEvents
    BY <1>0, <1>2, ServeMakes DEF AddTask
  <2>5. TypeOK'
    BY <1>0, <2>3, <2>4 DEF TypeOK
  <2>6. \A p \in Requesters : IsCreating(p) => request[p].id \in Ids /\ request[p].id # id
    BY <1>0, RequestRead DEF CreateReqs, NewIds, IsCreating
  <2>7. Creating'
    BY <1>0, <2>3, <2>4, <2>6 DEF Creating, IsCreating
  <2> QED
    BY <2>5, <2>7 DEF BaseInv
<1> QED
  BY <1>1, <1>2

\* A step that leaves the creations there or lets them end.
LEMMA OthersStep ==
    ASSUME BaseInv, TypeOK', [Next]_vars, NoBirth,
           \A p \in Requesters : request'[p] = request[p] \/ request'[p].kind # "create"
    PROVE  BaseInv'
<1>1. \A id \in Ids : tasks[id] = Unborn => tasks'[id] = Unborn
  BY TaskLife, RowRead DEF BaseInv
<1>2. Creating'
  BY <1>1, CreatingKept DEF BaseInv, Creating, IsCreating
<1> QED
  BY <1>2 DEF BaseInv

\* A fault is one more, within the bound.
LEMMA FaultMakes ==
    ASSUME TypeOK, Fault
    PROVE  faults' \in 0 .. MaxFaults /\ faults' = faults + 1
BY TasksAssumption DEF Fault, TypeOK

\* Every variable keeps its type in the steps that insert nothing.
LEMMA OthersType ==
    ASSUME BaseInv, [Next]_vars, NoBirth
    PROVE  \/ BaseInv'
           \/ \E p \in Requesters : CreateTask(p) \/ Clash(p) \/ Recount(p)
<1>0. TypeOK /\ Creating
  BY DEF BaseInv
<1>1. Free \in Requests /\ Free.kind # "create"
  BY DEF Requests, Free
<1>2. CASE EditStep
  <2>1. PICK id \in Ids, e \in Rows :
          /\ tasks' = [tasks EXCEPT ![id] = e]
          /\ UNCHANGED <<reminded, crossed>> \/ Renewed(id)
    BY <1>0, <1>2, EditMakes
  <2>2. tasks' \in [Ids -> Rows \cup {Unborn}]
    BY <1>0, <2>1, PutTask
  <2>3. /\ reminded' \in [Processes -> [Ids -> [Variants -> Nat]]]
        /\ crossed' \in [Ids -> SUBSET Variants]
    <3>1. CASE Renewed(id)
      <4>1. crossed' \in [Ids -> SUBSET Variants]
        BY <1>0, <3>1, OnTheirWayIs DEF Renewed, TypeOK
      <4>2. \A p \in Processes : reminded[p] \in [Ids -> [Variants -> Nat]]
        BY <1>0 DEF TypeOK
      <4>3. \A p \in Processes : [reminded[p] EXCEPT ![id] = [v \in Variants |-> 0]]
                                    \in [Ids -> [Variants -> Nat]]
        BY <4>2
      <4> QED
        BY <3>1, <4>1, <4>3 DEF Renewed
    <3> QED
      BY <1>0, <2>1, <3>1 DEF TypeOK
  <2>4. /\ UNCHANGED <<now, request, running, sweep, refused, faults>>
        /\ requests' \in 0 .. MaxEvents
    BY <1>0, <1>2, EditMakes
  <2>5. TypeOK'
    BY <1>0, <2>2, <2>3, <2>4 DEF TypeOK
  <2> QED
    BY <2>4, <2>5, OthersStep
<1>3. CASE MoveStep
  <2>1. PICK id \in Ids, e \in Rows : tasks' = [tasks EXCEPT ![id] = e]
    BY <1>0, <1>3, MoveMakes
  <2>2. tasks' \in [Ids -> Rows \cup {Unborn}]
    BY <1>0, <2>1, PutTask
  <2>3. /\ UNCHANGED <<now, request, running, sweep, reminded, crossed, refused, faults>>
        /\ requests' \in 0 .. MaxEvents
    BY <1>0, <1>3, MoveMakes
  <2>4. TypeOK'
    BY <1>0, <2>2, <2>3 DEF TypeOK
  <2> QED
    BY <2>3, <2>4, OthersStep
<1>4. ASSUME NEW s \in Sweeps, NEW e \in SweepStates, sweep' = [sweep EXCEPT ![s] = e],
             running' \in [Processes -> BOOLEAN],
             tasks' \in [Ids -> Rows \cup {Unborn}],
             reminded' \in [Processes -> [Ids -> [Variants -> Nat]]],
             faults' \in 0 .. MaxFaults,
             UNCHANGED <<now, request, crossed, refused, requests>>
      PROVE  BaseInv'
  <2>1. sweep' \in [Sweeps -> SweepStates]
    BY <1>0, <1>4, PutSweep
  <2>2. TypeOK'
    BY <1>0, <1>4, <2>1 DEF TypeOK
  <2> QED
    BY <1>4, <2>2, OthersStep
<1>5. ASSUME NEW s \in Sweeps, StartSweep(s) PROVE BaseInv'
  <2> DEFINE e == SweepAt(now, "due-soon", "read", {})
  <2>1. e \in SweepStates
    BY <1>0, SweepAtIs, TasksAssumption DEF TypeOK, Variants
  <2>2. sweep' = [sweep EXCEPT ![s] = e] /\ running' \in [Processes -> BOOLEAN]
    BY <1>0, <1>5, StartMakes DEF TypeOK
  <2> HIDE DEF e
  <2> QED
    BY <1>0, <1>4, <1>5, <2>1, <2>2 DEF StartSweep, TypeOK
<1>6. ASSUME NEW s \in Sweeps, AfterVariant(s)
      PROVE  /\ running' \in [Processes -> BOOLEAN]
             /\ \E e \in SweepStates : sweep' = [sweep EXCEPT ![s] = e]
  <2>1. SweepAt(sweep[s].at, "overdue", "read", {}) \in SweepStates
    BY <1>0, SweepRead, SweepAtIs DEF Variants
  <2>2. running' \in [Processes -> BOOLEAN]
    BY <1>0, <1>6, AfterMakes DEF TypeOK
  <2> QED
    BY <1>0, <1>6, <2>1, <2>2, AfterMakes, NotSweepingIs
<1>7. ASSUME NEW s \in Sweeps, ReadBatch(s) PROVE BaseInv'
  <2>1. UNCHANGED <<now, tasks, request, reminded, crossed, refused, requests, faults>>
    BY <1>7 DEF ReadBatch
  <2>2. /\ running' \in [Processes -> BOOLEAN]
        /\ \E e \in SweepStates : sweep' = [sweep EXCEPT ![s] = e]
    <3>1. CASE AfterVariant(s)
      BY <1>6, <3>1
    <3>2. CASE ~ AfterVariant(s)
      <4>1. PICK B \in SUBSET ToRemind(sweep[s].variant, sweep[s].at) :
              /\ sweep' = [sweep EXCEPT ![s] =
                      SweepAt(sweep[s].at, sweep[s].variant, "send", B)]
              /\ UNCHANGED running
        BY <1>0, <1>7, <3>2, ReadMakes
      <4>2. B \in SUBSET Ids
        BY <4>1 DEF ToRemind, Existing
      <4>3. SweepAt(sweep[s].at, sweep[s].variant, "send", B) \in SweepStates
        BY <1>0, <4>2, SweepRead, SweepAtIs
      <4> QED
        BY <1>0, <4>1, <4>3 DEF TypeOK
    <3> QED
      BY <3>1, <3>2
  <2> QED
    BY <1>0, <1>4, <2>1, <2>2 DEF TypeOK
<1>8. ASSUME NEW s \in Sweeps, SendBatch(s) PROVE BaseInv'
  <2> DEFINE e == SweepAt(sweep[s].at, sweep[s].variant, "stamp", sweep[s].batch)
  <2>1. e \in SweepStates
    BY <1>0, SweepRead, SweepAtIs
  <2>2. /\ sweep' = [sweep EXCEPT ![s] = e]
        /\ reminded' \in [Processes -> [Ids -> [Variants -> Nat]]]
    BY <1>0, <1>8, SendMakes
  <2> HIDE DEF e
  <2>3. UNCHANGED <<now, tasks, request, running, crossed, refused, requests, faults>>
    BY <1>8 DEF SendBatch
  <2> QED
    BY <1>0, <1>4, <2>1, <2>2, <2>3 DEF TypeOK
<1>9. ASSUME NEW s \in Sweeps, StampBatch(s) PROVE BaseInv'
  <2>1. tasks' \in [Ids -> Rows \cup {Unborn}]
    BY <1>0, <1>9, StampMakes
  <2>2. UNCHANGED <<now, request, reminded, crossed, refused, requests, faults>>
    BY <1>9 DEF StampBatch
  <2>3. /\ running' \in [Processes -> BOOLEAN]
        /\ \E e \in SweepStates : sweep' = [sweep EXCEPT ![s] = e]
    BY <1>6, <1>9 DEF StampBatch
  <2> QED
    BY <1>0, <1>4, <2>1, <2>2, <2>3 DEF TypeOK
<1>10. ASSUME NEW s \in Sweeps, SweepFails(s) PROVE BaseInv'
  <2>1. /\ sweep' = [sweep EXCEPT ![s] = NotSweeping]
        /\ running' \in [Processes -> BOOLEAN]
        /\ UNCHANGED <<now, tasks, request, reminded, crossed, refused, requests>>
    BY <1>0, <1>10 DEF SweepFails, TypeOK
  <2>2. faults' \in 0 .. MaxFaults
    BY <1>0, <1>10, FaultMakes DEF SweepFails
  <2> QED
    BY <1>0, <1>4, <2>1, <2>2, NotSweepingIs DEF TypeOK
<1>11. ASSUME NEW p \in Processes, Crash(p) PROVE BaseInv'
  <2>1. \A r \in Requesters : request'[r] = request[r] \/ request'[r] = Free
    BY <1>11 DEF Crash
  <2>2. request' \in [Requesters -> Requests]
    <3>1. PICK lost \in SUBSET Requesters :
            request' = [r \in Requesters |-> IF r \in lost THEN Free ELSE request[r]]
      BY <1>11 DEF Crash
    <3> QED
      BY <1>0, <1>1, <3>1, RequestRead
  <2>3. /\ running' \in [Processes -> BOOLEAN]
        /\ UNCHANGED <<now, tasks, reminded, crossed, refused, requests>>
    BY <1>0, <1>11 DEF Crash, TypeOK
  <2>4. sweep' \in [Sweeps -> SweepStates]
    BY <1>0, <1>11, NotSweepingIs DEF Crash, TypeOK
  <2>5. faults' \in 0 .. MaxFaults
    BY <1>0, <1>11, FaultMakes DEF Crash
  <2>6. TypeOK'
    BY <1>0, <2>2, <2>3, <2>4, <2>5 DEF TypeOK
  <2> QED
    BY <1>1, <2>1, <2>6, OthersStep
<1>12. CASE Tick
  <2>1. TypeOK'
    BY <1>0, <1>12, TasksAssumption DEF Tick, TypeOK
  <2> QED
    BY <1>12, <2>1, OthersStep DEF Tick
<1>13. CASE UNCHANGED vars
  <2>1. TypeOK'
    BY <1>0, <1>13 DEF vars, TypeOK
  <2> QED
    BY <1>13, <2>1, OthersStep DEF vars
<1> QED
  BY <1>2, <1>3, <1>5, <1>7, <1>8, <1>9, <1>10, <1>11, <1>12, <1>13
     DEF Next, NoBirth, EditStep, MoveStep

\* Every step keeps the types, and creations have their tasks to themselves.
LEMMA BaseStep == BaseInv /\ [Next]_vars => BaseInv'
BY CreateStep, BirthStep, OthersType DEF NoBirth

-----------------------------------------------------------------------------
(* Reminders.                                                              *)

\* Faults and reminders are numbers.
LEMMA NumbersRead ==
    ASSUME TypeOK
    PROVE  /\ faults \in Nat
           /\ \A p \in Processes, id \in Ids, v \in Variants : reminded[p][id][v] \in Nat
           /\ \A p \in Processes, id \in Ids : reminded[p][id] \in [Variants -> Nat]
           /\ \A s \in Sweeps : Home[s] \in Processes
BY TasksAssumption DEF TypeOK

\* At the start no sweep runs and nobody was reminded.
LEMMA SweepInit == Init => SweepInv
<1> SUFFICES ASSUME Init PROVE SweepInv
  OBVIOUS
<1>1. \A s \in Sweeps : sweep[s] = NotSweeping
  BY DEF Init
<1>2. \A p \in Processes, id \in Ids, v \in Variants : reminded[p][id][v] = 0 /\ faults = 0
  BY DEF Init
<1>3. \A id \in Ids : ~ Exists(id)
  BY DEF Init, Exists, Unborn
<1>4. OneSweep /\ Batches /\ Unsent
  BY <1>1, NotSweepingIs DEF OneSweep, Batches, Unsent, Sweeping
<1>5. Counted
  BY <1>2, <1>3 DEF Counted, CountedOf
<1>6. Stamped
  BY <1>1, <1>3, NotSweepingIs DEF Stamped, BackedBatch
<1> QED
  BY <1>4, <1>5, <1>6 DEF SweepInv

\* A step that leaves the sweeps and the reminders alone, and the stamps of the
\* tasks that are there.
LEMMA SweepsRest ==
    ASSUME BaseInv, SweepInv, UNCHANGED <<sweep, running, reminded, crossed, faults>>,
           \A id \in Ids : tasks[id] # Unborn => tasks'[id] # Unborn,
           \A id \in Ids : Exists(id)' =>
                \/ tasks[id] = Unborn /\ tasks'[id].sent = {}
                \/ Exists(id) /\ tasks'[id].sent = tasks[id].sent
    PROVE  SweepInv'
<1>0. TypeOK
  BY DEF BaseInv
<1>1. OneSweep' /\ Unsent'
  BY DEF SweepInv, OneSweep, Unsent, Sweeping
<1>2. Batches'
  BY <1>0, SweepRead DEF SweepInv, Batches
<1>3. \A p \in Processes, id \in Ids, v \in Variants : Sent(p, id, v)' <=> Sent(p, id, v)
  BY DEF Sent, Sweeping
<1>4. Counted'
  BY <1>0, <1>3, NumbersRead DEF SweepInv, Counted, CountedOf
<1>5. Stamped'
  BY DEF SweepInv, Stamped, Backed, BackedBatch
<1> QED
  BY <1>1, <1>2, <1>4, <1>5 DEF SweepInv

\* When the history of a task begins again, so do its stamps, and those on their way
\* are remembered.
LEMMA RenewedStep ==
    ASSUME BaseInv, SweepInv, UNCHANGED <<sweep, running, faults>>,
           NEW id \in Ids, NEW e \in Rows, tasks' = [tasks EXCEPT ![id] = e],
           Exists(id), e.sent = {}, Renewed(id)
    PROVE  SweepInv'
<1>0. TypeOK
  BY DEF BaseInv
<1>1. /\ tasks'[id] = e /\ e # Unborn
      /\ \A j \in Ids : j # id => tasks'[j] = tasks[j]
  <2>1. e.place # "none" /\ Unborn.place = "none"
    BY DEF Rows, Unborn
  <2> QED
    BY <1>0, <2>1, PutTask
<1>2. \A p \in Processes, j \in Ids, v \in Variants :
        reminded'[p][j][v] = IF j = id THEN 0 ELSE reminded[p][j][v]
  <2> SUFFICES ASSUME NEW p \in Processes
               PROVE  \A j \in Ids, v \in Variants :
                        reminded'[p][j][v] = IF j = id THEN 0 ELSE reminded[p][j][v]
    OBVIOUS
  <2>1. /\ reminded[p] \in [Ids -> [Variants -> Nat]]
        /\ reminded'[p] = [reminded[p] EXCEPT ![id] = [v \in Variants |-> 0]]
    BY <1>0 DEF Renewed, TypeOK
  <2> QED
    BY <2>1
<1>3. OneSweep'
  BY DEF SweepInv, OneSweep, Sweeping
<1>4. Batches'
  BY <1>0, <1>1, SweepRead DEF SweepInv, Batches
<1>5. Unsent'
  <2> SUFFICES ASSUME NEW s \in Sweeps, Sweeping(s), sweep[s].step = "send",
                      NEW j \in sweep[s].batch
               PROVE  reminded'[Home[s]][j][sweep[s].variant] <= faults
    BY DEF Unsent, Sweeping
  <2>1. j \in Ids /\ sweep[s].variant \in Variants /\ Home[s] \in Processes
    BY <1>0, SweepRead, NumbersRead
  <2>2. reminded[Home[s]][j][sweep[s].variant] <= faults
    BY DEF SweepInv, Unsent
  <2> QED
    BY <1>0, <1>2, <2>1, <2>2, NumbersRead
<1>6. Counted'
  <2> SUFFICES ASSUME NEW p \in Processes, NEW j \in Ids, NEW v \in Variants
               PROVE  CountedOf(p, j, v)'
    BY DEF Counted
  <2>1. CountedOf(p, j, v) /\ (Sent(p, j, v)' <=> Sent(p, j, v))
    BY DEF SweepInv, Counted, Sent, Sweeping
  <2>2. CASE j = id
    <3>1. reminded'[p][j][v] = 0 /\ faults' \in Nat
      BY <1>0, <1>2, <2>2, NumbersRead
    <3> QED
      BY <3>1 DEF CountedOf
  <2>3. CASE j # id
    <3>1. tasks'[j] = tasks[j] /\ reminded'[p][j][v] = reminded[p][j][v]
      BY <1>1, <1>2, <2>3
    <3> QED
      BY <2>1, <3>1 DEF CountedOf, Exists
  <2> QED
    BY <2>2, <2>3
<1>7. ASSUME NEW j \in Ids, NEW v \in Variants, j # id, Backed(j, v)
      PROVE  Backed(j, v)'
  <2>1. crossed'[j] = crossed[j]
    BY <1>0, <1>7 DEF Renewed, TypeOK
  <2>2. \A p \in Processes : reminded'[p][j][v] = reminded[p][j][v]
    BY <1>2, <1>7
  <2> QED
    BY <1>7, <2>1, <2>2 DEF Backed
<1>8. crossed'[id] = OnTheirWay(id)
  BY <1>0 DEF Renewed, TypeOK
<1>9. Stamped'
  <2>1. ASSUME NEW j \in Ids, Exists(j)', NEW v \in tasks'[j].sent PROVE Backed(j, v)'
    <3>1. j # id
      BY <1>1, <2>1
    <3>2. Exists(j) /\ v \in tasks[j].sent
      BY <1>1, <2>1, <3>1 DEF Exists
    <3>3. v \in Variants
      BY <1>0, <3>2, RowRead DEF Rows
    <3> QED
      BY <1>7, <3>1, <3>2, <3>3 DEF SweepInv, Stamped
  <2>2. ASSUME NEW s \in Sweeps, sweep[s].step = "stamp", NEW j \in sweep[s].batch
        PROVE  Backed(j, sweep[s].variant)'
    <3>1. j \in Ids /\ sweep[s].variant \in Variants
      BY <1>0, SweepRead
    <3>2. CASE j = id
      <4>1. sweep[s].variant \in crossed'[j]
        BY <1>0, <1>8, <2>2, <3>2, OnTheirWayIs
      <4> QED
        BY <4>1 DEF Backed
    <3>3. CASE j # id
      <4>1. Backed(j, sweep[s].variant)
        BY <2>2 DEF SweepInv, Stamped, BackedBatch
      <4> DEFINE v == sweep[s].variant
      <4>2. v \in Variants /\ Backed(j, v) /\ v' = v
        BY <3>1, <4>1
      <4>3. /\ crossed'[j] = crossed[j]
            /\ \A p \in Processes : reminded'[p][j][v] = reminded[p][j][v]
        BY <1>0, <1>2, <3>1, <3>3, <4>2 DEF Renewed, TypeOK
      <4> QED
        BY <4>2, <4>3 DEF Backed
    <3> QED
      BY <3>2, <3>3
  <2> QED
    BY <2>1, <2>2 DEF Stamped, BackedBatch
<1> QED
  BY <1>3, <1>4, <1>5, <1>6, <1>9 DEF SweepInv

\* A task that is written and keeps its stamps, or has none yet.
LEMMA SweepsRestPut ==
    ASSUME BaseInv, SweepInv, UNCHANGED <<sweep, running, reminded, crossed, faults>>,
           NEW id \in Ids, NEW e \in Rows, tasks' = [tasks EXCEPT ![id] = e],
           \/ tasks[id] = Unborn /\ e.sent = {}
           \/ Exists(id) /\ e.sent = tasks[id].sent
    PROVE  SweepInv'
<1>0. TypeOK
  BY DEF BaseInv
<1>1. /\ tasks'[id] = e /\ e # Unborn
      /\ \A j \in Ids : j # id => tasks'[j] = tasks[j]
  <2>1. e.place # "none" /\ Unborn.place = "none"
    BY DEF Rows, Unborn
  <2> QED
    BY <1>0, <2>1, PutTask
<1>2. \A j \in Ids : tasks[j] # Unborn => tasks'[j] # Unborn
  BY <1>1
<1>3. \A j \in Ids : Exists(j)' => \/ tasks[j] = Unborn /\ tasks'[j].sent = {}
                                   \/ Exists(j) /\ tasks'[j].sent = tasks[j].sent
  BY <1>1 DEF Exists
<1> QED
  BY <1>2, <1>3, SweepsRest

\* The sweep that moves is the only one of its process, and stays so.
LEMMA OnlyOne ==
    ASSUME TypeOK, OneSweep, NEW s \in Sweeps, Sweeping(s), NEW e \in SweepStates,
           sweep' = [sweep EXCEPT ![s] = e],
           \A p \in Processes : p # Home[s] \/ e.at >= 0 => running'[p] = running[p]
    PROVE  /\ OneSweep' /\ sweep'[s] = e
           /\ \A t \in Sweeps : t # s =>
                /\ sweep'[t] = sweep[t]
                /\ Home[t] = Home[s] => ~ Sweeping(t)
<1>1. sweep'[s] = e /\ \A t \in Sweeps : t # s => sweep'[t] = sweep[t]
  BY PutSweep
<1>2. \A t \in Sweeps : t # s /\ Home[t] = Home[s] => ~ Sweeping(t)
  BY DEF OneSweep
<1>3. \A t \in Sweeps : Sweeping(t)' => Sweeping(t)
  BY <1>1 DEF Sweeping
<1>4. OneSweep'
  <2> SUFFICES ASSUME NEW t \in Sweeps, Sweeping(t)'
               PROVE  /\ running'[Home[t]]
                      /\ \A u \in Sweeps : Sweeping(u)' /\ Home[u] = Home[t] => u = t
    BY DEF OneSweep
  <2>1. /\ running[Home[t]] /\ Home[t] \in Processes
        /\ \A u \in Sweeps : Sweeping(u) /\ Home[u] = Home[t] => u = t
    BY <1>3, NumbersRead DEF OneSweep
  <2>2. running'[Home[t]] = running[Home[t]]
    <3>1. CASE t = s
      BY <1>1, <2>1, <3>1 DEF Sweeping
    <3>2. CASE t # s
      BY <1>2, <1>3, <2>1, <3>2
    <3> QED
      BY <3>1, <3>2
  <2> QED
    BY <1>3, <2>1, <2>2
<1> QED
  BY <1>1, <1>2, <1>4

\* Reminders that are sent do not unback a stamp.
LEMMA BackedKept ==
    ASSUME TypeOK, UNCHANGED crossed,
           \A p \in Processes, id \in Ids, v \in Variants :
                reminded'[p][id][v] \in Nat /\ reminded'[p][id][v] >= reminded[p][id][v],
           NEW id \in Ids, NEW v \in Variants, Backed(id, v)
    PROVE  Backed(id, v)'
<1>1. CASE v \in crossed[id]
  BY <1>1 DEF Backed
<1>2. CASE v \notin crossed[id]
  <2>1. PICK p \in Processes : reminded[p][id][v] > 0
    BY <1>2 DEF Backed
  <2>2. reminded[p][id][v] \in Nat
    BY NumbersRead
  <2>3. reminded'[p][id][v] \in Nat /\ reminded'[p][id][v] >= reminded[p][id][v]
    OBVIOUS
  <2>4. reminded'[p][id][v] > 0
    BY <2>1, <2>2, <2>3
  <2> QED
    BY <2>4 DEF Backed
<1> QED
  BY <1>1, <1>2

\* A sweep's own step keeps the stamps backed, if what it will stamp has been sent and
\* so have the stamps it writes.
LEMMA StampedKept ==
    ASSUME BaseInv, SweepInv, NEW s \in Sweeps, UNCHANGED crossed,
           \A p \in Processes, id \in Ids, v \in Variants :
                reminded'[p][id][v] \in Nat /\ reminded'[p][id][v] >= reminded[p][id][v],
           \A t \in Sweeps : t # s => sweep'[t] = sweep[t] \/ sweep'[t].step = "read",
           BackedBatch(s)',
           \A id \in Ids : Exists(id)' =>
                /\ Exists(id)
                /\ \A v \in tasks'[id].sent : v \in tasks[id].sent \/ Backed(id, v)'
    PROVE  Stamped'
<1>0. TypeOK
  BY DEF BaseInv
<1>1. ASSUME NEW id \in Ids, Exists(id)', NEW v \in tasks'[id].sent
      PROVE  Backed(id, v)'
  <2>1. CASE v \in tasks[id].sent
    <3>1. Exists(id) /\ Backed(id, v)
      BY <1>1, <2>1 DEF SweepInv, Stamped
    <3>2. v \in Variants
      BY <1>0, <2>1, <3>1, RowRead DEF Rows
    <3> QED
      BY <1>0, <3>1, <3>2, BackedKept
  <2> QED
    BY <1>1, <2>1
<1>2. ASSUME NEW t \in Sweeps, t # s PROVE BackedBatch(t)'
  <2>1. CASE sweep'[t] = sweep[t]
    <3>1. BackedBatch(t)
      BY DEF SweepInv, Stamped
    <3>2. sweep[t].batch \in SUBSET Ids /\ sweep[t].variant \in Variants
      BY <1>0, SweepRead
    <3> DEFINE kept == \A id \in Ids, v \in Variants : Backed(id, v) =>
                          v \in crossed'[id] \/ \E p \in Processes : reminded'[p][id][v] > 0
    <3>3. kept
      BY <1>0, BackedKept DEF Backed
    <3> QED
      BY <2>1, <3>1, <3>2, <3>3 DEF BackedBatch, Backed
  <2>2. CASE sweep'[t].step = "read"
    BY <2>2 DEF BackedBatch
  <2> QED
    BY <2>1, <2>2
<1> QED
  BY <1>1, <1>2 DEF Stamped

\* A sweep starts when none is running in its process.
LEMMA StartStep ==
    ASSUME BaseInv, SweepInv, NEW s \in Sweeps, StartSweep(s)
    PROVE  SweepInv'
<1> DEFINE e == SweepAt(now, "due-soon", "read", {})
<1>0. TypeOK
  BY DEF BaseInv
<1>1. e \in SweepStates /\ e.step = "read" /\ e.batch = {}
  <2>1. now \in -1 .. MaxNow /\ "due-soon" \in Variants
    BY <1>0, TasksAssumption DEF TypeOK, Variants
  <2> QED
    BY <2>1, SweepAtIs
<1>2. /\ sweep' = [sweep EXCEPT ![s] = e] /\ running[Home[s]] = FALSE
      /\ running' = [running EXCEPT ![Home[s]] = TRUE]
  BY <1>0, StartMakes
<1> HIDE DEF e
<1>3. sweep'[s] = e /\ \A t \in Sweeps : t # s => sweep'[t] = sweep[t]
  BY <1>0, <1>1, <1>2, PutSweep
<1>4. \A t \in Sweeps : Home[t] = Home[s] => ~ Sweeping(t)
  BY <1>2 DEF SweepInv, OneSweep
<1>5. \A t \in Sweeps : t # s => (Sweeping(t)' <=> Sweeping(t))
  BY <1>3 DEF Sweeping
<1>6. UNCHANGED <<tasks, reminded, crossed, faults>>
  BY DEF StartSweep
<1>7. OneSweep'
  <2> SUFFICES ASSUME NEW t \in Sweeps, Sweeping(t)'
               PROVE  /\ running'[Home[t]]
                      /\ \A u \in Sweeps : Sweeping(u)' /\ Home[u] = Home[t] => u = t
    BY DEF OneSweep
  <2>1. running'[Home[s]] /\ \A p \in Processes : p # Home[s] => running'[p] = running[p]
    BY <1>0, <1>2, NumbersRead DEF TypeOK
  <2>2. CASE t = s
    BY <1>4, <1>5, <2>1, <2>2
  <2>3. CASE t # s
    <3>1. Sweeping(t) /\ Home[t] # Home[s] /\ Home[t] \in Processes
      BY <1>0, <1>4, <1>5, <2>3, NumbersRead
    <3> QED
      BY <1>5, <2>1, <3>1 DEF SweepInv, OneSweep
  <2> QED
    BY <2>2, <2>3
<1>8. Batches'
  BY <1>1, <1>3, <1>6 DEF SweepInv, Batches
<1>9. Unsent'
  BY <1>1, <1>3, <1>5, <1>6 DEF SweepInv, Unsent
<1>10. ASSUME NEW p \in Processes, NEW id \in Ids, NEW v \in Variants, Sent(p, id, v)
       PROVE  Sent(p, id, v)'
  <2>1. PICK t \in Sweeps : /\ Home[t] = p /\ Sweeping(t) /\ sweep[t].step = "stamp"
                            /\ sweep[t].variant = v /\ id \in sweep[t].batch
    BY <1>10 DEF Sent
  <2>2. t # s
    BY <1>4, <2>1
  <2> QED
    BY <1>3, <1>5, <2>1, <2>2 DEF Sent
<1>11. Counted'
  BY <1>6, <1>10 DEF SweepInv, Counted, CountedOf, Exists
<1>12. Stamped'
  <2>1. \A p \in Processes, id \in Ids, v \in Variants :
            reminded'[p][id][v] \in Nat /\ reminded'[p][id][v] >= reminded[p][id][v]
    BY <1>0, <1>6, NumbersRead
  <2> QED
    BY <1>1, <1>3, <1>6, <2>1, StampedKept DEF Exists, BackedBatch
<1> QED
  BY <1>7, <1>8, <1>9, <1>11, <1>12 DEF SweepInv

\* A sweep that goes on to the next variant, or ends, has nothing in its hands.
LEMMA AfterStep ==
    ASSUME BaseInv, SweepInv, NEW s \in Sweeps, Sweeping(s), AfterVariant(s)
    PROVE  /\ OneSweep'
           /\ sweep'[s].batch = {} /\ sweep'[s].step = "read"
           /\ \A t \in Sweeps : t # s =>
                /\ sweep'[t] = sweep[t]
                /\ Home[t] = Home[s] => ~ Sweeping(t)
<1> DEFINE e == SweepAt(sweep[s].at, "overdue", "read", {})
<1>0. TypeOK /\ OneSweep
  BY DEF BaseInv, SweepInv
<1>1. e \in SweepStates /\ e.step = "read" /\ e.batch = {}
  BY <1>0, SweepRead, SweepAtIs DEF Variants
<1> HIDE DEF e
<1>2. CASE sweep' = [sweep EXCEPT ![s] = e] /\ UNCHANGED running
  BY <1>0, <1>1, <1>2, OnlyOne
<1>3. CASE /\ sweep' = [sweep EXCEPT ![s] = NotSweeping]
           /\ running' = [running EXCEPT ![Home[s]] = FALSE]
  <2>1. \A p \in Processes : p # Home[s] => running'[p] = running[p]
    BY <1>0, <1>3 DEF TypeOK
  <2>2. NotSweeping.step = "read"
    BY DEF NotSweeping
  <2> QED
    BY <1>0, <1>3, <2>1, <2>2, OnlyOne, NotSweepingIs
<1> QED
  BY <1>0, <1>2, <1>3, AfterMakes DEF e

\* A batch is read when its process sends nothing else, so a task of it that the
\* process has reminded of beyond the faults would carry its stamp.
LEMMA ReadStep ==
    ASSUME BaseInv, SweepInv, NEW s \in Sweeps, ReadBatch(s)
    PROVE  SweepInv'
<1> DEFINE at == sweep[s].at
           v == sweep[s].variant
           h == Home[s]
<1>0. TypeOK /\ OneSweep /\ Sweeping(s) /\ sweep[s].step = "read" /\ h \in Processes
  BY NumbersRead DEF BaseInv, SweepInv, ReadBatch, Sweeping
<1>1. UNCHANGED <<tasks, reminded, crossed, faults>>
  BY DEF ReadBatch
<1>2. \A id \in Ids, w \in Variants : ~ Sent(h, id, w)
  BY <1>0 DEF Sent, OneSweep
<1>3. \A p \in Processes, id \in Ids, w \in Variants :
            reminded'[p][id][w] \in Nat /\ reminded'[p][id][w] >= reminded[p][id][w]
  BY <1>0, <1>1, NumbersRead
<1>4. ASSUME \A t \in Sweeps : t # s => sweep'[t] = sweep[t] PROVE Counted'
  <2> SUFFICES ASSUME NEW p \in Processes, NEW id \in Ids, NEW w \in Variants,
                      Sent(p, id, w)
               PROVE  Sent(p, id, w)'
    BY <1>1 DEF SweepInv, Counted, CountedOf, Exists
  <2>1. PICK t \in Sweeps : /\ Home[t] = p /\ Sweeping(t) /\ sweep[t].step = "stamp"
                            /\ sweep[t].variant = w /\ id \in sweep[t].batch
    BY DEF Sent
  <2>2. t # s
    BY <1>0, <2>1
  <2> QED
    BY <1>4, <2>1, <2>2 DEF Sent, Sweeping
<1>5. CASE AfterVariant(s)
  <2>1. /\ OneSweep' /\ sweep'[s].batch = {} /\ sweep'[s].step = "read"
        /\ \A t \in Sweeps : t # s => sweep'[t] = sweep[t]
    BY <1>0, <1>5, AfterStep
  <2>2. Batches' /\ Unsent'
    BY <1>1, <2>1 DEF SweepInv, Batches, Unsent, Sweeping
  <2>3. Stamped'
    BY <1>1, <1>3, <2>1, StampedKept DEF Exists, BackedBatch
  <2> QED
    BY <1>4, <2>1, <2>2, <2>3 DEF SweepInv
<1>6. ASSUME NEW B \in SUBSET ToRemind(v, at),
             sweep' = [sweep EXCEPT ![s] = SweepAt(at, v, "send", B)],
             UNCHANGED running
      PROVE  SweepInv'
  <2> DEFINE e == SweepAt(at, v, "send", B)
  <2>1. B \in SUBSET Ids /\ \A id \in B : Exists(id) /\ v \notin tasks[id].sent
    BY DEF ToRemind, Existing
  <2>2. /\ e \in SweepStates /\ e.step = "send" /\ e.batch = B /\ e.variant = v
        /\ v \in Variants
    BY <1>0, <2>1, SweepRead, SweepAtIs
  <2>3. sweep' = [sweep EXCEPT ![s] = e]
    BY <1>6
  <2> HIDE DEF e
  <2>4. /\ OneSweep' /\ sweep'[s] = e
        /\ \A t \in Sweeps : t # s => sweep'[t] = sweep[t]
    BY <1>0, <1>6, <2>2, <2>3, OnlyOne
  <2>5. ASSUME NEW id \in B PROVE reminded[h][id][v] <= faults
    <3>1. ~ (reminded[h][id][v] > faults)
      BY <1>0, <1>2, <2>1, <2>2 DEF SweepInv, Counted, CountedOf
    <3>2. reminded[h][id][v] \in Nat /\ faults \in Nat
      BY <1>0, <2>1, <2>2, NumbersRead
    <3> QED
      BY <3>1, <3>2
  <2>6. Unsent'
    <3> SUFFICES ASSUME NEW t \in Sweeps, Sweeping(t)', sweep'[t].step = "send",
                        NEW id \in sweep'[t].batch
                 PROVE  reminded'[Home[t]][id][sweep'[t].variant] <= faults'
      BY DEF Unsent
    <3>1. CASE t = s
      BY <1>1, <2>2, <2>4, <2>5, <3>1
    <3>2. CASE t # s
      BY <1>1, <2>4, <3>2 DEF SweepInv, Unsent, Sweeping
    <3> QED
      BY <3>1, <3>2
  <2>7. Batches'
    <3>1. \A id \in B : tasks[id] # Unborn
      BY <1>0, <2>1, RowRead
    <3> QED
      BY <1>1, <2>2, <2>4, <3>1 DEF SweepInv, Batches
  <2>8. Stamped'
    BY <1>1, <1>3, <2>2, <2>4, StampedKept DEF Exists, BackedBatch
  <2> QED
    BY <1>4, <2>4, <2>6, <2>7, <2>8 DEF SweepInv
<1> QED
  BY <1>0, <1>5, <1>6, ReadMakes

\* What is sent had at most as many reminders of the process as there were faults,
\* and will be stamped.
LEMMA SendStep ==
    ASSUME BaseInv, SweepInv, NEW s \in Sweeps, SendBatch(s)
    PROVE  SweepInv'
<1> DEFINE B == sweep[s].batch
           v == sweep[s].variant
           h == Home[s]
           e == SweepAt(sweep[s].at, v, "stamp", B)
<1>0. TypeOK /\ OneSweep /\ Sweeping(s) /\ sweep[s].step = "send" /\ h \in Processes
  BY NumbersRead DEF BaseInv, SweepInv, SendBatch, Sweeping
<1>1. UNCHANGED <<tasks, running, crossed, faults>>
  BY DEF SendBatch
<1>2. /\ sweep' = [sweep EXCEPT ![s] = e]
      /\ \A p \in Processes, id \in Ids, w \in Variants :
            reminded'[p][id][w] = IF p = h /\ id \in B /\ w = v
                                  THEN reminded[p][id][w] + 1 ELSE reminded[p][id][w]
  BY <1>0, SendMakes
<1>3. /\ e \in SweepStates /\ e.step = "stamp" /\ e.batch = B /\ e.variant = v
      /\ e.at = sweep[s].at /\ v \in Variants /\ B \in SUBSET Ids
  BY <1>0, SweepRead, SweepAtIs
<1> HIDE DEF e
<1>4. /\ OneSweep' /\ sweep'[s] = e
      /\ \A t \in Sweeps : t # s =>
            sweep'[t] = sweep[t] /\ (Home[t] = h => ~ Sweeping(t))
  BY <1>0, <1>1, <1>2, <1>3, OnlyOne
<1>5. Unsent'
  <2> SUFFICES ASSUME NEW t \in Sweeps, Sweeping(t)', sweep'[t].step = "send",
                      NEW id \in sweep'[t].batch
               PROVE  reminded'[Home[t]][id][sweep'[t].variant] <= faults'
    BY DEF Unsent
  <2>1. t # s
    BY <1>3, <1>4
  <2>2. /\ sweep'[t] = sweep[t] /\ Sweeping(t) /\ Home[t] # h /\ Home[t] \in Processes
    BY <1>0, <1>4, <2>1, NumbersRead DEF Sweeping
  <2>3. id \in Ids /\ sweep[t].variant \in Variants
    BY <1>0, <2>2, SweepRead
  <2>4. reminded'[Home[t]][id][sweep[t].variant] = reminded[Home[t]][id][sweep[t].variant]
    BY <1>2, <2>2, <2>3
  <2> QED
    BY <1>1, <2>2, <2>4 DEF SweepInv, Unsent
<1>6. Batches'
  BY <1>1, <1>3, <1>4 DEF SweepInv, Batches
<1>7. \A id \in Ids, w \in Variants : ~ Sent(h, id, w)
  BY <1>0 DEF Sent, OneSweep
<1>8. \A id \in B, w \in Variants : w = v => Sent(h, id, w)'
  BY <1>0, <1>3, <1>4 DEF Sent, Sweeping
<1>9. ASSUME NEW p \in Processes, NEW id \in Ids, NEW w \in Variants, Sent(p, id, w)
      PROVE  Sent(p, id, w)'
  <2>1. PICK t \in Sweeps : /\ Home[t] = p /\ Sweeping(t) /\ sweep[t].step = "stamp"
                            /\ sweep[t].variant = w /\ id \in sweep[t].batch
    BY <1>9 DEF Sent
  <2>2. t # s
    BY <1>0, <2>1
  <2> QED
    BY <1>4, <2>1, <2>2 DEF Sent, Sweeping
<1>10. Counted'
  <2> SUFFICES ASSUME NEW p \in Processes, NEW id \in Ids, NEW w \in Variants
               PROVE  /\ reminded'[p][id][w] <= 1 + faults
                      /\ tasks[id] = Unborn => reminded'[p][id][w] = 0
                      /\ Exists(id) /\ reminded'[p][id][w] > faults =>
                              w \in tasks[id].sent \/ Sent(p, id, w)'
    BY <1>1 DEF Counted, CountedOf, Exists
  <2>1. /\ reminded[p][id][w] <= 1 + faults
        /\ tasks[id] = Unborn => reminded[p][id][w] = 0
        /\ Exists(id) /\ reminded[p][id][w] > faults =>
                w \in tasks[id].sent \/ Sent(p, id, w)
    BY DEF SweepInv, Counted, CountedOf
  <2>2. CASE p = h /\ id \in B /\ w = v
    <3>1. tasks[id] # Unborn
      BY <2>2 DEF SweepInv, Batches
    <3>2. reminded[p][id][w] <= faults
      BY <1>0, <2>2 DEF SweepInv, Unsent
    <3>3. reminded'[p][id][w] = reminded[p][id][w] + 1
      BY <1>2, <2>2
    <3>4. reminded[p][id][w] \in Nat /\ faults \in Nat
      BY <1>0, NumbersRead
    <3> QED
      BY <1>8, <2>2, <3>1, <3>2, <3>3, <3>4
  <2>3. CASE ~ (p = h /\ id \in B /\ w = v)
    <3>1. reminded'[p][id][w] = reminded[p][id][w]
      BY <1>2, <2>3
    <3> QED
      BY <1>9, <2>1, <3>1
  <2> QED
    BY <2>2, <2>3
<1>11. Stamped'
  <2>1. \A p \in Processes, id \in Ids, w \in Variants :
            reminded'[p][id][w] \in Nat /\ reminded'[p][id][w] >= reminded[p][id][w]
    BY <1>0, <1>2, NumbersRead
  <2>2. ASSUME NEW id \in B PROVE \E p \in Processes : reminded'[p][id][v] > 0
    <3>1. reminded'[h][id][v] = reminded[h][id][v] + 1 /\ reminded[h][id][v] \in Nat
      BY <1>0, <1>2, <1>3, <2>2, NumbersRead
    <3> QED
      BY <1>0, <3>1
  <2>3. BackedBatch(s)'
    BY <1>3, <1>4, <2>2 DEF BackedBatch, Backed
  <2> QED
    BY <1>1, <1>3, <1>4, <2>1, <2>3, StampedKept DEF Exists, BackedBatch
<1> QED
  BY <1>4, <1>5, <1>6, <1>10, <1>11 DEF SweepInv

\* The stamps take the place of what the sweep holds.
LEMMA StampStep ==
    ASSUME BaseInv, SweepInv, NEW s \in Sweeps, StampBatch(s)
    PROVE  SweepInv'
<1> DEFINE B == sweep[s].batch
           v == sweep[s].variant
           h == Home[s]
<1>0. /\ TypeOK /\ OneSweep /\ Sweeping(s) /\ sweep[s].step = "stamp"
      /\ AfterVariant(s) /\ h \in Processes
  BY NumbersRead DEF BaseInv, SweepInv, StampBatch, Sweeping
<1>1. UNCHANGED <<reminded, crossed, faults>>
  BY DEF StampBatch
<1>2. /\ OneSweep' /\ sweep'[s].batch = {} /\ sweep'[s].step = "read"
      /\ \A t \in Sweeps : t # s =>
            sweep'[t] = sweep[t] /\ (Home[t] = h => ~ Sweeping(t))
  BY <1>0, AfterStep
<1>3. ASSUME NEW id \in Ids
      PROVE  /\ ~ (Exists(id) /\ id \in B) => tasks'[id] = tasks[id]
             /\ Exists(id) /\ id \in B =>
                    /\ tasks'[id] \in Rows
                    /\ tasks'[id].sent = tasks[id].sent \cup {v}
  BY <1>0, StampMakes
<1>4. ASSUME NEW id \in Ids
      PROVE  tasks'[id] = Unborn <=> tasks[id] = Unborn
  <2>1. CASE Exists(id) /\ id \in B
    <3>1. tasks'[id].place # "none" /\ Unborn.place = "none"
      BY <1>3, <2>1 DEF Rows, Unborn
    <3>2. tasks[id] # Unborn
      BY <1>0, <2>1, RowRead
    <3> QED
      BY <3>1, <3>2
  <2>2. CASE ~ (Exists(id) /\ id \in B)
    BY <1>3, <2>2
  <2> QED
    BY <2>1, <2>2
<1>5. Batches'
  <2> SUFFICES ASSUME NEW t \in Sweeps, NEW id \in sweep'[t].batch
               PROVE  tasks'[id] # Unborn
    BY DEF Batches
  <2>1. t # s /\ id \in sweep[t].batch
    BY <1>2
  <2>2. id \in Ids /\ tasks[id] # Unborn
    BY <1>0, <2>1, SweepRead DEF SweepInv, Batches
  <2> QED
    BY <1>4, <2>2
<1>6. Unsent'
  BY <1>1, <1>2 DEF SweepInv, Unsent, Sweeping
<1>7. Counted'
  <2> SUFFICES ASSUME NEW p \in Processes, NEW id \in Ids, NEW w \in Variants
               PROVE  /\ reminded[p][id][w] <= 1 + faults
                      /\ tasks'[id] = Unborn => reminded[p][id][w] = 0
                      /\ Exists(id)' /\ reminded[p][id][w] > faults =>
                            w \in tasks'[id].sent \/ Sent(p, id, w)'
    BY <1>1 DEF Counted, CountedOf
  <2>1. /\ reminded[p][id][w] <= 1 + faults
        /\ tasks[id] = Unborn => reminded[p][id][w] = 0
        /\ Exists(id) /\ reminded[p][id][w] > faults =>
                w \in tasks[id].sent \/ Sent(p, id, w)
    BY DEF SweepInv, Counted, CountedOf
  <2>2. Sent(p, id, w) => Sent(p, id, w)' \/ (id \in B /\ w = v)
    <3> SUFFICES ASSUME Sent(p, id, w), ~ (id \in B /\ w = v) PROVE Sent(p, id, w)'
      OBVIOUS
    <3>1. PICK t \in Sweeps : /\ Home[t] = p /\ Sweeping(t) /\ sweep[t].step = "stamp"
                              /\ sweep[t].variant = w /\ id \in sweep[t].batch
      BY DEF Sent
    <3>2. t # s
      BY <3>1
    <3> QED
      BY <1>2, <3>1, <3>2 DEF Sent, Sweeping
  <2>3. CASE Exists(id) /\ id \in B
    BY <1>3, <1>4, <2>1, <2>2, <2>3
  <2>4. CASE ~ (Exists(id) /\ id \in B)
    <3>1. tasks'[id] = tasks[id]
      BY <1>3, <2>4
    <3> QED
      BY <2>1, <2>2, <2>4, <3>1 DEF Exists
  <2> QED
    BY <2>3, <2>4
<1>8. Stamped'
  <2>1. \A p \in Processes, id \in Ids, w \in Variants :
            reminded'[p][id][w] \in Nat /\ reminded'[p][id][w] >= reminded[p][id][w]
    BY <1>0, <1>1, NumbersRead
  <2>2. ASSUME NEW id \in B
        PROVE  v \in crossed'[id] \/ \E p \in Processes : reminded'[p][id][v] > 0
    <3>1. Backed(id, v)
      BY <1>0, <2>2 DEF SweepInv, Stamped, BackedBatch
    <3> QED
      BY <1>1, <3>1 DEF Backed
  <2>3. ASSUME NEW id \in Ids, Exists(id)'
        PROVE  /\ Exists(id)
               /\ \A w \in tasks'[id].sent : w \in tasks[id].sent \/ Backed(id, w)'
    <3>1. CASE Exists(id) /\ id \in B
      <4> SUFFICES ASSUME NEW w \in tasks'[id].sent, w \notin tasks[id].sent
                   PROVE  Backed(id, w)'
        BY <3>1
      <4>1. w = v
        BY <1>3, <3>1
      <4> QED
        BY <2>2, <3>1, <4>1 DEF Backed
    <3>2. CASE ~ (Exists(id) /\ id \in B)
      BY <1>3, <2>3, <3>2 DEF Exists
    <3> QED
      BY <3>1, <3>2
  <2> QED
    BY <1>1, <1>2, <2>1, <2>3, StampedKept DEF BackedBatch
<1> QED
  BY <1>2, <1>5, <1>6, <1>7, <1>8 DEF SweepInv

\* A fault allows one more reminder of everything, and the sweeps it ends hold
\* nothing.
LEMMA FaultStep ==
    ASSUME BaseInv, SweepInv, NEW p \in Processes, faults' = faults + 1,
           UNCHANGED <<tasks, reminded, crossed>>,
           running' = [running EXCEPT ![p] = FALSE],
           \A t \in Sweeps : Sweeping(t) /\ Home[t] = p => sweep'[t] = NotSweeping,
           \A t \in Sweeps : sweep'[t] = NotSweeping \/ sweep'[t] = sweep[t]
    PROVE  SweepInv'
<1>0. TypeOK /\ OneSweep
  BY DEF BaseInv, SweepInv
<1>1. \A t \in Sweeps : sweep'[t].at >= 0 =>
            sweep'[t] = sweep[t] /\ Sweeping(t) /\ Home[t] # p
  BY NotSweepingIs DEF Sweeping
<1>2. OneSweep'
  <2>1. \A q \in Processes : q # p => running'[q] = running[q]
    BY <1>0 DEF TypeOK
  <2> QED
    BY <1>0, <1>1, <2>1, NumbersRead DEF OneSweep, Sweeping
<1>3. Batches'
  BY NotSweepingIs DEF SweepInv, Batches
<1>4. Unsent'
  <2> SUFFICES ASSUME NEW t \in Sweeps, Sweeping(t)', sweep'[t].step = "send",
                      NEW id \in sweep'[t].batch
               PROVE  reminded[Home[t]][id][sweep'[t].variant] <= faults + 1
    BY DEF Unsent
  <2>1. sweep'[t] = sweep[t] /\ Sweeping(t)
    BY <1>1 DEF Sweeping
  <2>2. id \in Ids /\ sweep[t].variant \in Variants /\ Home[t] \in Processes
    BY <1>0, <2>1, SweepRead, NumbersRead
  <2>3. reminded[Home[t]][id][sweep[t].variant] <= faults
    BY <2>1 DEF SweepInv, Unsent
  <2> QED
    BY <1>0, <2>1, <2>2, <2>3, NumbersRead
<1>5. Counted'
  <2> SUFFICES ASSUME NEW q \in Processes, NEW id \in Ids, NEW v \in Variants
               PROVE  /\ reminded[q][id][v] <= faults + 1
                      /\ tasks[id] = Unborn => reminded[q][id][v] = 0
    BY <1>0, NumbersRead DEF Counted, CountedOf
  <2> QED
    BY <1>0, NumbersRead DEF SweepInv, Counted, CountedOf
<1>6. Stamped'
  <2>1. NotSweeping.step = "read"
    BY DEF NotSweeping
  <2> QED
    BY <2>1 DEF SweepInv, Stamped, Backed, BackedBatch, Exists
<1> QED
  BY <1>2, <1>3, <1>4, <1>5, <1>6 DEF SweepInv

\* Every step keeps what is known of reminders: the sweeps' own, and the edits that
\* reset a stamp.
LEMMA SweepStep == BaseInv /\ SweepInv /\ [Next]_vars => SweepInv'
<1> SUFFICES ASSUME BaseInv, SweepInv, [Next]_vars PROVE SweepInv'
  OBVIOUS
<1>0. TypeOK /\ Creating
  BY DEF BaseInv
<1>1. ASSUME UNCHANGED <<tasks, sweep, running, reminded, crossed, faults>>
      PROVE  SweepInv'
  BY <1>0, <1>1, RowRead, SweepsRest DEF Exists
<1>2. ASSUME NEW r \in Requesters, Insert(r) PROVE SweepInv'
  <2> DEFINE q == request[r]
             e == NewTask(q.code, q.due)
  <2>1. /\ q \in CreateReqs /\ tasks[q.id] = Unborn
        /\ tasks' = [tasks EXCEPT ![q.id] = e]
    BY <1>0, <1>2, InsertMakes
  <2>2. q.id \in Ids /\ e \in Rows /\ e.sent = {}
    BY <2>1, NewTaskIs DEF CreateReqs
  <2>3. UNCHANGED <<sweep, running, reminded, crossed, faults>>
    BY <1>2 DEF Insert
  <2> HIDE DEF e
  <2> QED
    BY <2>1, <2>2, <2>3, SweepsRestPut
<1>3. CASE AddTask
  <2>1. PICK id \in NewIds, due \in Dues : tasks' = [tasks EXCEPT ![id] = NewTask(0, due)]
    BY <1>3 DEF AddTask
  <2> DEFINE e == NewTask(0, due)
  <2>2. id \in Ids /\ tasks[id] = Unborn /\ e \in Rows /\ e.sent = {}
    BY <2>1, NewTaskIs DEF NewIds
  <2>3. UNCHANGED <<sweep, running, reminded, crossed, faults>>
    BY <1>3 DEF AddTask
  <2>4. tasks' = [tasks EXCEPT ![id] = e]
    BY <2>1
  <2> HIDE DEF e
  <2> QED
    BY <2>2, <2>3, <2>4, SweepsRestPut
<1>4. CASE EditStep
  <2>1. PICK id \in Ids, e \in Rows :
          /\ Exists(id) /\ tasks' = [tasks EXCEPT ![id] = e]
          /\ \/ e.sent = tasks[id].sent /\ UNCHANGED <<reminded, crossed>>
             \/ e.sent = {} /\ Renewed(id)
    BY <1>0, <1>4, EditMakes
  <2>2. UNCHANGED <<sweep, running, faults>>
    BY <1>0, <1>4, EditMakes
  <2> QED
    BY <2>1, <2>2, SweepsRestPut, RenewedStep
<1>5. CASE MoveStep
  <2>1. PICK id \in Ids, e \in Rows :
          /\ Exists(id) /\ tasks' = [tasks EXCEPT ![id] = e]
          /\ e.sent = tasks[id].sent
    BY <1>0, <1>5, MoveMakes
  <2>2. UNCHANGED <<sweep, running, reminded, crossed, faults>>
    BY <1>0, <1>5, MoveMakes
  <2> QED
    BY <2>1, <2>2, SweepsRestPut
<1>6. ASSUME NEW s \in Sweeps, SweepFails(s) PROVE SweepInv'
  <2>1. /\ sweep' = [sweep EXCEPT ![s] = NotSweeping] /\ Sweeping(s)
        /\ running' = [running EXCEPT ![Home[s]] = FALSE] /\ Home[s] \in Processes
        /\ UNCHANGED <<tasks, reminded, crossed>>
    BY <1>0, <1>6, NumbersRead DEF SweepFails, Sweeping
  <2>2. faults' = faults + 1
    BY <1>0, <1>6, FaultMakes DEF SweepFails
  <2>3. sweep'[s] = NotSweeping /\ \A t \in Sweeps : t # s => sweep'[t] = sweep[t]
    BY <1>0, <2>1, PutSweep, NotSweepingIs
  <2>4. \A t \in Sweeps : Sweeping(t) /\ Home[t] = Home[s] => t = s
    BY <2>1 DEF SweepInv, OneSweep
  <2> QED
    BY <2>1, <2>2, <2>3, <2>4, FaultStep
<1>7. ASSUME NEW p \in Processes, Crash(p) PROVE SweepInv'
  <2>1. faults' = faults + 1
    BY <1>0, <1>7, FaultMakes DEF Crash
  <2>2. /\ UNCHANGED <<tasks, reminded, crossed>>
        /\ running' = [running EXCEPT ![p] = FALSE]
        /\ \A t \in Sweeps : sweep'[t] = IF Home[t] = p THEN NotSweeping ELSE sweep[t]
    BY <1>7 DEF Crash
  <2> QED
    BY <2>1, <2>2, FaultStep
<1>8. ASSUME NEW s \in Sweeps,
             StartSweep(s) \/ ReadBatch(s) \/ SendBatch(s) \/ StampBatch(s)
      PROVE  SweepInv'
  BY <1>8, StartStep, ReadStep, SendStep, StampStep
<1>9. \/ UNCHANGED <<tasks, sweep, running, reminded, crossed, faults>>
      \/ \E r \in Requesters : Insert(r)
      \/ AddTask \/ EditStep \/ MoveStep
      \/ \E s \in Sweeps : \/ StartSweep(s) \/ ReadBatch(s) \/ SendBatch(s)
                           \/ StampBatch(s) \/ SweepFails(s)
      \/ \E p \in Processes : Crash(p)
  BY DEF Next, vars, EditStep, MoveStep, CreateTask, Clash, Recount, Tick
<1> QED
  BY <1>1, <1>2, <1>3, <1>4, <1>5, <1>6, <1>7, <1>8, <1>9

-----------------------------------------------------------------------------
(* Codes.                                                                  *)

\* A task that comes is one more.
LEMMA CountGrows ==
    ASSUME TypeOK, NEW id \in Ids, tasks[id] = Unborn, NEW e \in Rows, e.place = "list",
           tasks' = [tasks EXCEPT ![id] = e]
    PROVE  /\ Existing' = Existing \cup {id} /\ CodeCount' = CodeCount + 1
           /\ tasks'[id] = e
           /\ \A j \in Existing : tasks'[j] = tasks[j]
           /\ \A code : CodeTaken(code)' => CodeTaken(code) \/ code = e.code
<1>1. /\ tasks'[id] = e /\ \A j \in Ids : j # id => tasks'[j] = tasks[j]
  BY PutTask
<1>2. ~ Exists(id)
  BY DEF Exists, Unborn
<1>3. Existing' = Existing \cup {id}
  BY <1>1, <1>2 DEF Existing, Exists
<1>4. Cardinality(Existing \cup {id}) = Cardinality(Existing) + 1
  BY <1>2, CountIs, FS_AddElement DEF Existing
<1>5. CodeCount' = CodeCount + 1
  BY <1>3, <1>4 DEF CodeCount
<1>6. \A j \in Existing : tasks'[j] = tasks[j]
  BY <1>1, <1>2 DEF Existing
<1> QED
  BY <1>1, <1>3, <1>5, <1>6 DEF CodeTaken

\* The next code is free.
LEMMA NextIsFree ==
    ASSUME TypeOK, FairCodes
    PROVE  ~ CodeTaken(CodeCount + 1)
<1> SUFFICES ASSUME NEW id \in Existing, tasks[id].code = CodeCount + 1
             PROVE  FALSE
  BY DEF CodeTaken
<1>1. tasks[id].code <= CodeCount
  BY DEF FairCodes
<1> QED
  BY <1>1, CountIs

\* The tasks and their codes stay, and a creation that goes on is fair.
LEMMA CodesRest ==
    ASSUME FairCodes, Existing' = Existing,
           \A id \in Existing : tasks'[id].code = tasks[id].code,
           \A r \in Requesters : IsCreating(r)' =>
                \/ IsCreating(r) /\ request'[r] = request[r]
                \/ FairTry(r)',
           \A q \in refused' : q \in refused \/ q.clashes <= q.rivals
    PROVE  FairCodes'
<1>1. CodeCount' = CodeCount
  BY DEF CodeCount
<1>2. \A code : CodeTaken(code)' <=> CodeTaken(code)
  BY DEF CodeTaken
<1>3. \A r \in Requesters : IsCreating(r) /\ request'[r] = request[r] => FairTry(r)'
  BY <1>1, <1>2 DEF FairCodes, FairTry
<1> QED
  BY <1>1, <1>3 DEF FairCodes

\* What is gone stays gone.
LEMMA PurgedStays ==
    ASSUME BaseInv, [Next]_vars, Purged
    PROVE  Purged'
<1>0. TypeOK /\ Creating
  BY DEF BaseInv
<1>1. PICK id \in Ids : tasks[id].place = "gone"
  BY DEF Purged
<1>2. ~ Exists(id) /\ tasks[id] # Unborn
  BY <1>1 DEF Exists, Unborn
<1>3. CASE NoBirth
  BY <1>0, <1>1, <1>2, <1>3, TaskLife DEF Purged
<1>4. ASSUME NEW r \in Requesters, Insert(r) PROVE Purged'
  <2> DEFINE q == request[r]
             e == NewTask(q.code, q.due)
  <2>1. /\ q \in CreateReqs /\ tasks[q.id] = Unborn
        /\ tasks' = [tasks EXCEPT ![q.id] = e]
    BY <1>0, <1>4, InsertMakes
  <2>2. q.id \in Ids /\ e \in Rows
    BY <2>1, NewTaskIs DEF CreateReqs
  <2> HIDE DEF e
  <2> QED
    BY <1>0, <1>1, <1>2, <2>1, <2>2, PutTask DEF Purged
<1>5. CASE AddTask
  <2>1. PICK j \in NewIds, due \in Dues : tasks' = [tasks EXCEPT ![j] = NewTask(0, due)]
    BY <1>5 DEF AddTask
  <2>2. j \in Ids /\ tasks[j] = Unborn /\ NewTask(0, due) \in Rows
    BY <2>1, NewTaskIs DEF NewIds
  <2> QED
    BY <1>0, <1>1, <1>2, <2>1, <2>2, PutTask DEF Purged
<1> QED
  BY <1>3, <1>4, <1>5 DEF NoBirth

\* The handlers of a creation.
LEMMA CreateTaskFair ==
    ASSUME BaseInv, FairCodes, NEW r \in Requesters, CreateTask(r)
    PROVE  FairCodes'
<1>0. TypeOK
  BY DEF BaseInv
<1>1. PICK id \in NewIds, due \in Dues :
        request' = [request EXCEPT ![r] = CreateReq(id, GenerateTaskCode, due, 0, 0)]
  BY <1>0, CreateTaskMakes
<1> DEFINE q == CreateReq(id, GenerateTaskCode, due, 0, 0)
<1>2. 0 \in 0 .. MaxAttempts /\ 0 \in Nat /\ id \in Ids
  BY <1>1, TasksAssumption DEF NewIds
<1>3. /\ q \in Requests /\ q.code = CodeCount + 1 /\ q.clashes = 0 /\ q.rivals = 0
  BY <1>2, CountIs, CreateReqIs
<1> HIDE DEF q
<1>4. request'[r] = q /\ \A p \in Requesters : p # r => request'[p] = request[p]
  BY <1>0, <1>1, <1>3, PutRequest DEF q
<1>5. UNCHANGED <<tasks, refused>>
  BY DEF CreateTask
<1>6. Existing' = Existing /\ CodeCount' = CodeCount
  BY <1>5 DEF Existing, Exists, CodeCount
<1>7. ~ CodeTaken(CodeCount + 1)'
  <2>1. CodeTaken(CodeCount + 1)' => CodeTaken(CodeCount + 1)
    BY <1>5, <1>6 DEF CodeTaken
  <2> QED
    BY <1>0, <2>1, NextIsFree
<1>8. FairTry(r)'
  BY <1>3, <1>4, <1>6, <1>7, CountIs DEF FairTry
<1> QED
  BY <1>4, <1>5, <1>6, <1>8, CodesRest DEF IsCreating

\* A new count of the day is at least the tasks there are.
LEMMA RecountFair ==
    ASSUME BaseInv, FairCodes, NEW r \in Requesters, Recount(r)
    PROVE  FairCodes'
<1>0. TypeOK /\ request[r] \in CreateReqs /\ IsCreating(r)
  BY RequestRead DEF BaseInv, Recount, IsCreating
<1> DEFINE o == request[r]
           q == CreateReq(o.id, GenerateTaskCode, o.due, o.clashes, o.rivals)
<1>1. request' = [request EXCEPT ![r] = q]
  BY <1>0, RecountMakes
<1>2. /\ o.id \in Ids /\ o.due \in Dues /\ o.clashes \in 0 .. MaxAttempts
      /\ o.rivals \in Nat
  BY <1>0 DEF CreateReqs
<1>3. /\ q \in Requests /\ q.code = CodeCount + 1
      /\ q.clashes = o.clashes /\ q.rivals = o.rivals
  BY <1>2, CountIs, CreateReqIs
<1> HIDE DEF q
<1>4. request'[r] = q /\ \A p \in Requesters : p # r => request'[p] = request[p]
  BY <1>0, <1>1, <1>3, PutRequest
<1>5. UNCHANGED <<tasks, refused>>
  BY DEF Recount
<1>6. Existing' = Existing /\ CodeCount' = CodeCount
  BY <1>5 DEF Existing, Exists, CodeCount
<1>7. ~ CodeTaken(CodeCount + 1)'
  <2>1. CodeTaken(CodeCount + 1)' => CodeTaken(CodeCount + 1)
    BY <1>5, <1>6 DEF CodeTaken
  <2> QED
    BY <1>0, <2>1, NextIsFree
<1>8. o.clashes <= o.rivals
  BY <1>0 DEF FairCodes, FairTry
<1>9. FairTry(r)'
  BY <1>3, <1>4, <1>6, <1>7, <1>8, CountIs DEF FairTry
<1> QED
  BY <1>4, <1>5, <1>6, <1>9, CodesRest DEF IsCreating

\* The attempt that is lost is made up for by a rival.
LEMMA ClashFair ==
    ASSUME BaseInv, FairCodes, NEW r \in Requesters, Clash(r)
    PROVE  FairCodes'
<1>0. TypeOK /\ Creating /\ request[r] \in CreateReqs /\ IsCreating(r)
  BY RequestRead DEF BaseInv, Clash, IsCreating
<1> DEFINE o == request[r]
           c == o.clashes + 1
           q == CreateReq(o.id, 0, o.due, c, o.rivals)
           g == [clashes |-> c, rivals |-> o.rivals]
<1>1. /\ o.id \in Ids /\ o.due \in Dues /\ o.clashes \in Nat /\ o.rivals \in Nat
  BY <1>0 DEF CreateReqs
<1>2. c <= o.rivals
  <2>1. o.clashes < o.rivals
    BY <1>0 DEF Clash, FairCodes, FairTry
  <2> QED
    BY <1>1, <2>1
<1>3. UNCHANGED tasks /\ Existing' = Existing
  BY DEF Clash, Existing, Exists
<1>4. CASE c < MaxAttempts /\ UNCHANGED refused /\ request' = [request EXCEPT ![r] = q]
  <2>1. 0 \in Nat /\ c \in 0 .. MaxAttempts
    BY <1>1, <1>4, TasksAssumption
  <2>2. /\ q \in Requests /\ q.code = 0 /\ q.clashes = c /\ q.rivals = o.rivals
    <3>1. o.id \in Ids /\ o.due \in Dues /\ o.rivals \in Nat /\ 0 \in Nat
          /\ c \in 0 .. MaxAttempts
      BY <1>1, <2>1
    <3> HIDE DEF o, c
    <3> QED
      BY <3>1 DEF CreateReq, Requests
  <2> HIDE DEF q
  <2>3. request'[r] = q /\ \A p \in Requesters : p # r => request'[p] = request[p]
    BY <1>0, <1>4, <2>2, PutRequest
  <2>4. CodeCount' = CodeCount
    BY <1>3 DEF CodeCount
  <2>5. FairTry(r)'
    BY <1>2, <2>2, <2>3, <2>4, CountIs DEF FairTry
  <2> QED
    BY <1>3, <1>4, <2>3, <2>5, CodesRest DEF IsCreating
<1>5. CASE request' = [request EXCEPT ![r] = Free] /\ refused' = refused \cup {g}
  <2>1. Free \in Requests /\ Free.kind # "create"
    BY DEF Requests, Free
  <2>2. request'[r] = Free /\ \A p \in Requesters : p # r => request'[p] = request[p]
    BY <1>0, <1>5, <2>1, PutRequest
  <2>3. \A p \in Requesters : IsCreating(p)' => IsCreating(p) /\ request'[p] = request[p]
    BY <2>1, <2>2 DEF IsCreating
  <2>4. g.clashes <= g.rivals
    BY <1>2
  <2> HIDE DEF g
  <2>5. \A p \in refused' : p \in refused \/ p.clashes <= p.rivals
    BY <1>5, <2>4
  <2> QED
    BY <1>3, <2>3, <2>5, CodesRest
<1> QED
  BY <1>0, <1>4, <1>5, ClashMakes

\* A code that is taken by an insertion is one rival more for all the others.
LEMMA InsertFair ==
    ASSUME BaseInv, FairCodes, NEW r \in Requesters, Insert(r)
    PROVE  FairCodes'
<1> DEFINE o == request[r]
           e == NewTask(o.code, o.due)
<1>0. TypeOK /\ Creating
  BY DEF BaseInv
<1>1. /\ o \in CreateReqs /\ IsCreating(r) /\ tasks[o.id] = Unborn
      /\ tasks' = [tasks EXCEPT ![o.id] = e] /\ request'[r] = Free
      /\ \A p \in Requesters : p # r /\ ~ IsCreating(p) => request'[p] = request[p]
      /\ \A p \in Requesters : p # r /\ IsCreating(p) =>
            LET q == request[p]
            IN  request'[p] = CreateReq(q.id, q.code, q.due, q.clashes, q.rivals + 1)
  BY <1>0, InsertMakes
<1>2. /\ o.id \in Ids /\ e \in Rows /\ e.place = "list" /\ e.code = o.code
  <2>1. o.id \in Ids /\ o.code \in Nat /\ o.due \in Dues
    BY <1>1 DEF CreateReqs
  <2> QED
    BY <2>1, NewTaskIs
<1>3. o.code <= CodeCount + 1 /\ o.code \in Nat
  BY <1>1 DEF FairCodes, FairTry, CreateReqs
<1> HIDE DEF e
<1>4. /\ Existing' = Existing \cup {o.id} /\ CodeCount' = CodeCount + 1
      /\ tasks'[o.id] = e /\ \A j \in Existing : tasks'[j] = tasks[j]
  BY <1>0, <1>1, <1>2, CountGrows
<1>5. \A id \in Existing' : tasks'[id].code <= CodeCount'
  <2> SUFFICES ASSUME NEW id \in Existing' PROVE tasks'[id].code <= CodeCount'
    OBVIOUS
  <2>1. CASE id = o.id
    BY <1>2, <1>3, <1>4, <2>1
  <2>2. CASE id \in Existing
    <3>1. tasks[id].code <= CodeCount /\ tasks[id].code \in Nat
      BY <1>0, <2>2, RowRead DEF FairCodes, Existing, Rows
    <3> QED
      BY <1>4, <2>2, <3>1, CountIs
  <2> QED
    BY <1>4, <2>1, <2>2
<1>6. ASSUME NEW p \in Requesters, IsCreating(p)' PROVE FairTry(p)'
  <2> DEFINE q == request[p]
             n == CreateReq(q.id, q.code, q.due, q.clashes, q.rivals + 1)
  <2>1. p # r /\ IsCreating(p)
    BY <1>1, <1>6 DEF IsCreating, Free
  <2>2. request'[p] = n /\ q \in CreateReqs
    BY <1>0, <1>1, <2>1, RequestRead
  <2>3. /\ n.code = q.code /\ n.clashes = q.clashes /\ n.rivals = q.rivals + 1
    BY DEF CreateReq
  <2> HIDE DEF n
  <2>4. q.code \in Nat /\ q.clashes \in Nat /\ q.rivals \in Nat
    BY <2>2 DEF CreateReqs
  <2>5. q.code <= CodeCount + 1 /\ q.clashes <= q.rivals
    BY <2>1 DEF FairCodes, FairTry
  <2> QED
    BY <1>4, <2>2, <2>3, <2>4, <2>5, CountIs DEF FairTry
<1>7. UNCHANGED refused
  BY DEF Insert
<1> QED
  BY <1>5, <1>6, <1>7 DEF FairCodes

\* A task without a code moves the next code on and takes none.
LEMMA AddTaskFair ==
    ASSUME BaseInv, FairCodes, AddTask
    PROVE  FairCodes'
<1>0. TypeOK
  BY DEF BaseInv
<1>1. PICK id \in NewIds, due \in Dues : tasks' = [tasks EXCEPT ![id] = NewTask(0, due)]
  BY DEF AddTask
<1> DEFINE e == NewTask(0, due)
<1>2. id \in Ids /\ tasks[id] = Unborn /\ e \in Rows /\ e.place = "list" /\ e.code = 0
  BY <1>1, NewTaskIs DEF NewIds
<1> HIDE DEF e
<1>3. /\ Existing' = Existing \cup {id} /\ CodeCount' = CodeCount + 1
      /\ tasks'[id] = e /\ \A j \in Existing : tasks'[j] = tasks[j]
      /\ \A code : CodeTaken(code)' => CodeTaken(code) \/ code = 0
  BY <1>0, <1>1, <1>2, CountGrows DEF e
<1>4. UNCHANGED <<request, refused>>
  BY DEF AddTask
<1>5. \A j \in Existing' : tasks'[j].code <= CodeCount'
  <2> SUFFICES ASSUME NEW j \in Existing' PROVE tasks'[j].code <= CodeCount'
    OBVIOUS
  <2>1. CASE j = id
    BY <1>2, <1>3, <2>1, CountIs
  <2>2. CASE j \in Existing
    <3>1. tasks[j].code <= CodeCount /\ tasks[j].code \in Nat
      BY <1>0, <2>2, RowRead DEF FairCodes, Existing, Rows
    <3> QED
      BY <1>3, <2>2, <3>1, CountIs
  <2> QED
    BY <1>3, <2>1, <2>2
<1>6. ASSUME NEW p \in Requesters, IsCreating(p)' PROVE FairTry(p)'
  <2> DEFINE q == request[p]
  <2>1. request'[p] = q /\ IsCreating(p) /\ q \in CreateReqs
    BY <1>0, <1>4, <1>6, RequestRead DEF IsCreating
  <2>2. q.code \in Nat
    BY <2>1 DEF CreateReqs
  <2>3. /\ q.code <= CodeCount + 1 /\ q.clashes <= q.rivals
        /\ q.code > 0 /\ CodeTaken(q.code) => q.clashes < q.rivals
    BY <2>1 DEF FairCodes, FairTry
  <2>4. CodeTaken(q.code)' => CodeTaken(q.code) \/ q.code = 0
    <3>1. \A code : code = request'[p].code /\ CodeTaken(code)' =>
                        CodeTaken(code) \/ code = 0
      BY <1>3
    <3>2. CodeTaken(q.code)' <=> \E j \in Existing' : tasks'[j].code = request'[p].code
      BY DEF CodeTaken
    <3>3. (\E j \in Existing' : tasks'[j].code = q.code) => CodeTaken(q.code) \/ q.code = 0
      BY <1>2, <1>3 DEF CodeTaken
    <3> QED
      BY <2>1, <3>2, <3>3
  <2> QED
    BY <1>3, <2>1, <2>2, <2>3, <2>4, CountIs DEF FairTry
<1> QED
  BY <1>4, <1>5, <1>6 DEF FairCodes

\* At the start of the day nothing is counted.
LEMMA CodesInit == Init => CodesInv
<1> SUFFICES ASSUME Init PROVE FairCodes
  BY DEF CodesInv
<1>1. Existing = {}
  BY DEF Init, Existing, Exists, Unborn
<1>2. \A r \in Requesters : ~ IsCreating(r)
  BY DEF Init, IsCreating, Free
<1> QED
  BY <1>1, <1>2 DEF FairCodes, Init

\* Edits and reminders do not touch the creations, and moving a task to the bin or
\* back leaves it counted.
LEMMA CodesStep == BaseInv /\ CodesInv /\ [Next]_vars => CodesInv'
<1> SUFFICES ASSUME BaseInv, FairCodes, [Next]_vars, ~ Purged' PROVE FairCodes'
  BY PurgedStays DEF CodesInv
<1>0. TypeOK /\ Creating
  BY DEF BaseInv
<1>1. ASSUME NEW r \in Requesters, CreateTask(r) \/ Insert(r) \/ Clash(r) \/ Recount(r)
      PROVE  FairCodes'
  BY <1>1, CreateTaskFair, InsertFair, ClashFair, RecountFair
<1>2. CASE AddTask
  BY <1>2, AddTaskFair
<1>3. CASE /\ NoBirth
           /\ \A r \in Requesters : ~ CreateTask(r) /\ ~ Clash(r) /\ ~ Recount(r)
  <2>1. \A id \in Ids :
          /\ ~ Exists(id) => tasks'[id] = tasks[id]
          /\ Exists(id) => tasks'[id] \in Rows /\ tasks'[id].code = tasks[id].code
    BY <1>0, <1>3, TaskLife
  <2>2. \A id \in Ids : Exists(id) => Exists(id)'
    BY <2>1 DEF Rows, Exists, Purged
  <2>3. \A id \in Ids : Exists(id)' => Exists(id)
    BY <2>1 DEF Exists
  <2>4. /\ Existing' = Existing
        /\ \A id \in Existing : tasks'[id].code = tasks[id].code
    BY <2>1, <2>2, <2>3 DEF Existing
  <2>5. UNCHANGED refused /\ (UNCHANGED request \/ \E p \in Processes : Crash(p))
    <3>1. EditStep \/ MoveStep => UNCHANGED <<request, refused>>
      BY <1>0, EditMakes, MoveMakes
    <3> QED
      BY <1>3, <3>1 DEF NoBirth, Next, vars, EditStep, MoveStep, StartSweep, ReadBatch,
         SendBatch, StampBatch, SweepFails, Crash, Tick
  <2>6. \A r \in Requesters : IsCreating(r)' => IsCreating(r) /\ request'[r] = request[r]
    BY <2>5 DEF Crash, IsCreating, Free
  <2> QED
    BY <2>4, <2>5, <2>6, CodesRest
<1> QED
  BY <1>1, <1>2, <1>3 DEF NoBirth

-----------------------------------------------------------------------------
(* The results.                                                            *)

Inv == BaseInv /\ SweepInv /\ CodesInv

\* Whatever requests and sweeps are under way together: a creation has its task
\* and its attempts to itself, one sweep runs in a process, what was sent is or will
\* be stamped, what is stamped was sent, and the codes in use are those that were
\* counted.
THEOREM TasksSafety == Spec => []Inv
<1>1. Init => Inv
  BY BaseInit, SweepInit, CodesInit DEF Inv
<1>2. Inv /\ [Next]_vars => Inv'
  BY BaseStep, SweepStep, CodesStep DEF Inv
<1> QED
  BY <1>1, <1>2, PTL DEF Spec

\* Every task, creation and sweep keeps its form (business_form_tasks and what
\* the handlers have read of it).
THEOREM TypeCorrect == Spec => []TypeOK
<1>1. Inv => TypeOK
  BY DEF Inv, BaseInv
<1> QED
  BY <1>1, TasksSafety, PTL

\* A creation loses an attempt only to a task that was created while it ran,
\* unless a task has been deleted for good (createTaskWithCode).
THEOREM ClashCorrect == Spec => []ClashNeedsRival
<1>1. Inv => ClashNeedsRival
  <2> SUFFICES ASSUME FairCodes PROVE ClashNeedsRival
    BY DEF Inv, CodesInv, ClashNeedsRival
  <2> QED
    BY DEF FairCodes, FairTry, IsCreating, ClashNeedsRival
<1> QED
  BY <1>1, TasksSafety, PTL

\* A process reminds of a task once, soon and again when the date has passed, for each
\* time the due date was sent by a door that resets the stamps, whoever edits, moves or
\* sweeps meanwhile, but for crashes and failed sweeps (sweepDeadlineReminders,
\* isReminderSweepRunning).
THEOREM RemindedCorrect == Spec => []RemindedOnce
<1>1. Inv => RemindedOnce
  BY DEF Inv, SweepInv, Counted, CountedOf, RemindedOnce
<1> QED
  BY <1>1, TasksSafety, PTL

\* A task carries a stamp only if a reminder was sent since its due date was, or if the
\* date was sent between the reminder and the stamp of a sweep (handleReminderDueSoon,
\* handleReminderOverdue).
THEOREM StampedCorrect == Spec => []StampedWasReminded
<1>1. Inv => StampedWasReminded
  BY DEF Inv, SweepInv, Stamped, Backed, Existing, StampedWasReminded
<1> QED
  BY <1>1, TasksSafety, PTL

=============================================================================
