----------------------- MODULE NotificationQueueProofs -----------------------
(***************************************************************************)
(* The safety of NotificationQueue for any number of jobs, workers,        *)
(* attempts, retries and faults. The properties speak of a row that no     *)
(* operator has put back; for such a row the invariant adds that a claim   *)
(* finds nobody at work on it, that it has attempts left while somebody    *)
(* is, and that before its notification is created every earlier copy has  *)
(* been paid for.                                                          *)
(***************************************************************************)
EXTENDS NotificationQueue, TLAPS

\* The states of a run in which it still has to account for its row.
AtWork == {"creating", "created", "failing"}

\* A row whose claim is on its way to a worker is not being worked on by it.
ClaimFindsNoRun ==
    \A w \in Workers, j \in Jobs :
        retried[j] = 0 /\ j \in worker[w].answer => worker[w].run[j] \notin AtWork

\* Who marks a row done has created its notification.
MarksWhatIsCreated ==
    \A w \in Workers, j \in Jobs : worker[w].run[j] = "created" => created[j] > 0

\* The next thing that happens to the row is that its notification is created.
BeforeCreate(j) ==
    \/ job[j].status \in {"ABSENT", "pending"}
    \/ \E w \in Workers : j \in worker[w].answer \/ worker[w].run[j] = "creating"

CopiesPaid ==
    \A j \in Jobs : retried[j] = 0 =>
        /\ BeforeCreate(j) => created[j] <= job[j].attempts
        /\ BeforeCreate(j) \/ (\E w \in Workers : Drains(w, j)) =>
                job[j].attempts < MaxAttempts

IInv == /\ TypeOK /\ DrainedOnceAtATime /\ CopiesCounted /\ DoneIsNotified
        /\ GivesUpInTime /\ ClaimFindsNoRun /\ MarksWhatIsCreated /\ CopiesPaid

USE QueueAssumption DEF Jobs

\* The steps of a run.
Steps == {"out", "creating", "created", "failing", "leaving"}

\* The run of row j by worker w is at `step` now, and nothing else of any worker
\* is different.
RunMoved(w, j, step) ==
    /\ worker' \in [Workers -> [answer : SUBSET Jobs, run : [Jobs -> Steps]]]
    /\ \A v \in Workers : worker'[v].answer = worker[v].answer
    /\ \A v \in Workers, k \in Jobs :
        worker'[v].run[k] = IF v = w /\ k = j THEN step ELSE worker[v].run[k]

\* Moving one run changes nothing else of any worker.
LEMMA RunMove ==
    ASSUME TypeOK, NEW w \in Workers, NEW j \in Jobs, NEW step \in Steps,
           worker' = [worker EXCEPT ![w].run[j] = step]
    PROVE  RunMoved(w, j, step)
<1>1. /\ worker \in [Workers -> [answer : SUBSET Jobs, run : [Jobs -> Steps]]]
      /\ \A v \in Workers : worker[v].run \in [Jobs -> Steps]
  BY DEF TypeOK, Steps
<1> DEFINE moved == [worker[w] EXCEPT !.run = [worker[w].run EXCEPT ![j] = step]]
<1>2. /\ moved \in [answer : SUBSET Jobs, run : [Jobs -> Steps]]
      /\ moved.answer = worker[w].answer
      /\ \A k \in Jobs : moved.run[k] = IF k = j THEN step ELSE worker[w].run[k]
  BY <1>1
<1>3. worker' = [worker EXCEPT ![w] = moved]
  OBVIOUS
<1> HIDE DEF moved
<1> QED
  BY <1>1, <1>2, <1>3 DEF RunMoved

\* The values of a row.
Rows == [status : {"ABSENT", "pending", "claimed", "done", "failed", "DELETED"},
         attempts : Nat]

\* A row with another status is a row with the same attempts.
LEMMA StatusWrite ==
    ASSUME NEW row \in Rows,
           NEW status \in {"ABSENT", "pending", "claimed", "done", "failed", "DELETED"}
    PROVE  LET other == [row EXCEPT !.status = status]
           IN  /\ other \in Rows /\ other.status = status
               /\ other.attempts = row.attempts
BY DEF Rows

\* Changing one row changes no other.
LEMMA RowWrite ==
    ASSUME TypeOK, NEW j \in Jobs,
           NEW row \in Rows, job' = [job EXCEPT ![j] = row]
    PROVE  /\ job' \in [Jobs -> Rows]
           /\ \A k \in Jobs : job'[k] = IF k = j THEN row ELSE job[k]
BY DEF TypeOK, Rows

\* The first state satisfies the invariant.
LEMMA InitInv == Init => IInv
<1> SUFFICES ASSUME Init PROVE IInv
  OBVIOUS
<1>1. \A w \in Workers : worker[w].answer = {} /\
            \A j \in Jobs : worker[w].run[j] = "out"
  BY DEF Init, Idle
<1>2. \A j \in Jobs : /\ job[j].status = "ABSENT" /\ job[j].attempts = 0
                       /\ created[j] = 0
  BY DEF Init
<1>3. TypeOK
  BY DEF Init, TypeOK, Idle
<1> QED
  BY <1>1, <1>2, <1>3 DEF IInv, DrainedOnceAtATime, CopiesCounted, DoneIsNotified,
     GivesUpInTime, ClaimFindsNoRun, MarksWhatIsCreated, CopiesPaid, BeforeCreate,
     Drains, AtWork

\* A step that writes no row and gives nobody more to do: runs end or start with
\* a row of the answer.
LEMMA Quiet ==
    ASSUME IInv, TypeOK', UNCHANGED <<job, created, retried>>,
           \A w \in Workers, j \in Jobs :
              /\ j \in worker'[w].answer => j \in worker[w].answer
              /\ worker'[w].run[j] \in AtWork =>
                    \/ worker'[w].run[j] = worker[w].run[j]
                    \/ /\ worker'[w].run[j] = "creating"
                       /\ j \in worker[w].answer /\ j \notin worker'[w].answer
              /\ worker[w].run[j] = "creating" /\ worker'[w].run[j] \in AtWork =>
                    worker'[w].run[j] = "creating"
    PROVE  IInv'
<1>1. \A w \in Workers, j \in Jobs : Drains(w, j)' => Drains(w, j)
  BY DEF Drains, AtWork
<1>2. \A j \in Jobs : BeforeCreate(j)' => BeforeCreate(j)
  BY DEF BeforeCreate, AtWork
<1>3. DrainedOnceAtATime'
  BY <1>1 DEF IInv, DrainedOnceAtATime
<1>4. CopiesCounted' /\ DoneIsNotified' /\ GivesUpInTime'
  BY DEF IInv, CopiesCounted, DoneIsNotified, GivesUpInTime
<1>5. ClaimFindsNoRun'
  BY DEF IInv, ClaimFindsNoRun
<1>6. MarksWhatIsCreated'
  BY DEF IInv, MarksWhatIsCreated, AtWork
<1>7. CopiesPaid'
  BY <1>1, <1>2 DEF IInv, CopiesPaid
<1> QED
  BY <1>3, <1>4, <1>5, <1>6, <1>7 DEF IInv

\* A run that leaves, or whose mark fails, changes no row.
LEMMA LeaveStep ==
    ASSUME IInv, NEW w \in Workers, NEW j \in Jobs,
           Leave(w, j) \/ MarkFailedThrows(w, j)
    PROVE  IInv'
<1> DEFINE step == IF Leave(w, j) THEN "out" ELSE "leaving"
<1>1. /\ worker' = [worker EXCEPT ![w].run[j] = step]
      /\ step \in {"out", "leaving"}
      /\ UNCHANGED <<job, created, retried>>
  BY DEF Leave, MarkFailedThrows
<1>2. faults' \in 0 .. MaxFaults
  BY DEF Leave, MarkFailedThrows, Faulty, IInv, TypeOK
<1> HIDE DEF step
<1>3. step \in Steps
  BY <1>1 DEF Steps
<1>4. TypeOK'
  BY <1>1, <1>2, <1>3, RunMove DEF RunMoved, IInv, TypeOK, Steps
<1>5. \A v \in Workers, k \in Jobs :
        /\ worker'[v].answer = worker[v].answer
        /\ worker'[v].run[k] = worker[v].run[k]
           \/ worker'[v].run[k] \in {"out", "leaving"}
  BY <1>1, <1>3, RunMove DEF RunMoved, IInv
<1> QED
  BY <1>1, <1>4, <1>5, Quiet DEF AtWork

\* The death of a worker leaves its rows as they are, and it runs none.
LEMMA CrashStep ==
    ASSUME IInv, NEW w \in Workers, Crash(w)
    PROVE  IInv'
<1>1. Idle \in [answer : SUBSET Jobs, run : [Jobs -> Steps]]
  BY DEF Idle, Steps
<1>2. TypeOK'
  BY <1>1 DEF Crash, Faulty, IInv, TypeOK, Steps
<1>3. /\ Idle.answer = {}
      /\ \A j \in Jobs : Idle.run[j] = "out"
  BY DEF Idle
<1>4. \A v \in Workers : worker'[v] = IF v = w THEN Idle ELSE worker[v]
  BY DEF Crash, IInv, TypeOK
<1> QED
  BY <1>2, <1>3, <1>4, Quiet DEF Crash, AtWork

\* A run starts on each row of the claim that its worker does not run yet.
LEMMA DispatchStep ==
    ASSUME IInv, NEW w \in Workers, Dispatch(w)
    PROVE  IInv'
<1> DEFINE started == [j \in Jobs |->
                          IF j \in worker[w].answer /\ worker[w].run[j] = "out"
                          THEN "creating" ELSE worker[w].run[j]]
           next == [answer |-> {}, run |-> started]
<1>1. /\ worker \in [Workers -> [answer : SUBSET Jobs, run : [Jobs -> Steps]]]
      /\ \A v \in Workers : worker[v].run \in [Jobs -> Steps]
  BY DEF IInv, TypeOK, Steps
<1>2. started \in [Jobs -> Steps]
  BY <1>1 DEF Steps
<1>3. worker' = [worker EXCEPT ![w] = next]
  BY DEF Dispatch
<1>4. /\ next \in [answer : SUBSET Jobs, run : [Jobs -> Steps]]
      /\ next.answer = {} /\ next.run = started
  BY <1>2
<1>5. \A j \in Jobs : next.run[j] =
            IF j \in worker[w].answer /\ worker[w].run[j] = "out"
            THEN "creating" ELSE worker[w].run[j]
  BY <1>4
<1> HIDE DEF next, started
<1>6. \A v \in Workers : worker'[v] = IF v = w THEN next ELSE worker[v]
  BY <1>1, <1>3
<1>7. TypeOK'
  BY <1>1, <1>3, <1>4 DEF Dispatch, IInv, TypeOK, Steps
<1> QED
  BY <1>4, <1>5, <1>6, <1>7, Quiet DEF Dispatch, AtWork

\* A step of the web process: no worker moves, and the rows that change are new,
\* put back by an operator or cleared.
LEMMA WebStep ==
    ASSUME IInv, TypeOK', UNCHANGED <<created, worker>>,
           \A j \in Jobs : job'[j].attempts = job[j].attempts,
           \A j \in Jobs :
              \/ retried'[j] = retried[j] /\ job'[j].status = job[j].status
              \/ /\ retried'[j] # 0 /\ job'[j].status = "pending"
              \/ /\ retried'[j] = retried[j]
                 /\ job[j].status = "ABSENT" /\ job'[j].status = "pending"
                 /\ job[j].attempts < MaxAttempts
              \/ /\ retried'[j] = retried[j]
                 /\ job[j].status = "pending" /\ job'[j].status = "DELETED"
    PROVE  IInv'
<1>1. \A w \in Workers, j \in Jobs : Drains(w, j)' <=> Drains(w, j)
  BY DEF Drains
<1>2. \A j \in Jobs : retried'[j] = 0 => retried[j] = 0
  BY DEF IInv, TypeOK
<1>3. \A j \in Jobs : retried'[j] = 0 /\ BeforeCreate(j)' => BeforeCreate(j)
  BY DEF BeforeCreate
<1>4. DrainedOnceAtATime'
  BY <1>1, <1>2 DEF IInv, DrainedOnceAtATime
<1>5. CopiesCounted'
  BY <1>2 DEF IInv, CopiesCounted
<1>6. DoneIsNotified'
  BY DEF IInv, DoneIsNotified
<1>7. GivesUpInTime'
  BY <1>2 DEF IInv, GivesUpInTime
<1>8. ClaimFindsNoRun' /\ MarksWhatIsCreated'
  BY <1>2 DEF IInv, ClaimFindsNoRun, MarksWhatIsCreated
<1>9. CopiesPaid'
  BY <1>1, <1>2, <1>3 DEF IInv, CopiesPaid
<1> QED
  BY <1>4, <1>5, <1>6, <1>7, <1>8, <1>9 DEF IInv

\* A new row is nobody's yet.
LEMMA EnqueueStep ==
    ASSUME IInv, NEW j \in Jobs, Enqueue(j)
    PROVE  IInv'
<1> DEFINE row == [job[j] EXCEPT !.status = "pending"]
<1>1. /\ row \in Rows
      /\ row.status = "pending" /\ row.attempts = job[j].attempts
      /\ job' = [job EXCEPT ![j] = row]
  BY StatusWrite DEF Enqueue, IInv, TypeOK, Rows
<1> HIDE DEF row
<1>2. TypeOK'
  BY <1>1, RowWrite DEF Enqueue, IInv, TypeOK, Rows
<1>3. job[j].status = "ABSENT" /\ UNCHANGED <<created, retried, worker>>
  BY DEF Enqueue
<1>4. \A k \in Jobs : job'[k] = IF k = j THEN row ELSE job[k]
  BY <1>1, RowWrite DEF IInv
<1>5. CASE retried[j] = 0
  <2>1. job[j].attempts < MaxAttempts
    BY <1>3, <1>5 DEF IInv, CopiesPaid, BeforeCreate
  <2> QED
    BY <1>1, <1>2, <1>3, <1>4, <2>1, WebStep
<1>6. CASE retried[j] # 0
  BY <1>1, <1>2, <1>3, <1>4, <1>6, WebStep
<1> QED
  BY <1>5, <1>6

\* The operator's retry puts a row back, and gives it no attempts.
LEMMA RetryStep ==
    ASSUME IInv, NEW j \in Jobs, RetryItem(j)
    PROVE  IInv'
<1> DEFINE row == [job[j] EXCEPT !.status = "pending"]
<1>1. /\ row \in Rows
      /\ row.status = "pending" /\ row.attempts = job[j].attempts
      /\ job' = [job EXCEPT ![j] = row]
  BY StatusWrite DEF RetryItem, IInv, TypeOK, Rows
<1> HIDE DEF row
<1>2. /\ retried' \in [Jobs -> Nat]
      /\ retried'[j] # 0
      /\ \A k \in Jobs : k # j => retried'[k] = retried[k]
  BY DEF RetryItem, IInv, TypeOK
<1>3. TypeOK'
  BY <1>1, <1>2, RowWrite DEF RetryItem, IInv, TypeOK, Rows
<1>4. \A k \in Jobs : job'[k] = IF k = j THEN row ELSE job[k]
  BY <1>1, RowWrite DEF IInv
<1> QED
  BY <1>1, <1>2, <1>3, <1>4, WebStep DEF RetryItem

\* Clearing takes the rows that are pending.
LEMMA ClearStep ==
    ASSUME IInv, ClearQueue
    PROVE  IInv'
<1>1. \A j \in Jobs : /\ [job[j] EXCEPT !.status = "DELETED"].status = "DELETED"
                       /\ [job[j] EXCEPT !.status = "DELETED"].attempts = job[j].attempts
                       /\ [job[j] EXCEPT !.status = "DELETED"] \in Rows
  BY StatusWrite DEF IInv, TypeOK, Rows
<1>2. \A j \in Jobs : job'[j] = IF j \in Pending
                                THEN [job[j] EXCEPT !.status = "DELETED"] ELSE job[j]
  BY DEF ClearQueue
<1>3. TypeOK'
  <2>1. job' \in [Jobs -> Rows]
    BY <1>1 DEF ClearQueue, IInv, TypeOK, Rows
  <2> QED
    BY <2>1 DEF ClearQueue, IInv, TypeOK, Rows
<1> QED
  BY <1>1, <1>2, <1>3, WebStep DEF ClearQueue, Pending

\* A claim takes pending rows, which nobody drains.
LEMMA ClaimStep ==
    ASSUME IInv, NEW w \in Workers, Claim(w)
    PROVE  IInv'
<1>1. PICK lot \in SUBSET Jobs :
        /\ Oldest(lot)
        /\ job' = [j \in Jobs |-> IF j \in lot
                    THEN [job[j] EXCEPT !.status = "claimed"] ELSE job[j]]
        /\ worker' = [worker EXCEPT ![w].answer = lot]
  BY DEF Claim
<1>2. worker[w].answer = {} /\ UNCHANGED <<created, retried, faults>>
  BY DEF Claim
<1>3. \A j \in lot : job[j].status = "pending"
  BY <1>1 DEF Oldest, Claimable, Pending
<1> DEFINE next == [worker[w] EXCEPT !.answer = lot]
<1>4. /\ next \in [answer : SUBSET Jobs, run : [Jobs -> Steps]]
      /\ next.answer = lot /\ next.run = worker[w].run
  BY DEF IInv, TypeOK, Steps
<1>5. worker' = [worker EXCEPT ![w] = next]
  BY <1>1
<1> HIDE DEF next
<1>6. \A v \in Workers : /\ worker'[v].run = worker[v].run
                         /\ worker'[v].answer = IF v = w THEN lot ELSE worker[v].answer
  BY <1>4, <1>5 DEF IInv, TypeOK
<1>7. \A j \in Jobs : /\ [job[j] EXCEPT !.status = "claimed"].status = "claimed"
                       /\ [job[j] EXCEPT !.status = "claimed"].attempts = job[j].attempts
                       /\ [job[j] EXCEPT !.status = "claimed"] \in Rows
  BY StatusWrite DEF IInv, TypeOK, Rows
<1>8. TypeOK'
  <2>1. job' \in [Jobs -> Rows]
    BY <1>1, <1>7 DEF IInv, TypeOK, Rows
  <2>2. worker' \in [Workers -> [answer : SUBSET Jobs, run : [Jobs -> Steps]]]
    BY <1>4, <1>5 DEF IInv, TypeOK, Steps
  <2> QED
    BY <1>2, <2>1, <2>2 DEF IInv, TypeOK, Steps, Rows
<1>9. \A j \in Jobs :
        /\ job'[j].attempts = job[j].attempts
        /\ job'[j].status = IF j \in lot THEN "claimed" ELSE job[j].status
  BY <1>1, <1>7
<1>10. \A v \in Workers, j \in Jobs :
        Drains(v, j)' <=> Drains(v, j) \/ (v = w /\ j \in lot)
  BY <1>2, <1>6 DEF Drains
<1>11. \A v \in Workers, j \in Jobs : j \in lot /\ retried[j] = 0 => ~ Drains(v, j)
  BY <1>3 DEF IInv, DrainedOnceAtATime
<1>12. DrainedOnceAtATime'
  BY <1>2, <1>9, <1>10, <1>11 DEF IInv, DrainedOnceAtATime
<1>13. CopiesCounted' /\ DoneIsNotified' /\ GivesUpInTime'
  BY <1>2, <1>9 DEF IInv, CopiesCounted, DoneIsNotified, GivesUpInTime
<1>14. ClaimFindsNoRun'
  BY <1>2, <1>6, <1>11 DEF IInv, ClaimFindsNoRun, Drains, AtWork
<1>15. MarksWhatIsCreated'
  BY <1>2, <1>6 DEF IInv, MarksWhatIsCreated
<1>16. \A j \in Jobs : BeforeCreate(j)' => BeforeCreate(j)
  BY <1>2, <1>3, <1>6, <1>9 DEF BeforeCreate
<1>17. \A v \in Workers, j \in Jobs : Drains(v, j)' => Drains(v, j) \/ BeforeCreate(j)
  BY <1>3, <1>10 DEF BeforeCreate
<1>18. CopiesPaid'
  BY <1>2, <1>9, <1>16, <1>17 DEF IInv, CopiesPaid
<1> QED
  BY <1>8, <1>12, <1>13, <1>14, <1>15, <1>18 DEF IInv

\* A creation makes one copy, whether it reports an error or not.
LEMMA CreateStep ==
    ASSUME IInv, NEW w \in Workers, NEW j \in Jobs, Create(w, j)
    PROVE  IInv'
<1>1. PICK arrives \in BOOLEAN, answers \in BOOLEAN :
        /\ answers => arrives
        /\ created' = [created EXCEPT ![j] = IF arrives THEN @ + 1 ELSE @]
        /\ worker' = [worker EXCEPT ![w].run[j] =
                        IF answers THEN "created" ELSE "failing"]
  BY DEF Create
<1> DEFINE step == IF answers THEN "created" ELSE "failing"
<1>2. /\ step \in Steps /\ step \in AtWork
      /\ step = "created" => arrives
      /\ step # "creating"
      /\ worker' = [worker EXCEPT ![w].run[j] = step]
  BY <1>1 DEF Steps, AtWork
<1> HIDE DEF step
<1>3. worker[w].run[j] = "creating" /\ UNCHANGED <<job, retried, faults>>
  BY DEF Create
<1>4. /\ worker' \in [Workers -> [answer : SUBSET Jobs, run : [Jobs -> Steps]]]
      /\ \A v \in Workers : worker'[v].answer = worker[v].answer
      /\ \A v \in Workers, k \in Jobs :
            worker'[v].run[k] = IF v = w /\ k = j THEN step ELSE worker[v].run[k]
  <2>1. TypeOK /\ step \in Steps /\ worker' = [worker EXCEPT ![w].run[j] = step]
    BY <1>2 DEF IInv
  <2>2. RunMoved(w, j, step)
    BY <2>1, RunMove
  <2> QED
    BY <2>2 DEF RunMoved
<1>5. /\ created' \in [Jobs -> Nat]
      /\ \A k \in Jobs : created'[k] >= created[k]
      /\ \A k \in Jobs : k # j => created'[k] = created[k]
      /\ created'[j] <= created[j] + 1
      /\ arrives => created'[j] > 0
  BY <1>1 DEF IInv, TypeOK
<1>6. TypeOK'
  BY <1>3, <1>4, <1>5 DEF IInv, TypeOK, Steps
<1>7. \A v \in Workers, k \in Jobs : Drains(v, k)' <=> Drains(v, k)
  BY <1>2, <1>3, <1>4 DEF Drains, AtWork
<1>8. Drains(w, j) /\ BeforeCreate(j)
  BY <1>3 DEF Drains, BeforeCreate
<1>9. ASSUME retried[j] = 0 PROVE ~ BeforeCreate(j)'
  <2>1. job'[j].status \in {"claimed", "done"}
    BY <1>3, <1>8, <1>9 DEF IInv, DrainedOnceAtATime
  <2>2. j \notin worker'[w].answer
    BY <1>3, <1>4, <1>9 DEF IInv, ClaimFindsNoRun, AtWork
  <2>3. worker'[w].run[j] # "creating"
    BY <1>2, <1>4
  <2>4. ASSUME NEW v \in Workers, v # w
        PROVE  j \notin worker'[v].answer /\ worker'[v].run[j] # "creating"
    <3>1. ~ Drains(v, j)
      BY <1>8, <1>9, <2>4 DEF IInv, DrainedOnceAtATime
    <3> QED
      BY <1>4, <2>4, <3>1 DEF Drains
  <2> QED
    BY <2>1, <2>2, <2>3, <2>4 DEF BeforeCreate
<1>10. \A k \in Jobs : k # j /\ BeforeCreate(k)' => BeforeCreate(k)
  BY <1>3, <1>4 DEF BeforeCreate
<1>11. DrainedOnceAtATime'
  BY <1>3, <1>7 DEF IInv, DrainedOnceAtATime
<1>12. CopiesCounted'
  <2> SUFFICES ASSUME NEW k \in Jobs, retried[k] = 0
               PROVE  created'[k] <= job[k].attempts + 1 /\ created'[k] <= MaxAttempts
    BY <1>3 DEF CopiesCounted
  <2>1. CASE k = j
    <3>1. created[j] <= job[j].attempts /\ job[j].attempts < MaxAttempts
      BY <1>8, <2>1 DEF IInv, CopiesPaid
    <3> QED
      BY <1>5, <2>1, <3>1 DEF IInv, TypeOK
  <2>2. CASE k # j
    BY <1>5, <2>2 DEF IInv, CopiesCounted
  <2> QED
    BY <2>1, <2>2
<1>13. DoneIsNotified' /\ GivesUpInTime'
  <2>1. \A k \in Jobs : created[k] > 0 => created'[k] > 0
    BY <1>5 DEF IInv, TypeOK
  <2> QED
    BY <1>3, <2>1 DEF IInv, DoneIsNotified, GivesUpInTime
<1>14. ClaimFindsNoRun'
  BY <1>2, <1>3, <1>4 DEF IInv, ClaimFindsNoRun, AtWork
<1>15. MarksWhatIsCreated'
  BY <1>2, <1>4, <1>5 DEF IInv, TypeOK, MarksWhatIsCreated
<1>16. CopiesPaid'
  BY <1>3, <1>5, <1>7, <1>8, <1>9, <1>10 DEF IInv, CopiesPaid
<1> QED
  BY <1>6, <1>11, <1>12, <1>13, <1>14, <1>15, <1>16 DEF IInv

\* The update of markDone goes through, or the run fails, or both.
LEMMA MarkDoneStep ==
    ASSUME IInv, NEW w \in Workers, NEW j \in Jobs,
           MarkDone(w, j) \/ MarkDoneThrows(w, j)
    PROVE  IInv'
<1>1. worker[w].run[j] = "created" /\ UNCHANGED <<created, retried>>
  BY DEF MarkDone, MarkDoneThrows
<1>2. PICK status \in {job[j].status, "done"} :
        /\ Exists(j) \/ status = job[j].status
        /\ job' = [job EXCEPT ![j].status = status]
  <2>1. CASE MarkDone(w, j) /\ Exists(j)
    BY <2>1 DEF MarkDone
  <2>2. CASE MarkDone(w, j) /\ ~ Exists(j)
    <3>1. job' = [job EXCEPT ![j].status = job[j].status]
      BY <2>2 DEF MarkDone, IInv, TypeOK
    <3> QED
      BY <3>1
  <2>3. CASE MarkDoneThrows(w, j)
    BY <2>3 DEF MarkDoneThrows
  <2> QED
    BY <2>1, <2>2, <2>3
<1>3. PICK step \in {"leaving", "failing"} : worker' = [worker EXCEPT ![w].run[j] = step]
  BY DEF MarkDone, MarkDoneThrows
<1>4. faults' \in 0 .. MaxFaults
  BY DEF MarkDone, MarkDoneThrows, Faulty, IInv, TypeOK
<1> DEFINE row == [job[j] EXCEPT !.status = status]
<1>5. /\ row \in Rows /\ row.attempts = job[j].attempts
      /\ row.status \in {job[j].status, "done"}
      /\ job' = [job EXCEPT ![j] = row]
  <2>1. /\ job[j] \in Rows
        /\ status \in {"ABSENT", "pending", "claimed", "done", "failed", "DELETED"}
    BY <1>2 DEF IInv, TypeOK, Rows
  <2>2. row \in Rows /\ row.status = status /\ row.attempts = job[j].attempts
    BY <2>1, StatusWrite
  <2> QED
    BY <1>2, <2>2
<1> HIDE DEF row
<1>6. /\ job' \in [Jobs -> Rows]
      /\ \A k \in Jobs :
            /\ job'[k].attempts = job[k].attempts
            /\ job'[k].status # job[k].status => k = j /\ job'[k].status = "done"
  <2>1. /\ job' \in [Jobs -> Rows]
        /\ \A k \in Jobs : job'[k] = IF k = j THEN row ELSE job[k]
    BY <1>5, RowWrite DEF IInv
  <2> QED
    BY <1>5, <2>1
<1>7. /\ worker' \in [Workers -> [answer : SUBSET Jobs, run : [Jobs -> Steps]]]
      /\ \A v \in Workers : worker'[v].answer = worker[v].answer
      /\ \A v \in Workers, k \in Jobs :
            worker'[v].run[k] = IF v = w /\ k = j THEN step ELSE worker[v].run[k]
  <2>1. TypeOK /\ step \in Steps
    BY DEF IInv, Steps
  <2>2. RunMoved(w, j, step)
    BY <1>3, <2>1, RunMove
  <2> QED
    BY <2>2 DEF RunMoved
<1>8. TypeOK'
  BY <1>1, <1>4, <1>6, <1>7 DEF IInv, TypeOK, Steps, Rows
<1>9. Drains(w, j) /\ created[j] > 0
  BY <1>1 DEF Drains, IInv, MarksWhatIsCreated
<1>10. \A v \in Workers, k \in Jobs : Drains(v, k)' => Drains(v, k)
  BY <1>1, <1>7 DEF Drains
<1>11. \A k \in Jobs : BeforeCreate(k)' => BeforeCreate(k)
  BY <1>6, <1>7 DEF BeforeCreate
<1>12. DrainedOnceAtATime'
  BY <1>1, <1>6, <1>10 DEF IInv, DrainedOnceAtATime
<1>13. CopiesCounted' /\ DoneIsNotified' /\ GivesUpInTime'
  BY <1>1, <1>6, <1>9 DEF IInv, CopiesCounted, DoneIsNotified, GivesUpInTime
<1>14. ClaimFindsNoRun'
  BY <1>1, <1>7 DEF IInv, ClaimFindsNoRun, AtWork
<1>15. MarksWhatIsCreated'
  BY <1>1, <1>7 DEF IInv, MarksWhatIsCreated
<1>16. CopiesPaid'
  BY <1>1, <1>6, <1>10, <1>11 DEF IInv, CopiesPaid
<1> QED
  BY <1>8, <1>12, <1>13, <1>14, <1>15, <1>16 DEF IInv

\* A counted failure pays for the copy that was made, if any.
LEMMA MarkFailedStep ==
    ASSUME IInv, NEW w \in Workers, NEW j \in Jobs, MarkFailed(w, j)
    PROVE  IInv'
<1>1. /\ worker[w].run[j] = "failing" /\ UNCHANGED <<created, retried, faults>>
      /\ worker' = [worker EXCEPT ![w].run[j] = "leaving"]
  BY DEF MarkFailed, AfterFailure
<1> DEFINE row == IF Exists(j) THEN Requeued(j) ELSE job[j]
<1>2. job' = [job EXCEPT ![j] = row]
  BY DEF MarkFailed, IInv, TypeOK
<1>3. /\ row \in Rows
      /\ \/ row = job[j] /\ ~ Exists(j)
         \/ /\ row.attempts = job[j].attempts + 1
            /\ row.status = IF row.attempts >= MaxAttempts THEN "failed" ELSE "pending"
  BY DEF Requeued, GivenUp, IInv, TypeOK, Rows
<1> HIDE DEF row
<1>4. /\ job' \in [Jobs -> Rows]
      /\ \A k \in Jobs : job'[k] = IF k = j THEN row ELSE job[k]
  BY <1>2, <1>3, RowWrite DEF IInv
<1>5. /\ worker' \in [Workers -> [answer : SUBSET Jobs, run : [Jobs -> Steps]]]
      /\ \A v \in Workers : worker'[v].answer = worker[v].answer
      /\ \A v \in Workers, k \in Jobs :
            worker'[v].run[k] = IF v = w /\ k = j THEN "leaving" ELSE worker[v].run[k]
  <2>1. TypeOK /\ "leaving" \in Steps
    BY DEF IInv, Steps
  <2>2. RunMoved(w, j, "leaving")
    BY <1>1, <2>1, RunMove
  <2> QED
    BY <2>2 DEF RunMoved
<1>6. TypeOK'
  BY <1>1, <1>4, <1>5 DEF IInv, TypeOK, Steps, Rows
<1>7. Drains(w, j)
  BY <1>1 DEF Drains
<1>8. \A v \in Workers, k \in Jobs : Drains(v, k)' => Drains(v, k)
  BY <1>1, <1>5 DEF Drains
<1>9. \A k \in Jobs : k # j /\ BeforeCreate(k)' => BeforeCreate(k)
  BY <1>4, <1>5 DEF BeforeCreate
\* Nobody else was at work on the row, and it was not deleted.
<1>10. retried[j] = 0 =>
        /\ \A v \in Workers : ~ Drains(v, j)'
        /\ row.attempts = job[j].attempts + 1
        /\ job[j].attempts < MaxAttempts
  <2> SUFFICES ASSUME retried[j] = 0
               PROVE  /\ \A v \in Workers : ~ Drains(v, j)'
                      /\ row.attempts = job[j].attempts + 1
                      /\ job[j].attempts < MaxAttempts
    OBVIOUS
  <2>1. Exists(j) /\ \A v \in Workers \ {w} : ~ Drains(v, j)
    BY <1>7 DEF IInv, DrainedOnceAtATime, Exists
  <2>2. j \notin worker[w].answer
    BY <1>1 DEF IInv, ClaimFindsNoRun, AtWork
  <2>3. \A v \in Workers : ~ Drains(v, j)'
    BY <1>5, <1>8, <2>1, <2>2 DEF Drains
  <2>4. job[j].attempts < MaxAttempts
    BY <1>7 DEF IInv, CopiesPaid
  <2> QED
    BY <1>3, <2>1, <2>3, <2>4
<1>11. DrainedOnceAtATime'
  <2> SUFFICES ASSUME NEW k \in Jobs, retried[k] = 0, NEW v \in Workers, Drains(v, k)'
               PROVE  /\ job'[k].status \in {"claimed", "done"}
                      /\ \A u \in Workers \ {v} : ~ Drains(u, k)'
    BY <1>1 DEF DrainedOnceAtATime
  <2>1. k # j
    BY <1>10
  <2> QED
    BY <1>4, <1>8, <2>1 DEF IInv, DrainedOnceAtATime
<1>12. job[j] \in Rows /\ created[j] \in Nat
  BY DEF IInv, TypeOK, Rows
<1>13. CopiesCounted'
  BY <1>1, <1>4, <1>10, <1>12 DEF IInv, CopiesCounted, Rows
<1>14. DoneIsNotified'
  BY <1>1, <1>3, <1>4 DEF IInv, DoneIsNotified
<1>15. GivesUpInTime'
  BY <1>1, <1>3, <1>4, <1>10, <1>12 DEF IInv, GivesUpInTime, Exists, Rows
<1>16. ClaimFindsNoRun'
  BY <1>1, <1>5 DEF IInv, ClaimFindsNoRun, AtWork
<1>17. MarksWhatIsCreated'
  BY <1>1, <1>5 DEF IInv, MarksWhatIsCreated
<1>18. CopiesPaid'
  <2> SUFFICES ASSUME NEW k \in Jobs, retried[k] = 0
               PROVE  /\ BeforeCreate(k)' => created[k] <= job'[k].attempts
                      /\ BeforeCreate(k)' \/ (\E v \in Workers : Drains(v, k)') =>
                            job'[k].attempts < MaxAttempts
    BY <1>1 DEF CopiesPaid
  <2>1. CASE k # j
    BY <1>4, <1>8, <1>9, <2>1 DEF IInv, CopiesPaid
  <2>2. CASE k = j
    <3>1. created[j] <= row.attempts
      BY <1>10, <2>2 DEF IInv, CopiesCounted
    <3>2. BeforeCreate(j)' => row.status \in {"ABSENT", "pending"}
      BY <1>4, <1>10, <2>2 DEF BeforeCreate, Drains
    <3>3. row.status \in {"ABSENT", "pending"} => row.attempts < MaxAttempts
      <4>1. row.status = IF row.attempts >= MaxAttempts THEN "failed" ELSE "pending"
        BY <1>3, <1>10, <1>12, <2>2 DEF Rows
      <4> QED
        BY <1>3, <4>1 DEF Rows
    <3> QED
      BY <1>4, <1>10, <2>2, <3>1, <3>2, <3>3
  <2> QED
    BY <2>1, <2>2
<1> QED
  BY <1>6, <1>11, <1>13, <1>14, <1>15, <1>16, <1>17, <1>18 DEF IInv

-----------------------------------------------------------------------------
\* Every step keeps the invariant.
LEMMA StepInv == IInv /\ [Next]_vars => IInv'
<1> SUFFICES ASSUME IInv, [Next]_vars PROVE IInv'
  OBVIOUS
<1>1. ASSUME NEW j \in Jobs, Enqueue(j) \/ RetryItem(j) PROVE IInv'
  BY <1>1, EnqueueStep, RetryStep
<1>2. ASSUME NEW w \in Workers, Claim(w) \/ Dispatch(w) \/ Crash(w) PROVE IInv'
  BY <1>2, ClaimStep, DispatchStep, CrashStep
<1>3. ASSUME NEW w \in Workers, NEW j \in Jobs, RunStep(w, j) PROVE IInv'
  BY <1>3, CreateStep, MarkDoneStep, MarkFailedStep, LeaveStep DEF RunStep
<1>4. CASE ClearQueue
  BY <1>4, ClearStep
<1>5. CASE UNCHANGED vars
  BY <1>5 DEF vars, IInv, TypeOK, DrainedOnceAtATime, CopiesCounted, DoneIsNotified,
     GivesUpInTime, ClaimFindsNoRun, MarksWhatIsCreated, CopiesPaid, BeforeCreate, Drains
<1> QED
  BY <1>1, <1>2, <1>3, <1>4, <1>5 DEF Next

\* The inductive invariant holds in every behaviour of the queue.
THEOREM QueueSafety == Spec => []IInv
BY InitInv, StepInv, PTL DEF Spec

\* Unless an operator puts it back, a row is drained by one worker at a time:
\* claimBatch and markFailed hand it on without an overlap.
THEOREM DrainedCorrect == Spec => []DrainedOnceAtATime
<1>1. IInv => DrainedOnceAtATime
  BY DEF IInv
<1> QED
  BY <1>1, QueueSafety, PTL

\* There are no more copies of a notification than counted attempts, whatever
\* processRow loses.
THEOREM CopiesCorrect == Spec => []CopiesCounted
<1>1. IInv => CopiesCounted
  BY DEF IInv
<1> QED
  BY <1>1, QueueSafety, PTL

\* A row that says done has led to a notification (processRow).
THEOREM DoneCorrect == Spec => []DoneIsNotified
<1>1. IInv => DoneIsNotified
  BY DEF IInv
<1> QED
  BY <1>1, QueueSafety, PTL

\* markFailed gives a row up after its last attempt and not before.
THEOREM GiveUpCorrect == Spec => []GivesUpInTime
<1>1. IInv => GivesUpInTime
  BY DEF IInv
<1> QED
  BY <1>1, QueueSafety, PTL

-----------------------------------------------------------------------------
(* The first time a notification is drained.                               *)

\* Nothing has gone wrong yet, and the row has neither failed nor been put back.
Fresh(j) == faults = 0 /\ retried[j] = 0 /\ job[j].attempts = 0

\* The claim of a fresh row reaches a worker that runs it: it is not passed over
\* because of a run that is about to leave `processing`, as one that was put back
\* may be (drainOnce).
FreshIsDrained ==
    \A j \in Jobs : Fresh(j) /\ job[j].status = "claimed" =>
        \E w \in Workers : Drains(w, j)

\* No worker has a run of a fresh row before it is claimed, nor when the claim
\* arrives.
FreshIsOut ==
    \A j \in Jobs : Fresh(j) =>
        /\ job[j].status \in {"ABSENT", "pending"} =>
                \A w \in Workers : worker[w].run[j] = "out"
        /\ \A w \in Workers : j \in worker[w].answer => worker[w].run[j] = "out"

FreshInv == FreshIsDrained /\ FreshIsOut

\* What was fresh after a step was fresh before it, and nothing went wrong.
LEMMA FreshBefore ==
    ASSUME IInv, [Next]_vars
    PROVE  /\ \A j \in Jobs : Fresh(j)' => Fresh(j)
           /\ \A w \in Workers, j \in Jobs : faults' = 0 =>
                ~ (Crash(w) \/ MarkDoneThrows(w, j) \/ MarkFailedThrows(w, j))
<1>1. faults \in Nat /\ \A j \in Jobs : retried[j] \in Nat /\ job[j] \in Rows
  BY DEF IInv, TypeOK, Rows
<1>2. faults' = 0 => faults = 0
  BY <1>1 DEF Next, RunStep, Enqueue, RetryItem, Claim, Dispatch, Crash, Create,
      MarkDone, MarkDoneThrows, MarkFailed, MarkFailedThrows, Leave, ClearQueue,
      Faulty, vars
<1>3. \A j \in Jobs : retried'[j] = 0 => retried[j] = 0
  BY <1>1 DEF Next, RunStep, Enqueue, RetryItem, Claim, Dispatch, Crash, Create,
      MarkDone, MarkDoneThrows, MarkFailed, MarkFailedThrows, Leave, ClearQueue,
      IInv, TypeOK, vars
<1>4. \A j \in Jobs : job'[j].attempts = 0 => job[j].attempts = 0
  <2>1. CASE \E j \in Jobs : Enqueue(j) \/ RetryItem(j)
    <3>1. PICK j \in Jobs : job' = [job EXCEPT ![j].status = "pending"]
      BY <2>1 DEF Enqueue, RetryItem
    <3>2. /\ [job[j] EXCEPT !.status = "pending"] \in Rows
          /\ [job[j] EXCEPT !.status = "pending"].attempts = job[j].attempts
      BY <1>1 DEF Rows
    <3> QED
      BY <1>1, <3>1, <3>2, RowWrite DEF IInv
  <2>2. CASE ClearQueue \/ \E w \in Workers : Claim(w)
    <3>1. PICK lot \in SUBSET Jobs, status \in {"DELETED", "claimed"} :
            job' = [j \in Jobs |-> IF j \in lot THEN [job[j] EXCEPT !.status = status]
                                                ELSE job[j]]
      <4>1. CASE ClearQueue
        BY <4>1 DEF ClearQueue, Pending
      <4> QED
        BY <2>2, <4>1 DEF Claim
    <3>2. \A j \in Jobs : [job[j] EXCEPT !.status = status].attempts = job[j].attempts
      BY <1>1 DEF Rows
    <3> QED
      BY <3>1, <3>2
  <2>3. CASE \E w \in Workers, j \in Jobs : MarkDone(w, j) \/ MarkDoneThrows(w, j)
    <3>1. PICK j \in Jobs, row \in Rows :
            job' = [job EXCEPT ![j] = row] /\ row.attempts = job[j].attempts
      <4>1. PICK w \in Workers, j \in Jobs : MarkDone(w, j) \/ MarkDoneThrows(w, j)
        BY <2>3
      <4>2. PICK status \in {job[j].status, "done"} :
                job' = job \/ job' = [job EXCEPT ![j].status = status]
        BY <4>1 DEF MarkDone, MarkDoneThrows
      <4>3. job = [job EXCEPT ![j] = job[j]]
        BY DEF IInv, TypeOK
      <4>4. /\ [job[j] EXCEPT !.status = status] \in Rows
            /\ [job[j] EXCEPT !.status = status].attempts = job[j].attempts
        BY <1>1 DEF Rows
      <4> QED
        BY <1>1, <4>2, <4>3, <4>4
    <3> QED
      BY <1>1, <3>1, RowWrite DEF IInv
  <2>4. CASE \E w \in Workers, j \in Jobs : MarkFailed(w, j)
    <3>1. PICK w \in Workers, j \in Jobs : MarkFailed(w, j)
      BY <2>4
    <3>2. Requeued(j).attempts = job[j].attempts + 1 /\ Requeued(j) \in Rows
      BY <1>1 DEF Requeued, Rows
    <3>3. job' = job \/ job' = [job EXCEPT ![j] = Requeued(j)]
      BY <3>1 DEF MarkFailed
    <3> QED
      BY <1>1, <3>2, <3>3, RowWrite DEF IInv, Rows
  <2>5. CASE UNCHANGED job
    BY <2>5
  <2> QED
    BY <2>1, <2>2, <2>3, <2>4, <2>5
       DEF Next, RunStep, Dispatch, Crash, Create, MarkFailedThrows, Leave, vars
<1>5. \A w \in Workers, j \in Jobs :
        faults' = 0 => ~ (Crash(w) \/ MarkDoneThrows(w, j) \/ MarkFailedThrows(w, j))
  BY <1>1 DEF Crash, MarkDoneThrows, MarkFailedThrows, Faulty
<1> QED
  BY <1>2, <1>3, <1>4, <1>5 DEF Fresh

\* A fresh row that is drained has one worker, whose claim has arrived if it runs.
LEMMA FreshDrained ==
    ASSUME IInv, FreshInv, NEW w \in Workers, NEW j \in Jobs, Fresh(j), Drains(w, j)
    PROVE  /\ job[j].status \in {"claimed", "done"} /\ Exists(j)
           /\ \A v \in Workers : worker[v].run[j] # "out" => j \notin worker[v].answer
           /\ \A v \in Workers : v # w => ~ Drains(v, j)
BY DEF IInv, DrainedOnceAtATime, FreshInv, FreshIsOut, Fresh, Exists

\* A run of a row moves, and no other row does.
LEMMA FreshRun ==
    ASSUME IInv, FreshInv, NEW w \in Workers, NEW j \in Jobs, NEW step \in Steps,
           worker' = [worker EXCEPT ![w].run[j] = step], worker[w].run[j] # "out",
           \A k \in Jobs : Fresh(k)' => Fresh(k),
           \A k \in Jobs : k # j => job'[k] = job[k],
           Fresh(j)' => /\ job'[j].status \notin {"ABSENT", "pending"}
                        /\ \/ job'[j].status # "claimed"
                           \/ step \in AtWork
                           \/ job'[j] = job[j] /\ worker[w].run[j] = "leaving"
    PROVE  FreshInv'
<1>1. /\ \A v \in Workers : worker'[v].answer = worker[v].answer
      /\ \A v \in Workers, i \in Jobs :
            worker'[v].run[i] = IF v = w /\ i = j THEN step ELSE worker[v].run[i]
  <2>1. TypeOK
    BY DEF IInv
  <2>2. RunMoved(w, j, step)
    BY <2>1, RunMove
  <2> QED
    BY <2>2 DEF RunMoved
<1>2. Fresh(j) => j \notin worker[w].answer
  BY DEF FreshInv, FreshIsOut
<1>3. \A k \in Jobs, v \in Workers : k # j => (Drains(v, k)' <=> Drains(v, k))
  BY <1>1 DEF Drains
<1>4. worker[w].run[j] = "leaving" => \A v \in Workers : Drains(v, j) => Drains(v, j)'
  BY <1>1 DEF Drains
<1>5. step \in AtWork => Drains(w, j)'
  BY <1>1 DEF Drains, AtWork
<1>6. FreshIsDrained'
  BY <1>3, <1>4, <1>5 DEF FreshInv, FreshIsDrained
<1>7. FreshIsOut'
  BY <1>1, <1>2 DEF FreshInv, FreshIsOut
<1> QED
  BY <1>6, <1>7 DEF FreshInv

\* Every step keeps it.
LEMMA FreshStep == IInv /\ FreshInv /\ [Next]_vars => FreshInv'
<1> SUFFICES ASSUME IInv, FreshInv, [Next]_vars PROVE FreshInv'
  OBVIOUS
<1>0. /\ \A j \in Jobs : Fresh(j)' => Fresh(j)
      /\ \A w \in Workers, j \in Jobs :
            faults' = 0 => ~ (Crash(w) \/ MarkDoneThrows(w, j) \/ MarkFailedThrows(w, j))
      /\ \A j \in Jobs : job[j] \in Rows
  BY FreshBefore DEF IInv, TypeOK, Rows
<1>1. CASE ClearQueue \/ \E j \in Jobs : Enqueue(j) \/ RetryItem(j)
  <2>1. UNCHANGED worker
    BY <1>1 DEF Enqueue, RetryItem, ClearQueue
  <2>2. \A j \in Jobs : Fresh(j)' =>
            \/ job'[j].status = job[j].status
            \/ job[j].status = "ABSENT" /\ job'[j].status = "pending"
            \/ job'[j].status = "DELETED"
    <3>1. CASE ClearQueue
      BY <1>0, <3>1 DEF ClearQueue, Rows
    <3>2. CASE \E j \in Jobs : Enqueue(j)
      BY <1>0, <3>2 DEF Enqueue, Rows
    <3>3. CASE \E j \in Jobs : RetryItem(j)
      BY <1>0, <3>3 DEF RetryItem, Fresh, IInv, TypeOK
    <3> QED
      BY <1>1, <3>1, <3>2, <3>3
  <2> QED
    BY <1>0, <2>1, <2>2 DEF FreshInv, FreshIsDrained, FreshIsOut, Drains
<1>2. ASSUME NEW w \in Workers, Claim(w) PROVE FreshInv'
  <2>1. PICK lot \in SUBSET Jobs :
        /\ Oldest(lot)
        /\ job' = [j \in Jobs |-> IF j \in lot
                    THEN [job[j] EXCEPT !.status = "claimed"] ELSE job[j]]
        /\ worker' = [worker EXCEPT ![w].answer = lot]
    BY <1>2 DEF Claim
  <2>2. \A j \in lot : job[j].status = "pending"
    BY <2>1 DEF Oldest, Claimable, Pending
  <2>3. \A v \in Workers : /\ worker'[v].run = worker[v].run
                           /\ worker'[v].answer = IF v = w THEN lot ELSE worker[v].answer
    BY <2>1 DEF IInv, TypeOK
  <2>4. worker[w].answer = {}
    BY <1>2 DEF Claim
  <2>5. \A j \in Jobs : job'[j].status = IF j \in lot THEN "claimed" ELSE job[j].status
    BY <1>0, <2>1 DEF Rows
  <2>6. FreshIsDrained'
    BY <1>0, <2>3, <2>4, <2>5 DEF FreshInv, FreshIsDrained, Drains
  <2>7. FreshIsOut'
    BY <1>0, <2>2, <2>3, <2>5 DEF FreshInv, FreshIsOut
  <2> QED
    BY <2>6, <2>7 DEF FreshInv
<1>3. ASSUME NEW w \in Workers, Dispatch(w) PROVE FreshInv'
  <2> DEFINE started == [j \in Jobs |->
                          IF j \in worker[w].answer /\ worker[w].run[j] = "out"
                          THEN "creating" ELSE worker[w].run[j]]
             next == [answer |-> {}, run |-> started]
  <2>1. worker' = [worker EXCEPT ![w] = next] /\ UNCHANGED <<job, retried, faults>>
    BY <1>3 DEF Dispatch
  <2>2. /\ next.answer = {}
        /\ \A j \in Jobs : next.run[j] =
            IF j \in worker[w].answer /\ worker[w].run[j] = "out"
            THEN "creating" ELSE worker[w].run[j]
    OBVIOUS
  <2> HIDE DEF next, started
  <2>3. \A v \in Workers : worker'[v] = IF v = w THEN next ELSE worker[v]
    BY <2>1 DEF IInv, TypeOK
  <2>4. \A v \in Workers, j \in Jobs : Fresh(j) /\ Drains(v, j) => Drains(v, j)'
    BY <2>2, <2>3 DEF Drains, FreshInv, FreshIsOut
  <2>5. \A j \in worker[w].answer : Drains(w, j)
    BY DEF Drains
  <2>6. FreshIsDrained'
    BY <1>0, <2>1, <2>4 DEF FreshInv, FreshIsDrained
  <2>7. FreshIsOut'
    BY <1>0, <2>1, <2>2, <2>3, <2>5, FreshDrained DEF FreshInv, FreshIsOut
  <2> QED
    BY <2>6, <2>7 DEF FreshInv
<1>4. ASSUME NEW w \in Workers, NEW j \in Jobs, Create(w, j) PROVE FreshInv'
  <2>1. PICK step \in {"created", "failing"} : worker' = [worker EXCEPT ![w].run[j] = step]
    BY <1>4 DEF Create
  <2>2. step \in Steps /\ step \in AtWork
    BY DEF Steps, AtWork
  <2>3. worker[w].run[j] = "creating" /\ UNCHANGED job /\ Drains(w, j)
    BY <1>4 DEF Create, Drains
  <2>4. Fresh(j)' => job'[j].status \notin {"ABSENT", "pending"}
    BY <1>0, <2>3, FreshDrained
  <2> QED
    BY <1>0, <2>1, <2>2, <2>3, <2>4, FreshRun
<1>5. ASSUME NEW w \in Workers, NEW j \in Jobs, MarkDone(w, j) PROVE FreshInv'
  <2>1. /\ worker' = [worker EXCEPT ![w].run[j] = "leaving"]
        /\ worker[w].run[j] = "created" /\ Drains(w, j) /\ "leaving" \in Steps
    BY <1>5 DEF MarkDone, Drains, Steps
  <2>2. \A k \in Jobs : k # j => job'[k] = job[k]
    BY <1>5 DEF MarkDone
  <2>3. Fresh(j)' => job'[j].status = "done"
    <3> SUFFICES ASSUME Fresh(j)' PROVE job'[j].status = "done"
      OBVIOUS
    <3>1. Exists(j)
      BY <1>0, <2>1, FreshDrained
    <3> QED
      BY <1>0, <1>5, <3>1 DEF MarkDone, IInv, TypeOK, Rows
  <2> QED
    BY <1>0, <2>1, <2>2, <2>3, FreshRun
<1>6. ASSUME NEW w \in Workers, NEW j \in Jobs, MarkFailed(w, j) PROVE FreshInv'
  <2>1. /\ worker' = [worker EXCEPT ![w].run[j] = "leaving"]
        /\ worker[w].run[j] = "failing" /\ Drains(w, j) /\ "leaving" \in Steps
    BY <1>6 DEF MarkFailed, AfterFailure, Drains, Steps
  <2>2. \A k \in Jobs : k # j => job'[k] = job[k]
    BY <1>6 DEF MarkFailed
  <2>3. ~ Fresh(j)'
    <3> SUFFICES ASSUME Fresh(j)' PROVE FALSE
      OBVIOUS
    <3>1. Exists(j)
      BY <1>0, <2>1, FreshDrained
    <3>2. job'[j] = Requeued(j)
      BY <1>6, <3>1 DEF MarkFailed, IInv, TypeOK
    <3>3. job'[j].attempts = job[j].attempts + 1 /\ job[j].attempts \in Nat
      BY <1>0, <3>2 DEF Requeued, Rows
    <3> QED
      BY <3>3 DEF Fresh
  <2> QED
    BY <1>0, <2>1, <2>2, <2>3, FreshRun
<1>7. ASSUME NEW w \in Workers, NEW j \in Jobs, Leave(w, j) PROVE FreshInv'
  <2>1. /\ worker' = [worker EXCEPT ![w].run[j] = "out"] /\ "out" \in Steps
        /\ worker[w].run[j] = "leaving" /\ UNCHANGED job
    BY <1>7 DEF Leave, Steps
  <2>2. Fresh(j)' => job'[j].status \notin {"ABSENT", "pending"}
    BY <1>0, <2>1 DEF FreshInv, FreshIsOut
  <2> QED
    BY <1>0, <2>1, <2>2, FreshRun
<1>8. ASSUME NEW w \in Workers, NEW j \in Jobs,
             MarkDoneThrows(w, j) \/ MarkFailedThrows(w, j)
      PROVE  FreshInv'
  BY <1>0, <1>8 DEF FreshInv, FreshIsDrained, FreshIsOut, Fresh
<1>9. ASSUME NEW w \in Workers, Crash(w) PROVE FreshInv'
  BY <1>0, <1>9 DEF FreshInv, FreshIsDrained, FreshIsOut, Fresh
<1>10. CASE UNCHANGED vars
  BY <1>10 DEF vars, FreshInv, FreshIsDrained, FreshIsOut, Fresh, Drains
<1> QED
  BY <1>1, <1>2, <1>3, <1>4, <1>5, <1>6, <1>7, <1>8, <1>9, <1>10 DEF Next, RunStep

\* Until something fails, a claimed notification has a worker: its claim is
\* passed over only for a row that came back.
THEOREM FreshCorrect == Spec => []FreshIsDrained
<1>1. Init => FreshInv
  BY DEF Init, FreshInv, FreshIsDrained, FreshIsOut, Idle
<1>2. FreshInv => FreshIsDrained
  BY DEF FreshInv
<1> QED
  BY <1>1, <1>2, FreshStep, QueueSafety, PTL DEF Spec

=============================================================================
