-------------------------- MODULE NotificationQueue --------------------------
(***************************************************************************)
(* The durable queue of notifications: background-job.service.ts, which    *)
(* hands a row of background_jobs from the web process to a worker, and    *)
(* notification-queue.service.ts, which drains the rows of one job type.   *)
(*                                                                         *)
(* A worker polls: it claims a batch in one statement, and later, when the *)
(* answer arrives, starts a run for each row that is not in its set        *)
(* `processing`. The runs of a batch proceed side by side, each one a      *)
(* sequence of database calls that may fail, lose their answer or be cut   *)
(* off by the death of the process. Jobs are numbered in the order of      *)
(* their createdAt. A worker has one poll on the way at a time.            *)
(***************************************************************************)
EXTENDS Integers, FiniteSets

CONSTANTS
    NumJobs,        \* bound of the notifications that are enqueued
    Workers,        \* processes in a background role
    BatchSize,      \* batchSize
    MaxAttempts,    \* DEFAULT_MAX_ATTEMPTS
    MaxRetries,     \* bound of the operator's retries
    MaxFaults       \* bound of crashes and failing marks together

ASSUME QueueAssumption ==
    /\ NumJobs \in Nat /\ BatchSize \in Nat \ {0} /\ MaxAttempts \in Nat \ {0}
    /\ MaxRetries \in Nat /\ MaxFaults \in Nat

Jobs == 1 .. NumJobs

VARIABLES
    job,        \* background_jobs
    created,    \* how many notifications were created of a job
    retried,    \* how often an operator retried it
    worker,     \* what each process does
    faults      \* crashes and failing marks so far, for the bound

vars == <<job, created, retried, worker, faults>>

\* answer: the rows of a claim whose answer is on the way; run: where the run of
\* a row is. It is "leaving" from the mark until processing.delete.
Idle == [answer |-> {}, run |-> [j \in Jobs |-> "out"]]

TypeOK ==
    /\ job \in [Jobs -> [status : {"ABSENT", "pending", "claimed", "done",
                                   "failed", "DELETED"}, attempts : Nat]]
    /\ created \in [Jobs -> Nat]
    /\ retried \in [Jobs -> Nat]
    /\ worker \in [Workers -> [answer : SUBSET Jobs,
                    run : [Jobs -> {"out", "creating", "created", "failing",
                                    "leaving"}]]]
    /\ faults \in 0 .. MaxFaults

Init ==
    /\ job = [j \in Jobs |-> [status |-> "ABSENT", attempts |-> 0]]
    /\ created = [j \in Jobs |-> 0]
    /\ retried = [j \in Jobs |-> 0]
    /\ worker = [w \in Workers |-> Idle]
    /\ faults = 0

Exists(j) == job[j].status \notin {"ABSENT", "DELETED"}
Pending == {j \in Jobs : job[j].status = "pending"}

-----------------------------------------------------------------------------
(* Mistakes this code could have made.                                     *)

\* The claim takes what another worker has claimed as well.
Claimable_Twice == {j \in Jobs : job[j].status \in {"pending", "claimed"}}

\* The row is put back without its failure being counted.
Requeued_Uncounted(j) == [job[j] EXCEPT !.status = "pending"]

\* The row is marked before its notification is created.
MarkDone_First(w, j) ==
    /\ worker[w].run[j] = "creating"
    /\ Exists(j)
    /\ job' = [job EXCEPT ![j].status = "done"]
    /\ worker' = [worker EXCEPT ![w].run[j] = "leaving"]
    /\ UNCHANGED <<created, retried, faults>>

\* A run that failed stays in `processing`.
AfterFailure_Stays == "stuck"

-----------------------------------------------------------------------------
Claimable == Pending

\* The rows of the inner SELECT: the oldest ones, at most a batch.
Oldest(lot) ==
    /\ lot \subseteq Claimable /\ lot # {}
    /\ Cardinality(lot) <= BatchSize
    /\ Cardinality(lot) < BatchSize => lot = Claimable
    /\ \A j \in lot, k \in Claimable \ lot : j < k

Processing(w) == {j \in Jobs : worker[w].run[j] # "out"}

GivenUp(attempts) == attempts >= MaxAttempts

\* The transaction of markFailed.
Requeued(j) ==
    [status |-> IF GivenUp(job[j].attempts + 1) THEN "failed" ELSE "pending",
     attempts |-> job[j].attempts + 1]

AfterFailure == "leaving"

Faulty(n) == faults + n <= MaxFaults /\ faults' = faults + n

-----------------------------------------------------------------------------
\* addToQueue
Enqueue(j) ==
    /\ job[j].status = "ABSENT"
    /\ \A k \in 1 .. j - 1 : job[k].status # "ABSENT"
    /\ job' = [job EXCEPT ![j].status = "pending"]
    /\ UNCHANGED <<created, retried, worker, faults>>

\* drainOnce up to the claim
Claim(w) ==
    /\ worker[w].answer = {}
    /\ Cardinality(Processing(w)) < BatchSize
    /\ \E lot \in SUBSET Jobs :
        /\ Oldest(lot)
        /\ job' = [j \in Jobs |-> IF j \in lot
                    THEN [job[j] EXCEPT !.status = "claimed"] ELSE job[j]]
        /\ worker' = [worker EXCEPT ![w].answer = lot]
    /\ UNCHANGED <<created, retried, faults>>

\* drainOnce after the claim: a row that is in `processing` is passed over.
Dispatch(w) ==
    /\ worker[w].answer # {}
    /\ worker' = [worker EXCEPT ![w] =
            [answer |-> {},
             run |-> [j \in Jobs |-> IF j \in @.answer /\ @.run[j] = "out"
                                     THEN "creating" ELSE @.run[j]]]]
    /\ UNCHANGED <<job, created, retried, faults>>

\* createNotificationWithCounter, without an idempotency key: it works, it
\* fails, or it works and its answer is lost.
Create(w, j) ==
    /\ worker[w].run[j] = "creating"
    /\ \E arrives, answers \in BOOLEAN :
        /\ answers => arrives
        /\ created' = [created EXCEPT ![j] = IF arrives THEN @ + 1 ELSE @]
        /\ worker' = [worker EXCEPT ![w].run[j] =
                        IF answers THEN "created" ELSE "failing"]
    /\ UNCHANGED <<job, retried, faults>>

\* markDone; a row that was deleted is none of its business.
MarkDone(w, j) ==
    /\ worker[w].run[j] = "created"
    /\ job' = IF Exists(j) THEN [job EXCEPT ![j].status = "done"] ELSE job
    /\ worker' = [worker EXCEPT ![w].run[j] = "leaving"]
    /\ UNCHANGED <<created, retried, faults>>

\* markDone throws, whether or not its update went through.
MarkDoneThrows(w, j) ==
    /\ worker[w].run[j] = "created"
    /\ \E status \in {job[j].status, "done"} :
        /\ Exists(j) \/ status = job[j].status
        /\ job' = [job EXCEPT ![j].status = status]
    /\ worker' = [worker EXCEPT ![w].run[j] = "failing"]
    /\ Faulty(1)
    /\ UNCHANGED <<created, retried>>

MarkFailed(w, j) ==
    /\ worker[w].run[j] = "failing"
    /\ job' = IF Exists(j) THEN [job EXCEPT ![j] = Requeued(j)] ELSE job
    /\ worker' = [worker EXCEPT ![w].run[j] = AfterFailure]
    /\ UNCHANGED <<created, retried, faults>>

\* markFailed throws: the rejection is logged and the row is left as it is.
MarkFailedThrows(w, j) ==
    /\ worker[w].run[j] = "failing"
    /\ worker' = [worker EXCEPT ![w].run[j] = "leaving"]
    /\ Faulty(1)
    /\ UNCHANGED <<job, created, retried>>

\* processing.delete, in the finally of the run
Leave(w, j) ==
    /\ worker[w].run[j] = "leaving"
    /\ worker' = [worker EXCEPT ![w].run[j] = "out"]
    /\ UNCHANGED <<job, created, retried, faults>>

\* retryItem puts any row back, whatever its status.
RetryItem(j) ==
    /\ Exists(j)
    /\ retried[j] < MaxRetries
    /\ job' = [job EXCEPT ![j].status = "pending"]
    /\ retried' = [retried EXCEPT ![j] = @ + 1]
    /\ UNCHANGED <<created, worker, faults>>

\* clearQueue
ClearQueue ==
    /\ Pending # {}
    /\ job' = [j \in Jobs |-> IF j \in Pending
                THEN [job[j] EXCEPT !.status = "DELETED"] ELSE job[j]]
    /\ UNCHANGED <<created, retried, worker, faults>>

\* The process dies, and another one takes its place.
Crash(w) ==
    /\ worker[w] # Idle
    /\ worker' = [worker EXCEPT ![w] = Idle]
    /\ Faulty(1)
    /\ UNCHANGED <<job, created, retried>>

-----------------------------------------------------------------------------
RunStep(w, j) ==
    \/ Create(w, j)
    \/ MarkDone(w, j) \/ MarkDoneThrows(w, j)
    \/ MarkFailed(w, j) \/ MarkFailedThrows(w, j)
    \/ Leave(w, j)

Next ==
    \/ \E j \in Jobs : Enqueue(j) \/ RetryItem(j)
    \/ \E w \in Workers : Claim(w) \/ Dispatch(w) \/ Crash(w)
    \/ \E w \in Workers, j \in Jobs : RunStep(w, j)
    \/ ClearQueue

Spec == Init /\ [][Next]_vars

\* The poll comes back every second, and a run goes on unless its process dies;
\* nothing has to be enqueued, retried or cleared.
Fairness == \A w \in Workers :
    /\ WF_vars(Claim(w)) /\ WF_vars(Dispatch(w))
    /\ \A j \in Jobs : WF_vars(RunStep(w, j))
FairSpec == Spec /\ Fairness

-----------------------------------------------------------------------------
\* A worker is to create the notification of the row, or to account for it.
Drains(w, j) == \/ j \in worker[w].answer
                \/ worker[w].run[j] \in {"creating", "created", "failing"}

\* Unless an operator puts it back, a row is drained by one worker at a time,
\* and no worker's row is offered to another (claimBatch, markFailed).
DrainedOnceAtATime ==
    \A j \in Jobs : retried[j] = 0 =>
        \A w \in Workers : Drains(w, j) =>
            /\ job[j].status \in {"claimed", "done"}
            /\ \A v \in Workers \ {w} : ~ Drains(v, j)

\* Every copy of a notification beyond the first is paid for by a failure that
\* was counted, so there are no more copies than attempts, whatever answers are
\* lost and whichever process dies (processRow, markFailed).
CopiesCounted ==
    \A j \in Jobs : retried[j] = 0 =>
        /\ created[j] <= job[j].attempts + 1
        /\ created[j] <= MaxAttempts

\* A row that says done has led to a notification, also when its process died
\* or an operator retried it (processRow).
DoneIsNotified ==
    \A j \in Jobs : job[j].status = "done" => created[j] > 0

\* A row is given up after its last attempt and not before, and what is offered
\* again has attempts left (markFailed).
GivesUpInTime ==
    \A j \in Jobs :
        /\ job[j].status = "failed" => job[j].attempts >= MaxAttempts
        /\ job[j].status = "pending" /\ retried[j] = 0 =>
                job[j].attempts < MaxAttempts

\* What is pending is claimed or cleared in the end: failing runs give their
\* place in the batch back, and rows that are put back, which are the older
\* ones, do not keep the others waiting for ever (drainOnce).
PendingIsClaimed == \A j \in Jobs : j \in Pending ~> j \notin Pending

=============================================================================
