------------------------------ MODULE CronLock ------------------------------
(***************************************************************************)
(* The lock of one cron job: a row of cron_job_locks with the instance     *)
(* that holds it and the time it expires (cron-job-lock.service.ts), and   *)
(* the callbacks that nest runs the job in (daily-report.cron.ts).         *)
(*                                                                         *)
(* A callback looks at the instance's flag, tries to refresh or take over  *)
(* the row in one statement, creates it in another one, sets the flag,     *)
(* does the job, clears the flag and deletes the row. Each of these is a   *)
(* step. The name of an instance is HOSTNAME-pid, so a restarted container *)
(* may come back under its old name.                                       *)
(***************************************************************************)
EXTENDS Naturals

CONSTANTS
    Instances,      \* processes that run the cron job
    Callbacks,      \* callbacks that may be pending in one process
    None,
    Survivor,       \* an instance that is kept running, for the liveness
    Ttl,            \* lockDurationMs
    MaxNow          \* bound of the clock

ASSUME LockAssumption == /\ Survivor \in Instances
                         /\ None \notin [by : Instances, expiresAt : Nat]
                         /\ Ttl \in Nat /\ MaxNow \in Nat

VARIABLES
    lock,       \* the row: None, or the holder and the time it expires
    flag,       \* per instance: isSweeping, isProcessingOutbox, ...
    run,        \* per callback: where it is, the time it read, and (history)
                \* whether the row is still as it wrote it, as far as its own
                \* instance is concerned
    now

vars == <<lock, flag, run, now>>

Runs == Instances \X Callbacks
Instants == 0 .. MaxNow
Locks == [by : Instances, expiresAt : 0 .. MaxNow + Ttl]
Steps == {"idle", "locking", "creating", "locked", "working", "releasing"}

Idle == [at |-> "idle", since |-> 0, covered |-> FALSE]

TypeOK ==
    /\ lock \in Locks \cup {None}
    /\ flag \in [Instances -> BOOLEAN]
    /\ run \in [Runs -> [at : Steps, since : Instants, covered : BOOLEAN]]
    /\ now \in Instants

Init ==
    /\ lock = None
    /\ flag = [i \in Instances |-> FALSE]
    /\ run = [p \in Runs |-> Idle]
    /\ now = 0

At(p, step) == run[p].at = step
Move(p, step) == run' = [run EXCEPT ![p].at = step]
Rest(p) == run' = [run EXCEPT ![p] = Idle]

-----------------------------------------------------------------------------
(* Mistakes this code could have made.                                     *)

\* tryAcquireLock of the same file: the upsert writes whatever the row says.
Reclaimable_Always(p) == lock # None

\* Locks do not expire.
Reclaimable_OwnOnly(p) == lock # None /\ lock.by = p[1]

\* The row is deleted whoever holds it.
Mine_Anyone(p) == lock # None

-----------------------------------------------------------------------------
\* The row a callback writes; its times are those it read before the query.
Lease(p) == [by |-> p[1], expiresAt |-> run[p].since + Ttl]

\* The row is written by p, under the other callbacks of the instance.
Hold(p) ==
    /\ lock' = Lease(p)
    /\ run' = [q \in Runs |->
                IF q = p THEN [run[p] EXCEPT !.at = "locked", !.covered = TRUE]
                ELSE IF q[1] = p[1] THEN [run[q] EXCEPT !.covered = FALSE]
                ELSE run[q]]

\* updateMany takes an expired row or one of the same instance.
Reclaimable(p) == lock # None /\ (lock.expiresAt < run[p].since \/ lock.by = p[1])

Mine(p) == lock # None /\ lock.by = p[1]

\* The cron fires; a flag that is set ends the callback.
Fire(p) ==
    /\ At(p, "idle")
    /\ ~ flag[p[1]]
    /\ run' = [run EXCEPT ![p].at = "locking", ![p].since = now]
    /\ UNCHANGED <<lock, flag, now>>

Reclaim(p) ==
    /\ At(p, "locking")
    /\ IF Reclaimable(p)
       THEN Hold(p)
       ELSE Move(p, "creating") /\ UNCHANGED lock
    /\ UNCHANGED <<flag, now>>

\* A unique violation is the expected way to lose.
Create(p) ==
    /\ At(p, "creating")
    /\ IF lock = None
       THEN Hold(p)
       ELSE Rest(p) /\ UNCHANGED lock
    /\ UNCHANGED <<flag, now>>

\* The query fails: the callback gives up, or leaves the row to expire.
Fail(p) ==
    /\ At(p, "locking") \/ At(p, "creating") \/ At(p, "releasing")
    /\ Rest(p)
    /\ UNCHANGED <<lock, flag, now>>

Begin(p) ==
    /\ At(p, "locked")
    /\ flag' = [flag EXCEPT ![p[1]] = TRUE]
    /\ Move(p, "working")
    /\ UNCHANGED <<lock, now>>

\* The job ends, well or not: finally clears the flag ...
End(p) ==
    /\ At(p, "working")
    /\ flag' = [flag EXCEPT ![p[1]] = FALSE]
    /\ Move(p, "releasing")
    /\ UNCHANGED <<lock, now>>

\* ... and deletes the row if it has the instance's name, which may be the row
\* of another callback by now.
Release(p) ==
    /\ At(p, "releasing")
    /\ lock' = IF Mine(p) THEN None ELSE lock
    /\ run' = [q \in Runs |->
                IF q = p THEN Idle
                ELSE IF q[1] = p[1] THEN [run[q] EXCEPT !.covered = FALSE]
                ELSE run[q]]
    /\ UNCHANGED <<flag, now>>

\* The process dies and is started again.
Crash(i) ==
    /\ \E p \in Runs : p[1] = i /\ ~ At(p, "idle")
    /\ flag' = [flag EXCEPT ![i] = FALSE]
    /\ run' = [p \in Runs |->
                IF p[1] = i THEN Idle
                ELSE run[p]]
    /\ UNCHANGED <<lock, now>>

Tick ==
    /\ now < MaxNow
    /\ now' = now + 1
    /\ UNCHANGED <<lock, flag, run>>

RunStep(p) ==
    Reclaim(p) \/ Create(p) \/ Begin(p) \/ End(p) \/ Release(p)

Next ==
    \/ \E p \in Runs : Fire(p) \/ RunStep(p) \/ Fail(p)
    \/ \E i \in Instances : Crash(i)
    \/ Tick

Spec == Init /\ [][Next]_vars

\* One instance comes back whenever it stops, and a query it tries again and
\* again succeeds one day; nothing is asked of the others.
Fairness ==
    \A p \in {Survivor} \X Callbacks :
        /\ WF_vars(Fire(p)) /\ WF_vars(Create(p))
        /\ WF_vars(Begin(p)) /\ WF_vars(End(p))
        /\ SF_vars(Reclaim(p)) /\ SF_vars(Release(p))
FairSpec == Spec /\ Fairness /\ WF_vars(Tick)

-----------------------------------------------------------------------------
(* Safety.                                                                 *)

Doing(p) == At(p, "locked") \/ At(p, "working")

\* The time of the lock the callback took is not over.
InTime(p) == now <= run[p].since + Ttl

\* Nobody takes the row away from a callback in its time: it stays as the
\* callback wrote it, unless its own instance writes or deletes it
\* (tryAcquireLockWithCleanup, releaseLock).
HolderKeepsRow ==
    \A p \in Runs :
        Doing(p) /\ run[p].covered /\ InTime(p) => lock = Lease(p)

\* Two replicas are not in the job together, as long as both are in their time
\* and neither lost the row to its own instance (tryAcquireLockWithCleanup).
OneReplica ==
    \A p, q \in Runs :
        (/\ Doing(p) /\ run[p].covered /\ InTime(p)
         /\ Doing(q) /\ run[q].covered /\ InTime(q))
        => p = q

-----------------------------------------------------------------------------
(* What a step may never do, and what must happen.                         *)

\* The row changes hands only after it expired: a holder's row is not stolen
\* (tryAcquireLockWithCleanup).
TakenWhenExpired ==
    [][(lock # None /\ lock' # None /\ lock'.by # lock.by)
        => lock.expiresAt < now]_vars

\* The row a dead instance left does not stop the job for ever: once it expired
\* somebody takes it or it goes (tryAcquireLockWithCleanup).
DeadHolderIsReplaced ==
    (lock # None /\ lock.expiresAt < now)
        ~> (lock = None \/ lock.expiresAt >= now)

=============================================================================
