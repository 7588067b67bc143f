------------------------------- MODULE Outbox -------------------------------
(***************************************************************************)
(* The notification outbox of the daily reports                            *)
(* (daily-report-outbox.service.ts): rows that are enqueued once per key,  *)
(* claimed in lots by the workers of several processes, delivered and      *)
(* marked. Between any two statements of a lot everybody else may move and *)
(* the process may die; a delivery, or the mark that follows it, may have  *)
(* worked although it reports an error.                                    *)
(*                                                                         *)
(* Times are kept as what is left of them: `wait` minutes until            *)
(* nextAttemptAt, `life` minutes until expiresAt. A worker reads the clock *)
(* once per lot, so whether a row is expired for it is decided when the    *)
(* lot is claimed, and the times it writes count from then.                *)
(***************************************************************************)
EXTENDS Integers, Sequences, FiniteSets

CONSTANTS
    Rows,           \* idempotency keys; one row each
    Reminders,      \* the rows that remind a member in the application
    Workers,        \* processes that work off the outbox
    None,
    Life,           \* minutes from the enqueueing of a reminder to its expiry
    Delays,         \* retry delays, in minutes
    Lease,          \* CLAIM_LEASE_MS, in minutes
    Limit,          \* rows in a lot
    LotTime,        \* a lot takes at most this many minutes
    MaxCrashes      \* bound of the crashes

ASSUME OutboxAssumption ==
    /\ Reminders \subseteq Rows
    /\ None \notin Rows /\ None \notin Int
    /\ Life \in Nat /\ Lease \in Nat /\ LotTime \in Nat
    /\ Delays \in Seq(Nat) /\ Limit \in Nat \ {0} /\ MaxCrashes \in Nat

VARIABLES
    row,        \* daily_report_notification_outbox
    reminded,   \* the reminders whose report has remindedAt
    delivered,  \* how often the recipient got it
    worker,     \* what each worker holds of its lot
    crashes     \* how often a worker died, for the bound

vars == <<row, reminded, delivered, worker, crashes>>

Absent == [status |-> "ABSENT", attempts |-> 0, wait |-> 0, life |-> None]

\* lot: the rows still to do; expired: those that had expired when the lot was
\* claimed; attempts: what the rows said then; hand: the row whose delivery
\* ended; ok: it answered well, and its mark was not sent yet; age: minutes
\* since the lot was claimed.
Idle == [lot |-> {}, expired |-> {}, attempts |-> [r \in Rows |-> 0],
         hand |-> None, ok |-> FALSE, age |-> 0]

TypeOK ==
    /\ row \in [Rows -> [status : {"ABSENT", "PENDING", "RETRYING", "SENT",
                                   "DEAD", "EXPIRED"},
                         attempts : Nat, wait : Nat, life : Int \cup {None}]]
    /\ reminded \subseteq Reminders
    /\ delivered \in [Rows -> Nat]
    /\ worker \in [Workers -> [lot : SUBSET Rows, expired : SUBSET Rows,
                               attempts : [Rows -> Nat],
                               hand : Rows \cup {None}, ok : BOOLEAN,
                               age : 0 .. LotTime]]
    /\ \A w \in Workers : worker[w].hand \in worker[w].lot \cup {None}
    /\ crashes \in 0 .. MaxCrashes

Init ==
    /\ row = [r \in Rows |-> Absent]
    /\ reminded = {}
    /\ delivered = [r \in Rows |-> 0]
    /\ worker = [w \in Workers |-> Idle]
    /\ crashes = 0

Retryable(r) == row[r].status \in {"PENDING", "RETRYING"}
IsDue(r) == Retryable(r) /\ row[r].wait = 0

-----------------------------------------------------------------------------
(* Mistakes this code could have made.                                     *)

\* Claiming a row does not put it off.
Claimed_NoLease(lot) == row

\* Every delivery is a new one: the key is not passed on.
Received_Again(r) == delivered[r] + 1

\* An expired row is sent like any other.
Overdue_Never(r) == FALSE

\* remindedAt is written by a statement after the transaction, and may be lost.
MarkSent_StampLost(w) ==
    LET r == worker[w].hand
    IN  /\ r # None
        /\ worker[w].ok
        /\ row' = [row EXCEPT ![r].status = "SENT", ![r].attempts = @ + 1]
        /\ worker' = [worker EXCEPT ![w] =
                        IF @.lot = {r} THEN Idle
                        ELSE [@ EXCEPT !.lot = @ \ {r}, !.hand = None]]
        /\ UNCHANGED <<reminded, delivered, crashes>>

\* The attempt is not counted.
Retried_Forever(w, r) ==
    [row[r] EXCEPT !.status = "RETRYING", !.wait = Delays[1]]

-----------------------------------------------------------------------------
\* The lot is put off by the lease in the statement that picks it.
Claimed(lot) == [r \in Rows |-> IF r \in lot
                                THEN [row[r] EXCEPT !.wait = Lease] ELSE row[r]]

\* The unique key makes the second delivery find the first.
Received(r) == IF delivered[r] = 0 THEN 1 ELSE delivered[r]

Overdue(r) == row[r].life # None /\ row[r].life <= 0

\* What is left of a delay that counts from the claim.
Left(delay, age) == IF delay > age THEN delay - age ELSE 0

\* A failed row is tried again after the delay of its attempt, or is dead.
Retried(w, r) ==
    LET attempts == worker[w].attempts[r] + 1
    IN  IF attempts > Len(Delays)
        THEN [row[r] EXCEPT !.status = "DEAD", !.attempts = attempts]
        ELSE [row[r] EXCEPT !.status = "RETRYING", !.attempts = attempts,
                            !.wait = Left(Delays[attempts], worker[w].age)]

\* The worker is done with the row, and with the lot if it was the last one.
Without(w, r) ==
    IF worker[w].lot = {r} THEN Idle
    ELSE [worker[w] EXCEPT !.lot = @ \ {r}, !.hand = None, !.ok = FALSE]

Done(w, r) == worker' = [worker EXCEPT ![w] = Without(w, r)]

-----------------------------------------------------------------------------
\* enqueueMany; skipDuplicates leaves a row that exists alone. Mail without an
\* address or a template is dead at once.
Enqueue(r) ==
    /\ row[r].status = "ABSENT"
    /\ \E status \in IF r \in Reminders THEN {"PENDING"} ELSE {"PENDING", "DEAD"} :
        row' = [row EXCEPT ![r] =
                    [status |-> status, attempts |-> 0, wait |-> 0,
                     life |-> IF r \in Reminders THEN Life ELSE None]]
    /\ UNCHANGED <<reminded, delivered, worker, crashes>>

\* claimDue: the due rows, or as many of them as a lot may have.
Claim(w) ==
    /\ worker[w].lot = {}
    /\ \E lot \in SUBSET {r \in Rows : IsDue(r)} :
        /\ lot # {}
        /\ \/ lot = {r \in Rows : IsDue(r)} /\ Cardinality(lot) <= Limit
           \/ Cardinality(lot) = Limit
        /\ row' = Claimed(lot)
        /\ worker' = [worker EXCEPT ![w] =
                        [lot |-> lot, expired |-> {r \in lot : Overdue(r)},
                         attempts |-> [r \in Rows |-> row[r].attempts],
                         hand |-> None, ok |-> FALSE, age |-> 0]]
    /\ UNCHANGED <<reminded, delivered, crashes>>

Expire(w, r) ==
    /\ r \in worker[w].expired \cap worker[w].lot
    /\ worker[w].hand = None
    /\ row' = [row EXCEPT ![r].status = "EXPIRED"]
    /\ Done(w, r)
    /\ UNCHANGED <<reminded, delivered, crashes>>

\* createNotificationWithCounter or sendTransactionalEmail: it works, it fails,
\* or it works and its answer is lost.
Deliver(w, r) ==
    /\ r \in worker[w].lot \ worker[w].expired
    /\ worker[w].hand = None
    /\ \E arrives, answers \in BOOLEAN :
        /\ answers => arrives
        /\ delivered' = [delivered EXCEPT ![r] = IF arrives THEN Received(r) ELSE @]
        /\ worker' = [worker EXCEPT ![w].hand = r, ![w].ok = answers]
    /\ UNCHANGED <<row, reminded, crashes>>

\* The mark is committed, and its answer lost: the worker goes on to the catch.
Unanswered(w) == worker' = [worker EXCEPT ![w].ok = FALSE]

\* The row is sent and its report reminded in one transaction.
MarkSent(w) ==
    LET r == worker[w].hand
    IN  /\ r # None
        /\ worker[w].ok
        /\ row' = [row EXCEPT ![r].status = "SENT", ![r].attempts = @ + 1]
        /\ reminded' = reminded \cup ({r} \cap Reminders)
        /\ Done(w, r) \/ Unanswered(w)
        /\ UNCHANGED <<delivered, crashes>>

\* The catch of the delivery, and of the mark: it writes by the id of the row, and
\* what it knew of it when it was claimed.
MarkFailed(w) ==
    LET r == worker[w].hand
    IN  /\ r # None
        /\ row' = [row EXCEPT ![r] = Retried(w, r)]
        /\ Done(w, r)
        /\ UNCHANGED <<reminded, delivered, crashes>>

\* The process dies, or a statement outside the try fails and ends the lot.
Crash(w) ==
    /\ crashes < MaxCrashes
    /\ worker[w].lot # {}
    /\ worker' = [worker EXCEPT ![w] = Idle]
    /\ crashes' = crashes + 1
    /\ UNCHANGED <<row, reminded, delivered>>

\* A minute passes; no lot takes longer than LotTime.
Tick ==
    /\ \A w \in Workers : worker[w].lot # {} => worker[w].age < LotTime
    /\ row' = [r \in Rows |->
                [row[r] EXCEPT !.wait = Left(@, 1),
                               !.life = IF @ = None \/ @ <= -LotTime THEN @
                                        ELSE @ - 1]]
    /\ worker' = [w \in Workers |->
                    IF worker[w].lot = {} THEN worker[w]
                    ELSE [worker[w] EXCEPT !.age = @ + 1]]
    /\ UNCHANGED <<reminded, delivered, crashes>>

-----------------------------------------------------------------------------
WorkerStep(w) ==
    \/ \E r \in Rows : Expire(w, r) \/ Deliver(w, r)
    \/ MarkSent(w) \/ MarkFailed(w)

Next ==
    \/ \E r \in Rows : Enqueue(r)
    \/ \E w \in Workers : Claim(w) \/ WorkerStep(w) \/ Crash(w)
    \/ Tick

Spec == Init /\ [][Next]_vars

\* The cron job comes back every minute and a lot goes on unless its process
\* dies; nothing has to be enqueued.
Fairness == /\ WF_vars(Tick)
            /\ \A w \in Workers : WF_vars(Claim(w)) /\ WF_vars(WorkerStep(w))
FairSpec == Spec /\ Fairness

-----------------------------------------------------------------------------
\* Whatever is retried, claimed twice or cut off by a crash, nobody gets the same
\* notice twice (processDue, createNotificationWithCounter).
DeliveredOnce == \A r \in Rows : delivered[r] <= 1

\* A row that says sent was delivered, and the report of a reminder says that its
\* member was reminded (markSent).
SentIsTrue ==
    \A r \in Rows : row[r].status = "SENT" =>
        delivered[r] > 0 /\ (r \in Reminders => r \in reminded)

\* A row is in the hands of one worker: what claimDue is for, which its comment
\* at daily-report-outbox.service.ts:264 promises. It needs LotTime < Lease.
OneWorkerPerRow ==
    \A v, w \in Workers : v # w => worker[v].lot \cap worker[w].lot = {}

\* Its worker does not know whether the row was delivered, or whether it was marked.
InDoubt(r) == \E w \in Workers : worker[w].hand = r /\ ~ worker[w].ok

\* What is dead or expired stays so, and so does what is sent, except that the worker
\* whose mark was committed without an answer takes it back (processDue, the catch).
\* It needs LotTime < Lease.
FinalStays ==
    [][\A r \in Rows :
        /\ row[r].status \in {"DEAD", "EXPIRED"} => row'[r].status = row[r].status
        /\ row[r].status = "SENT" => row'[r].status = "SENT" \/ InDoubt(r)]_vars

\* A reminder does not arrive later than the length of a lot after it expired:
\* expiry is decided once per lot (processDue).
ReminderIsTimely ==
    [][\A r \in Rows : delivered'[r] # delivered[r] /\ row[r].life # None =>
            row[r].life > -LotTime]_vars

\* Every notice comes to an end and stays there, whatever crashes and whichever
\* answers are lost (processDue).
NoticeEnds ==
    \A r \in Rows : Retryable(r) ~> [] ~ Retryable(r)

=============================================================================
