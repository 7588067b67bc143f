----------------------------- MODULE OutboxProofs -----------------------------
(***************************************************************************)
(* The safety of Outbox for any rows, workers, delays and lengths of a     *)
(* lot. That nobody is notified twice and that a sent row was delivered    *)
(* does not depend on the lease; that a row has one worker does: its proof *)
(* shows that a row in a lot stays put off for what is left of the lease.  *)
(***************************************************************************)
EXTENDS Outbox, SequenceTheorems, TLAPS

Lots == [lot : SUBSET Rows, expired : SUBSET Rows, attempts : [Rows -> Nat],
         hand : Rows \cup {None}, ok : BOOLEAN, age : 0 .. LotTime]
RowType == [status : {"ABSENT", "PENDING", "RETRYING", "SENT", "DEAD", "EXPIRED"},
            attempts : Nat, wait : Nat, life : Int \cup {None}]

\* A worker that says a delivery worked has delivered the row in hand.
OkIsTrue ==
    \A w \in Workers : worker[w].hand # None /\ worker[w].ok
                        => delivered[worker[w].hand] > 0

IInv == TypeOK /\ OkIsTrue /\ DeliveredOnce /\ SentIsTrue

-----------------------------------------------------------------------------
\* A worker without a lot.
LEMMA IdleType == Idle \in Lots /\ Idle.hand = None /\ Idle.lot = {}
BY OutboxAssumption DEF Idle, Lots

\* What is left of a delay is a number of minutes.
LEMMA LeftType == ASSUME NEW d \in Nat, NEW a \in Nat PROVE Left(d, a) \in Nat
BY DEF Left

\* What is left of a lot has the type of a lot; nothing is in hand.
LEMMA WithoutType ==
    ASSUME TypeOK, NEW w \in Workers, NEW r \in Rows
    PROVE  /\ Without(w, r) \in Lots /\ Without(w, r).hand = None
           /\ Without(w, r).lot \subseteq worker[w].lot \ {r}
           /\ Without(w, r).lot # {} => Without(w, r).age = worker[w].age
<1>1. worker[w] \in Lots
  BY DEF TypeOK, Lots
<1>2. CASE worker[w].lot = {r}
  BY <1>2, IdleType DEF Without
<1>3. CASE worker[w].lot # {r}
  BY <1>1, <1>3 DEF Without, Lots
<1> QED
  BY <1>2, <1>3

\* Being done with a row keeps the type of the workers.
LEMMA DoneType ==
    ASSUME TypeOK, NEW w \in Workers, NEW r \in Rows, Done(w, r)
    PROVE  /\ worker' \in [Workers -> Lots]
           /\ \A v \in Workers : worker'[v].hand \in worker'[v].lot \cup {None}
           /\ worker'[w].hand = None
           /\ \A v \in Workers : v # w => worker'[v] = worker[v]
           /\ worker'[w].lot \subseteq worker[w].lot \ {r}
           /\ worker'[w].lot # {} => worker'[w].age = worker[w].age
<1>1. worker' = [worker EXCEPT ![w] = Without(w, r)]
  BY DEF Done
<1>2. worker \in [Workers -> Lots]
  BY DEF TypeOK, Lots
<1> QED
  BY <1>1, <1>2, WithoutType DEF TypeOK

\* A mark without an answer leaves the worker with its row.
LEMMA UnansweredType ==
    ASSUME TypeOK, NEW w \in Workers, Unanswered(w)
    PROVE  /\ worker' \in [Workers -> Lots]
           /\ \A v \in Workers : worker'[v].hand \in worker'[v].lot \cup {None}
           /\ \A v \in Workers : v # w => worker'[v] = worker[v]
           /\ ~ worker'[w].ok /\ worker'[w].hand = worker[w].hand
           /\ worker'[w].lot = worker[w].lot /\ worker'[w].age = worker[w].age
           /\ worker'[w].expired = worker[w].expired
           /\ worker'[w].attempts = worker[w].attempts
<1>1. worker \in [Workers -> Lots] /\ worker[w] \in Lots
  BY DEF TypeOK, Lots
<1>2. worker' = [worker EXCEPT ![w] = [worker[w] EXCEPT !.ok = FALSE]]
  BY DEF Unanswered
<1> DEFINE e == [worker[w] EXCEPT !.ok = FALSE]
<1>3. /\ e \in Lots /\ ~ e.ok /\ e.hand = worker[w].hand /\ e.lot = worker[w].lot
      /\ e.age = worker[w].age /\ e.expired = worker[w].expired
      /\ e.attempts = worker[w].attempts
  BY <1>1 DEF Lots
<1> HIDE DEF e
<1> QED
  BY <1>1, <1>2, <1>3 DEF e, TypeOK

\* A failed row has the type of a row, and is not sent.
LEMMA RetriedType ==
    ASSUME TypeOK, NEW w \in Workers, NEW r \in Rows
    PROVE  Retried(w, r) \in RowType /\ Retried(w, r).status \in {"RETRYING", "DEAD"}
<1> DEFINE attempts == worker[w].attempts[r] + 1
<1>1. row[r] \in RowType /\ worker[w] \in Lots
  BY DEF TypeOK, RowType, Lots
<1>2. attempts \in Nat /\ attempts >= 1 /\ worker[w].age \in Nat /\ Len(Delays) \in Nat
  BY <1>1, OutboxAssumption DEF Lots
<1>3. CASE attempts > Len(Delays)
  BY <1>1, <1>2, <1>3 DEF Retried, RowType
<1>4. CASE ~ (attempts > Len(Delays))
  <2>1. Delays[attempts] \in Nat
    BY <1>2, <1>4, OutboxAssumption, ElementOfSeq
  <2>2. Left(Delays[attempts], worker[w].age) \in Nat
    BY <1>2, <2>1, LeftType
  <2> HIDE DEF attempts
  <2>3. Retried(w, r) = [row[r] EXCEPT !.status = "RETRYING", !.attempts = attempts,
                            !.wait = Left(Delays[attempts], worker[w].age)]
    BY <1>4 DEF Retried, attempts
  <2> QED
    BY <1>1, <1>2, <2>2, <2>3 DEF RowType
<1> QED
  BY <1>3, <1>4

\* The empty outbox satisfies the invariant.
LEMMA InitInv == Init => IInv
<1> SUFFICES ASSUME Init PROVE IInv
  OBVIOUS
<1>1. Absent \in RowType /\ Absent.status = "ABSENT"
  BY DEF Absent, RowType
<1>2. row \in [Rows -> RowType] /\ worker \in [Workers -> Lots]
  BY <1>1, IdleType DEF Init
<1>3. \A w \in Workers : worker[w].hand = None
  BY IdleType DEF Init
<1>4. TypeOK
  BY <1>2, <1>3, OutboxAssumption DEF Init, TypeOK, RowType, Lots
<1> QED
  BY <1>1, <1>3, <1>4 DEF Init, IInv, OkIsTrue, DeliveredOnce, SentIsTrue

\* A step that delivers nothing, with rows that were not sent before only if they
\* are true.
LEMMA QuietStep ==
    ASSUME IInv, TypeOK', delivered' = delivered, reminded \subseteq reminded',
           \A r \in Rows : row'[r].status = "SENT" =>
                \/ row[r].status = "SENT"
                \/ delivered[r] > 0 /\ (r \in Reminders => r \in reminded'),
           \A w \in Workers : \/ worker'[w].hand = None \/ ~ worker'[w].ok
                              \/ /\ worker'[w].hand = worker[w].hand
                                 /\ worker'[w].ok = worker[w].ok
    PROVE  IInv'
BY DEF IInv, OkIsTrue, DeliveredOnce, SentIsTrue

\* Every step keeps it.
LEMMA StepInv == IInv /\ [Next]_vars => IInv'
<1> SUFFICES ASSUME IInv, [Next]_vars PROVE IInv'
  OBVIOUS
<1> USE DEF IInv
<1>0. /\ row \in [Rows -> RowType] /\ worker \in [Workers -> Lots]
      /\ \A r \in Rows : row[r] \in RowType
      /\ \A w \in Workers : worker[w] \in Lots
  BY DEF TypeOK, RowType, Lots
<1>1. ASSUME NEW r \in Rows, Enqueue(r) PROVE IInv'
  <2>1. PICK status \in {"PENDING", "DEAD"} :
            row' = [row EXCEPT ![r] =
                    [status |-> status, attempts |-> 0, wait |-> 0,
                     life |-> IF r \in Reminders THEN Life ELSE None]]
    BY <1>1 DEF Enqueue
  <2> DEFINE e == [status |-> status, attempts |-> 0, wait |-> 0,
                   life |-> IF r \in Reminders THEN Life ELSE None]
  <2>2. e \in RowType /\ e.status # "SENT"
    BY OutboxAssumption DEF RowType
  <2>3. row' = [row EXCEPT ![r] = e]
    BY <2>1
  <2> HIDE DEF e
  <2>4. TypeOK'
    BY <1>0, <1>1, <2>2, <2>3 DEF Enqueue, TypeOK, RowType
  <2> QED
    BY <1>0, <1>1, <2>2, <2>3, <2>4, QuietStep DEF Enqueue
<1>2. ASSUME NEW w \in Workers, Claim(w) PROVE IInv'
  <2>1. PICK lot \in SUBSET Rows :
            /\ row' = Claimed(lot)
            /\ worker' = [worker EXCEPT ![w] =
                    [lot |-> lot, expired |-> {r \in lot : Overdue(r)},
                     attempts |-> [r \in Rows |-> row[r].attempts],
                     hand |-> None, ok |-> FALSE, age |-> 0]]
    BY <1>2 DEF Claim
  <2>2. \A r \in Rows : row'[r] \in RowType /\ row'[r].status = row[r].status
    BY <1>0, <2>1, OutboxAssumption DEF Claimed, RowType
  <2> DEFINE l == [lot |-> lot, expired |-> {r \in lot : Overdue(r)},
                   attempts |-> [r \in Rows |-> row[r].attempts],
                   hand |-> None, ok |-> FALSE, age |-> 0]
  <2>3. l \in Lots /\ l.hand = None
    <3>1. [r \in Rows |-> row[r].attempts] \in [Rows -> Nat]
      BY <1>0 DEF RowType
    <3> QED
      BY <3>1, OutboxAssumption DEF Lots
  <2>4. worker' = [worker EXCEPT ![w] = l]
    BY <2>1
  <2> HIDE DEF l
  <2>5. row' \in [Rows -> RowType]
    BY <2>1, <2>2 DEF Claimed
  <2>6. TypeOK'
    BY <1>0, <1>2, <2>3, <2>4, <2>5 DEF Claim, TypeOK, RowType, Lots
  <2> QED
    BY <1>0, <1>2, <2>2, <2>3, <2>4, <2>6, QuietStep DEF Claim
<1>3. ASSUME NEW w \in Workers, NEW r \in Rows, Expire(w, r) PROVE IInv'
  <2>1. row' = [row EXCEPT ![r].status = "EXPIRED"] /\ Done(w, r)
        /\ UNCHANGED <<reminded, delivered, crashes>>
    BY <1>3 DEF Expire
  <2>2. row' \in [Rows -> RowType]
    BY <1>0, <2>1 DEF RowType
  <2>3. TypeOK'
    BY <2>1, <2>2, DoneType DEF TypeOK, RowType, Lots
  <2>4. \A q \in Rows : row'[q].status = "SENT" => row[q].status = "SENT"
    BY <1>0, <2>1 DEF RowType
  <2> QED
    BY <2>1, <2>3, <2>4, DoneType, QuietStep
<1>4. ASSUME NEW w \in Workers, NEW r \in Rows, Deliver(w, r) PROVE IInv'
  <2>1. PICK arrives \in BOOLEAN, answers \in BOOLEAN :
            /\ answers => arrives
            /\ delivered' = [delivered EXCEPT ![r] = IF arrives THEN Received(r) ELSE @]
            /\ worker' = [worker EXCEPT ![w].hand = r, ![w].ok = answers]
    BY <1>4 DEF Deliver
  <2>2. delivered[r] \in Nat /\ delivered[r] <= 1
    BY DEF TypeOK, DeliveredOnce
  <2>3. /\ delivered' \in [Rows -> Nat]
        /\ \A q \in Rows : delivered'[q] <= 1 /\ delivered'[q] >= delivered[q]
        /\ arrives => delivered'[r] > 0
    BY <2>1, <2>2 DEF TypeOK, DeliveredOnce, Received
  <2>4. /\ worker' \in [Workers -> Lots]
        /\ worker'[w].hand = r /\ worker'[w].ok = answers
        /\ worker'[w].lot = worker[w].lot
        /\ \A v \in Workers : v # w => worker'[v] = worker[v]
    BY <1>0, <2>1 DEF Lots
  <2>5. TypeOK'
    BY <1>4, <2>3, <2>4 DEF Deliver, TypeOK, Lots
  <2>6. OkIsTrue'
    <3> SUFFICES ASSUME NEW v \in Workers, worker'[v].hand # None, worker'[v].ok
                 PROVE  delivered'[worker'[v].hand] > 0
      BY DEF OkIsTrue
    <3>1. CASE v = w
      BY <2>1, <2>3, <2>4, <3>1
    <3>2. CASE v # w
      <4>1. worker[v].hand \in Rows /\ delivered[worker[v].hand] > 0
        BY <1>0, <2>4, <3>2 DEF OkIsTrue, Lots
      <4> QED
        BY <2>3, <2>4, <3>2, <4>1 DEF TypeOK
    <3> QED
      BY <3>1, <3>2
  <2>7. DeliveredOnce'
    BY <2>3 DEF DeliveredOnce
  <2>8. SentIsTrue'
    BY <1>4, <2>3 DEF Deliver, SentIsTrue, TypeOK
  <2> QED
    BY <2>5, <2>6, <2>7, <2>8
<1>5. ASSUME NEW w \in Workers, MarkSent(w) PROVE IInv'
  <2>1. PICK r \in Rows :
            /\ r = worker[w].hand /\ worker[w].ok
            /\ row' = [row EXCEPT ![r].status = "SENT", ![r].attempts = @ + 1]
            /\ reminded' = reminded \cup ({r} \cap Reminders)
            /\ Done(w, r) \/ Unanswered(w)
    BY <1>0, <1>5 DEF MarkSent, Lots
  <2>2. row' \in [Rows -> RowType]
    BY <1>0, <2>1 DEF RowType
  <2>3. UNCHANGED <<delivered, crashes>>
    BY <1>5 DEF MarkSent
  <2>4. /\ worker' \in [Workers -> Lots]
        /\ \A v \in Workers : worker'[v].hand \in worker'[v].lot \cup {None}
        /\ \A v \in Workers : \/ worker'[v].hand = None \/ ~ worker'[v].ok
                              \/ worker'[v] = worker[v]
    BY <2>1, DoneType, UnansweredType
  <2>5. TypeOK'
    BY <2>1, <2>2, <2>3, <2>4 DEF TypeOK, RowType, Lots
  <2>6. delivered[r] > 0
    BY <2>1, OutboxAssumption DEF OkIsTrue
  <2>7. \A q \in Rows : row'[q].status = "SENT" => q = r \/ row[q].status = "SENT"
    BY <1>0, <2>1 DEF RowType
  <2> QED
    BY <2>1, <2>3, <2>4, <2>5, <2>6, <2>7, QuietStep
<1>6. ASSUME NEW w \in Workers, MarkFailed(w) PROVE IInv'
  <2>1. PICK r \in Rows : row' = [row EXCEPT ![r] = Retried(w, r)] /\ Done(w, r)
    BY <1>0, <1>6 DEF MarkFailed, Lots
  <2>2. Retried(w, r) \in RowType /\ Retried(w, r).status # "SENT"
    BY RetriedType
  <2>3. UNCHANGED <<reminded, delivered, crashes>>
    BY <1>6 DEF MarkFailed
  <2>4. row' \in [Rows -> RowType]
    BY <1>0, <2>1, <2>2
  <2>5. TypeOK'
    BY <2>1, <2>3, <2>4, DoneType DEF TypeOK, RowType, Lots
  <2>6. \A q \in Rows : row'[q].status = "SENT" => row[q].status = "SENT"
    BY <1>0, <2>1, <2>2
  <2>7. \A v \in Workers : \/ worker'[v].hand = None
                           \/ worker'[v] = worker[v]
    BY <2>1, DoneType
  <2> QED
    BY <2>3, <2>5, <2>6, <2>7, QuietStep
<1>7. ASSUME NEW w \in Workers, Crash(w) PROVE IInv'
  <2>1. worker' \in [Workers -> Lots] /\ \A v \in Workers : worker'[v].hand = None
                                                    \/ worker'[v] = worker[v]
    BY <1>0, <1>7, IdleType DEF Crash
  <2>2. TypeOK'
    BY <1>7, <2>1, OutboxAssumption DEF Crash, TypeOK, Lots
  <2> QED
    BY <1>7, <2>1, <2>2, QuietStep DEF Crash
<1>8. CASE Tick
  <2>1. row' \in [Rows -> RowType]
    <3>1. ASSUME NEW r \in Rows PROVE row'[r] \in RowType
      <4>1. Left(row[r].wait, 1) \in Nat /\ row[r].life \in Int \cup {None}
        BY <1>0, LeftType DEF RowType
      <4> DEFINE wait == Left(row[r].wait, 1)
                 life == IF row[r].life = None \/ row[r].life <= -LotTime
                         THEN row[r].life ELSE row[r].life - 1
      <4>2. wait \in Nat /\ life \in Int \cup {None}
        BY <4>1, OutboxAssumption
      <4>3. row'[r] = [row[r] EXCEPT !.wait = wait, !.life = life]
        BY <1>0, <1>8 DEF Tick, RowType
      <4> HIDE DEF wait, life
      <4> QED
        BY <1>0, <4>2, <4>3 DEF RowType
    <3>2. row' = [r \in Rows |-> row'[r]]
      BY <1>8 DEF Tick
    <3> QED
      BY <3>1, <3>2
  <2>2. \A r \in Rows : row'[r].status = row[r].status
    BY <1>0, <1>8 DEF Tick, RowType
  <2>3. /\ worker' \in [Workers -> Lots]
        /\ \A w \in Workers : /\ worker'[w].hand = worker[w].hand
                              /\ worker'[w].ok = worker[w].ok
                              /\ worker'[w].lot = worker[w].lot
    <3>1. ASSUME NEW w \in Workers
          PROVE  /\ worker'[w] \in Lots /\ worker'[w].hand = worker[w].hand
                 /\ worker'[w].ok = worker[w].ok /\ worker'[w].lot = worker[w].lot
      <4>1. worker[w].age \in 0 .. LotTime /\ worker[w] \in Lots
        BY <1>0 DEF Lots
      <4>2. CASE worker[w].lot = {}
        BY <1>8, <4>1, <4>2 DEF Tick
      <4>3. CASE worker[w].lot # {}
        <5>0. worker[w].age < LotTime
          BY <1>8, <4>3 DEF Tick
        <5>1. worker[w].age + 1 \in 0 .. LotTime
          BY <4>1, <5>0, OutboxAssumption
        <5>2. worker'[w] = [worker[w] EXCEPT !.age = worker[w].age + 1]
          BY <1>8, <4>3 DEF Tick
        <5> QED
          BY <4>1, <5>1, <5>2 DEF Lots
      <4> QED
        BY <4>2, <4>3
    <3>2. worker' = [w \in Workers |-> worker'[w]]
      BY <1>8 DEF Tick
    <3> QED
      BY <3>1, <3>2
  <2>4. TypeOK'
    BY <1>8, <2>1, <2>3 DEF Tick, TypeOK, RowType, Lots
  <2> QED
    BY <1>8, <2>2, <2>3, <2>4, QuietStep DEF Tick
<1>9. CASE UNCHANGED vars
  <2>1. TypeOK'
    BY <1>9 DEF vars, TypeOK
  <2> QED
    BY <1>9, <2>1, QuietStep DEF vars
<1> QED
  BY <1>1, <1>2, <1>3, <1>4, <1>5, <1>6, <1>7, <1>8, <1>9 DEF Next, WorkerStep

-----------------------------------------------------------------------------
\* The inductive invariant holds in every state.
THEOREM OutboxSafety == Spec => []IInv
BY InitInv, StepInv, PTL DEF Spec

\* Nobody gets a notice twice, however long lots take and whoever dies.
THEOREM OnceCorrect == Spec => []DeliveredOnce
<1>1. IInv => DeliveredOnce
  BY DEF IInv
<1> QED
  BY <1>1, OutboxSafety, PTL

\* A sent row was delivered and its reminder is on the report.
THEOREM SentCorrect == Spec => []SentIsTrue
<1>1. IInv => SentIsTrue
  BY DEF IInv
<1> QED
  BY <1>1, OutboxSafety, PTL

-----------------------------------------------------------------------------
(* What the lease is for.                                                  *)

\* The worker has marked the row it has in hand, and got no answer.
MarkLost(w, r) == row[r].status = "SENT" /\ worker[w].hand = r /\ ~ worker[w].ok

\* A row in a lot is still to be sent, or to be taken back, and put off for what is
\* left of the lease.
PutOff ==
    \A w \in Workers : \A r \in worker[w].lot :
        /\ Retryable(r) \/ MarkLost(w, r)
        /\ row[r].wait + worker[w].age >= Lease

LeaseInv == PutOff /\ OneWorkerPerRow

\* A step that takes no row and changes none that another worker has.
LEMMA HeldStep ==
    ASSUME TypeOK, LeaseInv,
           \A w \in Workers : worker'[w].lot \subseteq worker[w].lot,
           \A w \in Workers : worker'[w].lot # {} => worker'[w].age = worker[w].age,
           \A w \in Workers : \/ worker[w].hand = None
                              \/ worker[w].hand \notin worker'[w].lot
                              \/ /\ worker'[w].hand = worker[w].hand
                                 /\ worker'[w].ok = worker[w].ok,
           \A w \in Workers : \A r \in worker'[w].lot : row'[r] = row[r]
    PROVE  LeaseInv'
<1>1. \A w \in Workers : \A r \in worker'[w].lot :
        /\ r \in worker[w].lot /\ r # None
        /\ worker'[w].age = worker[w].age /\ row'[r] = row[r]
  BY OutboxAssumption DEF TypeOK
<1>2. PutOff'
  BY <1>1 DEF LeaseInv, PutOff, MarkLost, Retryable
<1>3. OneWorkerPerRow'
  BY DEF LeaseInv, OneWorkerPerRow
<1> QED
  BY <1>2, <1>3 DEF LeaseInv

\* A worker that is done with a row of its lot changes only that row.
LEMMA DoneStep ==
    ASSUME TypeOK, LeaseInv, NEW w \in Workers, NEW r \in worker[w].lot, Done(w, r),
           worker[w].hand \in {r, None},
           \A q \in Rows : q # r => row'[q] = row[q]
    PROVE  LeaseInv'
<1>1. \A v \in Workers : worker[v].lot \subseteq Rows
  BY DEF TypeOK
<1>2. r \in Rows
  BY <1>1
<1>3. \A v \in Workers : v # w => r \notin worker[v].lot
  BY DEF LeaseInv, OneWorkerPerRow
<1>4. \A v \in Workers : \A q \in worker'[v].lot : q # r /\ q \in Rows
  BY <1>1, <1>2, <1>3, DoneType
<1> QED
  BY <1>2, <1>4, DoneType, HeldStep

\* A mark whose answer is lost changes the row in hand, which stays put off.
LEMMA LostStep ==
    ASSUME IInv, LeaseInv, NEW w \in Workers, MarkSent(w), Unanswered(w)
    PROVE  LeaseInv'
<1>1. PICK r \in Rows :
        /\ r = worker[w].hand /\ r \in worker[w].lot
        /\ row' = [row EXCEPT ![r].status = "SENT", ![r].attempts = @ + 1]
  BY OutboxAssumption DEF IInv, TypeOK, MarkSent
<1>2. /\ \A v \in Workers : v # w => worker'[v] = worker[v]
      /\ ~ worker'[w].ok /\ worker'[w].hand = r
      /\ worker'[w].lot = worker[w].lot /\ worker'[w].age = worker[w].age
  BY <1>1, UnansweredType DEF IInv
<1>3. /\ row'[r].status = "SENT" /\ row'[r].wait = row[r].wait
      /\ \A q \in Rows : q # r => row'[q] = row[q]
  BY <1>1 DEF IInv, TypeOK
<1>4. \A v \in Workers : v # w => r \notin worker[v].lot
  BY <1>1 DEF LeaseInv, OneWorkerPerRow
<1>5. PutOff'
  <2> SUFFICES ASSUME NEW v \in Workers, NEW q \in worker'[v].lot
               PROVE  /\ Retryable(q)' \/ MarkLost(v, q)'
                      /\ row'[q].wait + worker'[v].age >= Lease
    BY DEF PutOff
  <2>1. q \in worker[v].lot /\ q \in Rows /\ worker'[v].age = worker[v].age
    BY <1>2 DEF IInv, TypeOK
  <2>2. /\ Retryable(q) \/ MarkLost(v, q)
        /\ row[q].wait + worker[v].age >= Lease
    BY <2>1 DEF LeaseInv, PutOff
  <2>3. CASE q = r
    BY <1>2, <1>3, <1>4, <2>1, <2>2, <2>3 DEF MarkLost
  <2>4. CASE q # r
    <3>1. row'[q] = row[q] /\ ~ MarkLost(w, q)
      BY <1>1, <1>3, <2>1, <2>4 DEF MarkLost
    <3> QED
      BY <1>2, <2>1, <2>2, <3>1 DEF MarkLost, Retryable
  <2> QED
    BY <2>3, <2>4
<1>6. OneWorkerPerRow'
  BY <1>2 DEF LeaseInv, OneWorkerPerRow
<1> QED
  BY <1>5, <1>6 DEF LeaseInv

\* What may become of a row that came to its end.
Ends(r) ==
    /\ row[r].status \in {"DEAD", "EXPIRED"} => row'[r].status = row[r].status
    /\ row[r].status = "SENT" => row'[r].status = "SENT" \/ InDoubt(r)

\* When no lot is longer than the lease, every step keeps it and no step moves a
\* row that came to its end, but for one whose mark was not answered.
LEMMA LeaseStep ==
    ASSUME LotTime < Lease, IInv, LeaseInv, [Next]_vars
    PROVE  LeaseInv' /\ \A r \in Rows : Ends(r)
<1> DEFINE Stays == \A r \in Rows : Ends(r)
<1>0. /\ TypeOK
      /\ row \in [Rows -> RowType] /\ worker \in [Workers -> Lots]
      /\ \A r \in Rows : row[r] \in RowType
      /\ \A w \in Workers : worker[w] \in Lots
  BY DEF IInv, TypeOK, RowType, Lots
<1>1. ASSUME NEW r \in Rows, Enqueue(r) PROVE LeaseInv' /\ Stays
  <2>1. row[r].status = "ABSENT" /\ UNCHANGED worker
    BY <1>1 DEF Enqueue
  <2>2. \A q \in Rows : q # r => row'[q] = row[q]
    BY <1>0, <1>1 DEF Enqueue
  <2>3. \A w \in Workers : r \notin worker[w].lot
    BY <2>1 DEF LeaseInv, PutOff, Retryable, MarkLost
  <2>4. LeaseInv'
    <3>1. \A w \in Workers : \A q \in worker[w].lot : row'[q] = row[q]
      BY <1>0, <2>2, <2>3 DEF Lots
    <3> QED
      BY <1>0, <2>1, <3>1, HeldStep
  <2> QED
    BY <2>1, <2>2, <2>4 DEF Ends
<1>2. ASSUME NEW w \in Workers, Claim(w) PROVE LeaseInv' /\ Stays
  <2>1. PICK lot \in SUBSET {r \in Rows : IsDue(r)} :
            /\ row' = Claimed(lot)
            /\ worker' = [worker EXCEPT ![w] =
                    [lot |-> lot, expired |-> {r \in lot : Overdue(r)},
                     attempts |-> [r \in Rows |-> row[r].attempts],
                     hand |-> None, ok |-> FALSE, age |-> 0]]
    BY <1>2 DEF Claim
  <2>2. /\ worker'[w].lot = lot /\ worker'[w].age = 0
        /\ \A v \in Workers : v # w => worker'[v] = worker[v]
    BY <1>0, <2>1
  <2>3. \A v \in Workers : worker[v].lot \cap lot = {}
    <3> SUFFICES ASSUME NEW v \in Workers, NEW r \in worker[v].lot, r \in lot
                 PROVE  FALSE
      OBVIOUS
    <3>1. row[r].wait = 0 /\ row[r].wait + worker[v].age >= Lease
      BY <2>1 DEF IsDue, LeaseInv, PutOff
    <3>2. worker[v].age \in 0 .. LotTime
      BY <1>0 DEF Lots
    <3> QED
      BY <3>1, <3>2, OutboxAssumption
  <2>4. \A r \in Rows : /\ r \notin lot => row'[r] = row[r]
                        /\ r \in lot => row'[r].wait = Lease
                        /\ row'[r].status = row[r].status
    BY <1>0, <2>1 DEF Claimed, RowType
  <2>5. PutOff'
    <3> SUFFICES ASSUME NEW v \in Workers, NEW r \in worker'[v].lot
                 PROVE  /\ Retryable(r)' \/ MarkLost(v, r)'
                        /\ row'[r].wait + worker'[v].age >= Lease
      BY DEF PutOff
    <3>1. CASE v = w
      BY <2>1, <2>2, <2>4, <3>1, OutboxAssumption DEF IsDue, Retryable
    <3>2. CASE v # w
      <4>1. r \in worker[v].lot /\ r \in Rows /\ r \notin lot
        BY <1>0, <2>2, <2>3, <3>2 DEF Lots
      <4>2. row'[r] = row[r] /\ worker'[v] = worker[v]
        BY <2>2, <2>4, <3>2, <4>1
      <4> QED
        BY <4>1, <4>2 DEF LeaseInv, PutOff, Retryable, MarkLost
    <3> QED
      BY <3>1, <3>2
  <2>6. OneWorkerPerRow'
    BY <2>2, <2>3 DEF LeaseInv, OneWorkerPerRow
  <2> QED
    BY <2>4, <2>5, <2>6 DEF LeaseInv, Ends
<1>3. ASSUME NEW w \in Workers, NEW r \in worker[w].lot, Done(w, r),
             worker[w].hand \in {r, None},
             \A q \in Rows : q # r => row'[q] = row[q]
      PROVE  LeaseInv' /\ Stays
  <2>1. Retryable(r) \/ MarkLost(w, r)
    BY DEF LeaseInv, PutOff
  <2>2. Stays
    BY <1>3, <2>1 DEF Retryable, MarkLost, Ends, InDoubt
  <2> QED
    BY <1>0, <1>3, <2>2, DoneStep
<1>4. ASSUME NEW w \in Workers, NEW r \in Rows, Expire(w, r) PROVE LeaseInv' /\ Stays
  <2>1. r \in worker[w].lot /\ Done(w, r) /\ worker[w].hand = None
    BY <1>4 DEF Expire
  <2>2. \A q \in Rows : q # r => row'[q] = row[q]
    BY <1>0, <1>4 DEF Expire
  <2> QED
    BY <1>3, <2>1, <2>2
<1>5. ASSUME NEW w \in Workers, MarkSent(w) \/ MarkFailed(w) PROVE LeaseInv' /\ Stays
  <2> DEFINE r == worker[w].hand
  <2>1. r \in worker[w].lot
    BY <1>0, <1>5 DEF MarkSent, MarkFailed, TypeOK
  <2>2. \A q \in Rows : q # r => row'[q] = row[q]
    BY <1>0, <1>5 DEF MarkSent, MarkFailed
  <2>3. CASE Done(w, r)
    BY <1>3, <2>1, <2>2, <2>3
  <2>4. CASE MarkSent(w) /\ Unanswered(w)
    <3>1. Retryable(r) /\ r \in Rows
      BY <1>0, <2>1, <2>4 DEF LeaseInv, PutOff, MarkLost, MarkSent, Lots
    <3>2. Stays
      BY <2>2, <3>1 DEF Ends, Retryable
    <3> QED
      BY <2>4, <3>2, LostStep
  <2> QED
    BY <1>5, <2>3, <2>4 DEF MarkSent, MarkFailed
<1>6. ASSUME NEW w \in Workers, Crash(w) \/ \E r \in Rows : Deliver(w, r)
      PROVE  LeaseInv' /\ Stays
  <2>1. UNCHANGED row
    BY <1>6 DEF Crash, Deliver
  <2>2. \A v \in Workers : /\ worker'[v].lot \subseteq worker[v].lot
                           /\ worker'[v].lot # {} => worker'[v].age = worker[v].age
                           /\ \/ worker[v].hand = None
                              \/ worker[v].hand \notin worker'[v].lot
                              \/ /\ worker'[v].hand = worker[v].hand
                                 /\ worker'[v].ok = worker[v].ok
    <3>1. CASE Crash(w)
      BY <1>0, <3>1, IdleType DEF Crash
    <3>2. CASE \E r \in Rows : Deliver(w, r)
      <4>1. PICK r \in Rows, ok \in BOOLEAN :
                worker' = [worker EXCEPT ![w].hand = r, ![w].ok = ok]
        BY <3>2 DEF Deliver
      <4>2. worker'[w] = [[worker[w] EXCEPT !.hand = r] EXCEPT !.ok = ok]
        BY <1>0, <4>1
      <4>3. worker'[w].lot = worker[w].lot /\ worker'[w].age = worker[w].age
        BY <1>0, <4>2 DEF Lots
      <4>4. worker[w].hand = None
        BY <3>2 DEF Deliver
      <4> QED
        BY <1>0, <4>1, <4>3, <4>4
    <3> QED
      BY <1>6, <3>1, <3>2
  <2>3. LeaseInv'
    BY <1>0, <2>1, <2>2, HeldStep
  <2> QED
    BY <2>1, <2>3 DEF Ends
<1>7. CASE Tick
  <2>1. \A r \in Rows : /\ row'[r].status = row[r].status
                        /\ row'[r].wait = Left(row[r].wait, 1)
    BY <1>0, <1>7 DEF Tick, RowType
  <2>2. \A w \in Workers :
            /\ worker'[w].lot = worker[w].lot
            /\ worker'[w].hand = worker[w].hand /\ worker'[w].ok = worker[w].ok
            /\ worker[w].lot # {} => worker'[w].age = worker[w].age + 1
    BY <1>0, <1>7 DEF Tick, Lots
  <2>3. PutOff'
    <3> SUFFICES ASSUME NEW w \in Workers, NEW r \in worker'[w].lot
                 PROVE  /\ Retryable(r)' \/ MarkLost(w, r)'
                        /\ row'[r].wait + worker'[w].age >= Lease
      BY DEF PutOff
    <3>1. r \in worker[w].lot /\ r \in Rows
      BY <1>0, <2>2 DEF Lots
    <3>2. /\ Retryable(r) \/ MarkLost(w, r)
          /\ row[r].wait + worker[w].age >= Lease
      BY <3>1 DEF LeaseInv, PutOff
    <3>3. worker'[w].age = worker[w].age + 1 /\ row'[r].wait = Left(row[r].wait, 1)
      BY <2>1, <2>2, <3>1
    <3>4. row[r].wait \in Nat /\ worker[w].age \in 0 .. LotTime
      BY <1>0, <3>1 DEF RowType, Lots
    <3>5. Left(row[r].wait, 1) = row[r].wait - 1
      BY <3>2, <3>4, OutboxAssumption DEF Left
    <3> QED
      BY <2>1, <2>2, <3>1, <3>2, <3>3, <3>4, <3>5, OutboxAssumption
         DEF Retryable, MarkLost
  <2>4. OneWorkerPerRow'
    BY <2>2 DEF LeaseInv, OneWorkerPerRow
  <2> QED
    BY <2>1, <2>3, <2>4 DEF LeaseInv, Ends
<1>8. CASE UNCHANGED vars
  BY <1>8 DEF vars, LeaseInv, PutOff, OneWorkerPerRow, Retryable, MarkLost, Ends
<1> QED
  BY <1>1, <1>2, <1>4, <1>5, <1>6, <1>7, <1>8 DEF Next, WorkerStep

\* Nobody has a lot at the start.
LEMMA LeaseInit == Init => LeaseInv
BY IdleType DEF Init, LeaseInv, PutOff, OneWorkerPerRow

\* As long as no lot outlives the lease, a row is in the hands of one worker.
THEOREM LeaseCorrect ==
    ASSUME LotTime < Lease
    PROVE  Spec => []OneWorkerPerRow
<1>1. IInv /\ LeaseInv /\ [Next]_vars => LeaseInv'
  BY LeaseStep
<1>2. LeaseInv => OneWorkerPerRow
  BY DEF LeaseInv
<1> QED
  BY <1>1, <1>2, LeaseInit, OutboxSafety, PTL DEF Spec

\* As long as no lot outlives the lease, what is dead or expired stays so, and what
\* is sent is taken back only by the worker that did not learn of its own mark.
THEOREM FinalCorrect ==
    ASSUME LotTime < Lease
    PROVE  Spec => FinalStays
<1>1. IInv /\ LeaseInv /\ [Next]_vars => LeaseInv'
  BY LeaseStep
<1>2. IInv /\ LeaseInv /\ [Next]_vars =>
        [\A r \in Rows :
            /\ row[r].status \in {"DEAD", "EXPIRED"} => row'[r].status = row[r].status
            /\ row[r].status = "SENT" => row'[r].status = "SENT" \/ InDoubt(r)]_vars
  BY LeaseStep DEF Ends
<1> QED
  BY <1>1, <1>2, LeaseInit, OutboxSafety, PTL DEF Spec, FinalStays

-----------------------------------------------------------------------------
(* The expiry of a reminder.                                               *)

\* A row in a lot exists, and one that had not expired when the lot was claimed
\* has been expired for less long than the lot has taken.
NotLongExpired ==
    \A w \in Workers : \A r \in worker[w].lot :
        /\ row[r].status # "ABSENT"
        /\ r \notin worker[w].expired /\ row[r].life # None
            => row[r].life + worker[w].age > 0

\* A failed row keeps its life.
LEMMA RetriedLife ==
    ASSUME TypeOK, NEW w \in Workers, NEW r \in Rows
    PROVE  Retried(w, r).life = row[r].life
<1> DEFINE attempts == worker[w].attempts[r] + 1
           wait == Left(Delays[attempts], worker[w].age)
<1>1. row[r] \in RowType
  BY DEF TypeOK, RowType
<1>2. \/ Retried(w, r) = [row[r] EXCEPT !.status = "DEAD", !.attempts = attempts]
      \/ Retried(w, r) = [row[r] EXCEPT !.status = "RETRYING", !.attempts = attempts,
                                        !.wait = wait]
  BY DEF Retried
<1> HIDE DEF attempts, wait
<1> QED
  BY <1>1, <1>2 DEF RowType

\* A worker that goes on with a lot still knows what had expired in it, and how
\* often its rows had been tried.
LEMMA DoneExpired ==
    ASSUME TypeOK, NEW w \in Workers, NEW r \in Rows, Done(w, r)
    PROVE  \A v \in Workers : worker'[v].lot # {} =>
                /\ worker'[v].age = worker[v].age
                /\ worker'[v].expired = worker[v].expired
                /\ worker'[v].attempts = worker[v].attempts
<1>1. worker \in [Workers -> Lots] /\ worker[w] \in Lots
  BY DEF TypeOK, Lots
<1>2. worker' = [worker EXCEPT ![w] = Without(w, r)]
  BY DEF Done
<1>3. Without(w, r).lot # {} => /\ Without(w, r).expired = worker[w].expired
                                /\ Without(w, r).attempts = worker[w].attempts
  <2>1. CASE worker[w].lot = {r}
    BY <2>1, IdleType DEF Without
  <2>2. CASE worker[w].lot # {r}
    BY <1>1, <2>2 DEF Without, Lots
  <2> QED
    BY <2>1, <2>2
<1> QED
  BY <1>1, <1>2, <1>3, WithoutType

\* A step that takes no row and lets no time pass.
LEMMA SameTime ==
    ASSUME NotLongExpired,
           \A w \in Workers : /\ worker'[w].lot \subseteq worker[w].lot
                              /\ worker'[w].lot # {} =>
                                    /\ worker'[w].age = worker[w].age
                                    /\ worker'[w].expired = worker[w].expired,
           \A w \in Workers : \A r \in worker'[w].lot :
                /\ row'[r].status # "ABSENT"
                /\ row'[r].life = row[r].life
    PROVE  NotLongExpired'
<1> SUFFICES ASSUME NEW w \in Workers, NEW r \in worker'[w].lot
             PROVE  /\ row'[r].status # "ABSENT"
                    /\ r \notin worker'[w].expired /\ row'[r].life # None
                        => row'[r].life + worker'[w].age > 0
  BY DEF NotLongExpired
<1>1. r \in worker[w].lot
  OBVIOUS
<1>2. worker'[w].age = worker[w].age /\ worker'[w].expired = worker[w].expired
  OBVIOUS
<1> QED
  BY <1>1, <1>2 DEF NotLongExpired

\* At the start no row is in a lot.
LEMMA ExpiryInit == Init => NotLongExpired
BY IdleType DEF Init, NotLongExpired

\* Every step keeps it, however long lots take compared with the lease.
LEMMA ExpiryStep == IInv /\ NotLongExpired /\ [Next]_vars => NotLongExpired'
<1> SUFFICES ASSUME IInv, NotLongExpired, [Next]_vars PROVE NotLongExpired'
  OBVIOUS
<1>0. /\ TypeOK
      /\ row \in [Rows -> RowType] /\ worker \in [Workers -> Lots]
      /\ \A r \in Rows : row[r] \in RowType
      /\ \A w \in Workers : worker[w] \in Lots /\ worker[w].lot \subseteq Rows
  BY DEF IInv, TypeOK, RowType, Lots
<1>1. ASSUME NEW r \in Rows, Enqueue(r) PROVE NotLongExpired'
  <2>1. row[r].status = "ABSENT" /\ UNCHANGED worker
    BY <1>1 DEF Enqueue
  <2>2. \A q \in Rows : q # r => row'[q] = row[q]
    BY <1>0, <1>1 DEF Enqueue
  <2>3. \A w \in Workers : \A q \in worker[w].lot : q # r /\ row[q].status # "ABSENT"
    BY <2>1 DEF NotLongExpired
  <2>4. \A w \in Workers : \A q \in worker[w].lot : row'[q] = row[q]
    BY <1>0, <2>2, <2>3
  <2> QED
    BY <2>1, <2>3, <2>4, SameTime
<1>2. ASSUME NEW w \in Workers, Claim(w) PROVE NotLongExpired'
  <2>1. PICK lot \in SUBSET {r \in Rows : IsDue(r)} :
            /\ row' = Claimed(lot)
            /\ worker' = [worker EXCEPT ![w] =
                    [lot |-> lot, expired |-> {r \in lot : Overdue(r)},
                     attempts |-> [r \in Rows |-> row[r].attempts],
                     hand |-> None, ok |-> FALSE, age |-> 0]]
    BY <1>2 DEF Claim
  <2>2. /\ worker'[w].lot = lot /\ worker'[w].age = 0
        /\ worker'[w].expired = {r \in lot : Overdue(r)}
        /\ \A v \in Workers : v # w => worker'[v] = worker[v]
    BY <1>0, <2>1
  <2>3. \A r \in Rows : row'[r].status = row[r].status /\ row'[r].life = row[r].life
    BY <1>0, <2>1 DEF Claimed, RowType
  <2>4. ASSUME NEW v \in Workers, NEW r \in worker'[v].lot
        PROVE  /\ row'[r].status # "ABSENT"
               /\ r \notin worker'[v].expired /\ row'[r].life # None
                    => row'[r].life + worker'[v].age > 0
    <3>1. CASE v = w
      <4>1. r \in lot /\ r \in Rows /\ IsDue(r)
        BY <2>1, <2>2, <3>1
      <4>2. row[r].life \in Int \cup {None}
        BY <1>0, <4>1 DEF RowType
      <4> QED
        BY <2>2, <2>3, <3>1, <4>1, <4>2 DEF IsDue, Retryable, Overdue
    <3>2. CASE v # w
      <4>1. worker'[v] = worker[v] /\ r \in Rows
        BY <1>0, <2>2, <3>2
      <4> QED
        BY <2>3, <4>1 DEF NotLongExpired
    <3> QED
      BY <3>1, <3>2
  <2> QED
    BY <2>4 DEF NotLongExpired
<1>3. ASSUME NEW w \in Workers, NEW r \in Rows, NEW e \in RowType,
             Done(w, r) \/ Unanswered(w),
             row' = [row EXCEPT ![r] = e],
             e.status # "ABSENT", e.life = row[r].life
      PROVE  NotLongExpired'
  <2>1. \A v \in Workers : /\ worker'[v].lot \subseteq worker[v].lot
                           /\ worker'[v].lot # {} =>
                                /\ worker'[v].age = worker[v].age
                                /\ worker'[v].expired = worker[v].expired
    BY <1>3, <1>0, DoneType, DoneExpired, UnansweredType
  <2>2. \A q \in Rows : /\ row'[q].life = row[q].life
                        /\ row'[q].status = "ABSENT" => row[q].status = "ABSENT"
    BY <1>0, <1>3
  <2>3. \A v \in Workers : \A q \in worker'[v].lot :
            row'[q].status # "ABSENT" /\ row'[q].life = row[q].life
    BY <1>0, <2>1, <2>2 DEF NotLongExpired
  <2> QED
    BY <2>1, <2>3, SameTime
<1>4. ASSUME NEW w \in Workers, NEW r \in Rows, Expire(w, r) PROVE NotLongExpired'
  <2> DEFINE e == [row[r] EXCEPT !.status = "EXPIRED"]
  <2>1. e \in RowType /\ e.status # "ABSENT" /\ e.life = row[r].life
    BY <1>0 DEF RowType
  <2>2. row' = [row EXCEPT ![r] = e] /\ Done(w, r)
    BY <1>0, <1>4 DEF Expire
  <2> HIDE DEF e
  <2> QED
    BY <1>3, <2>1, <2>2
<1>5. ASSUME NEW w \in Workers, MarkSent(w) PROVE NotLongExpired'
  <2>1. PICK r \in Rows :
            /\ row' = [row EXCEPT ![r].status = "SENT", ![r].attempts = @ + 1]
            /\ Done(w, r) \/ Unanswered(w)
    BY <1>0, <1>5 DEF MarkSent, Lots
  <2> DEFINE n == row[r].attempts + 1
             e == [row[r] EXCEPT !.status = "SENT", !.attempts = n]
  <2>2. e \in RowType /\ e.status # "ABSENT" /\ e.life = row[r].life
    <3>1. n \in Nat
      BY <1>0 DEF RowType
    <3> HIDE DEF n
    <3> QED
      BY <1>0, <3>1 DEF RowType
  <2>3. row' = [row EXCEPT ![r] = e]
    BY <1>0, <2>1
  <2> HIDE DEF e
  <2> QED
    BY <1>3, <2>1, <2>2, <2>3
<1>6. ASSUME NEW w \in Workers, MarkFailed(w) PROVE NotLongExpired'
  <2>1. PICK r \in Rows : row' = [row EXCEPT ![r] = Retried(w, r)] /\ Done(w, r)
    BY <1>0, <1>6 DEF MarkFailed, Lots
  <2>2. /\ Retried(w, r) \in RowType /\ Retried(w, r).status # "ABSENT"
        /\ Retried(w, r).life = row[r].life
    BY <1>0, RetriedType, RetriedLife
  <2> QED
    BY <1>3, <2>1, <2>2
<1>7. ASSUME NEW w \in Workers, Crash(w) \/ \E r \in Rows : Deliver(w, r)
      PROVE  NotLongExpired'
  <2>1. UNCHANGED row
    BY <1>7 DEF Crash, Deliver
  <2>2. \A v \in Workers : /\ worker'[v].lot \subseteq worker[v].lot
                           /\ worker'[v].lot # {} =>
                                /\ worker'[v].age = worker[v].age
                                /\ worker'[v].expired = worker[v].expired
    <3>1. CASE Crash(w)
      BY <1>0, <3>1, IdleType DEF Crash
    <3>2. CASE \E r \in Rows : Deliver(w, r)
      <4>1. PICK r \in Rows, ok \in BOOLEAN :
                worker' = [worker EXCEPT ![w].hand = r, ![w].ok = ok]
        BY <3>2 DEF Deliver
      <4>2. worker'[w] = [[worker[w] EXCEPT !.hand = r] EXCEPT !.ok = ok]
        BY <1>0, <4>1
      <4>3. /\ worker'[w].lot = worker[w].lot /\ worker'[w].age = worker[w].age
            /\ worker'[w].expired = worker[w].expired
        BY <1>0, <4>2 DEF Lots
      <4> QED
        BY <1>0, <4>1, <4>3
    <3> QED
      BY <1>7, <3>1, <3>2
  <2> QED
    BY <2>1, <2>2, SameTime DEF NotLongExpired
<1>8. CASE Tick
  <2> SUFFICES ASSUME NEW w \in Workers, NEW r \in worker'[w].lot
               PROVE  /\ row'[r].status # "ABSENT"
                      /\ r \notin worker'[w].expired /\ row'[r].life # None
                            => row'[r].life + worker'[w].age > 0
    BY DEF NotLongExpired
  <2>1. /\ worker'[w].lot = worker[w].lot /\ worker'[w].expired = worker[w].expired
        /\ worker[w].lot # {} => worker'[w].age = worker[w].age + 1
    BY <1>0, <1>8 DEF Tick, Lots
  <2>2. r \in worker[w].lot /\ r \in Rows
    BY <1>0, <2>1
  <2>3. worker[w].age \in 0 .. LotTime /\ row[r].life \in Int \cup {None}
    BY <1>0, <2>2 DEF Lots, RowType
  <2>4. /\ row'[r].status = row[r].status
        /\ row'[r].life = IF row[r].life = None \/ row[r].life <= -LotTime
                          THEN row[r].life ELSE row[r].life - 1
    BY <1>0, <1>8, <2>2 DEF Tick, RowType
  <2>5. /\ row[r].status # "ABSENT"
        /\ r \notin worker[w].expired /\ row[r].life # None
            => row[r].life + worker[w].age > 0
    BY <2>2 DEF NotLongExpired
  <2> QED
    BY <2>1, <2>2, <2>3, <2>4, <2>5, OutboxAssumption
<1>9. CASE UNCHANGED vars
  BY <1>9 DEF vars, NotLongExpired
<1> QED
  BY <1>1, <1>2, <1>4, <1>5, <1>6, <1>7, <1>8, <1>9 DEF Next, WorkerStep

\* What is delivered had not expired when its lot was claimed.
LEMMA DeliverStep ==
    ASSUME IInv, NotLongExpired, [Next]_vars
    PROVE  \A r \in Rows : delivered'[r] # delivered[r] /\ row[r].life # None
                => row[r].life > -LotTime
<1>1. ASSUME NEW w \in Workers, NEW q \in Rows, Deliver(w, q),
             NEW r \in Rows, delivered'[r] # delivered[r], row[r].life # None
      PROVE  row[r].life > -LotTime
  <2>1. r = q /\ r \in worker[w].lot /\ r \notin worker[w].expired
    BY <1>1 DEF Deliver, IInv, TypeOK
  <2>2. row[r].life \in Int /\ worker[w].age \in 0 .. LotTime
    BY <1>1 DEF IInv, TypeOK
  <2>3. row[r].life + worker[w].age > 0
    BY <1>1, <2>1 DEF NotLongExpired
  <2> QED
    BY <2>2, <2>3, OutboxAssumption
<1>2. \/ \E w \in Workers, q \in Rows : Deliver(w, q)
      \/ UNCHANGED delivered
  BY DEF Next, WorkerStep, Enqueue, Claim, Expire, MarkSent, MarkFailed, Crash,
         Tick, vars
<1> QED
  BY <1>1, <1>2

\* A reminder arrives at most the length of a lot after it expired, whatever the
\* lease, the delays and the length of a lot are.
THEOREM TimelyCorrect == Spec => ReminderIsTimely
<1>1. IInv /\ NotLongExpired /\ [Next]_vars =>
        [\A r \in Rows : delivered'[r] # delivered[r] /\ row[r].life # None
            => row[r].life > -LotTime]_vars
  BY DeliverStep
<1> QED
  BY <1>1, ExpiryInit, ExpiryStep, OutboxSafety, PTL DEF Spec, ReminderIsTimely

-----------------------------------------------------------------------------
(* How often a row is tried.                                               *)

\* A row that waits has been tried for at most as often as there are delays, and a
\* dead one once more, or it was dead when it was enqueued (processDue, which
\* writes what it knew of the row when it was claimed).
AttemptsBounded ==
    \A r \in Rows :
        /\ row[r].status \in {"ABSENT", "PENDING"} => row[r].attempts = 0
        /\ Retryable(r) => row[r].attempts <= Len(Delays)
        /\ row[r].status = "DEAD" => row[r].attempts \in {0, Len(Delays) + 1}

\* So have the rows of a lot when they were claimed.
LotBounded ==
    \A w \in Workers : \A r \in worker[w].lot : worker[w].attempts[r] <= Len(Delays)

\* An attempt is counted once, and none is forgotten.
AttemptsCounted ==
    [][\A r \in Rows : row'[r].attempts \in {row[r].attempts, row[r].attempts + 1}]_vars

\* What a worker knows of the attempts of its lot is what the rows say, unless the
\* row has been marked and the worker did not learn of it.
LotIsCurrent ==
    \A w \in Workers : \A r \in worker[w].lot :
        row[r].attempts = worker[w].attempts[r] + IF MarkLost(w, r) THEN 1 ELSE 0

\* The attempts of a row that failed are those of its lot and one.
LEMMA RetriedAttempts ==
    ASSUME TypeOK, NEW w \in Workers, NEW r \in Rows
    PROVE  /\ Retried(w, r).attempts = worker[w].attempts[r] + 1
           /\ Retried(w, r).status = IF worker[w].attempts[r] + 1 > Len(Delays)
                                     THEN "DEAD" ELSE "RETRYING"
<1> DEFINE attempts == worker[w].attempts[r] + 1
           wait == Left(Delays[attempts], worker[w].age)
<1>1. row[r] \in RowType
  BY DEF TypeOK, RowType
<1>2. Retried(w, r) =
        IF attempts > Len(Delays)
        THEN [row[r] EXCEPT !.status = "DEAD", !.attempts = attempts]
        ELSE [row[r] EXCEPT !.status = "RETRYING", !.attempts = attempts,
                            !.wait = wait]
  BY DEF Retried
<1> HIDE DEF attempts, wait
<1>3. /\ Retried(w, r).attempts = attempts
      /\ Retried(w, r).status = IF attempts > Len(Delays) THEN "DEAD" ELSE "RETRYING"
  BY <1>1, <1>2 DEF RowType
<1> QED
  BY <1>3 DEF attempts

\* What a step does to the attempts of a row.
RowTried(r) ==
    \/ row'[r].status = row[r].status /\ row'[r].attempts = row[r].attempts
    \/ /\ row[r].status = "ABSENT"
       /\ row'[r].status \in {"PENDING", "DEAD"} /\ row'[r].attempts = 0
    \/ \E w \in Workers :
        /\ r \in worker[w].lot /\ r \notin worker'[w].lot
        /\ \/ row'[r].status = "EXPIRED" /\ row'[r].attempts = row[r].attempts
           \/ /\ row'[r].attempts = worker[w].attempts[r] + 1
              /\ row'[r].status = IF worker[w].attempts[r] + 1 > Len(Delays)
                                  THEN "DEAD" ELSE "RETRYING"
    \/ \E w \in Workers :
        /\ r \in worker[w].lot /\ worker[w].hand = r /\ worker[w].ok
        /\ row'[r].status = "SENT" /\ row'[r].attempts = row[r].attempts + 1
        /\ r \in worker'[w].lot => worker'[w].hand = r /\ ~ worker'[w].ok

\* What a step does to a lot.
LotTried(w) ==
    \A r \in worker'[w].lot :
        \/ /\ r \in worker[w].lot /\ worker'[w].attempts[r] = worker[w].attempts[r]
           /\ worker[w].hand = r =>
                worker'[w].hand = r /\ (worker'[w].ok => worker[w].ok)
        \/ /\ Retryable(r) /\ Retryable(r)'
           /\ worker'[w].attempts[r] = row[r].attempts
           /\ row'[r].attempts = row[r].attempts

\* Every step does that.
LEMMA TriedStep ==
    ASSUME TypeOK, [Next]_vars
    PROVE  (\A r \in Rows : RowTried(r)) /\ (\A w \in Workers : LotTried(w))
<1> DEFINE Tried == (\A r \in Rows : RowTried(r)) /\ (\A w \in Workers : LotTried(w))
           Kept(w) == \A r \in worker'[w].lot :
                        /\ r \in worker[w].lot
                        /\ worker'[w].attempts[r] = worker[w].attempts[r]
                        /\ worker[w].hand = r =>
                             worker'[w].hand = r /\ (worker'[w].ok => worker[w].ok)
<1>0. /\ row \in [Rows -> RowType] /\ worker \in [Workers -> Lots]
      /\ \A r \in Rows : row[r] \in RowType
      /\ \A w \in Workers : worker[w] \in Lots /\ worker[w].lot \subseteq Rows
  BY DEF TypeOK, RowType, Lots
<1>1. ASSUME NEW r \in Rows, Enqueue(r) PROVE Tried
  <2>1. PICK status \in {"PENDING", "DEAD"} :
            row' = [row EXCEPT ![r] =
                    [status |-> status, attempts |-> 0, wait |-> 0,
                     life |-> IF r \in Reminders THEN Life ELSE None]]
    BY <1>1 DEF Enqueue
  <2>2. /\ row'[r].status = status /\ row'[r].attempts = 0
        /\ \A q \in Rows : q # r => row'[q] = row[q]
    BY <1>0, <2>1
  <2>3. \A q \in Rows : RowTried(q)
    BY <1>1, <2>2 DEF Enqueue, RowTried
  <2>4. \A w \in Workers : LotTried(w)
    BY <1>1 DEF Enqueue, LotTried
  <2> QED
    BY <2>3, <2>4
<1>2. ASSUME NEW w \in Workers, Claim(w) PROVE Tried
  <2>1. PICK lot \in SUBSET {r \in Rows : IsDue(r)} :
            /\ row' = Claimed(lot)
            /\ worker' = [worker EXCEPT ![w] =
                    [lot |-> lot, expired |-> {r \in lot : Overdue(r)},
                     attempts |-> [r \in Rows |-> row[r].attempts],
                     hand |-> None, ok |-> FALSE, age |-> 0]]
    BY <1>2 DEF Claim
  <2>2. \A r \in Rows : /\ row'[r].status = row[r].status
                        /\ row'[r].attempts = row[r].attempts
    BY <1>0, <2>1 DEF Claimed, RowType
  <2>3. /\ worker'[w].lot = lot /\ worker'[w].attempts = [r \in Rows |-> row[r].attempts]
        /\ \A v \in Workers : v # w => worker'[v] = worker[v]
    BY <1>0, <2>1
  <2>4. \A r \in lot : r \in Rows /\ Retryable(r)
    BY <2>1 DEF IsDue
  <2>5. ASSUME NEW v \in Workers PROVE LotTried(v)
    <3>1. CASE v = w
      BY <2>2, <2>3, <2>4, <3>1 DEF LotTried, Retryable
    <3>2. CASE v # w
      BY <2>3, <3>2 DEF LotTried
    <3> QED
      BY <3>1, <3>2
  <2> QED
    BY <2>2, <2>5 DEF RowTried
<1>3. ASSUME NEW w \in Workers, NEW r \in worker[w].lot, Done(w, r), RowTried(r),
             worker[w].hand \in {r, None},
             \A q \in Rows : q # r => row'[q] = row[q]
      PROVE  Tried
  <2>1. r \in Rows
    BY <1>0 DEF Lots
  <2>2. \A q \in Rows : RowTried(q)
    BY <1>3, <2>1 DEF RowTried
  <2>3. /\ \A v \in Workers : v # w => worker'[v] = worker[v]
        /\ worker'[w].lot \subseteq worker[w].lot
        /\ worker'[w].lot # {} => worker'[w].attempts = worker[w].attempts
    BY <1>3, <2>1, DoneType, DoneExpired
  <2>4. \A q \in worker'[w].lot : q # r /\ q # None
    BY <1>0, <1>3, <2>1, DoneType, OutboxAssumption
  <2>5. \A v \in Workers : LotTried(v)
    BY <1>3, <2>3, <2>4 DEF LotTried
  <2> QED
    BY <2>2, <2>5
<1>4. ASSUME NEW w \in Workers, NEW r \in Rows, Expire(w, r) PROVE Tried
  <2>1. /\ r \in worker[w].lot /\ Done(w, r) /\ worker[w].hand = None
        /\ row' = [row EXCEPT ![r].status = "EXPIRED"]
    BY <1>4 DEF Expire
  <2>2. /\ row'[r].status = "EXPIRED" /\ row'[r].attempts = row[r].attempts
        /\ \A q \in Rows : q # r => row'[q] = row[q]
    BY <1>0, <2>1 DEF RowType
  <2>3. r \notin worker'[w].lot
    BY <2>1, DoneType
  <2>4. RowTried(r)
    BY <2>1, <2>2, <2>3 DEF RowTried
  <2> QED
    BY <1>3, <2>1, <2>2, <2>4
<1>5. ASSUME NEW w \in Workers, MarkSent(w) PROVE Tried
  <2>1. PICK r \in Rows :
            /\ r = worker[w].hand /\ r \in worker[w].lot /\ worker[w].ok
            /\ row' = [row EXCEPT ![r].status = "SENT", ![r].attempts = @ + 1]
            /\ Done(w, r) \/ Unanswered(w)
    BY <1>0, <1>5, OutboxAssumption DEF MarkSent, TypeOK
  <2>2. /\ row'[r].status = "SENT" /\ row'[r].attempts = row[r].attempts + 1
        /\ \A q \in Rows : q # r => row'[q] = row[q]
    BY <1>0, <2>1 DEF RowType
  <2>3. CASE Done(w, r)
    <3>1. r \notin worker'[w].lot
      BY <2>3, DoneType
    <3>2. RowTried(r)
      BY <2>1, <2>2, <3>1 DEF RowTried
    <3> QED
      BY <1>3, <2>1, <2>2, <2>3, <3>2
  <2>4. CASE Unanswered(w)
    <3>1. worker'[w].hand = r /\ ~ worker'[w].ok
      BY <2>1, <2>4, UnansweredType
    <3>2. \A q \in Rows : RowTried(q)
      BY <2>1, <2>2, <3>1 DEF RowTried
    <3>3. \A v \in Workers : Kept(v)
      BY <2>4, UnansweredType
    <3> QED
      BY <3>2, <3>3 DEF LotTried
  <2> QED
    BY <2>1, <2>3, <2>4
<1>6. ASSUME NEW w \in Workers, MarkFailed(w) PROVE Tried
  <2>1. PICK r \in Rows : /\ r = worker[w].hand /\ r \in worker[w].lot /\ Done(w, r)
                         /\ row' = [row EXCEPT ![r] = Retried(w, r)]
    BY <1>0, <1>6, OutboxAssumption DEF MarkFailed, TypeOK
  <2>2. row'[r] = Retried(w, r) /\ \A q \in Rows : q # r => row'[q] = row[q]
    BY <1>0, <2>1
  <2>3. r \notin worker'[w].lot
    BY <2>1, DoneType
  <2>4. RowTried(r)
    BY <2>1, <2>2, <2>3, RetriedAttempts DEF RowTried
  <2> QED
    BY <1>3, <2>1, <2>2, <2>4
<1>7. ASSUME NEW w \in Workers, Crash(w) \/ \E r \in Rows : Deliver(w, r)
      PROVE  Tried
  <2>1. UNCHANGED row
    BY <1>7 DEF Crash, Deliver
  <2>2. \A v \in Workers : Kept(v)
    <3>1. CASE Crash(w)
      BY <1>0, <3>1, IdleType DEF Crash
    <3>2. CASE \E r \in Rows : Deliver(w, r)
      <4>1. PICK r \in Rows, ok \in BOOLEAN :
                worker' = [worker EXCEPT ![w].hand = r, ![w].ok = ok]
        BY <3>2 DEF Deliver
      <4>2. worker'[w] = [[worker[w] EXCEPT !.hand = r] EXCEPT !.ok = ok]
        BY <1>0, <4>1
      <4>3. worker'[w].lot = worker[w].lot /\ worker'[w].attempts = worker[w].attempts
        BY <1>0, <4>2 DEF Lots
      <4>4. \A q \in worker[w].lot : worker[w].hand # q
        BY <1>0, <3>2, OutboxAssumption DEF Deliver
      <4> QED
        BY <1>0, <4>1, <4>3, <4>4
    <3> QED
      BY <1>7, <3>1, <3>2
  <2> QED
    BY <2>1, <2>2 DEF RowTried, LotTried
<1>8. CASE Tick
  <2>1. \A r \in Rows : /\ row'[r].status = row[r].status
                        /\ row'[r].attempts = row[r].attempts
    BY <1>0, <1>8 DEF Tick, RowType
  <2>2. \A w \in Workers : /\ worker'[w].lot = worker[w].lot
                           /\ worker'[w].attempts = worker[w].attempts
                           /\ worker'[w].hand = worker[w].hand
                           /\ worker'[w].ok = worker[w].ok
    BY <1>0, <1>8 DEF Tick, Lots
  <2> QED
    BY <2>1, <2>2 DEF RowTried, LotTried
<1>9. CASE UNCHANGED vars
  BY <1>9 DEF vars, RowTried, LotTried
<1> QED
  BY <1>1, <1>2, <1>4, <1>5, <1>6, <1>7, <1>8, <1>9 DEF Next, WorkerStep

\* Nothing has been tried at the start.
LEMMA TriedInit == Init => AttemptsBounded /\ LotBounded /\ LotIsCurrent
<1>1. Len(Delays) \in Nat
  BY OutboxAssumption
<1> QED
  BY <1>1, IdleType DEF Init, Absent, AttemptsBounded, LotBounded, LotIsCurrent, Retryable

\* Every step keeps the bounds.
LEMMA BoundStep ==
    IInv /\ AttemptsBounded /\ LotBounded /\ [Next]_vars
        => AttemptsBounded' /\ LotBounded'
<1> SUFFICES ASSUME IInv, AttemptsBounded, LotBounded, [Next]_vars
             PROVE  AttemptsBounded' /\ LotBounded'
  OBVIOUS
<1>1. TypeOK /\ Len(Delays) \in Nat
  BY OutboxAssumption DEF IInv
<1>2. (\A r \in Rows : RowTried(r)) /\ (\A w \in Workers : LotTried(w))
  BY <1>1, TriedStep
<1>3. ASSUME NEW r \in Rows
      PROVE  /\ row'[r].status \in {"ABSENT", "PENDING"} => row'[r].attempts = 0
             /\ Retryable(r)' => row'[r].attempts <= Len(Delays)
             /\ row'[r].status = "DEAD" => row'[r].attempts \in {0, Len(Delays) + 1}
  <2>1. ASSUME NEW w \in Workers, r \in worker[w].lot
        PROVE  worker[w].attempts[r] \in Nat /\ worker[w].attempts[r] <= Len(Delays)
    BY <1>1, <2>1 DEF TypeOK, LotBounded
  <2> QED
    BY <1>1, <1>2, <2>1 DEF RowTried, AttemptsBounded, Retryable
<1>4. LotBounded'
  <2> SUFFICES ASSUME NEW w \in Workers, NEW r \in worker'[w].lot
               PROVE  worker'[w].attempts[r] <= Len(Delays)
    BY DEF LotBounded
  <2>1. r \in Rows
    BY StepInv DEF IInv, TypeOK
  <2> QED
    BY <1>2, <2>1 DEF LotTried, LotBounded, AttemptsBounded
<1> QED
  BY <1>3, <1>4 DEF AttemptsBounded

\* No row is tried for ever: at most once more than there are delays, and a dead
\* one was tried that often. It holds for lots that outlive their lease as well.
THEOREM AttemptsCorrect == Spec => []AttemptsBounded
BY TriedInit, BoundStep, OutboxSafety, PTL DEF Spec

\* With one worker per row, what a worker knows of its rows stays current, and
\* what it writes is one attempt more.
LEMMA CountStep ==
    ASSUME IInv, LeaseInv, AttemptsBounded, LotIsCurrent, [Next]_vars
    PROVE  /\ LotIsCurrent'
           /\ \A r \in Rows : row'[r].attempts \in {row[r].attempts, row[r].attempts + 1}
<1>1. TypeOK /\ \A w \in Workers : worker[w].lot \subseteq Rows
  BY DEF IInv, TypeOK
<1>2. (\A r \in Rows : RowTried(r)) /\ (\A w \in Workers : LotTried(w))
  BY <1>1, TriedStep
<1>3. ASSUME NEW r \in Rows
      PROVE  row'[r].attempts \in {row[r].attempts, row[r].attempts + 1}
  <2>1. ASSUME NEW w \in Workers, r \in worker[w].lot
        PROVE  worker[w].attempts[r] + 1 \in {row[r].attempts, row[r].attempts + 1}
    BY <1>1, <2>1 DEF LotIsCurrent, TypeOK
  <2> QED
    BY <1>2, <2>1 DEF RowTried, AttemptsBounded
<1>4. LotIsCurrent'
  <2> SUFFICES ASSUME NEW w \in Workers, NEW r \in worker'[w].lot
               PROVE  row'[r].attempts =
                        worker'[w].attempts[r] + IF MarkLost(w, r)' THEN 1 ELSE 0
    BY DEF LotIsCurrent
  <2>1. CASE /\ r \in worker[w].lot /\ worker'[w].attempts[r] = worker[w].attempts[r]
             /\ worker[w].hand = r =>
                  worker'[w].hand = r /\ (worker'[w].ok => worker[w].ok)
    <3>1. r \in Rows /\ (Retryable(r) \/ MarkLost(w, r))
      BY <1>1, <2>1 DEF LeaseInv, PutOff
    <3>2. \A v \in Workers : r \in worker[v].lot => v = w
      BY <2>1 DEF LeaseInv, OneWorkerPerRow
    <3>3. row[r].attempts = worker[w].attempts[r] + IF MarkLost(w, r) THEN 1 ELSE 0
      BY <2>1 DEF LotIsCurrent
    <3>4. CASE row'[r].status = row[r].status /\ row'[r].attempts = row[r].attempts
      <4>1. MarkLost(w, r)' <=> MarkLost(w, r)
        BY <2>1, <3>1, <3>4 DEF MarkLost, Retryable
      <4> QED
        BY <2>1, <3>3, <3>4, <4>1
    <3>5. CASE /\ worker[w].ok /\ row'[r].attempts = row[r].attempts + 1
               /\ row'[r].status = "SENT" /\ worker'[w].hand = r /\ ~ worker'[w].ok
      <4>1. MarkLost(w, r)' /\ ~ MarkLost(w, r)
        BY <3>5 DEF MarkLost
      <4>2. worker[w].attempts[r] \in Nat
        BY <1>1, <3>1 DEF TypeOK
      <4> QED
        BY <2>1, <3>3, <3>5, <4>1, <4>2
    <3> QED
      BY <1>2, <3>1, <3>2, <3>4, <3>5 DEF RowTried, Retryable, MarkLost
  <2>2. CASE /\ Retryable(r)' /\ worker'[w].attempts[r] = row[r].attempts
             /\ row'[r].attempts = row[r].attempts
    <3>1. ~ MarkLost(w, r)'
      BY <2>2 DEF Retryable, MarkLost
    <3>2. r \in Rows
      BY StepInv DEF IInv, TypeOK
    <3>3. row[r].attempts \in Nat
      BY <1>1, <3>2 DEF TypeOK
    <3> QED
      BY <2>2, <3>1, <3>3
  <2> QED
    BY <1>2, <2>1, <2>2 DEF LotTried
<1> QED
  BY <1>3, <1>4

\* As long as no lot outlives the lease, an attempt is counted once and none is
\* forgotten, so a row that is given up has had all of its attempts.
THEOREM CountedCorrect ==
    ASSUME LotTime < Lease
    PROVE  Spec => AttemptsCounted
<1>1. IInv /\ LeaseInv /\ [Next]_vars => LeaseInv'
  BY LeaseStep
<1>2. IInv /\ LeaseInv /\ AttemptsBounded /\ LotIsCurrent /\ [Next]_vars
        => LotIsCurrent'
  BY CountStep
<1>3. IInv /\ LeaseInv /\ AttemptsBounded /\ LotIsCurrent /\ [Next]_vars =>
        [\A r \in Rows : row'[r].attempts \in {row[r].attempts, row[r].attempts + 1}]_vars
  BY CountStep
<1> QED
  BY <1>1, <1>2, <1>3, LeaseInit, TriedInit, OutboxSafety, AttemptsCorrect,
     PTL DEF Spec, AttemptsCounted

=============================================================================
