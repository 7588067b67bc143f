---------------------------- MODULE CronLockProofs ----------------------------
(***************************************************************************)
(* The safety of CronLock for any number of instances, callbacks, any time *)
(* to live and any bound of the clock. HolderKeepsRow is inductive once it *)
(* is known that nobody read a time that is still to come: who takes an    *)
(* expired row over read a time after it expired, so its holder is out of  *)
(* its time.                                                               *)
(***************************************************************************)
EXTENDS CronLock, TLAPS

\* Who holds the row by itself is in the job or about to let go, and read a time
\* that has come.
CoveredSince ==
    \A p \in Runs : /\ run[p].since <= now
                    /\ run[p].covered => Doing(p) \/ At(p, "releasing")

\* One callback of an instance holds the row by itself.
OneCovered ==
    \A p, q \in Runs : run[p].covered /\ run[q].covered /\ p[1] = q[1] => p = q

IInv == TypeOK /\ CoveredSince /\ OneCovered /\ HolderKeepsRow

\* A row that is written has the type of a row and is not NULL.
LEMMA LeaseType ==
    ASSUME TypeOK, NEW p \in Runs
    PROVE  /\ Lease(p) \in Locks /\ Lease(p) # None
           /\ Lease(p).by = p[1] /\ Lease(p).expiresAt = run[p].since + Ttl
<1>1. p[1] \in Instances /\ run[p].since \in Instants
  BY DEF TypeOK, Runs
<1> QED
  BY <1>1, LockAssumption DEF Lease, Locks, Instants

\* A callback that does nothing has the type of one.
LEMMA IdleType ==
    /\ Idle \in [at : Steps, since : Instants, covered : BOOLEAN]
    /\ Idle.at = "idle" /\ Idle.since = 0 /\ Idle.covered = FALSE
BY LockAssumption DEF Idle, Steps, Instants

\* The first state satisfies the invariant.
LEMMA InitInv == Init => IInv
BY LockAssumption DEF Init, IInv, TypeOK, CoveredSince, OneCovered, HolderKeepsRow,
   Idle, Steps, Instants, Doing, At

\* A step that writes no row and moves a callback that holds none, or keeps what
\* it does as far as the row is concerned.
LEMMA SameRow ==
    ASSUME IInv, TypeOK', lock' = lock, now' = now,
           \A p \in Runs :
              /\ run'[p].since <= now
              /\ run'[p].covered => /\ run[p].covered
                                    /\ run'[p].since = run[p].since
                                    /\ Doing(p)' \/ At(p, "releasing")'
                                    /\ Doing(p)' => Doing(p)
    PROVE  IInv'
<1>1. CoveredSince' /\ OneCovered'
  BY DEF IInv, CoveredSince, OneCovered
<1>2. HolderKeepsRow'
  BY DEF IInv, HolderKeepsRow, InTime, Lease
<1> QED
  BY <1>1, <1>2 DEF IInv

\* A callback writes the row, when the one that holds it is out of its time, is
\* of the same instance, or there is none.
LEMMA HoldStep ==
    ASSUME IInv, NEW p \in Runs, Hold(p), UNCHANGED <<flag, now>>,
           \/ lock = None
           \/ lock.expiresAt < run[p].since
           \/ lock.by = p[1]
    PROVE  IInv'
<1> USE DEF IInv
<1>1. \A q \in Runs :
        run'[q] = IF q = p THEN [run[p] EXCEPT !.at = "locked", !.covered = TRUE]
                  ELSE IF q[1] = p[1] THEN [run[q] EXCEPT !.covered = FALSE]
                  ELSE run[q]
  BY DEF Hold
<1>2. \A q \in Runs : run[q] \in [at : Steps, since : Instants, covered : BOOLEAN]
  BY DEF TypeOK
<1>3. /\ run'[p].at = "locked" /\ run'[p].covered
      /\ \A q \in Runs : run'[q].since = run[q].since
      /\ \A q \in Runs : q # p => /\ run'[q].at = run[q].at
                                  /\ run'[q].covered =>
                                        run[q].covered /\ q[1] # p[1]
  BY <1>1, <1>2
<1>4. TypeOK'
  <2>1. run' \in [Runs -> [at : Steps, since : Instants, covered : BOOLEAN]]
    BY <1>1, <1>2 DEF Hold, Steps
  <2>2. lock' \in Locks
    BY LeaseType DEF Hold
  <2> QED
    BY <2>1, <2>2 DEF TypeOK
<1>5. CoveredSince'
  BY <1>3 DEF CoveredSince, Doing, At
<1>6. OneCovered'
  BY <1>3 DEF OneCovered
<1>7. HolderKeepsRow'
  <2> SUFFICES ASSUME NEW q \in Runs, Doing(q)', run'[q].covered, InTime(q)'
               PROVE  lock' = Lease(q)'
    BY DEF HolderKeepsRow
  <2>1. CASE q = p
    BY <1>3, <2>1 DEF Hold, Lease
  <2>2. CASE q # p
    <3>1. Doing(q) /\ run[q].covered /\ InTime(q) /\ q[1] # p[1]
      BY <1>3, <2>2 DEF Doing, At, InTime
    <3>2. lock = Lease(q)
      BY <3>1 DEF HolderKeepsRow
    <3>3. lock # None /\ lock.by = q[1] /\ lock.expiresAt = run[q].since + Ttl
      BY <3>2, LeaseType
    <3>4. run[p].since <= now /\ now <= lock.expiresAt
      BY <3>1, <3>3 DEF CoveredSince, InTime
    <3>5. ~ (lock.expiresAt < run[p].since)
      BY <1>2, <3>3, <3>4, LockAssumption DEF TypeOK, Instants
    <3> QED
      BY <3>1, <3>3, <3>5
  <2> QED
    BY <2>1, <2>2
<1> QED
  BY <1>4, <1>5, <1>6, <1>7

\* Every step keeps it.
LEMMA StepInv == IInv /\ [Next]_vars => IInv'
<1> SUFFICES ASSUME IInv, [Next]_vars PROVE IInv'
  OBVIOUS
<1> USE DEF IInv
<1>0. \A p \in Runs : run[p] \in [at : Steps, since : Instants, covered : BOOLEAN]
  BY DEF TypeOK
<1>1. ASSUME NEW p \in Runs, Fire(p) PROVE IInv'
  <2>1. TypeOK'
    BY <1>0, <1>1 DEF Fire, TypeOK, Steps
  <2> QED
    BY <1>0, <1>1, <2>1, SameRow DEF Fire, CoveredSince, Doing, At, TypeOK, Instants
<1>2. ASSUME NEW p \in Runs, Reclaim(p) PROVE IInv'
  <2>1. CASE Reclaimable(p)
    BY <1>2, <2>1, HoldStep DEF Reclaim, Reclaimable
  <2>2. CASE ~ Reclaimable(p)
    <3>1. Move(p, "creating") /\ At(p, "locking") /\ UNCHANGED <<lock, flag, now>>
      BY <1>2, <2>2 DEF Reclaim
    <3>2. TypeOK'
      BY <1>0, <3>1 DEF TypeOK, Move, Steps
    <3> QED
      BY <1>0, <3>1, <3>2, SameRow DEF Move, CoveredSince, Doing, At, TypeOK
  <2> QED
    BY <2>1, <2>2
<1>3. ASSUME NEW p \in Runs, Create(p) PROVE IInv'
  <2>1. CASE lock = None
    BY <1>3, <2>1, HoldStep DEF Create
  <2>2. CASE lock # None
    <3>1. Rest(p) /\ UNCHANGED <<lock, flag, now>>
      BY <1>3, <2>2 DEF Create
    <3>2. TypeOK'
      BY <3>1, IdleType DEF TypeOK, Rest
    <3> QED
      BY <1>0, <3>1, <3>2, IdleType, SameRow
         DEF Rest, CoveredSince, Doing, At, TypeOK, Instants
  <2> QED
    BY <2>1, <2>2
<1>4. ASSUME NEW p \in Runs, Fail(p) PROVE IInv'
  <2>1. TypeOK'
    BY <1>4, IdleType DEF Fail, Rest, TypeOK
  <2> QED
    BY <1>0, <1>4, <2>1, IdleType, SameRow
       DEF Fail, Rest, CoveredSince, Doing, At, TypeOK, Instants
<1>5. ASSUME NEW p \in Runs, Begin(p) \/ End(p) PROVE IInv'
  <2>1. TypeOK'
    <3>1. run' \in [Runs -> [at : Steps, since : Instants, covered : BOOLEAN]]
      BY <1>0, <1>5 DEF Begin, End, Move, TypeOK, Steps
    <3>2. flag' \in [Instances -> BOOLEAN]
      BY <1>5 DEF Begin, End, TypeOK
    <3> QED
      BY <1>5, <3>1, <3>2 DEF Begin, End, TypeOK
  <2> QED
    BY <1>0, <1>5, <2>1, SameRow
       DEF Begin, End, Move, CoveredSince, Doing, At, TypeOK
<1>6. ASSUME NEW p \in Runs, Release(p) PROVE IInv'
  <2>1. \A q \in Runs : run'[q] = IF q = p THEN Idle
                                  ELSE IF q[1] = p[1]
                                       THEN [run[q] EXCEPT !.covered = FALSE]
                                       ELSE run[q]
    BY <1>6 DEF Release
  <2>2. /\ run'[p].since = 0 /\ ~ run'[p].covered
        /\ \A q \in Runs : q # p =>
              /\ run'[q].at = run[q].at /\ run'[q].since = run[q].since
              /\ run'[q].covered => run[q].covered /\ q[1] # p[1]
    <3>1. run'[p] = Idle
      BY <2>1
    <3>2. \A q \in Runs : q # p => run'[q] = IF q[1] = p[1]
                                           THEN [run[q] EXCEPT !.covered = FALSE]
                                           ELSE run[q]
      BY <2>1
    <3> QED
      BY <1>0, <3>1, <3>2, IdleType
  <2>3. TypeOK'
    <3>1. run' \in [Runs -> [at : Steps, since : Instants, covered : BOOLEAN]]
      BY <1>0, <1>6, IdleType DEF Release
    <3> QED
      BY <1>6, <3>1 DEF Release, TypeOK
  <2>4. CoveredSince'
    BY <1>6, <2>2 DEF Release, CoveredSince, Doing, At, TypeOK, Instants
  <2>5. OneCovered'
    BY <2>2 DEF OneCovered
  <2>6. HolderKeepsRow'
    <3> SUFFICES ASSUME NEW q \in Runs, Doing(q)', run'[q].covered, InTime(q)'
                 PROVE  lock' = Lease(q)'
      BY DEF HolderKeepsRow
    <3>1. q # p /\ Doing(q) /\ run[q].covered /\ InTime(q) /\ q[1] # p[1]
      BY <1>6, <2>2 DEF Release, Doing, At, InTime
    <3>2. lock = Lease(q) /\ lock.by = q[1]
      BY <3>1, LeaseType DEF HolderKeepsRow
    <3>3. ~ Mine(p)
      BY <3>1, <3>2 DEF Mine
    <3> QED
      BY <1>6, <2>2, <3>1, <3>2, <3>3 DEF Release, Lease
  <2> QED
    BY <2>3, <2>4, <2>5, <2>6
<1>7. ASSUME NEW i \in Instances, Crash(i) PROVE IInv'
  <2>1. \A p \in Runs : run'[p] = IF p[1] = i THEN Idle ELSE run[p]
    BY <1>7 DEF Crash
  <2>2. TypeOK'
    BY <1>0, <1>7, LockAssumption DEF Crash, Idle, TypeOK, Steps, Instants
  <2>3. \A p \in Runs : \/ run'[p] = run[p]
                        \/ run'[p].since = 0 /\ ~ run'[p].covered
    BY <2>1 DEF Idle
  <2> QED
    BY <1>7, <2>2, <2>3, SameRow DEF Crash, CoveredSince, Doing, At, TypeOK, Instants
<1>8. CASE Tick
  <2>1. TypeOK'
    BY <1>8, LockAssumption DEF Tick, TypeOK, Instants
  <2>2. CoveredSince' /\ OneCovered'
    BY <1>0, <1>8 DEF Tick, TypeOK, CoveredSince, OneCovered, Doing, At, Instants
  <2>3. HolderKeepsRow'
    BY <1>0, <1>8, LockAssumption
       DEF Tick, TypeOK, HolderKeepsRow, Doing, At, InTime, Lease, Instants
  <2> QED
    BY <2>1, <2>2, <2>3
<1>9. CASE UNCHANGED vars
  BY <1>9 DEF vars, TypeOK, CoveredSince, OneCovered, HolderKeepsRow, Doing, At,
              InTime, Lease
<1> QED
  BY <1>1, <1>2, <1>3, <1>4, <1>5, <1>6, <1>7, <1>8, <1>9 DEF Next, RunStep

-----------------------------------------------------------------------------
\* The inductive invariant holds in every state.
THEOREM LockSafety == Spec => []IInv
BY InitInv, StepInv, PTL DEF Spec

\* Nobody takes the row of a callback that is in its time, whatever crashes,
\* fails or is late.
THEOREM HolderCorrect == Spec => []HolderKeepsRow
<1>1. IInv => HolderKeepsRow
  BY DEF IInv
<1> QED
  BY <1>1, LockSafety, PTL

\* Two callbacks that hold the row by themselves are not in the job together.
THEOREM ReplicaCorrect == Spec => []OneReplica
<1>1. IInv => OneReplica
  <2> SUFFICES ASSUME IInv, NEW p \in Runs, NEW q \in Runs,
                      Doing(p), run[p].covered, InTime(p),
                      Doing(q), run[q].covered, InTime(q)
               PROVE  p = q
    BY DEF OneReplica
  <2>1. Lease(p) = Lease(q)
    BY DEF IInv, HolderKeepsRow
  <2>2. p[1] = q[1]
    BY <2>1, LeaseType DEF IInv
  <2> QED
    BY <2>2 DEF IInv, OneCovered
<1> QED
  BY <1>1, LockSafety, PTL

\* The row changes hands between instances only after it expired.
THEOREM TakenCorrect == Spec => TakenWhenExpired
<1>1. IInv /\ [Next]_vars =>
        [(lock # None /\ lock' # None /\ lock'.by # lock.by)
            => lock.expiresAt < now]_vars
  <2> SUFFICES ASSUME IInv, Next, lock # None, lock' # None, lock'.by # lock.by
               PROVE  lock.expiresAt < now
    BY DEF vars
  <2>1. PICK p \in Runs : Reclaim(p) \/ Create(p)
    <3>1. lock' # lock
      OBVIOUS
    <3> QED
      BY <3>1 DEF Next, RunStep, Fire, Fail, Begin, End, Release, Crash, Tick
  <2>2. Hold(p) /\ lock.by # p[1]
    BY <2>1, LeaseType DEF Reclaim, Create, Hold, IInv
  <2>3. lock.expiresAt < run[p].since
    BY <2>1, <2>2 DEF Reclaim, Create, Reclaimable
  <2>4. lock \in Locks /\ run[p].since \in Instants /\ now \in Instants
    BY DEF IInv, TypeOK
  <2>5. run[p].since <= now
    BY DEF IInv, CoveredSince
  <2> QED
    BY <2>3, <2>4, <2>5, LockAssumption DEF Locks, Instants
<1> QED
  BY <1>1, LockSafety, PTL DEF Spec, TakenWhenExpired

-----------------------------------------------------------------------------
(* How long a row lasts.                                                   *)

\* Whoever wrote the row, it expires when its time to live is over, counted from
\* now: a dead instance keeps the others out no longer (tryAcquireLockWithCleanup).
ExpiryIsNear == lock # None => lock.expiresAt <= now + Ttl

\* The row is written by a callback that read a time that has come, and its expiry
\* is moved by nothing else.
LEMMA ExpiryStep == IInv /\ ExpiryIsNear /\ [Next]_vars => ExpiryIsNear'
<1> SUFFICES ASSUME IInv, ExpiryIsNear, [Next]_vars PROVE ExpiryIsNear'
  OBVIOUS
<1>1. now \in Nat /\ now' \in Nat /\ now <= now' /\ Ttl \in Nat
  <2>1. now \in Nat /\ Ttl \in Nat
    BY LockAssumption DEF IInv, TypeOK, Instants
  <2>2. now' \in {now, now + 1}
    BY DEF Next, RunStep, Fire, Reclaim, Create, Fail, Begin, End, Release, Crash, Tick,
        vars
  <2> QED
    BY <2>1, <2>2
<1>2. \/ lock' \in {lock, None}
      \/ \E p \in Runs : lock' = Lease(p)
  BY DEF Next, RunStep, Fire, Reclaim, Create, Hold, Fail, Begin, End, Release, Crash,
      Tick, vars
<1>3. lock # None => lock.expiresAt \in Nat
  BY LockAssumption DEF IInv, TypeOK, Locks
<1>4. ASSUME NEW p \in Runs
      PROVE  /\ Lease(p).expiresAt = run[p].since + Ttl
             /\ run[p].since \in Nat /\ run[p].since <= now
  BY LeaseType DEF IInv, TypeOK, CoveredSince, Instants
<1> QED
  BY <1>1, <1>2, <1>3, <1>4 DEF ExpiryIsNear

\* No row keeps the job from the others for longer than its time to live.
THEOREM ExpiryCorrect == Spec => []ExpiryIsNear
<1>1. Init => ExpiryIsNear
  BY DEF Init, ExpiryIsNear
<1> QED
  BY <1>1, ExpiryStep, LockSafety, PTL DEF Spec

=============================================================================
