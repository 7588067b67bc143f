--------------------------- MODULE CarryOverProofs ---------------------------
(***************************************************************************)
(* The chains of carried work, for any people, tasks, days, rows and items *)
(* of a review. A review works out its items one by one from rows that it  *)
(* has read, while others review and cancel. What still holds when it      *)
(* commits is that the rows around its report start or end on it, and that *)
(* the chain of a new item either has landed on the report or is known to  *)
(* no row and to no other review.                                          *)
(***************************************************************************)
EXTENDS CarryOver, SequenceTheorems, FiniteSetTheorems, WellFoundedInduction, TLAPS

Report == [rev : Nat, tasks : SUBSET Tasks, waits : BOOLEAN]
Review == [report : Days, rev : Nat, by : Users, decision : Decisions]
Row == [chain : Nat, from : Days, to : Nat, task : Work, review : Nat,
        confirmedBy : Nat, cancelled : BOOLEAN]
ReviewReqs == [op : {"review"}, report : Days, rev : Nat, to : Nat,
               allowed : SUBSET Tasks, around : SUBSET RowIds, items : SUBSET Items]
CancelReqs == [op : {"cancel"}, row : RowIds, confirmedBy : Nat, seen : Nat]

Reviewing(u) == req[u].op = "review"
Cancelling(u) == req[u].op = "cancel"

\* The items are collected one by one.
ItemsAreFinite == \A u \in Users : Reviewing(u) => IsFiniteSet(req[u].items)

\* The rows around a report start or end on it, whatever is written to them.
AroundStands ==
    \A u \in Users : Reviewing(u) =>
        \A id \in req[u].around :
            /\ id \in DOMAIN rows
            /\ rows[id].to = req[u].report \/ rows[id].from = req[u].report

Landed(chain, day) == \E id \in DOMAIN rows : rows[id].chain = chain /\ rows[id].to = day

\* The chain is known to this request only.
KnownTo(u, chain) ==
    /\ \A id \in DOMAIN rows : rows[id].chain # chain
    /\ \A v \in Users : v # u /\ Reviewing(v) =>
            \A item \in req[v].items : item.chain # chain

\* A new row of a review continues a chain that has landed on the report, or begins
\* one.
ItemsStand ==
    \A u \in Users : Reviewing(u) =>
        \A item \in req[u].items :
            item.confirm = 0 => Landed(item.chain, req[u].report) \/ KnownTo(u, item.chain)

\* A row stands for reviews that there are.
RowsStand ==
    \A id \in DOMAIN rows : /\ rows[id].review <= Len(reviews)
                            /\ rows[id].confirmedBy <= Len(reviews)

\* Who is about to cancel has seen the review that made the row and the one that
\* had confirmed it last.
CancelSeen ==
    \A u \in Users : Cancelling(u) =>
        /\ req[u].row \in DOMAIN rows
        /\ rows[req[u].row].review <= req[u].seen
        /\ req[u].confirmedBy <= req[u].seen

Collecting == ItemsAreFinite /\ AroundStands /\ ItemsStand
Cancellations == RowsStand /\ CancelSeen

IInv == TypeOK /\ Collecting /\ Cancellations /\ CarriedOnce /\ ChainsAreLinked

-----------------------------------------------------------------------------
(* Numbers and sequences.                                                  *)

\* Every set of naturals has a least element.
LEMMA LeastOf ==
    ASSUME NEW S \in SUBSET Nat, S # {}
    PROVE  \E x \in S : \A y \in S : x <= y
<1>1. PICK x \in S : \A y \in S : ~ (<<y, x>> \in OpToRel(<, Nat))
  BY NatLessThanWellFounded, WFMin
<1>2. \A y \in S : ~ (y < x)
  BY <1>1 DEF OpToRel
<1> QED
  BY <1>2

\* What Min chooses of a set of numbers is the least of them.
LEMMA MinIs ==
    ASSUME NEW S \in SUBSET Nat, S # {}
    PROVE  Min(S) \in S /\ \A y \in S : Min(S) <= y
BY LeastOf DEF Min

\* The greatest element of a bounded set is the farthest from the bound least.
LEMMA MaxIs ==
    ASSUME NEW n \in Nat, NEW S \in SUBSET (1 .. n), S # {}
    PROVE  Max(S) \in S
<1> DEFINE T == {n - x : x \in S}
<1>1. T \in SUBSET Nat /\ T # {}
  <2>1. \A x \in S : n - x \in Nat
    OBVIOUS
  <2> QED
    BY <2>1
<1> HIDE DEF T
<1>2. PICK t \in T : \A y \in T : t <= y
  BY <1>1, LeastOf
<1>3. PICK x \in S : \A y \in S : n - x <= n - y
  BY <1>2 DEF T
<1>4. \E z \in S : \A y \in S : z >= y
  BY <1>3
<1> QED
  BY <1>4 DEF Max

\* Of more numbers than a set has members, one is not among them.
LEMMA NumberIsLeft ==
    ASSUME NEW a \in Nat, NEW T, IsFiniteSet(T)
    PROVE  (a .. a + Cardinality(T)) \ T # {}
<1> DEFINE c == Cardinality(T)
<1>1. c \in Nat
  BY FS_CardinalityType
<1>2. Cardinality(a .. a + c) = c + 1
  <2> HIDE DEF c
  <2> QED
    BY <1>1, FS_Interval
<1>3. ASSUME (a .. a + c) \ T = {} PROVE FALSE
  <2>1. (a .. a + c) \in SUBSET T
    BY <1>3
  <2>2. Cardinality(a .. a + c) <= c
    BY <2>1, FS_Subset
  <2> QED
    BY <1>1, <1>2, <2>2
<1> QED
  BY <1>3

\* The members of a finite set, one by one.
LEMMA SetToSeqIs ==
    ASSUME NEW S, IsFiniteSet(S)
    PROVE  /\ Cardinality(S) \in Nat
           /\ SetToSeq(S) \in [1 .. Cardinality(S) -> S]
           /\ \A i, j \in 1 .. Cardinality(S) : SetToSeq(S)[i] = SetToSeq(S)[j] => i = j
           /\ \A x \in S : \E i \in 1 .. Cardinality(S) : SetToSeq(S)[i] = x
<1> DEFINE n == Cardinality(S)
<1>1. n \in Nat /\ ExistsBijection(1 .. n, S)
  BY FS_CardinalityType
<1>2. PICK f \in [1 .. n -> S] : IsInjective(f)
  BY <1>1 DEF ExistsBijection, Bijection, Injection
<1>3. SetToSeq(S) \in [1 .. n -> S] /\ IsInjective(SetToSeq(S))
  BY <1>2 DEF SetToSeq
<1>4. SetToSeq(S) \in Surjection(1 .. n, S)
  <2> DEFINE g == SetToSeq(S)
  <2>1. g \in Injection(1 .. n, S)
    BY <1>3 DEF Injection
  <2>2. Cardinality(1 .. n) = n
    <3> HIDE DEF n
    <3> QED
      BY <1>1, FS_Interval
  <2> HIDE DEF g
  <2>3. Cardinality(1 .. n) = Cardinality(S)
    BY <2>2
  <2> QED
    BY <2>1, <2>3, FS_Injection DEF g
<1> QED
  BY <1>1, <1>3, <1>4 DEF IsInjective, Surjection

-----------------------------------------------------------------------------
(* What the requests read and write.                                       *)

\* There is a next working day.
LEMMA NextWorkingDateIs ==
    ASSUME NEW day \in Nat
    PROVE  NextWorkingDate(day) \in Nat
<1> DEFINE S == (day + 1 .. day + 1 + Cardinality(RestDays)) \ RestDays
<1>1. S # {}
  BY CarryAssumption, NumberIsLeft
<1>2. S \in SUBSET Nat
  OBVIOUS
<1> HIDE DEF S
<1>3. Min(S) \in Nat
  BY <1>1, <1>2, MinIs
<1> QED
  BY <1>3 DEF NextWorkingDate, S

\* A request under way is a review or a cancellation, with the fields of one.
LEMMA RequestRead ==
    ASSUME TypeOK, NEW u \in Users
    PROVE  /\ req[u] \in Requests
           /\ Reviewing(u) => req[u] \in ReviewReqs
           /\ Cancelling(u) => req[u] \in CancelReqs
<1>1. req[u] \in Requests
  BY DEF TypeOK
<1>2. req[u] = Idle \/ req[u] \in ReviewReqs \/ req[u] \in CancelReqs
  BY <1>1 DEF Requests, ReviewReqs, CancelReqs
<1> QED
  BY <1>1, <1>2 DEF Reviewing, Cancelling, ReviewReqs, CancelReqs, Idle

\* The rows there are, and how many.
LEMMA RowsRead ==
    ASSUME TypeOK
    PROVE  /\ rows \in Seq(Row) /\ Len(rows) \in Nat /\ DOMAIN rows = 1 .. Len(rows)
           /\ \A id \in DOMAIN rows : rows[id] \in Row
           /\ Len(rows) <= MaxRows /\ DOMAIN rows \subseteq RowIds
<1>1. rows \in Seq(Row) /\ Len(rows) <= MaxRows
  BY DEF TypeOK, Row
<1>2. Len(rows) \in Nat /\ DOMAIN rows = 1 .. Len(rows)
  BY <1>1, LenProperties
<1>3. \A id \in 1 .. Len(rows) : rows[id] \in Row
  BY <1>1, ElementOfSeq
<1> QED
  BY <1>1, <1>2, <1>3, CarryAssumption DEF RowIds

\* The reviews there are are a sequence.
LEMMA ReviewsRead ==
    ASSUME TypeOK
    PROVE  reviews \in Seq(Review) /\ Len(reviews) \in Nat
<1>1. reviews \in Seq(Review)
  BY DEF TypeOK, Review
<1> QED
  BY <1>1, LenProperties

\* A step writes the local variables of one request.
LEMMA PutRequest ==
    ASSUME TypeOK, NEW u \in Users, NEW q \in Requests, req' = [req EXCEPT ![u] = q]
    PROVE  /\ req' \in [Users -> Requests] /\ req'[u] = q
           /\ \A v \in Users : v # u => req'[v] = req[v]
BY DEF TypeOK

\* Who has no request under way may be written.
LEMMA IdleIs == Idle \in Requests /\ Idle.op = "idle"
BY DEF Idle, Requests

ReviewReq(day, rev, to, allowed, around, items) ==
    [op |-> "review", report |-> day, rev |-> rev, to |-> to, allowed |-> allowed,
     around |-> around, items |-> items]

\* The fields of a review under way.
LEMMA ReviewReqIs ==
    ASSUME NEW day \in Days, NEW rev \in Nat, NEW to \in Nat,
           NEW allowed \in SUBSET Tasks, NEW around \in SUBSET RowIds,
           NEW items \in SUBSET Items
    PROVE  LET q == ReviewReq(day, rev, to, allowed, around, items)
           IN  /\ q \in ReviewReqs /\ q \in Requests /\ q.op = "review"
               /\ q.report = day /\ q.around = around /\ q.items = items
BY DEF ReviewReq, ReviewReqs, Requests

\* The request with one more item.
LEMMA PushMakes ==
    ASSUME TypeOK, NEW u \in Users, Reviewing(u), NEW item \in Items, Push(u, item)
    PROVE  /\ UNCHANGED <<today, report, reviews, rows>>
           /\ req' \in [Users -> Requests]
           /\ \A v \in Users : v # u => req'[v] = req[v]
           /\ req'[u].op = "review" /\ req'[u].report = req[u].report
           /\ req'[u].around = req[u].around
           /\ req'[u].items \in {req[u].items, req[u].items \cup {item}}
<1> DEFINE q == req[u]
           I == q.items \cup {item}
           n == ReviewReq(q.report, q.rev, q.to, q.allowed, q.around, I)
<1>1. q \in ReviewReqs
  BY RequestRead
<1>2. UNCHANGED <<today, report, reviews, rows>>
  BY DEF Push
<1>3. CASE req' = req
  BY <1>1, <1>2, <1>3 DEF TypeOK, ReviewReqs
<1>4. CASE req' = [req EXCEPT ![u].items = @ \cup {item}]
  <2>1. /\ q.report \in Days /\ q.rev \in Nat /\ q.to \in Nat /\ q.around \in SUBSET RowIds
        /\ q.allowed \in SUBSET Tasks /\ I \in SUBSET Items
    BY <1>1 DEF ReviewReqs
  <2>2. /\ n \in Requests /\ n.op = "review" /\ n.report = q.report
        /\ n.around = q.around /\ n.items = I
    <3> HIDE DEF I
    <3> QED
      BY <2>1, ReviewReqIs
  <2>3. [q EXCEPT !.items = I] = n
    <3> HIDE DEF q, I
    <3> QED
      BY <1>1 DEF ReviewReqs, ReviewReq
  <2>4. req' = [req EXCEPT ![u] = [q EXCEPT !.items = I]]
    BY <1>4 DEF TypeOK
  <2> HIDE DEF n
  <2>5. /\ req' \in [Users -> Requests] /\ req'[u] = n
        /\ \A v \in Users : v # u => req'[v] = req[v]
    BY <2>2, <2>3, <2>4, PutRequest
  <2> QED
    BY <1>2, <2>2, <2>5
<1> QED
  BY <1>3, <1>4 DEF Push

-----------------------------------------------------------------------------
(* The items of a review.                                                  *)

\* The rows a review has read that land on its report, or leave from it.
LEMMA AroundIs ==
    ASSUME TypeOK, Collecting, NEW u \in Users, Reviewing(u)
    PROVE  /\ Incoming(u) \subseteq DOMAIN rows /\ Outgoing(u) \subseteq DOMAIN rows
           /\ \A id \in Incoming(u) : rows[id].to = req[u].report
<1>1. \A id \in req[u].around :
        id \in DOMAIN rows /\ (rows[id].to = req[u].report \/ rows[id].from = req[u].report)
  BY DEF Collecting, AroundStands
<1> QED
  BY <1>1 DEF Incoming, Outgoing

\* A new chain is the chain of no row and of no item.
LEMMA FreshIs ==
    ASSUME TypeOK, Collecting
    PROVE  /\ FreshChain \in Nat
           /\ \A id \in DOMAIN rows : rows[id].chain # FreshChain
           /\ \A v \in Users : Reviewing(v) =>
                \A item \in req[v].items : item.chain # FreshChain
<1> DEFINE OfRows == {rows[id].chain : id \in DOMAIN rows}
           Of(v) == {item.chain : item \in req[v].items}
           Busy == {v \in Users : req[v].op = "review"}
           OfItems == {Of(v) : v \in Busy}
<1>1. UsedChains = OfRows \cup UNION OfItems
  BY DEF UsedChains
<1>2. IsFiniteSet(OfRows)
  <2> DEFINE f == [id \in DOMAIN rows |-> rows[id].chain]
  <2>1. f \in Surjection(DOMAIN rows, OfRows)
    BY DEF Surjection
  <2>2. IsFiniteSet(DOMAIN rows)
    BY RowsRead, FS_Interval
  <2> HIDE DEF f, OfRows
  <2> QED
    BY <2>1, <2>2, FS_Surjection
<1>3. \A v \in Busy : IsFiniteSet(Of(v))
  <2> SUFFICES ASSUME NEW v \in Busy PROVE IsFiniteSet(Of(v))
    OBVIOUS
  <2> DEFINE S == req[v].items
             C == {item.chain : item \in S}
             f == [item \in S |-> item.chain]
  <2>1. IsFiniteSet(S)
    BY DEF Collecting, ItemsAreFinite, Reviewing
  <2>2. f \in Surjection(S, C)
    BY DEF Surjection
  <2> HIDE DEF f, S
  <2>3. IsFiniteSet(C)
    <3> HIDE DEF C
    <3> QED
      BY <2>1, <2>2, FS_Surjection
  <2> QED
    BY <2>3 DEF S
<1>4. IsFiniteSet(OfItems)
  <2>1. IsFiniteSet(Busy)
    BY CarryAssumption, FS_Subset
  <2> DEFINE f == [v \in Busy |-> Of(v)]
  <2>2. f \in Surjection(Busy, OfItems)
    <3> HIDE DEF Busy, Of
    <3> QED
      BY DEF Surjection
  <2> HIDE DEF f, Busy, OfItems
  <2> QED
    BY <2>1, <2>2, FS_Surjection
<1>5. IsFiniteSet(UsedChains)
  <2>1. \A T \in OfItems : IsFiniteSet(T)
    BY <1>3
  <2> HIDE DEF OfItems, OfRows
  <2>2. IsFiniteSet(UNION OfItems)
    BY <1>4, <2>1, FS_UNION
  <2> QED
    BY <1>1, <1>2, <2>2, FS_Union
<1> DEFINE Left == (1 .. Cardinality(UsedChains) + 1) \ UsedChains
<1>6. Left # {} /\ Left \in SUBSET Nat
  <2>1. Cardinality(UsedChains) \in Nat
    BY <1>5, FS_CardinalityType
  <2>2. (1 .. 1 + Cardinality(UsedChains)) \ UsedChains # {}
    BY <1>5, NumberIsLeft
  <2>3. 1 + Cardinality(UsedChains) = Cardinality(UsedChains) + 1
    BY <2>1
  <2> QED
    BY <2>2, <2>3
<1> HIDE DEF Left
<1>7. Min(Left) \in Left
  BY <1>6, MinIs
<1>8. FreshChain \in Nat /\ FreshChain \notin UsedChains
  BY <1>6, <1>7 DEF FreshChain, Left
<1>9. \A id \in DOMAIN rows : rows[id].chain \in UsedChains
  BY <1>1
<1>10. \A v \in Users : Reviewing(v) => \A item \in req[v].items : item.chain \in UsedChains
  BY DEF UsedChains, Reviewing
<1> QED
  BY <1>8, <1>9, <1>10

\* A row that is confirmed is one that leaves from the report.
LEMMA ConfirmedIs ==
    ASSUME TypeOK, Collecting, NEW u \in Users, Reviewing(u), NEW id \in Outgoing(u)
    PROVE  /\ Confirmed(id) \in Items /\ Confirmed(id).confirm # 0
           /\ Confirmed(id).chain = rows[id].chain /\ id \in DOMAIN rows
<1>1. id \in DOMAIN rows /\ rows[id] \in Row /\ id \in RowIds
  BY AroundIs, RowsRead
<1>2. rows[id].chain \in Nat /\ rows[id].task \in Work /\ id \in 0 .. MaxRows /\ id # 0
  BY <1>1, CarryAssumption DEF Row, RowIds
<1> QED
  BY <1>1, <1>2 DEF Confirmed, Items

\* What an item may be: the confirmation of a row, or work on a chain that has
\* landed or is new.
Allowed(u, item) ==
    /\ item \in Items
    /\ \/ \E id \in DOMAIN rows : item.chain = rows[id].chain
       \/ item.chain = FreshChain
    /\ item.confirm = 0 =>
        Landed(item.chain, req[u].report) \/ item.chain = FreshChain

\* What resolveCarryOverItems makes of an item is one that the review may hold.
LEMMA ResolvedIs ==
    ASSUME TypeOK, Collecting, NEW u \in Users, Reviewing(u), NEW task \in Work,
           NEW chain \in Nat, Landed(chain, req[u].report) \/ chain = FreshChain
    PROVE  Allowed(u, Resolved(u, task, chain))
<1> DEFINE sameChain == {id \in Outgoing(u) : rows[id].chain = chain}
           sameTask == {id \in Outgoing(u) : task # None /\ rows[id].task = task}
           new == [chain |-> chain, task |-> task, confirm |-> 0]
           Ok(item) == Allowed(u, item)
<1>1. Outgoing(u) \in SUBSET (1 .. Len(rows)) /\ Len(rows) \in Nat
  BY AroundIs, RowsRead
<1>2. ASSUME NEW id \in Outgoing(u) PROVE Ok(Confirmed(id))
  BY <1>2, ConfirmedIs DEF Allowed
<1>3. Ok(new)
  <2>1. new \in Items /\ new.chain = chain
    BY CarryAssumption DEF Items
  <2> HIDE DEF new
  <2> QED
    BY <2>1 DEF Allowed, Landed
<1>4. sameChain # {} => Max(sameChain) \in Outgoing(u)
  <2>1. sameChain \in SUBSET (1 .. Len(rows)) /\ sameChain \subseteq Outgoing(u)
    BY <1>1
  <2> HIDE DEF sameChain
  <2> QED
    BY <1>1, <2>1, MaxIs
<1>5. sameTask # {} => Max(sameTask) \in Outgoing(u)
  <2>1. sameTask \in SUBSET (1 .. Len(rows)) /\ sameTask \subseteq Outgoing(u)
    BY <1>1
  <2> HIDE DEF sameTask
  <2> QED
    BY <1>1, <2>1, MaxIs
<1>6. Resolved(u, task, chain) =
        IF sameChain # {} THEN Confirmed(Max(sameChain))
        ELSE IF sameTask # {} THEN Confirmed(Max(sameTask)) ELSE new
  BY DEF Resolved
<1> HIDE DEF sameChain, sameTask, new, Ok
<1>7. Ok(Resolved(u, task, chain))
  BY <1>2, <1>3, <1>4, <1>5, <1>6
<1> QED
  BY <1>7 DEF Ok

\* An item continues a row that has landed on the report, or begins a chain.
LEMMA ChainOfIs ==
    ASSUME TypeOK, Collecting, NEW u \in Users, Reviewing(u), NEW task \in Work,
           NEW previous \in Incoming(u) \cup {0}
    PROVE  /\ ChainOf(u, task, previous) \in Nat
           /\ \/ Landed(ChainOf(u, task, previous), req[u].report)
              \/ ChainOf(u, task, previous) = FreshChain
<1>1. ASSUME NEW id \in Incoming(u)
      PROVE  rows[id].chain \in Nat /\ Landed(rows[id].chain, req[u].report)
  <2>1. id \in DOMAIN rows /\ rows[id].to = req[u].report /\ rows[id] \in Row
    BY AroundIs, RowsRead
  <2> QED
    BY <2>1 DEF Landed, Row
<1>2. CASE previous # 0
  BY <1>1, <1>2 DEF ChainOf
<1>3. CASE previous = 0 /\ task # None /\ IncomingOf(u, task) # {}
  <2>1. IncomingOf(u, task) \in SUBSET (1 .. Len(rows)) /\ Len(rows) \in Nat
    BY AroundIs, RowsRead DEF IncomingOf
  <2>2. Max(IncomingOf(u, task)) \in IncomingOf(u, task)
    BY <1>3, <2>1, MaxIs
  <2>3. Max(IncomingOf(u, task)) \in Incoming(u)
    BY <2>2 DEF IncomingOf
  <2> QED
    BY <1>1, <1>3, <2>3 DEF ChainOf
<1>4. CASE previous = 0 /\ ~ (task # None /\ IncomingOf(u, task) # {})
  BY <1>4, FreshIs DEF ChainOf
<1> QED
  BY <1>2, <1>3, <1>4

\* Both branches of resolveCarryOverItems push an item of that kind.
LEMMA ItemMakes ==
    ASSUME TypeOK, Collecting, NEW u \in Users,
           \/ \E id \in DOMAIN rows : ConfirmItem(u, id)
           \/ \E task \in Work, previous \in 0 .. Len(rows) : CarryItem(u, task, previous)
    PROVE  Reviewing(u) /\ \E item \in Items : Allowed(u, item) /\ Push(u, item)
<1>1. ASSUME NEW id \in DOMAIN rows, ConfirmItem(u, id)
      PROVE  Reviewing(u) /\ \E item \in Items : Allowed(u, item) /\ Push(u, item)
  <2>1. Reviewing(u) /\ id \in Outgoing(u) /\ Push(u, Confirmed(id))
    BY <1>1 DEF ConfirmItem, Reviewing
  <2>2. Confirmed(id) \in Items /\ Allowed(u, Confirmed(id))
    BY <2>1, ConfirmedIs DEF Allowed
  <2> QED
    BY <2>1, <2>2
<1>2. ASSUME NEW task \in Work, NEW previous \in 0 .. Len(rows),
             CarryItem(u, task, previous)
      PROVE  Reviewing(u) /\ \E item \in Items : Allowed(u, item) /\ Push(u, item)
  <2> DEFINE work == IF task = None /\ previous # 0 THEN rows[previous].task ELSE task
             chain == ChainOf(u, work, previous)
             item == Resolved(u, work, chain)
  <2>1. Reviewing(u) /\ previous \in Incoming(u) \cup {0} /\ Push(u, item)
    BY <1>2 DEF CarryItem, Reviewing
  <2>2. work \in Work
    <3>1. previous # 0 => rows[previous] \in Row
      BY <2>1, AroundIs, RowsRead
    <3> QED
      BY <3>1 DEF Row
  <2> HIDE DEF work
  <2>3. chain \in Nat /\ (Landed(chain, req[u].report) \/ chain = FreshChain)
    BY <2>1, <2>2, ChainOfIs
  <2> HIDE DEF chain
  <2>4. Allowed(u, item)
    BY <2>1, <2>2, <2>3, ResolvedIs
  <2> HIDE DEF item
  <2> QED
    BY <2>1, <2>4 DEF Allowed
<1> QED
  BY <1>1, <1>2

-----------------------------------------------------------------------------
(* What the transactions write.                                            *)

\* The rows of a review: its items that confirm nothing become rows, in some order.
New(u) == {item \in req[u].items : item.confirm = 0}
NewRow(item, day, to, id) ==
    [chain |-> item.chain, from |-> day, to |-> to, task |-> item.task,
     review |-> id, confirmedBy |-> 0, cancelled |-> FALSE]

\* The fields of a new row.
LEMMA NewRowIs ==
    ASSUME NEW item \in Items, NEW day \in Days, NEW to \in Nat, NEW id \in Nat
    PROVE  LET row == NewRow(item, day, to, id)
           IN  /\ row \in Row /\ row.chain = item.chain /\ row.from = day /\ row.to = to
               /\ row.task = item.task /\ row.review = id /\ row.confirmedBy = 0
               /\ row.cancelled = FALSE
BY DEF NewRow, Items, Row

\* The items that make a new row are finitely many.
LEMMA NewIs ==
    ASSUME TypeOK, Collecting, NEW u \in Users, Reviewing(u)
    PROVE  /\ IsFiniteSet(New(u)) /\ New(u) \subseteq req[u].items
           /\ New(u) \in SUBSET Items
<1>1. req[u].items \in SUBSET Items
  BY RequestRead DEF ReviewReqs
<1>2. IsFiniteSet(req[u].items)
  BY DEF Collecting, ItemsAreFinite
<1> QED
  BY <1>1, <1>2, FS_Subset DEF New

\* Row k says of the work what it said before.
SameWork(k) ==
    /\ rows'[k].chain = rows[k].chain /\ rows'[k].task = rows[k].task
    /\ rows'[k].from = rows[k].from /\ rows'[k].to = rows[k].to
    /\ rows'[k].review = rows[k].review

\* What a review's transaction leaves: the rows there were, some of them confirmed,
\* and one new row for each item that confirms none.
LEMMA CommitMakes ==
    ASSUME TypeOK, Collecting, NEW u \in Users, NEW decision \in Decisions,
           CommitReview(u, decision)
    PROVE  LET q == req[u]
               n == Len(rows)
               m == Cardinality(New(u))
               id == Len(reviews) + 1
           IN  /\ Reviewing(u) /\ q \in ReviewReqs /\ m \in Nat
               /\ rows' \in Seq(Row) /\ Len(rows') = n + m /\ n + m <= MaxRows
               /\ \A k \in 1 .. n :
                    /\ SameWork(k) /\ rows'[k].cancelled = rows[k].cancelled
                    /\ rows'[k].confirmedBy =
                         IF k \in {item.confirm : item \in q.items \ New(u)} /\ Live(k)
                         THEN id ELSE rows[k].confirmedBy
               /\ \A k \in 1 .. m :
                    rows'[n + k] = NewRow(SetToSeq(New(u))[k], q.report, q.to, id)
<1> DEFINE q == req[u]
           n == Len(rows)
           m == Cardinality(New(u))
           id == Len(reviews) + 1
           confirmed == {item.confirm : item \in q.items \ New(u)}
           new(k) == NewRow(SetToSeq(New(u))[k], q.report, q.to, id)
           old(k) == IF k \in confirmed /\ Live(k)
                     THEN [rows[k] EXCEPT !.confirmedBy = id] ELSE rows[k]
           made == [k \in 1 .. m |-> new(k)]
           kept == [k \in 1 .. n |-> old(k)]
<1>1. Reviewing(u) /\ q \in ReviewReqs
  BY RequestRead DEF CommitReview, Reviewing
<1>2. /\ m \in Nat /\ SetToSeq(New(u)) \in [1 .. m -> New(u)]
  BY <1>1, NewIs, SetToSeqIs
<1>3. n \in Nat /\ DOMAIN rows = 1 .. n /\ \A k \in 1 .. n : rows[k] \in Row
  BY RowsRead
<1>4. id \in Nat
  BY ReviewsRead
<1>5. rows' = kept \o made
  BY <1>3 DEF CommitReview, New, NewRow
<1>6. \A k \in 1 .. m : new(k) \in Row
  <2> SUFFICES ASSUME NEW k \in 1 .. m PROVE new(k) \in Row
    OBVIOUS
  <2>1. SetToSeq(New(u))[k] \in Items
    BY <1>1, <1>2, NewIs
  <2>2. q.report \in Days /\ q.to \in Nat
    BY <1>1 DEF ReviewReqs
  <2> HIDE DEF q, id
  <2> QED
    BY <1>4, <2>1, <2>2, NewRowIs
<1>7. ASSUME NEW k \in 1 .. n
      PROVE  /\ old(k) \in Row /\ old(k).chain = rows[k].chain
             /\ old(k).task = rows[k].task /\ old(k).from = rows[k].from
             /\ old(k).to = rows[k].to /\ old(k).review = rows[k].review
             /\ old(k).cancelled = rows[k].cancelled
             /\ old(k).confirmedBy = IF k \in confirmed /\ Live(k)
                                     THEN id ELSE rows[k].confirmedBy
  <2> DEFINE row == rows[k]
             c == [row EXCEPT !.confirmedBy = id]
  <2>1. row \in Row
    BY <1>3
  <2> HIDE DEF row, id, confirmed
  <2>2. /\ c \in Row /\ c.chain = row.chain /\ c.task = row.task /\ c.from = row.from
        /\ c.to = row.to /\ c.review = row.review /\ c.confirmedBy = id
    BY <1>4, <2>1 DEF Row
  <2>3. c.cancelled = row.cancelled
    BY <2>1 DEF Row
  <2>4. old(k) = IF k \in confirmed /\ Live(k) THEN c ELSE row
    BY DEF row
  <2> HIDE DEF c
  <2>5. CASE k \in confirmed /\ Live(k)
    <3>1. old(k) = c
      BY <2>4, <2>5
    <3> QED
      BY <2>2, <2>3, <2>5, <3>1, Zenon DEF row
  <2>6. CASE ~ (k \in confirmed /\ Live(k))
    <3>1. old(k) = row
      BY <2>4, <2>6
    <3> QED
      BY <2>1, <2>6, <3>1, Zenon DEF row
  <2> QED
    BY <2>5, <2>6
<1> HIDE DEF old, new
<1>8. kept \in Seq(Row) /\ Len(kept) = n /\ \A k \in 1 .. n : kept[k] = old(k)
  BY <1>3, <1>7
<1>9. made \in Seq(Row) /\ Len(made) = m /\ \A k \in 1 .. m : made[k] = new(k)
  BY <1>2, <1>6
<1> HIDE DEF kept, made
<1>10. /\ rows' \in Seq(Row) /\ Len(rows') = n + m
       /\ \A i \in 1 .. n + m : rows'[i] = IF i <= n THEN kept[i] ELSE made[i - n]
  <2> HIDE DEF n, m
  <2>1. /\ rows' \in Seq(Row) /\ Len(rows') = Len(kept) + Len(made)
        /\ \A i \in 1 .. Len(kept) + Len(made) :
              rows'[i] = IF i <= Len(kept) THEN kept[i] ELSE made[i - Len(kept)]
    BY <1>5, <1>8, <1>9, ConcatProperties
  <2> QED
    BY <1>8, <1>9, <2>1
<1>11. \A k \in 1 .. n : rows'[k] = old(k)
  BY <1>2, <1>3, <1>8, <1>10
<1>12. \A k \in 1 .. m : rows'[n + k] = new(k)
  BY <1>2, <1>3, <1>9, <1>10
<1>13. n + m <= MaxRows
  BY DEF CommitReview, New
<1>14. \A k \in 1 .. n :
          /\ SameWork(k) /\ rows'[k].cancelled = rows[k].cancelled
          /\ rows'[k].confirmedBy = IF k \in confirmed /\ Live(k)
                                    THEN id ELSE rows[k].confirmedBy
  <2> SUFFICES ASSUME NEW k \in 1 .. n
               PROVE  /\ SameWork(k) /\ rows'[k].cancelled = rows[k].cancelled
                      /\ rows'[k].confirmedBy = IF k \in confirmed /\ Live(k)
                                                THEN id ELSE rows[k].confirmedBy
    OBVIOUS
  <2>1. rows'[k] = old(k)
    BY <1>11
  <2>2. SameWork(k)
    BY <1>7, <2>1, Zenon DEF SameWork
  <2>3. /\ rows'[k].cancelled = rows[k].cancelled
        /\ rows'[k].confirmedBy = IF k \in confirmed /\ Live(k)
                                  THEN id ELSE rows[k].confirmedBy
    <3> HIDE DEF id, confirmed
    <3> QED
      BY <1>7, <2>1, Zenon
  <2> QED
    BY <2>2, <2>3, Zenon
<1>15. \A k \in 1 .. m : rows'[n + k] = NewRow(SetToSeq(New(u))[k], q.report, q.to, id)
  BY <1>12 DEF new
<1>16. m \in Nat /\ rows' \in Seq(Row) /\ Len(rows') = n + m
  BY <1>2, <1>10
<1> QED
  BY <1>1, <1>13, <1>14, <1>15, <1>16, Zenon

\* A cancellation marks its row.
LEMMA CancelMakes ==
    ASSUME TypeOK, NEW u \in Users, CommitCancel(u)
    PROVE  /\ rows' \in Seq(Row) /\ Len(rows') = Len(rows)
           /\ Cancelling(u) /\ CancelClaim(u) /\ req[u].row \in 1 .. Len(rows)
           /\ \A k \in 1 .. Len(rows) :
                /\ SameWork(k) /\ rows'[k].confirmedBy = rows[k].confirmedBy
                /\ k # req[u].row => rows'[k] = rows[k]
                /\ k = req[u].row => rows'[k].cancelled = TRUE
           /\ req' = [req EXCEPT ![u] = Idle] /\ UNCHANGED <<today, report, reviews>>
<1> DEFINE id == req[u].row
           row == rows[id]
           c == [row EXCEPT !.cancelled = TRUE]
<1>1. Cancelling(u) /\ CancelClaim(u) /\ id \in DOMAIN rows
  BY DEF CommitCancel, Cancelling, CancelClaim, Live
<1>2. /\ rows \in Seq(Row) /\ id \in 1 .. Len(rows) /\ row \in Row
  BY <1>1, RowsRead
<1>3. rows' = [rows EXCEPT ![id] = c]
  BY <1>2 DEF CommitCancel
<1>4. /\ c \in Row /\ c.chain = row.chain /\ c.task = row.task /\ c.from = row.from
      /\ c.to = row.to /\ c.review = row.review /\ c.confirmedBy = row.confirmedBy
      /\ c.cancelled = TRUE
  <2> HIDE DEF row
  <2> QED
    BY <1>2 DEF Row
<1> HIDE DEF c
<1>5. /\ rows' \in Seq(Row) /\ Len(rows') = Len(rows)
      /\ \A k \in 1 .. Len(rows) : rows'[k] = IF k = id THEN c ELSE rows[k]
  BY <1>2, <1>3, <1>4, ExceptSeq
<1>6. \A k \in 1 .. Len(rows) :
        /\ SameWork(k) /\ rows'[k].confirmedBy = rows[k].confirmedBy
        /\ k # id => rows'[k] = rows[k]
        /\ k = id => rows'[k].cancelled = TRUE
  BY <1>4, <1>5 DEF SameWork
<1> QED
  BY <1>1, <1>2, <1>5, <1>6 DEF CommitCancel

\* Which steps write which tables.
LEMMA WritersAre ==
    ASSUME [Next]_vars
    PROVE  /\ Tick \/ UNCHANGED today
           /\ \/ UNCHANGED reviews
              \/ \E u \in Users, decision \in Decisions : CommitReview(u, decision)
           /\ \/ UNCHANGED rows
              \/ \E u \in Users, decision \in Decisions : CommitReview(u, decision)
              \/ \E u \in Users : CommitCancel(u)
           /\ \/ UNCHANGED report
              \/ \E day \in Days, tasks \in SUBSET Tasks : Submit(day, tasks)
              \/ \E day \in Days : Close(day)
              \/ \E u \in Users, decision \in Decisions : CommitReview(u, decision)
<1>1. ASSUME NEW u \in Users, UserStep(u)
      PROVE  \/ UNCHANGED <<today, report, reviews, rows>>
             \/ \E decision \in Decisions : CommitReview(u, decision) /\ UNCHANGED today
             \/ CommitCancel(u) /\ UNCHANGED <<today, report, reviews>>
  <2>1. ASSUME NEW day \in Days, LoadReview(u, day)
        PROVE  UNCHANGED <<today, report, reviews, rows>>
    BY <2>1 DEF LoadReview
  <2>2. ASSUME NEW id \in DOMAIN rows, ConfirmItem(u, id) \/ LoadCancel(u, id)
        PROVE  UNCHANGED <<today, report, reviews, rows>>
    BY <2>2 DEF ConfirmItem, Push, LoadCancel
  <2>3. ASSUME NEW task \in Work, NEW previous \in 0 .. Len(rows),
               CarryItem(u, task, previous)
        PROVE  UNCHANGED <<today, report, reviews, rows>>
    BY <2>3 DEF CarryItem, Push
  <2>4. Abort(u) => UNCHANGED <<today, report, reviews, rows>>
    BY DEF Abort
  <2>5. CommitCancel(u) => UNCHANGED <<today, report, reviews>>
    BY DEF CommitCancel
  <2>6. \A decision \in Decisions : CommitReview(u, decision) => UNCHANGED today
    BY DEF CommitReview
  <2> QED
    BY <1>1, <2>1, <2>2, <2>3, <2>4, <2>5, <2>6, Zenon DEF UserStep
<1>2. Tick => UNCHANGED <<report, reviews, rows>>
  BY DEF Tick
<1>3. \A day \in Days, tasks \in SUBSET Tasks :
        Submit(day, tasks) => UNCHANGED <<today, reviews, rows>>
  BY DEF Submit
<1>4. \A day \in Days : Close(day) => UNCHANGED <<today, reviews, rows>>
  BY DEF Close
<1>5. CASE UNCHANGED vars
  BY <1>5 DEF vars
<1>6. CASE Next
  BY <1>1, <1>2, <1>3, <1>4, <1>6 DEF Next
<1> QED
  BY <1>5, <1>6

\* Rows are never removed, what they say of the work is never rewritten, and what
\* is cancelled stays so.
LEMMA RowsGrow ==
    ASSUME TypeOK, Collecting, [Next]_vars
    PROVE  /\ rows' \in Seq(Row) /\ Len(rows) <= Len(rows') /\ Len(rows') <= MaxRows
           /\ DOMAIN rows \subseteq DOMAIN rows'
           /\ \A k \in DOMAIN rows : SameWork(k) /\ (Live(k)' => Live(k))
<1> DEFINE Goal == /\ rows' \in Seq(Row) /\ Len(rows) <= Len(rows')
                   /\ Len(rows') <= MaxRows
                   /\ \A k \in DOMAIN rows : SameWork(k) /\ (Live(k)' => Live(k))
<1>1. /\ rows \in Seq(Row) /\ Len(rows) \in Nat /\ DOMAIN rows = 1 .. Len(rows)
      /\ Len(rows) <= MaxRows
  BY RowsRead
<1>2. ASSUME UNCHANGED rows PROVE Goal
  BY <1>1, <1>2 DEF SameWork, Live
<1>3. ASSUME NEW u \in Users, NEW decision \in Decisions, CommitReview(u, decision)
      PROVE  Goal
  <2> DEFINE m == Cardinality(New(u))
  <2>1. /\ m \in Nat /\ rows' \in Seq(Row) /\ Len(rows') = Len(rows) + m
        /\ Len(rows) + m <= MaxRows
        /\ \A k \in 1 .. Len(rows) :
                SameWork(k) /\ rows'[k].cancelled = rows[k].cancelled
    BY <1>3, CommitMakes
  <2> HIDE DEF m
  <2> QED
    BY <1>1, <2>1 DEF Live
<1>4. ASSUME NEW u \in Users, CommitCancel(u) PROVE Goal
  <2>1. /\ rows' \in Seq(Row) /\ Len(rows') = Len(rows)
        /\ \A k \in 1 .. Len(rows) :
             /\ k # req[u].row => rows'[k] = rows[k]
             /\ k = req[u].row => rows'[k].cancelled = TRUE
    BY <1>4, CancelMakes
  <2>2. ASSUME NEW k \in 1 .. Len(rows), Live(k)' PROVE Live(k)
    <3>1. CASE k # req[u].row
      <4>1. rows'[k] = rows[k] /\ k \in DOMAIN rows
        BY <1>1, <2>1, <3>1
      <4> QED
        BY <2>2, <4>1 DEF Live
    <3>2. CASE k = req[u].row
      <4>1. rows'[k].cancelled = TRUE
        BY <2>1, <3>2
      <4> QED
        BY <2>2, <4>1, Zenon DEF Live
    <3> QED
      BY <3>1, <3>2
  <2>3. \A k \in 1 .. Len(rows) : SameWork(k)
    BY <1>4, CancelMakes
  <2> QED
    BY <1>1, <2>1, <2>2, <2>3
<1>5. \/ UNCHANGED rows
      \/ \E u \in Users : \/ \E decision \in Decisions : CommitReview(u, decision)
                          \/ CommitCancel(u)
  BY WritersAre
<1>6. Goal
  <2> HIDE DEF Goal
  <2>1. \A u \in Users, decision \in Decisions : CommitReview(u, decision) => Goal
    BY <1>3
  <2>2. \A u \in Users : CommitCancel(u) => Goal
    BY <1>4
  <2> QED
    BY <1>2, <1>5, <2>1, <2>2
<1>7. DOMAIN rows \subseteq DOMAIN rows'
  <2>1. DOMAIN rows' = 1 .. Len(rows') /\ Len(rows') \in Nat
    BY <1>6, LenProperties
  <2> QED
    BY <1>1, <1>6, <2>1
<1> QED
  BY <1>6, <1>7

\* A review starts with the rows around its report and no items.
LEMMA LoadReviewMakes ==
    ASSUME TypeOK, NEW u \in Users, NEW day \in Days, LoadReview(u, day)
    PROVE  /\ req' \in [Users -> Requests] /\ req'[u].op = "review"
           /\ req'[u].report = day /\ req'[u].items = {}
           /\ req'[u].around \subseteq DOMAIN rows
           /\ \A id \in req'[u].around : rows[id].to = day \/ rows[id].from = day
           /\ \A v \in Users : v # u => req'[v] = req[v]
           /\ UNCHANGED <<today, report, reviews, rows>>
<1> DEFINE q == ReviewReq(day, report[day].rev, NextWorkingDate(today),
                          report[day].tasks, Around(day), {})
<1>1. /\ Around(day) \subseteq DOMAIN rows
      /\ \A id \in Around(day) : rows[id].to = day \/ rows[id].from = day
  BY DEF Around, LandsOn
<1>2. report[day].rev \in Nat /\ report[day].tasks \in SUBSET Tasks
  BY DEF TypeOK
<1>3. today \in Nat
  BY CarryAssumption DEF TypeOK
<1>4. NextWorkingDate(today) \in Nat
  BY <1>3, NextWorkingDateIs
<1>5. Around(day) \in SUBSET RowIds /\ {} \in SUBSET Items
  BY <1>1, RowsRead
<1>6. /\ q \in Requests /\ q.op = "review" /\ q.report = day
      /\ q.around = Around(day) /\ q.items = {}
  BY <1>2, <1>4, <1>5, ReviewReqIs
<1>7. req' = [req EXCEPT ![u] = q] /\ UNCHANGED <<today, report, reviews, rows>>
  BY DEF LoadReview, ReviewReq
<1> HIDE DEF q
<1> QED
  BY <1>1, <1>6, <1>7, PutRequest

\* A cancellation starts with the reviews that stand now.
LEMMA LoadCancelMakes ==
    ASSUME TypeOK, NEW u \in Users, NEW id \in DOMAIN rows, LoadCancel(u, id)
    PROVE  /\ req' \in [Users -> Requests] /\ req'[u].op = "cancel"
           /\ req'[u].row = id /\ req'[u].confirmedBy = rows[id].confirmedBy
           /\ req'[u].seen = Len(reviews)
           /\ \A v \in Users : v # u => req'[v] = req[v]
           /\ UNCHANGED <<today, report, reviews, rows>>
<1> DEFINE q == [op |-> "cancel", row |-> id, confirmedBy |-> rows[id].confirmedBy,
                 seen |-> Len(reviews)]
<1>1. id \in RowIds /\ rows[id].confirmedBy \in Nat /\ Len(reviews) \in Nat
  BY RowsRead, ReviewsRead DEF Row
<1>2. q \in Requests
  BY <1>1 DEF Requests
<1>3. /\ q.op = "cancel" /\ q.row = id /\ q.confirmedBy = rows[id].confirmedBy
      /\ q.seen = Len(reviews)
  OBVIOUS
<1>4. req' = [req EXCEPT ![u] = q] /\ UNCHANGED <<today, report, reviews, rows>>
  BY DEF LoadCancel
<1> HIDE DEF q
<1> QED
  BY <1>2, <1>3, <1>4, PutRequest

\* Who commits, cancels or gives up has no request any more.
LEMMA EndMakes ==
    ASSUME TypeOK, NEW u \in Users,
           \/ \E decision \in Decisions : CommitReview(u, decision)
           \/ CommitCancel(u) \/ Abort(u)
    PROVE  /\ req' \in [Users -> Requests] /\ req'[u].op = "idle"
           /\ \A v \in Users : v # u => req'[v] = req[v]
<1>1. req' = [req EXCEPT ![u] = Idle]
  BY DEF CommitReview, CommitCancel, Abort
<1> QED
  BY <1>1, IdleIs, PutRequest

\* At the start nothing is submitted, reviewed or carried over.
LEMMA TypeInit == Init => TypeOK
<1> SUFFICES ASSUME Init PROVE TypeOK
  OBVIOUS
<1>1. today \in Days
  BY CarryAssumption, MinIs DEF Init
<1>2. report \in [Days -> Report]
  BY DEF Init, Report
<1>3. reviews \in Seq(Review) /\ rows \in Seq(Row) /\ Len(rows) <= MaxRows
  BY CarryAssumption, EmptySeq DEF Init
<1>4. req \in [Users -> Requests]
  BY IdleIs DEF Init
<1> QED
  BY <1>1, <1>2, <1>3, <1>4 DEF TypeOK, Report, Review, Row

\* Every step keeps the types.
LEMMA TypeStep == TypeOK /\ Collecting /\ [Next]_vars => TypeOK'
<1> SUFFICES ASSUME TypeOK, Collecting, [Next]_vars PROVE TypeOK'
  OBVIOUS
<1>1. rows' \in Seq(Row) /\ Len(rows') <= MaxRows
  BY RowsGrow
<1>2. today' \in Days
  <2>1. CASE Tick
    <3> DEFINE later == {d \in Days : d > today}
    <3>1. later # {}
      <4> SUFFICES ASSUME later = {} PROVE FALSE
        OBVIOUS
      <4>1. today \in Days /\ \A d \in Days : d \in Nat /\ today >= d
        BY CarryAssumption DEF TypeOK
      <4>2. \A x \in Days : (\A d \in Days : x >= d) => x = today
        BY <4>1
      <4>3. Max(Days) = today
        BY <4>1, <4>2 DEF Max
      <4> QED
        BY <2>1, <4>3 DEF Tick
    <3>2. later \in SUBSET Nat
      BY CarryAssumption
    <3>3. today' = Min(later)
      BY <2>1 DEF Tick
    <3>4. Min(later) \in later
      <4> HIDE DEF later
      <4> QED
        BY <3>1, <3>2, MinIs
    <3> QED
      BY <3>3, <3>4
  <2>2. ASSUME NEW u \in Users, NEW decision \in Decisions, CommitReview(u, decision)
        PROVE  UNCHANGED today
    BY <2>2 DEF CommitReview
  <2>3. ASSUME NEW day \in Days, NEW tasks \in SUBSET Tasks, Submit(day, tasks)
        PROVE  UNCHANGED today
    BY <2>3 DEF Submit
  <2>4. \/ Tick \/ UNCHANGED today
        \/ \E day \in Days, tasks \in SUBSET Tasks : Submit(day, tasks)
        \/ \E u \in Users, decision \in Decisions : CommitReview(u, decision)
    BY WritersAre
  <2> QED
    BY <2>1, <2>2, <2>3, <2>4 DEF TypeOK
<1>3. report' \in [Days -> Report]
  <2>0. report \in [Days -> Report]
    BY DEF TypeOK, Report
  <2>1. ASSUME NEW day \in Days, NEW r \in Report, report' = [report EXCEPT ![day] = r]
        PROVE  report' \in [Days -> Report]
    BY <2>0, <2>1
  <2>2. ASSUME NEW day \in Days, NEW tasks \in SUBSET Tasks, Submit(day, tasks)
        PROVE  report' \in [Days -> Report]
    <3> DEFINE r == [rev |-> report[day].rev + 1, tasks |-> tasks, waits |-> TRUE]
    <3>1. report' = [report EXCEPT ![day] = r]
      BY <2>2 DEF Submit
    <3>2. report[day].rev + 1 \in Nat
      BY <2>0 DEF Report
    <3>3. r \in Report
      BY <3>2 DEF Report
    <3> HIDE DEF r
    <3> QED
      BY <2>1, <3>1, <3>3
  <2>3. ASSUME NEW day \in Days, report' = [report EXCEPT ![day].waits = FALSE]
        PROVE  report' \in [Days -> Report]
    <3> DEFINE o == report[day]
               r == [o EXCEPT !.waits = FALSE]
    <3>1. report' = [report EXCEPT ![day] = r]
      BY <2>0, <2>3
    <3>2. o \in Report
      BY <2>0
    <3>3. r \in Report
      <4> HIDE DEF o
      <4> QED
        BY <3>2 DEF Report
    <3> HIDE DEF r
    <3> QED
      BY <2>1, <3>1, <3>3
  <2>4. ASSUME NEW u \in Users, NEW decision \in Decisions, CommitReview(u, decision)
        PROVE  report' \in [Days -> Report]
    <3>1. req[u].report \in Days
      BY <2>4, CommitMakes DEF ReviewReqs
    <3> QED
      BY <2>3, <2>4, <3>1 DEF CommitReview
  <2>5. \/ UNCHANGED report
        \/ \E day \in Days, tasks \in SUBSET Tasks : Submit(day, tasks)
        \/ \E day \in Days : Close(day)
        \/ \E u \in Users, decision \in Decisions : CommitReview(u, decision)
    BY WritersAre
  <2> QED
    BY <2>0, <2>2, <2>3, <2>4, <2>5 DEF Close
<1>4. reviews' \in Seq(Review)
  <2>1. ASSUME NEW u \in Users, NEW decision \in Decisions, CommitReview(u, decision)
        PROVE  reviews' \in Seq(Review)
    <3> DEFINE r == [report |-> req[u].report, rev |-> req[u].rev, by |-> u,
                     decision |-> decision]
    <3>1. r \in Review
      BY <2>1, CommitMakes DEF ReviewReqs, Review
    <3>2. reviews' = Append(reviews, r)
      BY <2>1 DEF CommitReview
    <3> HIDE DEF r
    <3> QED
      BY <3>1, <3>2, ReviewsRead
  <2>2. \/ UNCHANGED reviews
        \/ \E u \in Users, decision \in Decisions : CommitReview(u, decision)
    BY WritersAre
  <2> QED
    BY <2>1, <2>2, ReviewsRead
<1>5. req' \in [Users -> Requests]
  <2>1. ASSUME NEW u \in Users, UserStep(u) PROVE req' \in [Users -> Requests]
    <3>1. ASSUME NEW day \in Days, LoadReview(u, day) PROVE req' \in [Users -> Requests]
      BY <3>1, LoadReviewMakes
    <3>2. ASSUME NEW id \in DOMAIN rows, LoadCancel(u, id)
          PROVE  req' \in [Users -> Requests]
      BY <3>2, LoadCancelMakes
    <3>3. ASSUME \/ \E id \in DOMAIN rows : ConfirmItem(u, id)
                 \/ \E task \in Work, previous \in 0 .. Len(rows) :
                        CarryItem(u, task, previous)
          PROVE  req' \in [Users -> Requests]
      <4>1. Reviewing(u) /\ \E item \in Items : Push(u, item)
        BY <3>3, ItemMakes
      <4> QED
        BY <4>1, PushMakes
    <3>4. ASSUME \/ \E decision \in Decisions : CommitReview(u, decision)
                 \/ CommitCancel(u) \/ Abort(u)
          PROVE  req' \in [Users -> Requests]
      BY <3>4, EndMakes
    <3> QED
      BY <2>1, <3>1, <3>2, <3>3, <3>4 DEF UserStep
  <2>2. UNCHANGED req \/ \E u \in Users : UserStep(u)
    BY DEF Next, vars, Tick, Submit, Close
  <2> QED
    BY <2>1, <2>2 DEF TypeOK
<1> QED
  BY <1>1, <1>2, <1>3, <1>4, <1>5 DEF TypeOK, Report, Review, Row

-----------------------------------------------------------------------------
(* The items of the reviews under way.                                     *)

\* At the start nobody reviews.
LEMMA CollectingInit == Init => Collecting
BY DEF Init, Idle, Collecting, ItemsAreFinite, AroundStands, ItemsStand, Reviewing

\* A row that has landed stays, so what a request has read stands while its items
\* do not change and no row begins a chain that only it knows.
LEMMA CollectingRest ==
    ASSUME TypeOK, Collecting, [Next]_vars, NEW u \in Users,
           \A v \in Users : v # u => req'[v] = req[v],
           \A v \in Users : v # u /\ Reviewing(v) =>
                \A item \in req[v].items :
                    KnownTo(v, item.chain) => KnownTo(v, item.chain)',
           Reviewing(u)' =>
                /\ IsFiniteSet(req'[u].items)
                /\ \A id \in req'[u].around :
                    /\ id \in DOMAIN rows
                    /\ rows[id].to = req'[u].report \/ rows[id].from = req'[u].report
                /\ \A item \in req'[u].items :
                    item.confirm = 0 =>
                        Landed(item.chain, req'[u].report) \/ KnownTo(u, item.chain)'
    PROVE  Collecting'
<1>1. /\ DOMAIN rows \subseteq DOMAIN rows'
      /\ \A k \in DOMAIN rows : rows'[k].chain = rows[k].chain
                                /\ rows'[k].from = rows[k].from /\ rows'[k].to = rows[k].to
  BY RowsGrow DEF SameWork
<1>2. ASSUME NEW v \in Users, v # u, Reviewing(v)'
      PROVE  /\ req'[v] = req[v] /\ Reviewing(v) /\ req[v].items \in SUBSET Items
             /\ IsFiniteSet(req[v].items)
             /\ \A id \in req[v].around :
                    /\ id \in DOMAIN rows
                    /\ rows[id].to = req[v].report \/ rows[id].from = req[v].report
             /\ \A item \in req[v].items :
                    item.confirm = 0 =>
                        Landed(item.chain, req[v].report) \/ KnownTo(v, item.chain)
  <2>1. req'[v] = req[v] /\ Reviewing(v)
    BY <1>2 DEF Reviewing
  <2> QED
    BY <2>1, RequestRead DEF Collecting, ItemsAreFinite, AroundStands, ItemsStand,
       ReviewReqs
<1>3. ItemsAreFinite'
  BY <1>2 DEF ItemsAreFinite
<1>4. AroundStands'
  <2> SUFFICES ASSUME NEW v \in Users, Reviewing(v)', NEW id \in req'[v].around
               PROVE  /\ id \in DOMAIN rows'
                      /\ rows'[id].to = req'[v].report \/ rows'[id].from = req'[v].report
    BY DEF AroundStands
  <2>1. /\ id \in DOMAIN rows
        /\ rows[id].to = req'[v].report \/ rows[id].from = req'[v].report
    BY <1>2
  <2> QED
    BY <1>1, <2>1
<1>5. ItemsStand'
  <2> SUFFICES ASSUME NEW v \in Users, Reviewing(v)', NEW item \in req'[v].items,
                      item.confirm = 0
               PROVE  \/ Landed(item.chain, req[v].report)'
                      \/ KnownTo(v, item.chain)'
    BY DEF ItemsStand
  <2>0. Landed(item.chain, req'[v].report) => Landed(item.chain, req[v].report)'
    BY <1>1 DEF Landed
  <2>1. CASE v = u
    <3>1. Landed(item.chain, req'[v].report) \/ KnownTo(u, item.chain)'
      BY <2>1
    <3> QED
      BY <2>0, <2>1, <3>1
  <2>2. CASE v # u
    <3>1. /\ req'[v] = req[v] /\ Reviewing(v)
          /\ Landed(item.chain, req'[v].report) \/ KnownTo(v, item.chain)
      BY <1>2, <2>2
    <3>2. KnownTo(v, item.chain) => KnownTo(v, item.chain)'
      BY <2>2, <3>1
    <3> QED
      BY <2>0, <3>1, <3>2
  <2> QED
    BY <2>1, <2>2
<1> QED
  BY <1>3, <1>4, <1>5 DEF Collecting

\* Rows begin only chains of the committed items, and items only fresh ones: a chain
\* that another request alone knows is neither.
LEMMA KnownKept ==
    ASSUME TypeOK, Collecting, NEW u \in Users,
           \A v \in Users : v # u => req'[v] = req[v],
           \A k \in DOMAIN rows' :
                \/ k \in DOMAIN rows /\ rows'[k].chain = rows[k].chain
                \/ Reviewing(u) /\ \E item \in req[u].items : rows'[k].chain = item.chain,
           Reviewing(u)' =>
                \A item \in req'[u].items :
                    \/ Reviewing(u) /\ item \in req[u].items
                    \/ item.chain = FreshChain
                    \/ \E id \in DOMAIN rows : item.chain = rows[id].chain
    PROVE  \A v \in Users : v # u /\ Reviewing(v) =>
                \A item \in req[v].items :
                    KnownTo(v, item.chain) => KnownTo(v, item.chain)'
<1> SUFFICES ASSUME NEW v \in Users, v # u, Reviewing(v), NEW item \in req[v].items,
                    KnownTo(v, item.chain)
             PROVE  KnownTo(v, item.chain)'
  OBVIOUS
<1> DEFINE c == item.chain
<1>1. c # FreshChain
  BY FreshIs
<1>2. /\ \A id \in DOMAIN rows : rows[id].chain # c
      /\ Reviewing(u) => \A other \in req[u].items : other.chain # c
      /\ \A w \in Users : w # v /\ Reviewing(w) =>
            \A other \in req[w].items : other.chain # c
  BY DEF KnownTo
<1>3. \A k \in DOMAIN rows' : rows'[k].chain # c
  BY <1>2
<1>4. Reviewing(u)' => \A other \in req'[u].items : other.chain # c
  BY <1>1, <1>2
<1>5. \A w \in Users : w # v /\ Reviewing(w)' =>
          \A other \in req'[w].items : other.chain # c
  <2> SUFFICES ASSUME NEW w \in Users, w # v, Reviewing(w)'
               PROVE  \A other \in req'[w].items : other.chain # c
    OBVIOUS
  <2>1. CASE w = u
    BY <1>4, <2>1
  <2>2. CASE w # u
    BY <1>2, <2>2 DEF Reviewing
  <2> QED
    BY <2>1, <2>2
<1> QED
  BY <1>3, <1>5 DEF KnownTo

\* A review begins without items, with the rows around its report.
LEMMA LoadReviewCollects ==
    ASSUME TypeOK, Collecting, [Next]_vars, NEW u \in Users, NEW day \in Days,
           LoadReview(u, day)
    PROVE  Collecting'
<1>1. /\ req'[u].report = day /\ req'[u].items = {} /\ req'[u].around \subseteq DOMAIN rows
      /\ \A id \in req'[u].around : rows[id].to = day \/ rows[id].from = day
      /\ \A v \in Users : v # u => req'[v] = req[v]
      /\ UNCHANGED rows
  BY LoadReviewMakes
<1>2. \A v \in Users : v # u /\ Reviewing(v) =>
        \A item \in req[v].items : KnownTo(v, item.chain) => KnownTo(v, item.chain)'
  BY <1>1, KnownKept
<1>3. IsFiniteSet(req'[u].items)
  BY <1>1, FS_EmptySet
<1> QED
  BY <1>1, <1>2, <1>3, CollectingRest

\* An item is added that the rows around the report allow, and no other changes.
LEMMA ItemCollects ==
    ASSUME TypeOK, Collecting, [Next]_vars, NEW u \in Users,
           \/ \E id \in DOMAIN rows : ConfirmItem(u, id)
           \/ \E task \in Work, previous \in 0 .. Len(rows) : CarryItem(u, task, previous)
    PROVE  Collecting'
<1>1. Reviewing(u)
  BY ItemMakes
<1>2. PICK new \in Items : Allowed(u, new) /\ Push(u, new)
  BY ItemMakes
<1> DEFINE I == req[u].items
<1>3. /\ UNCHANGED rows /\ \A v \in Users : v # u => req'[v] = req[v]
      /\ req'[u].report = req[u].report /\ req'[u].around = req[u].around
      /\ req'[u].items \in {I, I \cup {new}}
  BY <1>1, <1>2, PushMakes
<1>4. /\ \/ \E id \in DOMAIN rows : new.chain = rows[id].chain
         \/ new.chain = FreshChain
      /\ new.confirm = 0 => Landed(new.chain, req[u].report) \/ new.chain = FreshChain
  BY <1>2 DEF Allowed
<1>5. \A v \in Users : v # u /\ Reviewing(v) =>
        \A item \in req[v].items : KnownTo(v, item.chain) => KnownTo(v, item.chain)'
  <2>1. \A item \in req'[u].items :
            \/ Reviewing(u) /\ item \in req[u].items
            \/ item.chain = FreshChain
            \/ \E id \in DOMAIN rows : item.chain = rows[id].chain
    BY <1>1, <1>3, <1>4
  <2> QED
    BY <1>3, <2>1, KnownKept
<1>6. IsFiniteSet(req'[u].items)
  <2>1. IsFiniteSet(I)
    BY <1>1 DEF Collecting, ItemsAreFinite
  <2> QED
    BY <1>3, <2>1, FS_AddElement
<1>7. \A id \in req'[u].around :
        /\ id \in DOMAIN rows
        /\ rows[id].to = req'[u].report \/ rows[id].from = req'[u].report
  BY <1>1, <1>3 DEF Collecting, AroundStands
<1>8. \A chain : KnownTo(u, chain) => KnownTo(u, chain)'
  BY <1>3 DEF KnownTo, Reviewing
<1>9. KnownTo(u, FreshChain)
  BY FreshIs DEF KnownTo
<1>10. \A item \in req'[u].items :
        item.confirm = 0 =>
            Landed(item.chain, req'[u].report) \/ KnownTo(u, item.chain)'
  <2> SUFFICES ASSUME NEW item \in req'[u].items, item.confirm = 0,
                      ~ Landed(item.chain, req[u].report)
               PROVE  KnownTo(u, item.chain)'
    BY <1>3
  <2>1. KnownTo(u, item.chain)
    <3>1. CASE item \in I
      BY <1>1, <3>1 DEF Collecting, ItemsStand
    <3>2. CASE item = new
      BY <1>4, <1>9, <3>2
    <3> QED
      BY <1>3, <3>1, <3>2
  <2> QED
    BY <1>8, <2>1
<1> QED
  BY <1>3, <1>5, <1>6, <1>7, <1>10, CollectingRest

\* A request that ends, or a cancellation that begins, takes nothing from the others.
LEMMA EndCollects ==
    ASSUME TypeOK, Collecting, [Next]_vars, NEW u \in Users,
           \/ \E decision \in Decisions : CommitReview(u, decision)
           \/ CommitCancel(u) \/ Abort(u) \/ \E id \in DOMAIN rows : LoadCancel(u, id)
    PROVE  Collecting'
<1>1. /\ ~ Reviewing(u)' /\ \A v \in Users : v # u => req'[v] = req[v]
  BY EndMakes, LoadCancelMakes DEF Reviewing
<1>2. \A k \in DOMAIN rows' :
        \/ k \in DOMAIN rows /\ rows'[k].chain = rows[k].chain
        \/ Reviewing(u) /\ \E item \in req[u].items : rows'[k].chain = item.chain
  <2>0. DOMAIN rows = 1 .. Len(rows) /\ Len(rows) \in Nat
    BY RowsRead
  <2>1. ASSUME NEW decision \in Decisions, CommitReview(u, decision),
               NEW k \in DOMAIN rows'
        PROVE  \/ k \in DOMAIN rows /\ rows'[k].chain = rows[k].chain
               \/ Reviewing(u) /\ \E item \in req[u].items : rows'[k].chain = item.chain
    <3> DEFINE n == Len(rows)
               m == Cardinality(New(u))
               of == SetToSeq(New(u))
    <3>1. /\ Reviewing(u) /\ m \in Nat /\ rows' \in Seq(Row) /\ Len(rows') = n + m
          /\ \A i \in 1 .. n : SameWork(i)
          /\ \A i \in 1 .. m :
                rows'[n + i] = NewRow(of[i], req[u].report, req[u].to, Len(reviews) + 1)
      BY <2>1, CommitMakes
    <3>2. of \in [1 .. m -> New(u)] /\ New(u) \subseteq req[u].items
      BY <3>1, NewIs, SetToSeqIs
    <3> HIDE DEF m, of
    <3>3. k \in 1 .. n + m
      BY <3>1, <2>1, LenProperties
    <3>4. CASE k <= n
      BY <2>0, <3>1, <3>3, <3>4 DEF SameWork
    <3>5. CASE k > n
      <4>1. k - n \in 1 .. m /\ k = n + (k - n)
        BY <2>0, <3>1, <3>3, <3>5
      <4>2. rows'[k] = NewRow(of[k - n], req[u].report, req[u].to, Len(reviews) + 1)
        BY <3>1, <4>1
      <4>3. rows'[k].chain = of[k - n].chain
        BY <4>2 DEF NewRow
      <4> QED
        BY <3>1, <3>2, <4>1, <4>3
    <3> QED
      BY <2>0, <3>3, <3>4, <3>5
  <2>2. ASSUME CommitCancel(u), NEW k \in DOMAIN rows'
        PROVE  k \in DOMAIN rows /\ rows'[k].chain = rows[k].chain
    <3>1. /\ rows' \in Seq(Row) /\ Len(rows') = Len(rows)
          /\ \A i \in 1 .. Len(rows) : SameWork(i)
      BY <2>2, CancelMakes
    <3>2. k \in 1 .. Len(rows)
      BY <2>2, <3>1, LenProperties
    <3> QED
      BY <2>0, <3>1, <3>2 DEF SameWork
  <2>3. ASSUME Abort(u) \/ \E id \in DOMAIN rows : LoadCancel(u, id)
        PROVE  UNCHANGED rows
    BY <2>3 DEF Abort, LoadCancel
  <2> QED
    BY <2>1, <2>2, <2>3
<1>3. \A v \in Users : v # u /\ Reviewing(v) =>
        \A item \in req[v].items : KnownTo(v, item.chain) => KnownTo(v, item.chain)'
  BY <1>1, <1>2, KnownKept
<1> QED
  BY <1>1, <1>3, CollectingRest

\* Every step keeps the items of the reviews under way.
LEMMA CollectingStep == TypeOK /\ Collecting /\ [Next]_vars => Collecting'
<1> SUFFICES ASSUME TypeOK, Collecting, [Next]_vars PROVE Collecting'
  OBVIOUS
<1>1. ASSUME UNCHANGED <<rows, req>> PROVE Collecting'
  BY <1>1 DEF Collecting, ItemsAreFinite, AroundStands, ItemsStand, Reviewing,
              Landed, KnownTo
<1>2. ASSUME NEW u \in Users, UserStep(u) PROVE Collecting'
  BY <1>2, LoadReviewCollects, ItemCollects, EndCollects DEF UserStep
<1>3. UNCHANGED <<rows, req>> \/ \E u \in Users : UserStep(u)
  BY DEF Next, vars, Tick, Submit, Close
<1> QED
  BY <1>1, <1>2, <1>3

-----------------------------------------------------------------------------
(* The rows.                                                               *)

\* A row that a review has made, and the item it was made of.
LEMMA NewRowRead ==
    ASSUME TypeOK, Collecting, NEW u \in Users, NEW decision \in Decisions,
           CommitReview(u, decision), NEW k \in DOMAIN rows', k \notin DOMAIN rows
    PROVE  LET item == SetToSeq(New(u))[k - Len(rows)]
           IN  /\ k > Len(rows) /\ k - Len(rows) \in 1 .. Cardinality(New(u))
               /\ item \in New(u)
               /\ rows'[k].chain = item.chain /\ rows'[k].task = item.task
               /\ rows'[k].from = req[u].report
               /\ rows'[k].review = Len(reviews) + 1 /\ rows'[k].confirmedBy = 0
               /\ rows'[k].cancelled = FALSE
<1> DEFINE n == Len(rows)
           m == Cardinality(New(u))
           of == SetToSeq(New(u))
<1>1. /\ Reviewing(u) /\ m \in Nat /\ rows' \in Seq(Row) /\ Len(rows') = n + m
      /\ \A i \in 1 .. m :
            rows'[n + i] = NewRow(of[i], req[u].report, req[u].to, Len(reviews) + 1)
  BY CommitMakes
<1>2. of \in [1 .. m -> New(u)]
  BY <1>1, NewIs, SetToSeqIs
<1>3. DOMAIN rows = 1 .. n /\ n \in Nat
  BY RowsRead
<1>4. k \in 1 .. n + m
  <2> HIDE DEF m
  <2> QED
    BY <1>1, LenProperties
<1> HIDE DEF m, of, n
<1>5. k > n /\ k - n \in 1 .. m /\ k = n + (k - n)
  BY <1>1, <1>3, <1>4
<1> DEFINE i == k - n
<1>6. i \in 1 .. m /\ rows'[k] = NewRow(of[i], req[u].report, req[u].to, Len(reviews) + 1)
  BY <1>1, <1>5
<1>7. /\ rows'[k].chain = of[i].chain /\ rows'[k].task = of[i].task
      /\ rows'[k].from = req[u].report
      /\ rows'[k].review = Len(reviews) + 1 /\ rows'[k].confirmedBy = 0
      /\ rows'[k].cancelled = FALSE
  BY <1>6 DEF NewRow
<1>8. of[i] \in New(u)
  BY <1>2, <1>6
<1> QED
  BY <1>5, <1>7, <1>8 DEF n, m, of

\* No review is taken back, and a transaction adds one.
LEMMA ReviewsGrow ==
    ASSUME TypeOK, [Next]_vars
    PROVE  /\ Len(reviews') \in Nat /\ Len(reviews) <= Len(reviews')
           /\ \A u \in Users, decision \in Decisions :
                CommitReview(u, decision) => Len(reviews') = Len(reviews) + 1
<1>1. reviews \in Seq(Review) /\ Len(reviews) \in Nat
  BY ReviewsRead
<1>2. ASSUME NEW u \in Users, NEW decision \in Decisions, CommitReview(u, decision)
      PROVE  Len(reviews') = Len(reviews) + 1
  <2> DEFINE r == [report |-> req[u].report, rev |-> req[u].rev, by |-> u,
                   decision |-> decision]
  <2>1. reviews' = Append(reviews, r)
    BY <1>2 DEF CommitReview
  <2> HIDE DEF r
  <2> QED
    BY <1>1, <2>1
<1>3. \/ UNCHANGED reviews
      \/ \E u \in Users, decision \in Decisions : CommitReview(u, decision)
  BY WritersAre
<1> QED
  BY <1>1, <1>2, <1>3

\* At the start there are no rows and no cancellations.
LEMMA CancellationsInit == Init => Cancellations
BY DEF Init, Idle, Cancellations, RowsStand, CancelSeen, Cancelling

\* Every step keeps what a cancellation has seen of its row.
LEMMA CancellationsStep ==
    TypeOK /\ Collecting /\ Cancellations /\ [Next]_vars => Cancellations'
<1> SUFFICES ASSUME TypeOK, Collecting, Cancellations, [Next]_vars PROVE Cancellations'
  OBVIOUS
<1>0. /\ \A id \in DOMAIN rows : rows[id] \in Row /\ rows[id].review <= Len(reviews)
                                 /\ rows[id].confirmedBy <= Len(reviews)
      /\ Len(reviews) \in Nat /\ DOMAIN rows = 1 .. Len(rows)
  BY RowsRead, ReviewsRead DEF Cancellations, RowsStand
<1>1. /\ DOMAIN rows \subseteq DOMAIN rows'
      /\ \A id \in DOMAIN rows : SameWork(id)
  BY RowsGrow
<1>2. Len(reviews') \in Nat /\ Len(reviews) <= Len(reviews')
  BY ReviewsGrow
<1>3. RowsStand'
  <2> SUFFICES ASSUME NEW k \in DOMAIN rows'
               PROVE  /\ rows'[k].review <= Len(reviews')
                      /\ rows'[k].confirmedBy <= Len(reviews')
    BY DEF RowsStand
  <2>1. CASE UNCHANGED rows
    BY <1>0, <1>2, <2>1 DEF Row
  <2>2. ASSUME NEW u \in Users, NEW decision \in Decisions, CommitReview(u, decision)
        PROVE  /\ rows'[k].review <= Len(reviews')
               /\ rows'[k].confirmedBy <= Len(reviews')
    <3>1. Len(reviews') = Len(reviews) + 1
      BY <2>2, ReviewsGrow
    <3>2. CASE k \in DOMAIN rows
      <4>1. rows'[k].confirmedBy \in {rows[k].confirmedBy, Len(reviews) + 1}
        BY <1>0, <2>2, <3>2, CommitMakes
      <4>2. rows'[k].review = rows[k].review
        BY <1>1, <3>2 DEF SameWork
      <4> QED
        BY <1>0, <3>1, <3>2, <4>1, <4>2 DEF Row
    <3>3. CASE k \notin DOMAIN rows
      <4>1. rows'[k].review = Len(reviews) + 1 /\ rows'[k].confirmedBy = 0
        BY <2>2, <3>3, NewRowRead
      <4> QED
        BY <1>0, <3>1, <4>1
    <3> QED
      BY <3>2, <3>3
  <2>3. ASSUME NEW u \in Users, CommitCancel(u)
        PROVE  /\ rows'[k].review <= Len(reviews')
               /\ rows'[k].confirmedBy <= Len(reviews')
    <3>1. /\ rows' \in Seq(Row) /\ Len(rows') = Len(rows) /\ UNCHANGED reviews
          /\ \A i \in 1 .. Len(rows) :
                SameWork(i) /\ rows'[i].confirmedBy = rows[i].confirmedBy
      BY <2>3, CancelMakes
    <3>2. k \in 1 .. Len(rows)
      BY <3>1, LenProperties
    <3> QED
      BY <1>0, <3>1, <3>2 DEF SameWork
  <2>4. \/ UNCHANGED rows
        \/ \E u \in Users, decision \in Decisions : CommitReview(u, decision)
        \/ \E u \in Users : CommitCancel(u)
    BY WritersAre
  <2> QED
    BY <2>1, <2>2, <2>3, <2>4
<1>4. CancelSeen'
  <2> SUFFICES ASSUME NEW v \in Users, Cancelling(v)'
               PROVE  /\ req'[v].row \in DOMAIN rows
                      /\ rows[req'[v].row].review <= req'[v].seen
                      /\ req'[v].confirmedBy <= req'[v].seen
    BY <1>1 DEF CancelSeen, SameWork
  <2>1. CASE req'[v] = req[v]
    BY <2>1 DEF Cancellations, CancelSeen, Cancelling
  <2>2. ASSUME NEW id \in DOMAIN rows, LoadCancel(v, id)
        PROVE  /\ req'[v].row \in DOMAIN rows
               /\ rows[req'[v].row].review <= req'[v].seen
               /\ req'[v].confirmedBy <= req'[v].seen
    BY <1>0, <2>2, LoadCancelMakes
  <2>3. ASSUME NEW u \in Users, UserStep(u), req'[v] # req[v]
        PROVE  \E id \in DOMAIN rows : LoadCancel(v, id)
    <3>1. ASSUME NEW day \in Days, LoadReview(u, day) PROVE FALSE
      BY <2>3, <3>1, LoadReviewMakes DEF Cancelling
    <3>2. ASSUME \/ \E id \in DOMAIN rows : ConfirmItem(u, id)
                 \/ \E task \in Work, previous \in 0 .. Len(rows) :
                        CarryItem(u, task, previous)
          PROVE  FALSE
      <4>1. Reviewing(u) /\ \E item \in Items : Push(u, item)
        BY <3>2, ItemMakes
      <4>2. req'[u].op = "review" /\ \A w \in Users : w # u => req'[w] = req[w]
        BY <4>1, PushMakes
      <4> QED
        BY <2>3, <4>2 DEF Cancelling
    <3>3. ASSUME \/ \E decision \in Decisions : CommitReview(u, decision)
                 \/ CommitCancel(u) \/ Abort(u)
          PROVE  FALSE
      BY <2>3, <3>3, EndMakes DEF Cancelling
    <3>4. ASSUME NEW id \in DOMAIN rows, LoadCancel(u, id) PROVE u = v
      BY <2>3, <3>4, LoadCancelMakes
    <3> QED
      BY <2>3, <3>1, <3>2, <3>3, <3>4 DEF UserStep
  <2>4. UNCHANGED req \/ \E u \in Users : UserStep(u)
    BY DEF Next, vars, Tick, Submit, Close
  <2> QED
    BY <2>1, <2>2, <2>3, <2>4
<1> QED
  BY <1>3, <1>4 DEF Cancellations

\* At the start there are no rows.
LEMMA OnceInit == Init => CarriedOnce /\ ChainsAreLinked
BY DEF Init, CarriedOnce, ChainsAreLinked

\* Two rows that the unique indexes tell apart are told apart either way round.
LEMMA DistinctIsSymmetric == \A row, other : Distinct(row, other) => Distinct(other, row)
BY DEF Distinct

\* The unique indexes see the rows as they are when the review commits, whatever it
\* had read.
LEMMA OnceStep == TypeOK /\ Collecting /\ CarriedOnce /\ [Next]_vars => CarriedOnce'
<1> SUFFICES ASSUME TypeOK, Collecting, CarriedOnce, [Next]_vars,
                    NEW i \in DOMAIN rows', NEW j \in DOMAIN rows', i # j,
                    Live(i)', Live(j)', rows'[i].from = rows'[j].from
             PROVE  Distinct(rows'[i], rows'[j])
  BY DEF CarriedOnce
<1>1. \A k \in DOMAIN rows : SameWork(k) /\ (Live(k)' => Live(k))
  BY RowsGrow
<1>2. ASSUME i \in DOMAIN rows, j \in DOMAIN rows PROVE Distinct(rows'[i], rows'[j])
  <2>1. Distinct(rows[i], rows[j])
    BY <1>1, <1>2 DEF CarriedOnce, SameWork
  <2> QED
    BY <1>1, <1>2, <2>1 DEF Distinct, SameWork
<1>3. ASSUME NEW u \in Users, NEW decision \in Decisions, CommitReview(u, decision)
      PROVE  Distinct(rows'[i], rows'[j])
  <2> DEFINE day == req[u].report
             item(k) == SetToSeq(New(u))[k - Len(rows)]
  <2>1. RowsFree(day, New(u))
    BY <1>3 DEF CommitReview, New
  <2>2. ASSUME NEW k \in DOMAIN rows', k \notin DOMAIN rows
        PROVE  /\ item(k) \in New(u) /\ rows'[k].from = day
               /\ rows'[k].chain = item(k).chain /\ rows'[k].task = item(k).task
               /\ k - Len(rows) \in 1 .. Cardinality(New(u)) /\ k > Len(rows)
    BY <1>3, <2>2, NewRowRead
  <2>3. ASSUME NEW k \in DOMAIN rows', k \notin DOMAIN rows,
               NEW l \in DOMAIN rows, Live(l)', rows'[l].from = rows'[k].from
        PROVE  Distinct(rows'[k], rows'[l])
    <3>1. item(k) \in New(u) /\ Live(l) /\ rows[l].from = day
      BY <1>1, <2>2, <2>3 DEF SameWork
    <3>2. Distinct(item(k), rows[l])
      BY <2>1, <2>3, <3>1 DEF RowsFree
    <3> QED
      BY <1>1, <2>2, <2>3, <3>2 DEF Distinct, SameWork
  <2>4. ASSUME i \notin DOMAIN rows, j \notin DOMAIN rows
        PROVE  Distinct(rows'[i], rows'[j])
    <3>1. Reviewing(u) /\ IsFiniteSet(New(u))
      BY <1>3, CommitMakes, NewIs
    <3>2. /\ Len(rows) \in Nat /\ DOMAIN rows' = 1 .. Len(rows') /\ Len(rows') \in Nat
      BY RowsRead, RowsGrow, LenProperties
    <3>3. i - Len(rows) # j - Len(rows)
      BY <3>2
    <3>4. item(i) # item(j)
      BY <2>2, <2>4, <3>1, <3>3, SetToSeqIs
    <3>5. Distinct(item(i), item(j))
      BY <2>1, <2>2, <2>4, <3>4 DEF RowsFree
    <3> QED
      BY <2>2, <2>4, <3>5 DEF Distinct
  <2>5. CASE i \notin DOMAIN rows /\ j \in DOMAIN rows
    BY <2>3, <2>5
  <2>6. CASE i \in DOMAIN rows /\ j \notin DOMAIN rows
    BY <2>3, <2>6, DistinctIsSymmetric
  <2> QED
    BY <1>2, <2>4, <2>5, <2>6
<1>4. ASSUME NEW u \in Users, CommitCancel(u) PROVE DOMAIN rows' = DOMAIN rows
  <2>1. rows' \in Seq(Row) /\ Len(rows') = Len(rows)
    BY <1>4, CancelMakes
  <2> QED
    BY <2>1, LenProperties, RowsRead
<1>5. \/ UNCHANGED rows
      \/ \E u \in Users, decision \in Decisions : CommitReview(u, decision)
      \/ \E u \in Users : CommitCancel(u)
  BY WritersAre
<1> QED
  BY <1>2, <1>3, <1>4, <1>5

\* A new row has an earlier one of its chain only if that had landed on its report:
\* a chain that began with the review has one row.
LEMMA LinkedStep ==
    TypeOK /\ Collecting /\ ChainsAreLinked /\ [Next]_vars => ChainsAreLinked'
<1> SUFFICES ASSUME TypeOK, Collecting, ChainsAreLinked, [Next]_vars,
                    NEW i \in DOMAIN rows', NEW j \in 1 .. i - 1,
                    rows'[j].chain = rows'[i].chain
             PROVE  \E l \in 1 .. i - 1 : /\ rows'[l].chain = rows'[i].chain
                                          /\ rows'[l].to = rows'[i].from
  BY DEF ChainsAreLinked
<1>0. /\ DOMAIN rows = 1 .. Len(rows) /\ Len(rows) \in Nat
      /\ DOMAIN rows' = 1 .. Len(rows') /\ Len(rows') \in Nat
  BY RowsRead, RowsGrow, LenProperties
<1>1. \A k \in DOMAIN rows : SameWork(k)
  BY RowsGrow
<1>2. CASE i \in DOMAIN rows
  <2>1. 1 .. i - 1 \subseteq DOMAIN rows
    BY <1>0, <1>2
  <2>2. PICK l \in 1 .. i - 1 : rows[l].chain = rows[i].chain /\ rows[l].to = rows[i].from
    BY <1>1, <1>2, <2>1 DEF ChainsAreLinked, SameWork
  <2> QED
    BY <1>1, <1>2, <2>1, <2>2 DEF SameWork
<1>3. ASSUME i \notin DOMAIN rows, NEW u \in Users, NEW decision \in Decisions,
             CommitReview(u, decision)
      PROVE  \E l \in 1 .. i - 1 : /\ rows'[l].chain = rows'[i].chain
                                   /\ rows'[l].to = rows'[i].from
  <2> DEFINE item(k) == SetToSeq(New(u))[k - Len(rows)]
  <2>1. ASSUME NEW k \in DOMAIN rows', k \notin DOMAIN rows
        PROVE  /\ item(k) \in New(u) /\ rows'[k].from = req[u].report
               /\ rows'[k].chain = item(k).chain
               /\ k - Len(rows) \in 1 .. Cardinality(New(u)) /\ k > Len(rows)
    BY <1>3, <2>1, NewRowRead
  <2>2. Reviewing(u) /\ IsFiniteSet(New(u))
    BY <1>3, CommitMakes, NewIs
  <2>3. CASE Landed(item(i).chain, req[u].report)
    <3>1. PICK l \in DOMAIN rows : rows[l].chain = item(i).chain
                                   /\ rows[l].to = req[u].report
      BY <2>3 DEF Landed
    <3>2. l \in 1 .. i - 1
      BY <1>0, <1>3, <2>1
    <3> QED
      BY <1>1, <1>3, <2>1, <3>1, <3>2 DEF SameWork
  <2>4. CASE KnownTo(u, item(i).chain)
    <3>1. j \notin DOMAIN rows
      BY <1>1, <1>3, <2>1, <2>4 DEF KnownTo, SameWork
    <3>2. j \in DOMAIN rows' /\ i - Len(rows) # j - Len(rows)
      BY <1>0
    <3>3. item(i) # item(j)
      BY <1>3, <2>1, <2>2, <3>1, <3>2, SetToSeqIs
    <3>4. RowsFree(req[u].report, New(u))
      BY <1>3 DEF CommitReview, New
    <3>5. item(i).chain # item(j).chain
      BY <1>3, <2>1, <3>1, <3>2, <3>3, <3>4 DEF RowsFree, Distinct
    <3> QED
      BY <1>3, <2>1, <3>1, <3>2, <3>5
  <2>5. Landed(item(i).chain, req[u].report) \/ KnownTo(u, item(i).chain)
    <3>1. item(i) \in req[u].items /\ item(i).confirm = 0
      BY <1>3, <2>1 DEF New
    <3> QED
      BY <2>2, <3>1 DEF Collecting, ItemsStand
  <2> QED
    BY <2>3, <2>4, <2>5
<1>4. ASSUME NEW u \in Users, CommitCancel(u) PROVE DOMAIN rows' = DOMAIN rows
  BY <1>0, <1>4, CancelMakes
<1>5. \/ UNCHANGED rows
      \/ \E u \in Users, decision \in Decisions : CommitReview(u, decision)
      \/ \E u \in Users : CommitCancel(u)
  BY WritersAre
<1> QED
  BY <1>2, <1>3, <1>4, <1>5

-----------------------------------------------------------------------------
(* The two promises about a step.                                          *)

\* A review that says to be continued leaves a live row whose directive it is: it
\* makes one, or confirms one that its transaction finds live.
LEMMA ContinuedStep ==
    ASSUME TypeOK, Collecting, [Next]_vars, Len(reviews') > Len(reviews),
           Last(reviews').decision = "CONTINUED"
    PROVE  \E row \in ToSet(rows') : ~ row.cancelled /\ Directive(row) = Len(reviews')
<1>0. /\ reviews \in Seq(Review) /\ Len(reviews) \in Nat
      /\ DOMAIN rows = 1 .. Len(rows) /\ Len(rows) \in Nat
  BY RowsRead, ReviewsRead
<1>1. \/ UNCHANGED reviews
      \/ \E u \in Users, decision \in Decisions : CommitReview(u, decision)
  BY WritersAre
<1>2. PICK u \in Users, decision \in Decisions : CommitReview(u, decision)
  BY <1>0, <1>1
<1> DEFINE n == Len(rows)
           m == Cardinality(New(u))
           id == Len(reviews) + 1
           of == SetToSeq(New(u))
<1>3. Len(reviews') = id
  BY <1>2, ReviewsGrow
<1>4. decision = "CONTINUED"
  <2> DEFINE r == [report |-> req[u].report, rev |-> req[u].rev, by |-> u,
                   decision |-> decision]
  <2>1. reviews' = Append(reviews, r) /\ r.decision = decision
    BY <1>2 DEF CommitReview
  <2> HIDE DEF r
  <2>2. reviews'[id] = r
    BY <1>0, <2>1
  <2> QED
    BY <1>3, <2>1, <2>2 DEF Last
<1>5. /\ Reviewing(u) /\ m \in Nat /\ rows' \in Seq(Row) /\ Len(rows') = n + m
      /\ \A k \in 1 .. n :
            /\ rows'[k].cancelled = rows[k].cancelled
            /\ rows'[k].confirmedBy =
                 IF k \in {item.confirm : item \in req[u].items \ New(u)} /\ Live(k)
                 THEN id ELSE rows[k].confirmedBy
      /\ \A k \in 1 .. m : rows'[n + k] = NewRow(of[k], req[u].report, req[u].to, id)
  BY <1>2, CommitMakes
<1>6. IsFiniteSet(New(u))
  BY <1>5, NewIs
<1>7. DOMAIN rows' = 1 .. n + m
  <2> HIDE DEF n, m
  <2> QED
    BY <1>5, LenProperties
<1>8. ASSUME NEW k \in DOMAIN rows', rows'[k].cancelled = FALSE,
             Directive(rows'[k]) = id
      PROVE  \E row \in ToSet(rows') : ~ row.cancelled /\ Directive(row) = Len(reviews')
  <2>1. rows'[k] \in ToSet(rows')
    BY DEF ToSet
  <2>2. ~ rows'[k].cancelled
    BY <1>8, Zenon
  <2> QED
    BY <1>3, <1>8, <2>1, <2>2, Zenon
<1>9. PICK item \in req[u].items : TRUE
  BY <1>2, <1>4 DEF CommitReview
<1>10. CASE item \in New(u)
  <2>1. PICK k \in 1 .. m : of[k] = item
    BY <1>6, <1>10, SetToSeqIs
  <2>2. /\ rows'[n + k].cancelled = FALSE
        /\ rows'[n + k].confirmedBy = 0 /\ rows'[n + k].review = id
    <3>1. rows'[n + k] = NewRow(of[k], req[u].report, req[u].to, id)
      BY <1>5, <2>1
    <3> HIDE DEF n, m, of, id
    <3> QED
      BY <3>1 DEF NewRow
  <2>3. n + k \in DOMAIN rows'
    BY <1>0, <1>5, <1>7, <2>1
  <2> QED
    BY <1>8, <2>2, <2>3 DEF Directive
<1>11. CASE item \notin New(u)
  <2> DEFINE k == item.confirm
  <2>1. Live(k) /\ k \in {other.confirm : other \in req[u].items \ New(u)}
    BY <1>2, <1>11 DEF CommitReview, New, AllLive
  <2>2. k \in 1 .. n /\ rows[k].cancelled = FALSE
    <3>1. k \in 1 .. n /\ rows[k] \in Row /\ ~ rows[k].cancelled
      BY <1>0, <2>1, RowsRead DEF Live
    <3>2. rows[k].cancelled \in BOOLEAN
      BY <3>1 DEF Row
    <3> QED
      BY <3>1, <3>2
  <2>3. rows'[k].cancelled = FALSE /\ rows'[k].confirmedBy = id /\ k \in DOMAIN rows'
    BY <1>0, <1>5, <1>7, <2>1, <2>2
  <2>4. id # 0
    BY <1>0
  <2> QED
    BY <1>8, <2>3, <2>4 DEF Directive
<1> QED
  BY <1>10, <1>11

\* A row is cancelled only by a request that has read it after its last directive,
\* because the compare-and-set names the confirmation.
LEMMA KnowinglyStep ==
    ASSUME TypeOK, Collecting, Cancellations, [Next]_vars,
           NEW id \in DOMAIN rows, Live(id), rows'[id].cancelled
    PROVE  \E u \in Users : /\ req[u].op = "cancel" /\ req[u].row = id
                            /\ Directive(rows[id]) <= req[u].seen
                            /\ req'[u] = Idle
<1>0. id \in 1 .. Len(rows) /\ ~ rows[id].cancelled
  BY RowsRead DEF Live
<1>1. ASSUME NEW u \in Users, NEW decision \in Decisions, CommitReview(u, decision)
      PROVE  FALSE
  <2>1. rows'[id].cancelled = rows[id].cancelled
    BY <1>0, <1>1, CommitMakes
  <2> QED
    BY <1>0, <2>1, Zenon
<1>2. ASSUME NEW u \in Users, CommitCancel(u)
      PROVE  /\ req[u].op = "cancel" /\ req[u].row = id
             /\ Directive(rows[id]) <= req[u].seen /\ req'[u] = Idle
  <2>1. /\ Cancelling(u) /\ CancelClaim(u)
        /\ id # req[u].row => rows'[id] = rows[id]
        /\ req' = [req EXCEPT ![u] = Idle]
    BY <1>0, <1>2, CancelMakes
  <2>2. id = req[u].row
    BY <1>0, <2>1
  <2>3. rows[id].confirmedBy = req[u].confirmedBy
    BY <2>1, <2>2 DEF CancelClaim
  <2>4. rows[id].review <= req[u].seen /\ req[u].confirmedBy <= req[u].seen
    BY <2>1, <2>2 DEF Cancellations, CancelSeen
  <2>5. req'[u] = Idle
    BY <2>1, IdleIs, PutRequest
  <2> QED
    BY <2>1, <2>2, <2>3, <2>4, <2>5 DEF Cancelling, Directive
<1>3. \/ UNCHANGED rows
      \/ \E u \in Users, decision \in Decisions : CommitReview(u, decision)
      \/ \E u \in Users : CommitCancel(u)
  BY WritersAre
<1> QED
  BY <1>0, <1>1, <1>2, <1>3

-----------------------------------------------------------------------------
(* The results.                                                            *)

\* Whatever requests are in flight together, the items of a review fit the rows
\* that there are when it commits, and nobody holds a row he has not seen.
THEOREM CarrySafety == Spec => []IInv
<1>1. Init => IInv
  BY TypeInit, CollectingInit, CancellationsInit, OnceInit DEF IInv
<1>2. IInv /\ [Next]_vars => IInv'
  BY TypeStep, CollectingStep, CancellationsStep, OnceStep, LinkedStep DEF IInv
<1> QED
  BY <1>1, <1>2, PTL DEF Spec

\* Every report, review, row and request keeps its form (daily_report_carry_overs
\* and what its handlers have read).
THEOREM TypeCorrect == Spec => []TypeOK
<1>1. IInv => TypeOK
  BY DEF IInv
<1> QED
  BY <1>1, CarrySafety, PTL

\* Work is carried over once: a report has at most one live row of a chain and at
\* most one of a task (resolveCarryOverItems, reviewWriteSteps, the unique indexes).
THEOREM OnceCorrect == Spec => []CarriedOnce
<1>1. IInv => CarriedOnce
  BY DEF IInv
<1> QED
  BY <1>1, CarrySafety, PTL

\* A chain goes from day to day without a gap (loadCarryRowsAround,
\* resolveCarryOverItems).
THEOREM LinkedCorrect == Spec => []ChainsAreLinked
<1>1. IInv => ChainsAreLinked
  BY DEF IInv
<1> QED
  BY <1>1, CarrySafety, PTL

\* A verdict "to be continued" has work that is carried over when it is given
\* (reviewWriteSteps).
THEOREM ContinuedCorrect == Spec => ContinuedHasWork
<1>1. IInv /\ [Next]_vars =>
        (Len(reviews') > Len(reviews) /\ Last(reviews').decision = "CONTINUED"
         => \E row \in ToSet(rows') :
                ~ row.cancelled /\ Directive(row) = Len(reviews'))
  BY ContinuedStep DEF IInv
<1> QED
  BY <1>1, CarrySafety, PTL DEF Spec, ContinuedHasWork

\* Who cancels a row read it after the review that it stands for (cancelCarryOver).
THEOREM KnowinglyCorrect == Spec => CancelledKnowingly
<1>1. IInv /\ [Next]_vars =>
        \A id \in DOMAIN rows : Live(id) /\ rows'[id].cancelled
            => \E u \in Users : /\ req[u].op = "cancel" /\ req[u].row = id
                                /\ Directive(rows[id]) <= req[u].seen
                                /\ req'[u] = Idle
  BY KnowinglyStep DEF IInv
<1> QED
  BY <1>1, CarrySafety, PTL DEF Spec, CancelledKnowingly

=============================================================================
