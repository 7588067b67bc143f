-------------------------- MODULE HelpRequestsProofs --------------------------
(***************************************************************************)
(* The question of a report and its requests, for any members, contents    *)
(* and number of submissions. A submission finds the request it will write *)
(* to, or the answer it compares with, in one statement and writes in a    *)
(* later one. The proof shows what of that is still true by then: requests *)
(* are never removed, and only a submission changes their contents, which  *)
(* the lock of the report keeps apart from the next one.                   *)
(***************************************************************************)
EXTENDS HelpRequests, SequenceTheorems, WellFoundedInduction, TLAPS

Help == [status : Statuses, content : Questions]
Running == [by : Users, asks : Answers, found : 0 .. MaxRequests,
            last : Answers, step : {"found", "ready"}]

\* What was resolved is a request of the report.
ResolvedExist == resolved \in Seq(1 .. Len(helps))

OnRecord(content) == \E id \in 1 .. Len(helps) : helps[id].content = content

\* What a transaction has found is there, and the content it has read is still
\* that of a request. One that began may also end within the bound.
FoundStands ==
    tx # Idle => /\ submits < MaxSubmits
                 /\ tx.found \in 0 .. Len(helps)
                 /\ tx.last # None => OnRecord(tx.last)

IInv ==
    /\ TypeOK /\ ResolvedExist /\ FoundStands
    /\ QuestionIsKept

-----------------------------------------------------------------------------
(* The operators of the sequences.                                         *)

\* A set of numbers has a least one.
LEMMA LeastOf ==
    ASSUME NEW S \in SUBSET Nat, S # {}
    PROVE  \E x \in S : \A y \in S : x <= y
<1>1. PICK x \in S : \A y \in S : ~ (<<y, x>> \in OpToRel(<, Nat))
  BY NatLessThanWellFounded, WFMin
<1>2. \A y \in S : ~ (y < x)
  BY <1>1 DEF OpToRel
<1> QED
  BY <1>2

\* The largest of some indices is one of them.
LEMMA MaxIs ==
    ASSUME NEW n \in Nat, NEW S \in SUBSET (1 .. n), S # {}
    PROVE  Max(S) \in S
<1> DEFINE T == {n - x : x \in S}
<1>1. T \in SUBSET Nat /\ T # {}
  <2>1. \A x \in S : n - x \in Nat
    OBVIOUS
  <2> QED
    BY <2>1
<1> HIDE DEF T
<1>2. PICK t \in T : \A y \in T : t <= y
  BY <1>1, LeastOf
<1>3. \E x \in S : \A y \in S : x >= y
  <2>1. PICK x \in S : t = n - x
    BY DEF T
  <2>2. \A y \in S : n - x <= n - y
    BY <1>2, <2>1 DEF T
  <2>3. \A y \in S : x >= y
    BY <2>2
  <2> QED
    BY <2>3
<1> QED
  BY <1>3 DEF Max

\* What Min chooses of a set of numbers is one of them.
LEMMA MinIs ==
    ASSUME NEW S \in SUBSET Nat, S # {}
    PROVE  Min(S) \in S
BY LeastOf DEF Min

\* A sequence without one of its elements has only elements it had.
LEMMA RemoveFirstType ==
    ASSUME NEW S, NEW s \in Seq(S), NEW e
    PROVE  RemoveFirst(s, e) \in Seq(S)
<1> DEFINE I == {i \in 1 .. Len(s) : s[i] = e}
<1>1. CASE I = {}
  BY <1>1 DEF RemoveFirst
<1>2. CASE I # {}
  <2> DEFINE i == Min(I)
             left == SubSeq(s, 1, i - 1)
             right == SubSeq(s, i + 1, Len(s))
  <2>1. I \in SUBSET Nat
    OBVIOUS
  <2>2. i \in I
    <3> HIDE DEF I
    <3> QED
      BY <1>2, <2>1, MinIs
  <2>3. RemoveFirst(s, e) = left \o right
    BY <1>2 DEF RemoveFirst, RemoveAt, SelectInSeq
  <2>4. i \in 1 .. Len(s) /\ Len(s) \in Nat
    BY <2>2
  <2> HIDE DEF i, I
  <2>5. left \in Seq(S) /\ right \in Seq(S)
    <3>1. \A j \in 1 .. i - 1 : s[j] \in S
      BY <2>4, ElementOfSeq
    <3>2. \A j \in i + 1 .. Len(s) : s[j] \in S
      BY <2>4, ElementOfSeq
    <3>3. i - 1 \in Int /\ i + 1 \in Int /\ 1 \in Int
      BY <2>4
    <3> QED
      BY <2>4, <3>1, <3>2, <3>3, SubSeqProperties
  <2> HIDE DEF left, right
  <2> QED
    BY <2>3, <2>5, ConcatProperties
<1> QED
  BY <1>1, <1>2

-----------------------------------------------------------------------------
(* The shape of the state.                                                 *)

\* The requests there are, and how many.
LEMMA HelpsRead ==
    ASSUME TypeOK
    PROVE  /\ helps \in Seq(Help) /\ Len(helps) \in 0 .. MaxRequests
           /\ DOMAIN helps = 1 .. Len(helps)
           /\ \A id \in 1 .. Len(helps) : helps[id] \in Help
<1>1. helps \in Seq(Help)
  BY DEF TypeOK, Help
<1> QED
  BY <1>1, ElementOfSeq, LenProperties, HelpAssumption DEF TypeOK

\* A transaction that is under way has the fields of one.
LEMMA TxRead ==
    ASSUME TypeOK, tx # Idle
    PROVE  tx \in Running
BY DEF TypeOK, Transactions, Running

\* What a transaction may have found.
LEMMA OpenAre ==
    ASSUME TypeOK
    PROVE  /\ OpenRequests \in SUBSET (1 .. Len(helps))
           /\ OpenRequests # {} => Max(OpenRequests) \in 1 .. Len(helps)
<1>1. OpenRequests \in SUBSET (1 .. Len(helps)) /\ Len(helps) \in Nat
  BY HelpsRead, HelpAssumption DEF OpenRequests
<1>2. OpenRequests # {} => Max(OpenRequests) \in OpenRequests
  BY <1>1, MaxIs
<1> QED
  BY <1>1, <1>2

\* At the start there are no requests, and the invariant holds.
LEMMA InitInv == Init => IInv
<1> SUFFICES ASSUME Init PROVE IInv
  OBVIOUS
<1>1. helps \in Seq(Help) /\ Len(helps) = 0 /\ DOMAIN helps = {}
      /\ resolved \in Seq(Ids) /\ resolved \in Seq(1 .. Len(helps))
  BY EmptySeq DEF Init
<1>2. TypeOK
  <2>1. asked \in Answers /\ submitted \in BOOLEAN
    BY DEF Init, Answers
  <2>2. loaded \in [Users -> Loads] /\ tx \in Transactions
    BY DEF Init, Loads, Transactions
  <2>3. /\ submits \in 0 .. MaxSubmits /\ unticked \subseteq Ids
        /\ notices \subseteq Ids \X (Questions \cup Statuses)
    BY HelpAssumption DEF Init
  <2> QED
    BY <1>1, <2>1, <2>2, <2>3, HelpAssumption DEF TypeOK, Help
<1> QED
  BY <1>1, <1>2 DEF Init, IInv, ResolvedExist, FoundStands, QuestionIsKept

\* A step that leaves the requests there with their contents.
LEMMA KeepsContents ==
    ASSUME IInv, TypeOK', FoundStands',
           Len(helps') = Len(helps),
           \A id \in 1 .. Len(helps) : helps'[id].content = helps[id].content,
           resolved' \in Seq(1 .. Len(helps)),
           submitted' /\ asked' # None =>
                (submitted /\ asked' = asked) \/ OnRecord(asked')
    PROVE  IInv'
<1>1. DOMAIN helps = 1 .. Len(helps) /\ Len(helps) \in Nat
  BY HelpsRead, HelpAssumption DEF IInv
<1>2. DOMAIN helps' = 1 .. Len(helps')
  <2>1. helps' \in Seq(Help)
    BY DEF TypeOK, Help
  <2> QED
    BY <2>1, LenProperties
<1>3. QuestionIsKept'
  BY <1>1, <1>2 DEF IInv, QuestionIsKept, OnRecord
<1>4. ResolvedExist'
  BY DEF ResolvedExist
<1> QED
  BY <1>3, <1>4 DEF IInv

\* A step that changes neither the requests nor what is submitted.
LEMMA LeavesRequests ==
    ASSUME IInv, TypeOK', FoundStands',
           UNCHANGED <<asked, helps, resolved>>,
           submitted' => submitted
    PROVE  IInv'
BY KeepsContents DEF IInv, ResolvedExist

\* What a transaction has found stands while the requests stay there with their
\* contents.
LEMMA FoundStays ==
    ASSUME IInv, (tx' = tx /\ submits' = submits) \/ tx' = Idle,
           Len(helps') = Len(helps),
           \A id \in 1 .. Len(helps) : helps'[id].content = helps[id].content
    PROVE  FoundStands'
BY DEF IInv, FoundStands, OnRecord

\* A request whose status or content is written is a request, and the others are
\* what they were.
LEMMA WrittenHelp ==
    ASSUME TypeOK, NEW id \in 1 .. Len(helps), NEW e \in Help,
           helps' = [helps EXCEPT ![id] = e]
    PROVE  /\ helps' \in Seq(Help) /\ Len(helps') = Len(helps)
           /\ helps'[id] = e
           /\ \A j \in 1 .. Len(helps) : j # id => helps'[j] = helps[j]
BY HelpsRead, ExceptSeq

\* A transition writes the status of one request, and may leave a notice.
LEMMA TransitionStep ==
    ASSUME IInv, NEW u \in Users, NEW id \in DOMAIN helps, NEW from \in SUBSET Statuses,
           NEW to \in Statuses, Transition(u, id, from, to),
           resolved' \in Seq(1 .. Len(helps)), unticked' \in SUBSET Ids
    PROVE  IInv'
<1> DEFINE e == [helps[id] EXCEPT !.status = to]
<1>0. TypeOK /\ id \in 1 .. Len(helps) /\ helps[id] \in Help /\ Len(helps) <= MaxRequests
  BY HelpsRead DEF IInv, TypeOK
<1>1. e \in Help /\ e.content = helps[id].content
  BY <1>0 DEF Help
<1>2. helps' = [helps EXCEPT ![id] = e]
  BY <1>0, HelpsRead DEF Transition
<1> HIDE DEF e
<1>3. /\ helps' \in Seq(Help) /\ Len(helps') = Len(helps)
      /\ \A j \in 1 .. Len(helps) : helps'[j].content = helps[j].content
  BY <1>0, <1>1, <1>2, WrittenHelp
<1>4. id \in Ids
  BY <1>0, HelpsRead, HelpAssumption DEF Ids
<1>5. UNCHANGED <<submitted, asked, loaded, tx, submits>>
  BY DEF Transition
<1>6. notices' \subseteq Ids \X (Questions \cup Statuses)
  BY <1>0, <1>4 DEF Transition, TypeOK
<1>7. resolved' \in Seq(Ids)
  <2>1. 1 .. Len(helps) \subseteq Ids
    BY <1>0, HelpsRead, HelpAssumption DEF Ids
  <2> QED
    BY <2>1, SeqMonotonic
<1>8. TypeOK'
  BY <1>0, <1>3, <1>5, <1>6, <1>7 DEF TypeOK, Help
<1> QED
  BY <1>3, <1>5, <1>6, <1>8, FoundStays, KeepsContents

\* An answer is written to the request that was found, or to a new one.
LEMMA AskStep ==
    ASSUME IInv, NEW id \in 1 .. Len(helps) + 1, NEW content \in Questions,
           Ask(id, content), id \in Ids,
           submitted' = TRUE, asked' = content, tx' = Idle,
           UNCHANGED <<resolved, unticked>>,
           loaded' \in [Users -> Loads], submits' \in 0 .. MaxSubmits
    PROVE  IInv'
<1>0. /\ TypeOK /\ helps \in Seq(Help) /\ Len(helps) \in 0 .. MaxRequests
      /\ DOMAIN helps = 1 .. Len(helps)
      /\ \A j \in 1 .. Len(helps) : helps[j] \in Help
  BY HelpsRead DEF IInv
<1>1. /\ helps' \in Seq(Help) /\ Len(helps') \in Nat
      /\ Len(helps') >= Len(helps) /\ Len(helps') <= MaxRequests
      /\ id \in 1 .. Len(helps') /\ helps'[id].content = content
      /\ \A j \in 1 .. Len(helps') :
            j # id => j \in 1 .. Len(helps) /\ helps'[j] = helps[j]
  <2>1. CASE id \in DOMAIN helps
    <3> DEFINE e == [helps[id] EXCEPT !.content = content]
    <3>1. e \in Help /\ e.content = content
      BY <1>0, <2>1 DEF Help
    <3>2. helps' = [helps EXCEPT ![id] = e]
      BY <1>0, <2>1 DEF Ask
    <3> HIDE DEF e
    <3> QED
      BY <1>0, <2>1, <3>1, <3>2, WrittenHelp, HelpAssumption
  <2>2. CASE id \notin DOMAIN helps
    <3> DEFINE e == [status |-> "OPEN", content |-> content]
    <3>1. e \in Help /\ e.content = content
      BY DEF Help, Statuses, OPEN_HELP_STATUSES
    <3>2. helps' = Append(helps, e)
      BY <2>2 DEF Ask
    <3>3. id = Len(helps) + 1
      BY <1>0, <2>2, HelpAssumption
    <3> HIDE DEF e
    <3>4. /\ helps' \in Seq(Help) /\ Len(helps') = Len(helps) + 1
          /\ helps'[Len(helps) + 1] = e
          /\ \A j \in 1 .. Len(helps) : helps'[j] = helps[j]
      BY <1>0, <3>1, <3>2, AppendProperties
    <3> QED
      BY <1>0, <3>1, <3>3, <3>4, HelpAssumption DEF Ids
  <2> QED
    BY <2>1, <2>2
<1>2. DOMAIN helps' = 1 .. Len(helps')
  BY <1>1, LenProperties
<1>3. notices' = notices \cup {<<id, content>>}
  BY DEF Ask
<1>4. TypeOK'
  <2>1. notices' \subseteq Ids \X (Questions \cup Statuses)
    BY <1>0, <1>3 DEF TypeOK
  <2>2. tx' \in Transactions /\ asked' \in Answers /\ submitted' \in BOOLEAN
    BY DEF Transactions, Answers
  <2> QED
    BY <1>0, <1>1, <2>1, <2>2 DEF TypeOK, Help
<1>5. ResolvedExist'
  <2>1. 1 .. Len(helps) \subseteq 1 .. Len(helps')
    BY <1>0, <1>1
  <2> QED
    BY <2>1, SeqMonotonic DEF IInv, ResolvedExist
<1>6. QuestionIsKept'
  BY <1>1, <1>2 DEF QuestionIsKept
<1> QED
  BY <1>4, <1>5, <1>6 DEF IInv, FoundStands

\* A blank answer changes the status of requests only.
LEMMA WithdrawHelps ==
    ASSUME TypeOK, NEW u, Withdraw(u)
    PROVE  /\ helps' \in Seq(Help) /\ Len(helps') = Len(helps)
           /\ \A id \in 1 .. Len(helps) : helps'[id].content = helps[id].content
<1>0. /\ helps \in Seq(Help) /\ Len(helps) \in Nat
      /\ DOMAIN helps = 1 .. Len(helps)
      /\ \A j \in 1 .. Len(helps) : helps[j] \in Help
  BY HelpsRead, HelpAssumption
<1>1. ASSUME NEW id \in 1 .. Len(helps)
      PROVE  helps'[id] \in Help /\ helps'[id].content = helps[id].content
  <2> DEFINE e == [helps[id] EXCEPT !.status = "CANCELLED"]
  <2>1. e \in Help /\ e.content = helps[id].content
    BY <1>0 DEF Help, Statuses
  <2>2. helps'[id] = e \/ helps'[id] = helps[id]
    BY <1>0 DEF Withdraw
  <2> HIDE DEF e
  <2> QED
    BY <1>0, <2>1, <2>2
<1>2. helps' = [id \in 1 .. Len(helps) |-> helps'[id]]
  BY <1>0 DEF Withdraw
<1>3. helps' \in [1 .. Len(helps) -> Help]
  BY <1>1, <1>2
<1>4. helps' \in Seq(Help) /\ Len(helps') = Len(helps)
  BY <1>0, <1>3, SeqDef
<1> QED
  BY <1>1, <1>4

-----------------------------------------------------------------------------
(* Every step keeps the invariant.                                         *)

\* The transaction picks the newest request that is open, if one is.
LEMMA ClaimStep ==
    ASSUME IInv, NEW u \in Users, NEW answer \in Answers, Claim(u, answer)
    PROVE  IInv'
<1> DEFINE newest == IF answer = None THEN 0 ELSE NewestOpen
           step == IF answer = None \/ newest # 0 THEN "ready" ELSE "found"
           t == [by |-> u, asks |-> answer, found |-> newest, last |-> None,
                 step |-> step]
<1>1. newest \in 0 .. Len(helps) /\ Len(helps) \in 0 .. MaxRequests
  BY OpenAre, HelpsRead, HelpAssumption DEF IInv, NewestOpen
<1>2. tx' = t
  BY DEF Claim
<1>3. step \in {"found", "ready"}
  OBVIOUS
<1> HIDE DEF newest, step
<1>4. t \in Running /\ t.found = newest /\ t.last = None
  BY <1>1, <1>3, HelpAssumption DEF Running, Answers
<1> HIDE DEF t
<1>5. UNCHANGED <<submitted, asked, helps, resolved, notices, unticked, loaded, submits>>
  BY DEF Claim
<1>6. TypeOK'
  BY <1>2, <1>4, <1>5 DEF IInv, TypeOK, Transactions, Running
<1>7. FoundStands'
  BY <1>1, <1>2, <1>4, <1>5 DEF FoundStands, Claim
<1> QED
  BY <1>5, <1>6, <1>7, LeavesRequests

\* The content it compares with is that of a request.
LEMMA FindStep ==
    ASSUME IInv, FindResolved
    PROVE  IInv'
<1> DEFINE last == IF resolved = <<>> THEN None ELSE helps[Last(resolved)].content
           t == [tx EXCEPT !.step = "ready", !.last = last]
<1>1. tx \in Running /\ tx # Idle
  BY TxRead DEF IInv, FindResolved
<1>2. last \in Answers /\ (last # None => OnRecord(last))
  <2>1. CASE resolved = <<>>
    BY <2>1 DEF Answers
  <2>2. CASE resolved # <<>>
    <3>1. resolved \in Seq(1 .. Len(helps))
      BY DEF IInv, ResolvedExist
    <3>2. Len(resolved) \in 1 .. Len(resolved)
      BY <2>2, <3>1, EmptySeq
    <3>3. Last(resolved) \in 1 .. Len(helps)
      BY <3>1, <3>2, ElementOfSeq DEF Last
    <3>4. helps[Last(resolved)].content \in Questions
      BY <3>3, HelpsRead DEF IInv, Help
    <3> QED
      BY <2>2, <3>3, <3>4 DEF Answers, OnRecord
  <2> QED
    BY <2>1, <2>2
<1>3. tx' = t
  BY DEF FindResolved
<1> HIDE DEF last
<1>4. t \in Running /\ t.found = tx.found /\ t.last = last
  BY <1>1, <1>2 DEF Running
<1> HIDE DEF t
<1>5. UNCHANGED <<submitted, asked, helps, resolved, notices, unticked, loaded, submits>>
  BY DEF FindResolved
<1>6. TypeOK'
  BY <1>3, <1>4, <1>5 DEF IInv, TypeOK, Transactions, Running
<1>7. FoundStands'
  BY <1>1, <1>2, <1>3, <1>4, <1>5 DEF IInv, FoundStands, OnRecord
<1> QED
  BY <1>5, <1>6, <1>7, LeavesRequests

\* What a submission writes.
LEMMA CommitStep ==
    ASSUME IInv, CommitSubmit
    PROVE  IInv'
<1>0. TypeOK /\ tx \in Running /\ tx # Idle
  BY TxRead DEF IInv, CommitSubmit
<1>1. /\ submitted' = TRUE /\ asked' = tx.asks /\ tx' = Idle
      /\ submits' = submits + 1 /\ UNCHANGED <<resolved, unticked>>
      /\ loaded' = [loaded EXCEPT ![tx.by] = "idle"]
  BY DEF CommitSubmit
<1>2. loaded' \in [Users -> Loads]
  BY <1>0, <1>1 DEF TypeOK, Loads
<1>3. submits' \in 0 .. MaxSubmits
  BY <1>0, <1>1, HelpAssumption DEF IInv, TypeOK, FoundStands
<1>4. tx.asks \in Answers /\ tx.found \in 0 .. Len(helps) /\ Len(helps) \in 0 .. MaxRequests
  BY <1>0, HelpsRead DEF IInv, FoundStands, Running
<1>5. ASSUME helps' \in Seq(Help), Len(helps') = Len(helps), UNCHANGED notices
      PROVE  TypeOK'
  <2>1. submitted' \in BOOLEAN /\ asked' \in Answers /\ tx' \in Transactions
    BY <1>1, <1>4 DEF Transactions
  <2> QED
    BY <1>0, <1>1, <1>2, <1>3, <1>5, <2>1 DEF TypeOK, Help
<1>6. CASE tx.asks = None /\ Withdraw(tx.by)
  <2>1. /\ helps' \in Seq(Help) /\ Len(helps') = Len(helps)
        /\ \A id \in 1 .. Len(helps) : helps'[id].content = helps[id].content
    BY <1>0, <1>6, WithdrawHelps
  <2>2. UNCHANGED notices
    BY <1>6 DEF Withdraw
  <2>3. TypeOK' /\ FoundStands'
    BY <1>1, <1>5, <2>1, <2>2 DEF FoundStands
  <2> QED
    BY <1>1, <1>6, <2>1, <2>2, <2>3, KeepsContents DEF IInv, ResolvedExist
<1>7. CASE tx.asks # None /\ tx.found # 0 /\ Ask(tx.found, tx.asks)
  <2>1. tx.found \in 1 .. Len(helps) + 1 /\ tx.found \in Ids
    BY <1>4, <1>7, HelpAssumption DEF Ids
  <2>2. tx.asks \in Questions
    BY <1>4, <1>7 DEF Answers
  <2> QED
    BY <1>1, <1>2, <1>3, <1>7, <2>1, <2>2, AskStep
<1>8. CASE /\ tx.asks # None /\ tx.found = 0 /\ ~ IsAnswered(tx)
           /\ Len(helps) < MaxRequests
           /\ Ask(Len(helps) + 1, tx.asks)
  <2>1. Len(helps) + 1 \in 1 .. Len(helps) + 1 /\ Len(helps) + 1 \in Ids
    BY <1>4, <1>8, HelpAssumption DEF Ids
  <2>2. tx.asks \in Questions
    BY <1>4, <1>8 DEF Answers
  <2> QED
    BY <1>1, <1>2, <1>3, <1>8, <2>1, <2>2, AskStep
<1>9. CASE /\ tx.asks # None /\ tx.found = 0 /\ IsAnswered(tx)
           /\ UNCHANGED <<helps, notices>>
  <2>1. OnRecord(tx.asks)
    BY <1>0, <1>9 DEF IInv, FoundStands, IsAnswered
  <2>2. helps' \in Seq(Help)
    BY <1>0, <1>9, HelpsRead
  <2>3. TypeOK' /\ FoundStands'
    BY <1>1, <1>5, <1>9, <2>2 DEF FoundStands
  <2> QED
    BY <1>1, <1>9, <2>1, <2>3, KeepsContents DEF IInv, ResolvedExist
<1> QED
  BY <1>6, <1>7, <1>8, <1>9 DEF CommitSubmit

\* Every step keeps the invariant.
LEMMA StepInv == IInv /\ [Next]_vars => IInv'
<1> SUFFICES ASSUME IInv, [Next]_vars PROVE IInv'
  OBVIOUS
<1>0. TypeOK /\ resolved \in Seq(1 .. Len(helps)) /\ DOMAIN helps = 1 .. Len(helps)
  BY HelpsRead DEF IInv, ResolvedExist
<1>1. ASSUME NEW u \in Users, LoadSubmit(u) PROVE IInv'
  <2>1. loaded' \in [Users -> Loads]
    BY <1>0, <1>1 DEF LoadSubmit, TypeOK, Loads
  <2>2. TypeOK'
    BY <1>0, <1>1, <2>1 DEF LoadSubmit, TypeOK
  <2>3. FoundStands'
    BY <1>1, FoundStays DEF LoadSubmit
  <2> QED
    BY <1>1, <2>2, <2>3, LeavesRequests DEF LoadSubmit
<1>2. ASSUME NEW u \in Users, AbortSubmit(u) PROVE IInv'
  <2>1. loaded' \in [Users -> Loads] /\ (tx' = tx \/ tx' = Idle)
    BY <1>0, <1>2 DEF AbortSubmit, TypeOK, Loads
  <2>2. UNCHANGED <<submitted, asked, helps, resolved, notices, unticked, submits>>
    BY <1>2 DEF AbortSubmit
  <2>3. tx' \in Transactions
    BY <1>0, <2>1 DEF TypeOK, Transactions
  <2>4. TypeOK'
    BY <1>0, <2>1, <2>2, <2>3 DEF TypeOK
  <2>5. FoundStands'
    BY <2>1, <2>2, FoundStays
  <2> QED
    BY <2>2, <2>4, <2>5, LeavesRequests
<1>3. CASE ReopenReport
  <2>1. TypeOK'
    BY <1>0, <1>3 DEF ReopenReport, TypeOK
  <2>2. FoundStands'
    BY <1>3, FoundStays DEF ReopenReport
  <2> QED
    BY <1>3, <2>1, <2>2, LeavesRequests DEF ReopenReport
<1>4. ASSUME NEW id \in DOMAIN helps, NEW u \in Users, Acknowledge(u, id) PROVE IInv'
  <2>1. {"OPEN"} \in SUBSET Statuses /\ "ACKNOWLEDGED" \in Statuses
    BY DEF Statuses, OPEN_HELP_STATUSES
  <2> QED
    BY <1>0, <1>4, <2>1, TransitionStep DEF Acknowledge, TypeOK
<1>5. ASSUME NEW id \in DOMAIN helps, NEW u \in Users, Resolve(u, id) PROVE IInv'
  <2>1. OPEN_HELP_STATUSES \in SUBSET Statuses /\ "RESOLVED" \in Statuses
    BY DEF Statuses
  <2>2. resolved' \in Seq(1 .. Len(helps)) /\ unticked' \in SUBSET Ids
    BY <1>0, <1>5, AppendProperties DEF Resolve, TypeOK
  <2> QED
    BY <1>5, <2>1, <2>2, TransitionStep DEF Resolve
<1>6. ASSUME NEW id \in DOMAIN helps, NEW u \in Users, Reopen(u, id) PROVE IInv'
  <2>1. {"RESOLVED"} \in SUBSET Statuses /\ "OPEN" \in Statuses
    BY DEF Statuses, OPEN_HELP_STATUSES
  <2>2. resolved' \in Seq(1 .. Len(helps)) /\ unticked' \in SUBSET Ids
    <3>1. id \in Ids
      BY <1>0, HelpsRead, HelpAssumption DEF Ids
    <3> QED
      BY <1>0, <1>6, <3>1, RemoveFirstType DEF Reopen, TypeOK
  <2> QED
    BY <1>6, <2>1, <2>2, TransitionStep DEF Reopen
<1>7. ASSUME NEW id \in DOMAIN helps, Cancel(id) PROVE IInv'
  <2>1. OPEN_HELP_STATUSES \in SUBSET Statuses /\ "CANCELLED" \in Statuses
    BY DEF Statuses
  <2>2. Requester \in Users
    BY DEF Users
  <2> QED
    BY <1>0, <1>7, <2>1, <2>2, TransitionStep DEF Cancel, TypeOK
<1>8. CASE UNCHANGED vars
  <2>1. TypeOK'
    BY <1>0, <1>8 DEF vars, TypeOK
  <2>2. FoundStands'
    BY <1>8, FoundStays DEF vars
  <2> QED
    BY <1>8, <2>1, <2>2, LeavesRequests DEF vars
<1> QED
  BY <1>1, <1>2, <1>3, <1>4, <1>5, <1>6, <1>7, <1>8, ClaimStep, FindStep, CommitStep
     DEF Next

-----------------------------------------------------------------------------
(* The results.                                                            *)

\* The inductive invariant holds in every state: what a transaction has found are
\* requests there are, and the question of the last submission is on record (submit,
\* transition).
THEOREM HelpSafety == Spec => []IInv
BY InitInv, StepInv, PTL DEF Spec

\* Every variable keeps its type.
THEOREM TypeCorrect == Spec => []TypeOK
<1>1. IInv => TypeOK
  BY DEF IInv
<1> QED
  BY <1>1, HelpSafety, PTL

\* The question of a submitted report is on record, whatever those who move its
\* requests do between the statements of the submission.
THEOREM KeptCorrect == Spec => []QuestionIsKept
<1>1. IInv => QuestionIsKept
  BY DEF IInv
<1> QED
  BY <1>1, HelpSafety, PTL

\* What a step may do to the requests that were answered.
Stands ==
    \A id \in DOMAIN helps :
        /\ helps[id].status = "CANCELLED" => helps'[id].status = "CANCELLED"
        /\ helps[id].status = "RESOLVED" =>
            \/ helps'[id].status = "RESOLVED"
            \/ helps'[id].status = "OPEN" /\ submits' = submits

\* A transition takes nothing back that was cancelled, and only the reopening of
\* a request takes back what was resolved.
LEMMA TransitionStands ==
    ASSUME TypeOK, NEW u \in Users, NEW id \in DOMAIN helps, NEW from, NEW to,
           Transition(u, id, from, to), "CANCELLED" \notin from,
           "RESOLVED" \in from => to = "OPEN"
    PROVE  Stands
<1>0. /\ DOMAIN helps = 1 .. Len(helps)
      /\ \A j \in 1 .. Len(helps) : helps[j] \in Help
  BY HelpsRead
<1> DEFINE e == [helps[id] EXCEPT !.status = to]
<1>1. e.status = to
  BY <1>0 DEF Help
<1>2. /\ helps[id].status \in from /\ submits' = submits
      /\ helps' = [helps EXCEPT ![id] = e]
  BY <1>0, HelpsRead DEF Transition
<1> HIDE DEF e
<1>3. helps'[id] = e /\ \A j \in DOMAIN helps : j # id => helps'[j] = helps[j]
  BY <1>0, <1>2, HelpsRead
<1> QED
  BY <1>1, <1>2, <1>3 DEF Stands

\* A submission cancels what is open and writes contents.
LEMMA CommitStands ==
    ASSUME TypeOK, CommitSubmit
    PROVE  Stands
<1>0. /\ helps \in Seq(Help) /\ DOMAIN helps = 1 .. Len(helps)
      /\ \A j \in 1 .. Len(helps) : helps[j] \in Help
  BY HelpsRead
<1> SUFFICES ASSUME NEW j \in DOMAIN helps,
                    helps[j].status \in {"CANCELLED", "RESOLVED"}
             PROVE  helps'[j].status = helps[j].status
  BY DEF Stands
<1>1. ASSUME NEW u, Withdraw(u) PROVE helps'[j].status = helps[j].status
  <2>1. j \notin WithdrawnBy(u)
    BY DEF WithdrawnBy, OpenRequests, IsHelpOpen, OPEN_HELP_STATUSES
  <2>2. helps'[j] = helps[j]
    BY <1>1, <2>1 DEF Withdraw
  <2> QED
    BY <2>2
<1>2. ASSUME NEW id, NEW content, Ask(id, content)
      PROVE  helps'[j].status = helps[j].status
  <2>1. CASE id \in DOMAIN helps
    <3> DEFINE e == [helps[id] EXCEPT !.content = content]
    <3>1. e.status = helps[id].status
      BY <1>0, <2>1 DEF Help
    <3>2. helps' = [helps EXCEPT ![id] = e]
      BY <1>0, <1>2, <2>1 DEF Ask
    <3> HIDE DEF e
    <3> QED
      BY <1>0, <2>1, <3>1, <3>2
  <2>2. CASE id \notin DOMAIN helps
    <3> DEFINE e == [status |-> "OPEN", content |-> content]
    <3>1. helps' = Append(helps, e)
      BY <1>2, <2>2 DEF Ask
    <3> HIDE DEF e
    <3>2. helps'[j] = helps[j]
      BY <1>0, <3>1
    <3> QED
      BY <3>2
  <2> QED
    BY <2>1, <2>2
<1> QED
  BY <1>1, <1>2 DEF CommitSubmit

\* No step undoes an answer, whatever a transaction has read.
LEMMA StandsStep == TypeOK /\ [Next]_vars => Stands
<1> SUFFICES ASSUME TypeOK, [Next]_vars PROVE Stands
  OBVIOUS
<1>1. ASSUME UNCHANGED helps PROVE Stands
  BY <1>1 DEF Stands
<1>2. ASSUME NEW id \in DOMAIN helps, NEW u \in Users,
             Acknowledge(u, id) \/ Resolve(u, id) \/ Reopen(u, id)
      PROVE  Stands
  BY <1>2, TransitionStands DEF Acknowledge, Resolve, Reopen, OPEN_HELP_STATUSES
<1>3. ASSUME NEW id \in DOMAIN helps, Cancel(id) PROVE Stands
  <2>1. Requester \in Users
    BY DEF Users
  <2> QED
    BY <1>3, <2>1, TransitionStands DEF Cancel, OPEN_HELP_STATUSES
<1>4. \/ UNCHANGED helps
      \/ CommitSubmit
      \/ \E id \in DOMAIN helps :
            \/ \E u \in Users : Acknowledge(u, id) \/ Resolve(u, id) \/ Reopen(u, id)
            \/ Cancel(id)
  BY DEF Next, vars, LoadSubmit, AbortSubmit, Claim, FindResolved, ReopenReport
<1> QED
  BY <1>1, <1>2, <1>3, <1>4, CommitStands

\* What was resolved or cancelled stays so whatever is submitted.
THEOREM AnsweredCorrect == Spec => AnsweredStays
<1>1. TypeOK /\ [Next]_vars =>
        [\A id \in DOMAIN helps :
            /\ helps[id].status = "CANCELLED" => helps'[id].status = "CANCELLED"
            /\ helps[id].status = "RESOLVED" =>
                \/ helps'[id].status = "RESOLVED"
                \/ helps'[id].status = "OPEN" /\ submits' = submits]_vars
  BY StandsStep DEF Stands
<1> QED
  BY <1>1, TypeCorrect, PTL DEF Spec, AnsweredStays

-----------------------------------------------------------------------------
(* Questions that are open.                                                *)

\* What is open without a tick that was taken off.
Asked == OpenRequests \ unticked

\* A transaction that found no open request will find only such that a tick taken off
\* has opened since.
NoneAsked == tx # Idle /\ tx.asks # None /\ tx.found = 0 => Asked = {}

\* A step that opens no request but by taking off its tick.
LEMMA NoneOpened ==
    ASSUME OneIsOpen, NoneAsked, Asked' \subseteq Asked,
           \/ tx' = Idle
           \/ tx # Idle /\ tx'.asks = tx.asks /\ tx'.found = tx.found
           \/ Asked' = {}
    PROVE  OneIsOpen' /\ NoneAsked'
<1>1. \A a, b \in Asked : a = b
  BY DEF OneIsOpen, Asked
<1>2. OneIsOpen'
  BY <1>1 DEF OneIsOpen, Asked
<1> QED
  BY <1>2 DEF NoneAsked

\* A transition opens no request but by taking off its tick.
LEMMA TransitionOpens ==
    ASSUME TypeOK, OneIsOpen, NoneAsked, NEW u, NEW id \in DOMAIN helps,
           NEW from, NEW to, Transition(u, id, from, to), unticked \subseteq unticked',
           from \subseteq OPEN_HELP_STATUSES \/ id \in unticked'
    PROVE  OneIsOpen' /\ NoneAsked'
<1> DEFINE e == [helps[id] EXCEPT !.status = to]
<1>1. helps' = [helps EXCEPT ![id] = e] /\ tx' = tx /\ helps[id].status \in from
  BY HelpsRead DEF Transition
<1> HIDE DEF e
<1>2. DOMAIN helps' = DOMAIN helps /\ \A j \in DOMAIN helps : j # id => helps'[j] = helps[j]
  BY <1>1, HelpsRead
<1>3. Asked' \subseteq Asked
  BY <1>1, <1>2 DEF Asked, OpenRequests, IsHelpOpen
<1> QED
  BY <1>1, <1>3, NoneOpened DEF NoneAsked

\* What a submission writes: it asks anew only where it found nothing.
LEMMA CommitOpens ==
    ASSUME IInv, OneIsOpen, NoneAsked, CommitSubmit
    PROVE  OneIsOpen' /\ NoneAsked'
<1>0. /\ helps \in Seq(Help) /\ Len(helps) \in Nat /\ DOMAIN helps = 1 .. Len(helps)
      /\ \A j \in 1 .. Len(helps) : helps[j] \in Help
  BY HelpsRead, HelpAssumption DEF IInv
<1>1. tx # Idle /\ tx' = Idle /\ unticked' = unticked
  BY DEF CommitSubmit
<1>2. ASSUME Withdraw(tx.by) PROVE Asked' \subseteq Asked
  <2>1. ASSUME NEW j \in OpenRequests' PROVE j \in OpenRequests
    <3>1. j \in DOMAIN helps
      BY <1>2 DEF Withdraw, OpenRequests
    <3>2. helps'[j] = helps[j] \/ helps'[j] = [helps[j] EXCEPT !.status = "CANCELLED"]
      BY <1>2, <3>1 DEF Withdraw
    <3>3. [helps[j] EXCEPT !.status = "CANCELLED"].status = "CANCELLED"
      BY <1>0, <3>1 DEF Help
    <3> QED
      BY <3>1, <3>2, <3>3 DEF OpenRequests, IsHelpOpen, OPEN_HELP_STATUSES
  <2> QED
    BY <1>1, <2>1 DEF Asked
<1>3. ASSUME tx.found # 0, Ask(tx.found, tx.asks) PROVE Asked' \subseteq Asked
  <2>1. tx.found \in 1 .. Len(helps)
    BY <1>0, <1>1, <1>3 DEF IInv, FoundStands
  <2> DEFINE e == [helps[tx.found] EXCEPT !.content = tx.asks]
  <2>2. e.status = helps[tx.found].status
    BY <1>0, <2>1 DEF Help
  <2>3. helps' = [helps EXCEPT ![tx.found] = e]
    BY <1>0, <1>3, <2>1 DEF Ask
  <2> HIDE DEF e
  <2>4. /\ DOMAIN helps' = DOMAIN helps
        /\ \A j \in DOMAIN helps : helps'[j].status = helps[j].status
    BY <1>0, <2>1, <2>2, <2>3
  <2> QED
    BY <1>1, <2>4 DEF Asked, OpenRequests, IsHelpOpen
<1>4. ASSUME tx.asks # None, tx.found = 0, Ask(Len(helps) + 1, tx.asks)
      PROVE  OneIsOpen' /\ NoneAsked'
  <2>1. Asked = {}
    BY <1>1, <1>4 DEF NoneAsked
  <2> DEFINE e == [status |-> "OPEN", content |-> tx.asks]
  <2>2. helps' = Append(helps, e)
    BY <1>0, <1>4 DEF Ask
  <2> HIDE DEF e
  <2>3. /\ DOMAIN helps' = 1 .. Len(helps) + 1
        /\ \A j \in 1 .. Len(helps) : helps'[j] = helps[j]
    BY <1>0, <2>2
  <2>4. Asked' \subseteq {Len(helps) + 1}
    BY <1>0, <1>1, <2>1, <2>3 DEF Asked, OpenRequests, IsHelpOpen
  <2> QED
    BY <1>1, <2>4 DEF OneIsOpen, NoneAsked, Asked
<1>5. ASSUME UNCHANGED helps PROVE Asked' \subseteq Asked
  BY <1>1, <1>5 DEF Asked, OpenRequests, IsHelpOpen
<1> QED
  BY <1>1, <1>2, <1>3, <1>4, <1>5, NoneOpened DEF CommitSubmit

\* The search of a transaction says whether anything is open.
LEMMA ClaimOpens ==
    ASSUME IInv, OneIsOpen, NoneAsked, NEW u, NEW answer, Claim(u, answer)
    PROVE  OneIsOpen' /\ NoneAsked'
<1>1. /\ tx'.asks = answer /\ tx'.found = IF answer = None THEN 0 ELSE NewestOpen
      /\ UNCHANGED <<helps, unticked>>
  BY DEF Claim
<1>2. Asked' = Asked /\ OneIsOpen'
  BY <1>1 DEF Asked, OneIsOpen, OpenRequests, IsHelpOpen
<1>3. NewestOpen = 0 => OpenRequests = {}
  BY OpenAre, HelpsRead, HelpAssumption DEF IInv, NewestOpen
<1> QED
  BY <1>1, <1>2, <1>3 DEF NoneAsked, Asked

\* Every step keeps a second question from being open.
LEMMA OpenStep ==
    ASSUME IInv, OneIsOpen, NoneAsked, [Next]_vars
    PROVE  OneIsOpen' /\ NoneAsked'
<1>0. TypeOK
  BY DEF IInv
<1>1. ASSUME UNCHANGED <<helps, unticked>>, tx' = tx \/ tx' = Idle
      PROVE  OneIsOpen' /\ NoneAsked'
  BY <1>1 DEF OneIsOpen, NoneAsked, Asked, OpenRequests, IsHelpOpen
<1>2. ASSUME NEW u \in Users, LoadSubmit(u) \/ AbortSubmit(u)
      PROVE  OneIsOpen' /\ NoneAsked'
  BY <1>1, <1>2 DEF LoadSubmit, AbortSubmit
<1>3. CASE FindResolved
  <2>1. tx \in Running /\ tx # Idle
    BY <1>0, <1>3, TxRead DEF FindResolved
  <2>2. PICK last : tx' = [tx EXCEPT !.step = "ready", !.last = last]
    BY <1>3 DEF FindResolved
  <2>3. tx'.asks = tx.asks /\ tx'.found = tx.found
    BY <2>1, <2>2 DEF Running
  <2>4. Asked' = Asked
    BY <1>3 DEF FindResolved, Asked, OpenRequests, IsHelpOpen
  <2> QED
    BY <2>1, <2>3, <2>4, NoneOpened
<1>4. ASSUME NEW id \in DOMAIN helps, NEW u \in Users,
             Acknowledge(u, id) \/ Resolve(u, id) \/ Reopen(u, id)
      PROVE  OneIsOpen' /\ NoneAsked'
  BY <1>0, <1>4, TransitionOpens DEF Acknowledge, Resolve, Reopen, OPEN_HELP_STATUSES
<1>5. ASSUME NEW id \in DOMAIN helps, Cancel(id) PROVE OneIsOpen' /\ NoneAsked'
  BY <1>0, <1>5, TransitionOpens DEF Cancel
<1>6. CASE ReopenReport \/ UNCHANGED vars
  BY <1>1, <1>6 DEF ReopenReport, vars
<1> QED
  BY <1>2, <1>3, <1>4, <1>5, <1>6, ClaimOpens, CommitOpens DEF Next

\* A second question is open only where a tick was taken off, for any members, helpers
\* and number of submissions.
THEOREM OneOpenCorrect == Spec => []OneIsOpen
<1>1. Init => OneIsOpen /\ NoneAsked
  <2>1. <<>> \in Seq(Help) /\ DOMAIN <<>> = {}
    OBVIOUS
  <2> QED
    BY <2>1 DEF Init, OneIsOpen, NoneAsked, OpenRequests
<1>2. IInv /\ OneIsOpen /\ NoneAsked /\ [Next]_vars => OneIsOpen' /\ NoneAsked'
  BY OpenStep
<1> QED
  BY <1>1, <1>2, HelpSafety, PTL DEF Spec

=============================================================================
