----------------------------- MODULE DraftProofs ------------------------------
(***************************************************************************)
(* The draft of a report: who gets one (Generation), and what becomes of   *)
(* the text that its member writes in it (ReportForm). The two modules     *)
(* share no name, and the theorems about one say nothing of the other.     *)
(*                                                                         *)
(* Generation, for any members, calls, scopes, crashes and length of the   *)
(* day. Every call reads the reports of the day and writes in a later      *)
(* statement. That the set of those who owe a report stays what it was at  *)
(* 07:30 rests on two facts about the calls under way: they all count the  *)
(* members of that minute, and what one is about to create is neither more *)
(* than those members nor less than who of them has no report yet,         *)
(* whatever the others have created since it read. The owner of a group    *)
(* that is deleted meanwhile drops out of them for whoever reads later,    *)
(* and for nobody who has read.                                            *)
(*                                                                         *)
(* ReportForm, for any number of keys, reopenings, lost messages and       *)
(* hidings. Messages are bags, of which only what is added and what is     *)
(* taken is needed. That one submission at a time is under way tells what  *)
(* the form may believe of the report's status, and that no text is        *)
(* dropped without its member being told follows from both.                *)
(***************************************************************************)
EXTENDS Generation, ReportForm, TLAPS

-----------------------------------------------------------------------------
(* Generation.                                                             *)

AllCalls == Calls \cup {Cron}

\* Of a scope that existed at 07:30, every call asks for the members of 07:30.
CallsOfTheMorning ==
    createdAt <= SnapshotAt =>
        \A c \in AllCalls : call[c].step # "idle" => call[c].options.at = SnapshotAt

\* The owner of a group that has been deleted.
LostOwner == IF group = "deleted" THEN {Owner} ELSE {}

\* What a call is about to create completes the reports of the day.
MissingCompletes ==
    createdAt <= SnapshotAt =>
        \A c \in AllCalls : call[c].step = "create" =>
            /\ GetMemberIdsAt(SnapshotAt) \ Reported \subseteq call[c].missing
            /\ call[c].missing \subseteq GetMemberIdsAt(SnapshotAt) \cup LostOwner

\* The group is older than its scope.
GroupIsOlder == group # "none" => groupAt <= createdAt

IInv ==
    /\ TypeOK /\ GroupIsOlder
    /\ CallsOfTheMorning /\ MissingCompletes /\ ObligationIsFixed

-----------------------------------------------------------------------------
\* 07:30 is a time of the day.
LEMMA SnapshotTime == SnapshotAt \in Asked
BY GenerationAssumption DEF SnapshotAt, Asked

\* The members of 07:30, as somebody who asks for them now finds them.
LEMMA MembersThen ==
    ASSUME IInv, createdAt <= SnapshotAt
    PROVE  GetMemberIdsAt(SnapshotAt)
             = periodsAt[SnapshotAt] \cup (IF group = "there" THEN {Owner} ELSE {})
<1>1. group = "there" => groupAt <= SnapshotAt
  BY DEF IInv, TypeOK, GroupIsOlder, Times, SnapshotAt
<1> QED
  BY <1>1 DEF GetMemberIdsAt, OwnerAt

\* A call that is under way has its options, and what it creates is of users.
LEMMA CallFields ==
    ASSUME NEW s \in CallStates
    PROVE  /\ s.step \in {"idle", "begin", "create", "enqueue"}
           /\ s.step # "idle" => s.options \in Options
           /\ s.step = "create" => s.missing \in SUBSET Users
BY DEF CallStates, Idle

\* The records the handlers write are states of a call.
LEMMA WrittenStates ==
    ASSUME NEW o \in Options, NEW m \in SUBSET Users
    PROVE  /\ Idle \in CallStates
           /\ [step |-> "begin", options |-> o] \in CallStates
           /\ [step |-> "enqueue", options |-> o] \in CallStates
           /\ [step |-> "create", options |-> o, missing |-> m] \in CallStates
BY DEF CallStates, Idle

\* Nobody is called when the process starts.
LEMMA InitInv == Init => IInv
<1> SUFFICES ASSUME Init PROVE IInv
  OBVIOUS
<1>1. \A c \in AllCalls : call[c] = Idle /\ call[c].step = "idle"
  BY DEF Init, AllCalls, Idle
<1>2. Idle \in CallStates
  BY DEF CallStates
<1>3. now \in Times /\ Reported = {}
  BY GenerationAssumption DEF Init, Times, Reported, SnapshotAt
<1>4. TypeOK
  <2>1. now \in Times /\ createdAt \in Times /\ periodsAt \in [Asked -> SUBSET Users]
    BY <1>3 DEF Init
  <2>6. group \in {"none", "there", "deleted"} /\ groupAt \in Times
    BY <2>1, GenerationAssumption DEF Init, Times
  <2>2. {enabled, archived} \subseteq BOOLEAN /\ ready \subseteq Users
    BY DEF Init
  <2>3. reports \in [Users -> {"none", "DRAFT", "ARCHIVED"}]
    BY DEF Init
  <2>4. call \in [Calls \cup {Cron} -> CallStates]
    BY <1>2 DEF Init
  <2>5. updates \in 0 .. MaxUpdates /\ crashes \in 0 .. MaxCrashes
        /\ starts \in 0 .. MaxStarts
    BY GenerationAssumption DEF Init
  <2> QED
    BY <2>1, <2>2, <2>3, <2>4, <2>5, <2>6 DEF TypeOK
<1>5. GroupIsOlder
  BY <1>4 DEF Init, GroupIsOlder, TypeOK, Times
<1> QED
  BY <1>1, <1>3, <1>4, <1>5 DEF IInv, CallsOfTheMorning, MissingCompletes,
       ObligationIsFixed

\* A step that lets every call go on as it was or stop, and leaves the reports of
\* the day there.
LEMMA QuietStep ==
    ASSUME IInv, TypeOK', UNCHANGED <<members, createdAt>>, Reported' = Reported,
           \A c \in AllCalls : \/ call'[c] = call[c]
                               \/ /\ call'[c].step # "create"
                                  /\ \/ call'[c].step = "idle"
                                     \/ /\ createdAt <= SnapshotAt
                                            => call'[c].options.at = SnapshotAt
    PROVE  IInv'
<1>1. UNCHANGED <<periodsAt, group, groupAt>>
  BY DEF members
<1>2. LostOwner' = LostOwner /\ GetMemberIdsAt(SnapshotAt)' = GetMemberIdsAt(SnapshotAt)
  BY <1>1 DEF LostOwner, GetMemberIdsAt, OwnerAt, SnapshotAt
<1>3. GroupIsOlder'
  BY <1>1 DEF IInv, GroupIsOlder
<1>4. CallsOfTheMorning' /\ MissingCompletes'
  BY <1>2 DEF IInv, CallsOfTheMorning, MissingCompletes
<1>5. ObligationIsFixed'
  BY <1>1, <1>2 DEF IInv, ObligationIsFixed
<1> QED
  BY <1>3, <1>4, <1>5 DEF IInv

\* Whoever calls for a scope that existed at 07:30 asks for the members of then.
LEMMA BeginStep ==
    ASSUME IInv, NEW c \in AllCalls, NEW o \in Options, Begin(c, o),
           starts' \in 0 .. MaxStarts,
           createdAt <= SnapshotAt => o.at = SnapshotAt
    PROVE  IInv'
<1> DEFINE s == [step |-> "begin", options |-> o]
<1>1. s \in CallStates /\ s.step = "begin" /\ s.options = o
  BY WrittenStates
<1>2. call' = [call EXCEPT ![c] = s]
  BY DEF Begin
<1> HIDE DEF s
<1>3. call \in [AllCalls -> CallStates]
  BY DEF IInv, TypeOK, AllCalls
<1>4. call' \in [AllCalls -> CallStates]
  BY <1>1, <1>2, <1>3
<1>5. TypeOK'
  BY <1>4 DEF IInv, TypeOK, Begin, AllCalls, members, scope
<1>6. Reported' = Reported
  BY DEF Begin, Reported
<1> QED
  BY <1>1, <1>2, <1>3, <1>5, <1>6, QuietStep DEF Begin, scope

\* Every step keeps the invariant.
LEMMA StepInv == IInv /\ [Next]_vars => IInv'
<1> SUFFICES ASSUME IInv, [Next]_vars PROVE IInv'
  OBVIOUS
<1>0. /\ TypeOK /\ call \in [AllCalls -> CallStates]
      /\ \A c \in AllCalls : call[c] \in CallStates
  BY DEF IInv, TypeOK, AllCalls
<1>1. CASE RunGeneration
  <2> DEFINE o == WithOptions(SnapshotAt, TRUE, FALSE, FALSE)
  <2>1. o \in Options /\ o.at = SnapshotAt
    BY SnapshotTime DEF WithOptions, Options
  <2>2. Begin(Cron, o) /\ UNCHANGED starts
    BY <1>1 DEF RunGeneration
  <2> HIDE DEF o
  <2> QED
    BY <1>0, <2>1, <2>2, BeginStep DEF AllCalls, TypeOK
<1>2. ASSUME NEW c \in Calls, NEW o \in Options, Start(c, o),
             createdAt <= SnapshotAt => o.at = SnapshotAt
      PROVE  IInv'
  <2>1. starts' \in 0 .. MaxStarts
    BY <1>0, <1>2, GenerationAssumption DEF TypeOK, Start
  <2> QED
    BY <1>2, <2>1, BeginStep DEF AllCalls, Start
<1>3. ASSUME NEW c \in Calls, EnsureReportsForUser(c) PROVE IInv'
  <2>1. /\ WithOptions(SnapshotAt, TRUE, FALSE, FALSE) \in Options
        /\ WithOptions(SnapshotAt, TRUE, FALSE, FALSE).at = SnapshotAt
    BY SnapshotTime DEF WithOptions, Options
  <2> QED
    BY <1>2, <1>3, <2>1 DEF EnsureReportsForUser
<1>4. ASSUME NEW c \in Calls, GenerateTodayForScope(c) PROVE IInv'
  <2>1. /\ ManualSnapshotInstant \in Asked
        /\ createdAt <= SnapshotAt => ManualSnapshotInstant = SnapshotAt
    <3>1. now \in Asked /\ createdAt \in Int
      BY <1>0, <1>4 DEF TypeOK, Times, Asked, SnapshotAt, GenerateTodayForScope, Start,
                        Begin
    <3> QED
      BY <3>1, SnapshotTime DEF ManualSnapshotInstant, SnapshotAt
  <2>2. /\ WithOptions(ManualSnapshotInstant, TRUE, TRUE, FALSE) \in Options
        /\ WithOptions(ManualSnapshotInstant, TRUE, TRUE, FALSE).at
              = ManualSnapshotInstant
    BY <2>1 DEF WithOptions, Options
  <2> QED
    BY <1>2, <1>4, <2>1, <2>2 DEF GenerateTodayForScope
<1>5. ASSUME NEW c \in Calls, EnsureReportsForRead(c) PROVE IInv'
  <2>1. /\ WithOptions(SnapshotAt, FALSE, TRUE, TRUE) \in Options
        /\ WithOptions(SnapshotAt, FALSE, TRUE, TRUE).at = SnapshotAt
    BY SnapshotTime DEF WithOptions, Options
  <2> QED
    BY <1>2, <1>5, <2>1 DEF EnsureReportsForRead
<1>6. ASSUME NEW c \in AllCalls, NEW s \in CallStates, call[c].step # "idle",
             call' = [call EXCEPT ![c] = s],
             s.step \in {"idle", "enqueue"},
             s.step = "enqueue" => s.options = call[c].options,
             UNCHANGED <<now, members, scope, reports, bounds>>,
             ready' \subseteq Users
      PROVE  IInv'
  <2>1. call' \in [AllCalls -> CallStates]
    BY <1>0, <1>6
  <2>2. TypeOK'
    BY <1>0, <1>6, <2>1 DEF TypeOK, AllCalls, members, scope, bounds
  <2>3. Reported' = Reported
    BY <1>6 DEF Reported
  <2>4. createdAt <= SnapshotAt => call[c].options.at = SnapshotAt
    BY <1>6 DEF IInv, CallsOfTheMorning
  <2>5. \A d \in AllCalls : d # c => call'[d] = call[d]
    BY <1>0, <1>6
  <2>6. call'[c] = s
    BY <1>0, <1>6
  <2>7. call'[c].step # "create" /\ \/ call'[c].step = "idle"
                                    \/ createdAt <= SnapshotAt
                                         => call'[c].options.at = SnapshotAt
    BY <1>6, <2>4, <2>6
  <2> QED
    BY <1>6, <2>2, <2>3, <2>5, <2>7, QuietStep DEF scope
<1>7. ASSUME NEW c \in AllCalls, ReadExisting(c) PROVE IInv'
  <2> DEFINE o == call[c].options
             all == GetMemberIdsAt(o.at)
             missing == all \ Reported
             s == [step |-> "create", options |-> o, missing |-> missing]
             e == [step |-> "enqueue", options |-> o]
  <2>1. call[c].step = "begin" /\ o \in Options
    BY <1>0, <1>7, CallFields DEF ReadExisting
  <2>2. all \in SUBSET Users
    BY <1>0, <2>1, GenerationAssumption DEF GetMemberIdsAt, OwnerAt, Options, TypeOK
  <2>3. /\ Idle \in CallStates /\ Idle.step = "idle"
        /\ e \in CallStates /\ e.step = "enqueue" /\ e.options = o
        /\ s \in CallStates /\ s.step = "create" /\ s.options = o /\ s.missing = missing
    BY <2>1, <2>2, WrittenStates DEF Idle
  <2>4. UNCHANGED <<now, members, scope, reports, ready, bounds>>
    BY <1>7 DEF ReadExisting
  <2>5. \/ call' = [call EXCEPT ![c] = Idle]
        \/ call' = [call EXCEPT ![c] = e]
        \/ call' = [call EXCEPT ![c] = s]
    BY <1>7 DEF ReadExisting, Finish, Done, GoEnqueue
  <2>6. missing = all \ Reported
    OBVIOUS
  <2>7. createdAt <= SnapshotAt => all = GetMemberIdsAt(SnapshotAt)
    BY <2>1 DEF IInv, CallsOfTheMorning
  <2> HIDE DEF e, s, all, missing
  <2>8. ready \subseteq Users
    BY <1>0 DEF TypeOK
  <2>9. CASE call' = [call EXCEPT ![c] = Idle] \/ call' = [call EXCEPT ![c] = e]
    BY <1>6, <2>1, <2>3, <2>4, <2>8, <2>9
  <2>10. CASE call' = [call EXCEPT ![c] = s]
    <3>1. call' \in [AllCalls -> CallStates]
      BY <1>0, <2>3, <2>10
    <3>2. TypeOK'
      BY <1>0, <2>4, <3>1 DEF TypeOK, AllCalls, members, scope, bounds
    <3>3. Reported' = Reported /\ UNCHANGED <<members, createdAt>>
      BY <2>4 DEF Reported, scope
    <3>8. /\ UNCHANGED <<periodsAt, group, groupAt>>
          /\ GetMemberIdsAt(SnapshotAt)' = GetMemberIdsAt(SnapshotAt)
      BY <3>3 DEF members, GetMemberIdsAt, OwnerAt, SnapshotAt
    <3>4. call'[c] = s /\ \A d \in AllCalls : d # c => call'[d] = call[d]
      BY <1>0, <2>10
    <3>5. CallsOfTheMorning'
      BY <2>1, <2>3, <3>3, <3>4 DEF IInv, CallsOfTheMorning
    <3>6. MissingCompletes'
      BY <2>3, <2>6, <2>7, <3>3, <3>4, <3>8 DEF IInv, MissingCompletes, LostOwner
    <3>7. ObligationIsFixed' /\ GroupIsOlder'
      BY <3>3, <3>8 DEF IInv, ObligationIsFixed, GroupIsOlder
    <3> QED
      BY <3>2, <3>5, <3>6, <3>7 DEF IInv
  <2> QED
    BY <2>5, <2>9, <2>10
<1>8. ASSUME NEW c \in AllCalls, CreateReports(c) PROVE IInv'
  <2> DEFINE o == call[c].options
             e == [step |-> "enqueue", options |-> o]
  <2>1. call[c].step = "create" /\ o \in Options /\ call[c].missing \in SUBSET Users
    BY <1>0, <1>8, CallFields DEF CreateReports
  <2>2. /\ Idle \in CallStates /\ Idle.step = "idle"
        /\ e \in CallStates /\ e.step = "enqueue" /\ e.options = o
    BY <2>1, WrittenStates DEF Idle
  <2>3. call' = [call EXCEPT ![c] = Idle] \/ call' = [call EXCEPT ![c] = e]
    BY <1>8 DEF CreateReports, Done, GoEnqueue
  <2> HIDE DEF e
  <2>4. /\ call' \in [AllCalls -> CallStates]
        /\ call'[c].step # "create"
        /\ call'[c].step # "idle" => call'[c].options = o
        /\ \A d \in AllCalls : d # c => call'[d] = call[d]
    BY <1>0, <2>2, <2>3
  <2>5. /\ reports' = [u \in Users |->
                IF u \in call[c].missing /\ reports[u] = "none" THEN "DRAFT"
                ELSE reports[u]]
        /\ UNCHANGED <<now, members, scope, ready, bounds>>
    BY <1>8 DEF CreateReports
  <2>6. reports' \in [Users -> {"none", "DRAFT", "ARCHIVED"}]
    BY <1>0, <2>5 DEF TypeOK
  <2>7. TypeOK'
    BY <1>0, <2>4, <2>5, <2>6 DEF TypeOK, AllCalls, members, scope, bounds
  <2>8. Reported' = Reported \cup call[c].missing
    BY <1>0, <2>1, <2>5 DEF TypeOK, Reported
  <2>9. /\ UNCHANGED <<members, createdAt>> /\ UNCHANGED <<periodsAt, group, groupAt>>
        /\ GetMemberIdsAt(SnapshotAt)' = GetMemberIdsAt(SnapshotAt)
    BY <2>5 DEF scope, members, GetMemberIdsAt, OwnerAt, SnapshotAt
  <2>10. CallsOfTheMorning'
    BY <2>1, <2>4, <2>9 DEF IInv, CallsOfTheMorning
  <2>11. MissingCompletes'
    BY <2>4, <2>8, <2>9 DEF IInv, MissingCompletes, LostOwner
  <2>12. ObligationIsFixed' /\ GroupIsOlder'
    <3>1. ASSUME createdAt <= SnapshotAt
          PROVE  \/ Reported' = {}
                 \/ Reported' = GetMemberIdsAt(SnapshotAt)
                 \/ group = "deleted"
                       /\ Reported' = periodsAt[SnapshotAt] \cup {Owner}
      BY <2>1, <2>8, <3>1, MembersThen
         DEF IInv, MissingCompletes, ObligationIsFixed, LostOwner
    <3> QED
      BY <2>9, <3>1 DEF IInv, ObligationIsFixed, GroupIsOlder
  <2> QED
    BY <2>7, <2>10, <2>11, <2>12 DEF IInv
<1>9. ASSUME NEW c \in AllCalls, EnqueueReady(c) PROVE IInv'
  <2>1. Idle \in CallStates /\ Idle.step = "idle"
    BY DEF CallStates, Idle
  <2>2. ready' \subseteq Users
    BY <1>0, <1>9 DEF EnqueueReady, Announced, Reported, TypeOK
  <2>3. /\ call[c].step = "enqueue" /\ call' = [call EXCEPT ![c] = Idle]
        /\ UNCHANGED <<now, members, scope, reports, bounds>>
    BY <1>9 DEF EnqueueReady, Done
  <2> QED
    BY <1>6, <2>1, <2>2, <2>3
<1>10. CASE Update
  <2>1. TypeOK'
    BY <1>0, <1>10, GenerationAssumption DEF TypeOK, Update, Configure, members
  <2> QED
    BY <1>10, <2>1, QuietStep DEF Update, Reported
<1>11. CASE Remove
  <2>1. reports' = [u \in Users |-> IF u \in Reported THEN "ARCHIVED" ELSE "none"]
    BY <1>11 DEF Remove
  <2>2. Reported' = Reported
    BY <2>1 DEF Reported
  <2>3. TypeOK'
    <3>1. reports' \in [Users -> {"none", "DRAFT", "ARCHIVED"}]
      BY <2>1
    <3>2. updates' \in 0 .. MaxUpdates
      BY <1>0, <1>11, GenerationAssumption DEF TypeOK, Remove, Configure
    <3>3. {enabled', archived'} \subseteq BOOLEAN
      BY <1>11 DEF Remove
    <3> QED
      BY <1>0, <1>11, <3>1, <3>2, <3>3 DEF TypeOK, Remove, members
  <2> QED
    BY <1>11, <2>2, <2>3, QuietStep DEF Remove
<1>15. CASE RemoveGroup
  <2>1. /\ group = "there" /\ group' = "deleted"
        /\ UNCHANGED <<createdAt, periodsAt, groupAt, reports, call>>
    BY <1>15 DEF RemoveGroup, scope
  <2>2. TypeOK'
    BY <1>0, <1>15, GenerationAssumption DEF TypeOK, RemoveGroup, Configure, scope
  <2>3. Reported' = Reported
    BY <2>1 DEF Reported
  <2>4. createdAt <= SnapshotAt =>
            /\ GetMemberIdsAt(SnapshotAt) = periodsAt[SnapshotAt] \cup {Owner}
            /\ GetMemberIdsAt(SnapshotAt)' = periodsAt[SnapshotAt]
            /\ LostOwner = {} /\ LostOwner' = {Owner}
    BY <2>1, MembersThen DEF GetMemberIdsAt, OwnerAt, LostOwner, SnapshotAt
  <2>5. CallsOfTheMorning' /\ GroupIsOlder'
    BY <2>1 DEF IInv, CallsOfTheMorning, GroupIsOlder
  <2>6. MissingCompletes'
    BY <2>1, <2>3, <2>4 DEF IInv, MissingCompletes
  <2>7. ObligationIsFixed'
    BY <2>1, <2>3, <2>4 DEF IInv, ObligationIsFixed
  <2> QED
    BY <2>2, <2>5, <2>6, <2>7 DEF IInv
<1>12. CASE Crash
  <2>1. \A c \in AllCalls : call'[c].step = "idle"
    BY <1>12 DEF Crash, AllCalls, Idle
  <2>2. call' \in [AllCalls -> CallStates]
    BY <1>12 DEF Crash, AllCalls, CallStates
  <2>3. TypeOK'
    BY <1>0, <1>12, <2>2, GenerationAssumption
       DEF TypeOK, Crash, AllCalls, members, scope
  <2>4. Reported' = Reported /\ UNCHANGED <<members, createdAt>>
    BY <1>12 DEF Crash, Reported, scope
  <2> QED
    BY <2>1, <2>3, <2>4, QuietStep
<1>13. CASE Tick
  <2>1. now' \in Times
    BY <1>0, <1>13, GenerationAssumption DEF TypeOK, Tick, Times
  <2>2. TypeOK'
    BY <1>0, <1>13, <2>1 DEF TypeOK, Tick, members, scope, bounds
  <2> QED
    BY <1>13, <2>2, QuietStep DEF Tick, Reported, scope
<1>14. CASE UNCHANGED vars
  <2>1. TypeOK'
    BY <1>0, <1>14 DEF TypeOK, vars, members, scope, bounds
  <2> QED
    BY <1>14, <2>1, QuietStep DEF vars, scope, Reported
<1> QED
  BY <1>1, <1>3, <1>4, <1>5, <1>7, <1>8, <1>9, <1>10, <1>11, <1>12, <1>13, <1>14,
     <1>15 DEF Next, EnsureReportsForScope, AllCalls

-----------------------------------------------------------------------------
\* The inductive invariant holds in every state.
THEOREM GenerationSafety == Spec => []IInv
BY InitInv, StepInv, PTL DEF Spec

\* Every variable keeps its type.
THEOREM TypeCorrect == Spec => []TypeOK
<1>1. IInv => TypeOK
  BY DEF IInv
<1> QED
  BY <1>1, GenerationSafety, PTL

\* Whoever calls, in whatever order, and whoever joins or leaves during the day:
\* those who owe a report are the members of 07:30, all of them, or nobody yet; of a
\* group that has been deleted, with its owner or without him.
THEOREM ObligationCorrect == Spec => []ObligationIsFixed
<1>1. IInv => ObligationIsFixed
  BY DEF IInv
<1> QED
  BY <1>1, GenerationSafety, PTL

-----------------------------------------------------------------------------
(* Who announces the drafts.                                               *)

\* Who does not announce only reads the board, and requires a report to be there.
ReadersRequire ==
    \A c \in AllCalls : call[c].step # "idle" =>
        call[c].options.notify \/ call[c].options.must

\* The drafts of a scope that existed at 07:30 are created by calls that announce
\* them, and none by somebody reading the board (ensureReportsForRead); unless a
\* process stopped, a draft is announced or somebody is about to announce it
\* (ensureReportsForScope).
CreatorAnnounces ==
    createdAt <= SnapshotAt =>
        /\ \A c \in AllCalls : call[c].step = "create" => call[c].options.notify
        /\ \/ crashes > 0
           \/ Reported \subseteq ready
           \/ \E c \in AllCalls : call[c].step = "enqueue"

AnnounceInv == ReadersRequire /\ CreatorAnnounces

\* A call begins, and whoever was about to announce still is.
LEMMA BeginAnnounces ==
    ASSUME IInv, AnnounceInv, NEW c \in AllCalls, NEW o, Begin(c, o),
           o.notify \/ o.must
    PROVE  AnnounceInv'
<1> DEFINE s == [step |-> "begin", options |-> o]
<1>1. s.step = "begin" /\ s.options = o
  OBVIOUS
<1>2. /\ call' = [call EXCEPT ![c] = s] /\ call[c] = Idle
      /\ UNCHANGED <<createdAt, reports, ready, crashes>>
  BY DEF Begin, scope
<1> HIDE DEF s
<1>3. call[c].step = "idle" /\ Reported' = Reported
  BY <1>2 DEF Idle, Reported
<1>4. call'[c] = s /\ \A d \in AllCalls : d # c => call'[d] = call[d]
  BY <1>2 DEF IInv, TypeOK, AllCalls
<1>5. ReadersRequire'
  BY <1>1, <1>4 DEF AnnounceInv, ReadersRequire
<1>6. CreatorAnnounces'
  BY <1>1, <1>2, <1>3, <1>4 DEF AnnounceInv, CreatorAnnounces
<1> QED
  BY <1>5, <1>6 DEF AnnounceInv

\* Every step keeps it.
LEMMA AnnounceStep == IInv /\ AnnounceInv /\ [Next]_vars => AnnounceInv'
<1> SUFFICES ASSUME IInv, AnnounceInv, [Next]_vars PROVE AnnounceInv'
  OBVIOUS
<1>0. /\ call \in [AllCalls -> CallStates]
      /\ \A c \in AllCalls : call[c] \in CallStates
  BY DEF IInv, TypeOK, AllCalls
<1>1. CASE RunGeneration
  <2>1. WithOptions(SnapshotAt, TRUE, FALSE, FALSE).notify
    BY DEF WithOptions
  <2> QED
    BY <1>1, <2>1, BeginAnnounces DEF RunGeneration, AllCalls
<1>2. ASSUME NEW c \in Calls, EnsureReportsForUser(c) PROVE AnnounceInv'
  <2>1. WithOptions(SnapshotAt, TRUE, FALSE, FALSE).notify
    BY DEF WithOptions
  <2> QED
    BY <1>2, <2>1, BeginAnnounces DEF EnsureReportsForUser, Start, AllCalls
<1>3. ASSUME NEW c \in Calls, GenerateTodayForScope(c) PROVE AnnounceInv'
  <2>1. WithOptions(ManualSnapshotInstant, TRUE, TRUE, FALSE).notify
    BY DEF WithOptions
  <2> QED
    BY <1>3, <2>1, BeginAnnounces DEF GenerateTodayForScope, Start, AllCalls
<1>4. ASSUME NEW c \in Calls, EnsureReportsForRead(c) PROVE AnnounceInv'
  <2>1. WithOptions(SnapshotAt, FALSE, TRUE, TRUE).must
    BY DEF WithOptions
  <2> QED
    BY <1>4, <2>1, BeginAnnounces DEF EnsureReportsForRead, Start, AllCalls
<1>5. ASSUME NEW c \in AllCalls, ReadExisting(c) PROVE AnnounceInv'
  <2> DEFINE o == call[c].options
             all == GetMemberIdsAt(o.at)
             missing == all \ Reported
             s == [step |-> "create", options |-> o, missing |-> missing]
             e == [step |-> "enqueue", options |-> o]
  <2>1. call[c].step = "begin" /\ UNCHANGED <<createdAt, reports, ready, crashes>>
    BY <1>5 DEF ReadExisting, scope, bounds
  <2>2. /\ Idle.step = "idle" /\ e.step = "enqueue" /\ e.options = o
        /\ s.step = "create" /\ s.options = o
    BY DEF Idle
  <2>3. \/ call' = [call EXCEPT ![c] = Idle]
        \/ call' = [call EXCEPT ![c] = e]
        \/ /\ call' = [call EXCEPT ![c] = s]
           /\ ~ (o.must /\ Reported = {}) /\ missing # {}
    BY <1>5 DEF ReadExisting, Finish, Done, GoEnqueue
  <2>4. o.notify \/ o.must
    BY <2>1 DEF AnnounceInv, ReadersRequire
  <2>5. createdAt <= SnapshotAt =>
            /\ all = GetMemberIdsAt(SnapshotAt)
            /\ Reported = {} \/ all \subseteq Reported
    BY <2>1, MembersThen DEF IInv, CallsOfTheMorning, ObligationIsFixed
  <2>6. createdAt <= SnapshotAt /\ missing # {} /\ ~ (o.must /\ Reported = {})
            => o.notify
    BY <2>4, <2>5
  <2>7. Reported' = Reported
    BY <2>1 DEF Reported
  <2> HIDE DEF e, s, missing, all, o
  <2>8. \A d \in AllCalls : d # c => call'[d] = call[d]
    BY <1>0, <2>3
  <2>9. \/ call'[c].step = "idle"
        \/ call'[c].step = "enqueue" /\ call'[c].options = o
        \/ /\ call'[c].step = "create" /\ call'[c].options = o
           /\ createdAt <= SnapshotAt => o.notify
    BY <1>0, <2>2, <2>3, <2>6
  <2>10. ReadersRequire'
    BY <2>4, <2>8, <2>9 DEF AnnounceInv, ReadersRequire
  <2>11. CreatorAnnounces'
    BY <2>1, <2>7, <2>8, <2>9 DEF AnnounceInv, CreatorAnnounces
  <2> QED
    BY <2>10, <2>11 DEF AnnounceInv
<1>6. ASSUME NEW c \in AllCalls, CreateReports(c) PROVE AnnounceInv'
  <2> DEFINE o == call[c].options
             e == [step |-> "enqueue", options |-> o]
  <2>1. call[c].step = "create" /\ UNCHANGED <<createdAt, ready, crashes>>
    BY <1>6 DEF CreateReports, scope, bounds
  <2>2. Idle.step = "idle" /\ e.step = "enqueue" /\ e.options = o
    BY DEF Idle
  <2>3. \/ call' = [call EXCEPT ![c] = e]
        \/ call' = [call EXCEPT ![c] = Idle] /\ ~ o.notify
    BY <1>6 DEF CreateReports, Done, GoEnqueue
  <2>4. o.notify \/ o.must
    BY <2>1 DEF AnnounceInv, ReadersRequire
  <2>5. createdAt <= SnapshotAt => o.notify
    BY <2>1 DEF AnnounceInv, CreatorAnnounces
  <2> HIDE DEF e, o
  <2>6. \A d \in AllCalls : d # c => call'[d] = call[d]
    BY <1>0, <2>3
  <2>7. /\ \/ call'[c].step = "idle"
           \/ call'[c].step = "enqueue" /\ call'[c].options = o
        /\ createdAt <= SnapshotAt => call'[c].step = "enqueue"
    BY <1>0, <2>2, <2>3, <2>5
  <2>8. ReadersRequire'
    BY <2>4, <2>6, <2>7 DEF AnnounceInv, ReadersRequire
  <2>9. CreatorAnnounces'
    BY <2>1, <2>6, <2>7 DEF AnnounceInv, CreatorAnnounces
  <2> QED
    BY <2>8, <2>9 DEF AnnounceInv
<1>7. ASSUME NEW c \in AllCalls, EnqueueReady(c) PROVE AnnounceInv'
  <2>1. /\ call' = [call EXCEPT ![c] = Idle] /\ ready' = ready \cup Reported
        /\ UNCHANGED <<createdAt, reports>>
    BY <1>7 DEF EnqueueReady, Done, Announced, scope
  <2>2. Reported' = Reported
    BY <2>1 DEF Reported
  <2>3. call'[c].step = "idle" /\ \A d \in AllCalls : d # c => call'[d] = call[d]
    BY <1>0, <2>1 DEF Idle
  <2>4. ReadersRequire'
    BY <2>3 DEF AnnounceInv, ReadersRequire
  <2>5. CreatorAnnounces'
    BY <2>1, <2>2, <2>3 DEF AnnounceInv, CreatorAnnounces
  <2> QED
    BY <2>4, <2>5 DEF AnnounceInv
<1>8. CASE Crash
  <2>1. \A c \in AllCalls : call'[c].step = "idle"
    BY <1>8 DEF Crash, AllCalls, Idle
  <2>2. crashes' > 0
    BY <1>8 DEF Crash, IInv, TypeOK
  <2> QED
    BY <2>1, <2>2 DEF AnnounceInv, ReadersRequire, CreatorAnnounces
<1>9. CASE Update \/ Remove \/ RemoveGroup \/ Tick \/ UNCHANGED vars
  <2>1. UNCHANGED <<call, createdAt, ready, crashes>>
    BY <1>9 DEF Update, Remove, RemoveGroup, Tick, vars, scope, bounds
  <2>2. Reported' = Reported
    <3>1. CASE Remove
      BY <3>1 DEF Remove, Reported
    <3>2. CASE Update \/ RemoveGroup \/ Tick \/ UNCHANGED vars
      BY <3>2 DEF Update, RemoveGroup, Tick, vars, Reported
    <3> QED
      BY <1>9, <3>1, <3>2
  <2> QED
    BY <2>1, <2>2 DEF AnnounceInv, ReadersRequire, CreatorAnnounces
<1> QED
  BY <1>1, <1>2, <1>3, <1>4, <1>5, <1>6, <1>7, <1>8, <1>9
     DEF Next, EnsureReportsForScope, AllCalls

\* Of a scope that existed at 07:30, a draft comes from a call that announces it,
\* and only a process that stops leaves it unannounced with nobody to do so.
THEOREM AnnouncerCorrect == Spec => []CreatorAnnounces
<1>1. Init => AnnounceInv
  BY DEF Init, AnnounceInv, ReadersRequire, CreatorAnnounces, AllCalls, Idle, Reported
<1>2. AnnounceInv => CreatorAnnounces
  BY DEF AnnounceInv
<1> QED
  BY <1>1, <1>2, AnnounceStep, GenerationSafety, PTL DEF Spec

-----------------------------------------------------------------------------
(* ReportForm: the messages.                                               *)

\* A message put on its way.
LEMMA MessageAdded ==
    ASSUME NEW bag, IsABag(bag), NEW m,
           NEW more, more = bag (+) SetToBag({m})
    PROVE  /\ IsABag(more)
           /\ BagToSet(more) = BagToSet(bag) \cup {m}
           /\ \A x \in BagToSet(bag) \ {m} : more[x] = bag[x]
           /\ m \notin BagToSet(bag) => more[m] = 1
<1>1. SetToBag({m}) = [x \in {m} |-> 1]
  BY DEF SetToBag
<1>2. more = [x \in DOMAIN bag \cup {m} |->
                (IF x \in DOMAIN bag THEN bag[x] ELSE 0)
                  + (IF x \in {m} THEN 1 ELSE 0)]
  BY <1>1 DEF (+)
<1>3. bag \in [DOMAIN bag -> {n \in Nat : n > 0}]
  BY DEF IsABag
<1> DEFINE old(x) == IF x \in DOMAIN bag THEN bag[x] ELSE 0
           new(x) == IF x \in {m} THEN 1 ELSE 0
<1>8. \A x \in DOMAIN bag \cup {m} : more[x] = old(x) + new(x)
  BY <1>2
<1>9. \A x \in DOMAIN bag \cup {m} :
        old(x) \in Nat /\ new(x) \in Nat /\ old(x) + new(x) > 0
  BY <1>3
<1>4. \A x \in DOMAIN bag \cup {m} : more[x] \in {n \in Nat : n > 0}
  <2> HIDE DEF old, new
  <2> QED
    BY <1>8, <1>9
<1>5. more \in [DOMAIN more -> {n \in Nat : n > 0}]
  BY <1>2, <1>4
<1>6. \A x \in DOMAIN bag \ {m} : more[x] = bag[x]
  BY <1>3, <1>8
<1>7. m \notin DOMAIN bag => more[m] = 1
  BY <1>2
<1> QED
  BY <1>2, <1>5, <1>6, <1>7 DEF IsABag, BagToSet

\* One copy of a message taken off its way.
LEMMA MessageTaken ==
    ASSUME NEW bag, IsABag(bag), NEW m \in BagToSet(bag),
           NEW fewer, fewer = bag (-) SetToBag({m})
    PROVE  /\ IsABag(fewer)
           /\ BagToSet(fewer) \subseteq BagToSet(bag)
           /\ BagToSet(bag) \ {m} \subseteq BagToSet(fewer)
           /\ \A x \in BagToSet(fewer) \ {m} : fewer[x] = bag[x]
           /\ bag[m] = 1 => m \notin BagToSet(fewer)
<1> DEFINE left == [x \in DOMAIN bag |-> IF x \in {m} THEN bag[x] - 1 ELSE bag[x]]
<1>1. SetToBag({m}) = [x \in {m} |-> 1]
  BY DEF SetToBag
<1>2. fewer = [x \in {d \in DOMAIN left : left[d] > 0} |-> left[x]]
  BY <1>1 DEF (-)
<1>3. bag \in [DOMAIN bag -> {n \in Nat : n > 0}]
  BY DEF IsABag
<1>4. \A x \in DOMAIN bag : left[x] \in Nat /\ (x # m => left[x] = bag[x] /\ left[x] > 0)
  BY <1>3
<1>5. bag[m] = 1 => ~ (left[m] > 0)
  BY DEF BagToSet
<1> HIDE DEF left
<1>6. DOMAIN left = DOMAIN bag
  BY DEF left
<1>7. DOMAIN fewer = {d \in DOMAIN bag : left[d] > 0}
  BY <1>2, <1>6
<1>8. \A x \in DOMAIN fewer : fewer[x] = left[x]
  BY <1>2, <1>7
<1>9. fewer \in [DOMAIN fewer -> {n \in Nat : n > 0}]
  BY <1>2, <1>4, <1>7, <1>8
<1> QED
  BY <1>4, <1>5, <1>7, <1>8, <1>9 DEF IsABag, BagToSet

\* Nothing is on its way at first.
LEMMA NothingSent == IsABag(EmptyBag) /\ BagToSet(EmptyBag) = {}
BY DEF IsABag, BagToSet, EmptyBag, SetToBag

-----------------------------------------------------------------------------
(* The type.                                                               *)

\* A step of the form or the server leaves every variable in its type.
LEMMA FormTypeStep == FormTypeOK /\ [FormNext]_formVars => FormTypeOK'
<1> SUFFICES ASSUME FormTypeOK, [FormNext]_formVars
             PROVE  FormTypeOK'
  OBVIOUS
<1> USE FormAssumption
<1>1. IsABag(net) /\ IsABag(answers)
  BY DEF FormTypeOK
<1>2. \A k \in Kinds, p \in Texts : Request(k, p) \in Requests
  BY DEF FormTypeOK, Request, Requests
<1>3. 0 \in Texts /\ text \in Texts
  BY DEF FormTypeOK, Texts
<1>4. \A a, b \in Texts : Latest(a, b) \in Texts
  BY DEF Latest
<1>5. ASSUME NEW k \in Kinds, NEW p \in Texts, Send(Request(k, p))
      PROVE  IsABag(net') /\ BagToSet(net') \subseteq Requests
  <2>1. net' = net (+) SetToBag({Request(k, p)})
    BY <1>5 DEF Send
  <2>2. IsABag(net') /\ BagToSet(net') = BagToSet(net) \cup {Request(k, p)}
    BY <1>1, <2>1, MessageAdded
  <2> QED
    BY <1>2, <2>2 DEF FormTypeOK
<1>6. ASSUME NEW r \in Requests, NEW ok \in BOOLEAN, Answer(r, ok)
      PROVE  IsABag(answers') /\ BagToSet(answers') \subseteq Answers
  <2> DEFINE a == [kind |-> r.kind, shown |-> r.shown, ok |-> ok]
  <2>1. a \in Answers
    BY DEF Requests, Answers
  <2>2. answers' = answers (+) SetToBag({a})
    BY <1>6 DEF Answer
  <2> HIDE DEF a
  <2>3. IsABag(answers') /\ BagToSet(answers') = BagToSet(answers) \cup {a}
    BY <1>1, <2>2, MessageAdded
  <2> QED
    BY <2>1, <2>3 DEF FormTypeOK
<1>7. ASSUME NEW r \in BagToSet(net), net' = net (-) SetToBag({r})
      PROVE  IsABag(net') /\ BagToSet(net') \subseteq Requests
  BY <1>1, <1>7, MessageTaken DEF FormTypeOK
<1>8. CASE ChangeContent
  BY <1>8 DEF ChangeContent, FormTypeOK, Texts, server, formBounds
<1>9. CASE Autosave
  BY <1>3, <1>5, <1>9 DEF Autosave, FormTypeOK, server, formBounds, Kinds
<1>10. CASE Hide
  <2>1. IsABag(net') /\ BagToSet(net') \subseteq Requests /\ dirty' \in BOOLEAN
    BY <1>3, <1>5, <1>10 DEF Hide, Flush, FormTypeOK, Kinds
  <2> QED
    BY <1>10, <2>1 DEF Hide, FormTypeOK, server
<1>11. CASE Leave
  <2>1. IsABag(net') /\ BagToSet(net') \subseteq Requests /\ dirty' \in BOOLEAN
    BY <1>3, <1>5, <1>11 DEF Leave, Flush, FormTypeOK, Kinds
  <2> QED
    BY <1>11, <2>1 DEF Leave, FormTypeOK, server, formBounds
<1>12. CASE HandleSubmit
  BY <1>3, <1>5, <1>12
     DEF HandleSubmit, SubmitPayload, FormTypeOK, server, formBounds, Kinds
<1>13. CASE HandleReopen
  BY <1>3, <1>5, <1>13 DEF HandleReopen, FormTypeOK, form, server, Kinds
<1>14. CASE Receive
  <2>1. PICK answer \in BagToSet(answers) :
          /\ answers' = answers (-) SetToBag({answer})
          /\ told' = IF IsTold(answer) THEN Latest(told, answer.shown) ELSE told
          /\ stale' = (stale \/ answer.ok)
          /\ submitting' =
               IF answer.kind # "submit" THEN submitting
               ELSE IF answer.ok THEN "answered" ELSE "no"
    BY <1>14 DEF Receive
  <2>2. answer.shown \in Texts /\ answer.ok \in BOOLEAN
    BY DEF FormTypeOK, Answers
  <2>3. IsABag(answers') /\ BagToSet(answers') \subseteq Answers
    BY <1>1, <2>1, MessageTaken DEF FormTypeOK
  <2>4. told' \in Texts
    BY <1>4, <2>1, <2>2 DEF FormTypeOK
  <2>5. submitting' \in {"no", "sent", "answered"}
    BY <2>1, <2>2 DEF FormTypeOK
  <2>6. stale' \in BOOLEAN
    BY <2>1
  <2> QED
    BY <1>14, <2>3, <2>4, <2>5, <2>6 DEF Receive, FormTypeOK, server, formBounds
<1>15. CASE Refetch
  BY <1>15 DEF Refetch, FormTypeOK, server, formBounds, readOnly, EDITABLE
<1>16. CASE Handle
  <2>1. PICK request \in BagToSet(net) :
          /\ net' = net (-) SetToBag({request})
          /\ SaveAnswers(request) \/ Submit(request) \/ Reopen(request)
    BY <1>16 DEF Handle
  <2>2. request \in Requests /\ request.text \in Texts /\ request.shown \in Texts
    BY DEF FormTypeOK, Requests
  <2>3. IsABag(net') /\ BagToSet(net') \subseteq Requests
    BY <1>7, <2>1
  <2>4. IsABag(answers') /\ BagToSet(answers') \subseteq Answers
    <3>1. \E ok \in BOOLEAN : Answer(request, ok)
      <4>1. /\ ClaimEditable \in BOOLEAN /\ TRUE \in BOOLEAN
            /\ (status = "SUBMITTED") \in BOOLEAN
        BY DEF ClaimEditable
      <4>2. \/ Answer(request, ClaimEditable) \/ Answer(request, TRUE)
            \/ Answer(request, status = "SUBMITTED")
        BY <2>1, Zenon DEF SaveAnswers, Submit, Reopen
      <4> QED
        BY <4>1, <4>2, Zenon
    <3> QED
      BY <1>6, <2>2, <3>1
  <2>5. /\ stored' \in Texts /\ arrived' \in Texts /\ submitted' \in Texts
        /\ status' \in EDITABLE \cup {"SUBMITTED"}
    BY <1>4, <2>1, <2>2
       DEF SaveAnswers, Submit, Reopen, Store, FormTypeOK, server, EDITABLE
  <2> QED
    BY <1>16, <2>3, <2>4, <2>5 DEF Handle, FormTypeOK, form, formBounds
<1>17. CASE LoseRequest
  <2>1. PICK request \in BagToSet(net) :
          net' = net (-) SetToBag({request}) /\ Answer(request, FALSE)
    BY <1>17 DEF LoseRequest
  <2>2. request \in Requests
    BY DEF FormTypeOK
  <2>3. /\ IsABag(net') /\ BagToSet(net') \subseteq Requests
        /\ IsABag(answers') /\ BagToSet(answers') \subseteq Answers
    BY <1>6, <1>7, <2>1, <2>2
  <2>4. lost' \in 0 .. MaxLost
    BY <1>17 DEF LoseRequest, FormTypeOK
  <2> QED
    BY <1>17, <2>3, <2>4 DEF LoseRequest, FormTypeOK, form, server
<1>18. CASE LoseAnswer
  <2>1. PICK answer \in BagToSet(answers) :
          /\ answers' = (answers (-) SetToBag({answer}))
                          (+) SetToBag({[answer EXCEPT !.ok = FALSE]})
          /\ unaware' = (unaware \/ answer.kind = "submit")
    BY <1>18 DEF LoseAnswer
  <2>2. [answer EXCEPT !.ok = FALSE] \in Answers
    BY DEF FormTypeOK, Answers
  <2>3. IsABag(answers') /\ BagToSet(answers') \subseteq Answers
    <3> DEFINE rest == answers (-) SetToBag({answer})
               refused == [answer EXCEPT !.ok = FALSE]
    <3>1. IsABag(rest) /\ BagToSet(rest) \subseteq BagToSet(answers)
      <4> HIDE DEF refused
      <4> QED
        BY <1>1, MessageTaken
    <3>2. answers' = rest (+) SetToBag({refused}) /\ refused \in Answers
      BY <2>1, <2>2
    <3> HIDE DEF rest, refused
    <3>3. IsABag(answers') /\ BagToSet(answers') = BagToSet(rest) \cup {refused}
      BY <3>1, <3>2, MessageAdded
    <3> QED
      BY <3>1, <3>2, <3>3 DEF FormTypeOK
  <2>4. unaware' \in BOOLEAN
    BY <2>1
  <2>5. lost' \in 0 .. MaxLost
    BY <1>18 DEF LoseAnswer, FormTypeOK
  <2> QED
    BY <1>18, <2>3, <2>4, <2>5 DEF LoseAnswer, FormTypeOK, form, server
<1>19. CASE UNCHANGED formVars
  BY <1>19 DEF formVars, form, server, formBounds, FormTypeOK
<1> QED
  BY <1>8, <1>9, <1>10, <1>11, <1>12, <1>13, <1>14, <1>15, <1>16, <1>17, <1>18,
     <1>19 DEF FormNext

\* At first everything is empty.
LEMMA FormInitType == FormInit => FormTypeOK
<1> SUFFICES ASSUME FormInit
             PROVE  FormTypeOK
  OBVIOUS
<1>1. /\ 0 \in Texts /\ 0 \in 0 .. MaxReopens
      /\ 0 \in 0 .. MaxLost /\ 0 \in 0 .. MaxHides
  BY FormAssumption DEF Texts
<1>2. /\ IsABag(net) /\ BagToSet(net) = {}
      /\ IsABag(answers) /\ BagToSet(answers) = {}
  BY NothingSent DEF FormInit
<1> QED
  BY <1>1, <1>2 DEF FormInit, FormTypeOK, EDITABLE

\* The form, what is on its way and the server are of their types at all times.
THEOREM FormTypeCorrect == FormSpec => []FormTypeOK
BY FormInitType, FormTypeStep, PTL DEF FormSpec

-----------------------------------------------------------------------------
(* The inductive invariant.                                                *)

\* A save and a submission carry the text that was on the screen.
CarriesText == \A r \in BagToSet(net) : r.kind # "reopen" => r.text = r.shown

Submits(bag) == {m \in BagToSet(bag) : m.kind = "submit"}
OneIn(bag) == \E m \in BagToSet(bag) : Submits(bag) = {m} /\ bag[m] = 1

\* One submission at a time is under way, and the form waits for it: either
\* its request is, or the answer to it.
OneSubmit ==
    \/ submitting # "sent" /\ Submits(net) = {} /\ Submits(answers) = {}
    \/ submitting = "sent" /\ OneIn(net) /\ Submits(answers) = {}
    \/ submitting = "sent" /\ Submits(net) = {} /\ OneIn(answers)

\* As long as no submission was accepted without the form knowing, a report it
\* submits can be edited, and so can one it shows as such, unless it has the
\* answer already or that is on its way.
Aware ==
    ~ unaware =>
        /\ Submits(net) # {} => status \in EDITABLE
        /\ /\ known \in EDITABLE /\ submitting # "answered"
           /\ \A a \in Submits(answers) : ~ a.ok
           => status \in EDITABLE

\* What was last typed is still to be saved, or was stored, or the member was
\* told that it was not, or it is on its way, or the refusal of it is: the
\* steps of TextArrives lose it nowhere.
TextIsKept ==
    \/ dirty \/ unaware \/ arrived >= text \/ told >= text
    \/ \E r \in BagToSet(net) : r.kind # "reopen" /\ r.shown >= text
    \/ \E a \in BagToSet(answers) : ~ a.ok /\ a.kind # "reopen" /\ a.shown >= text

\* Text that was not sent waits for the timer, as long as the form can be
\* written in.
DirtyHasTimer == open /\ dirty /\ ~ readOnly => timer

-----------------------------------------------------------------------------
(* The submissions among the messages.                                     *)

\* A message that is put on its way adds a submission if it is one.
LEMMA SubmitsAdded ==
    ASSUME NEW bag, IsABag(bag), NEW m,
           NEW more, more = bag (+) SetToBag({m})
    PROVE  /\ m.kind # "submit" => Submits(more) = Submits(bag)
           /\ m.kind = "submit" => Submits(more) = Submits(bag) \cup {m}
           /\ m.kind # "submit" /\ OneIn(bag) => OneIn(more)
           /\ m.kind = "submit" /\ Submits(bag) = {} => OneIn(more)
<1>1. /\ BagToSet(more) = BagToSet(bag) \cup {m}
      /\ \A x \in BagToSet(bag) \ {m} : more[x] = bag[x]
      /\ m \notin BagToSet(bag) => more[m] = 1
  BY MessageAdded
<1>2. m.kind # "submit" => Submits(more) = Submits(bag)
  BY <1>1 DEF Submits
<1>3. m.kind = "submit" => Submits(more) = Submits(bag) \cup {m}
  BY <1>1 DEF Submits
<1>4. ASSUME m.kind # "submit", OneIn(bag)
      PROVE  OneIn(more)
  <2>1. PICK x \in BagToSet(bag) : Submits(bag) = {x} /\ bag[x] = 1
    BY <1>4 DEF OneIn
  <2>2. x \in BagToSet(more) /\ x # m
    BY <1>1, <1>4, <2>1 DEF Submits
  <2> QED
    BY <1>1, <1>2, <1>4, <2>1, <2>2 DEF OneIn
<1>5. ASSUME m.kind = "submit", Submits(bag) = {}
      PROVE  OneIn(more)
  <2>1. m \notin BagToSet(bag)
    BY <1>5 DEF Submits
  <2> QED
    BY <1>1, <1>3, <1>5, <2>1 DEF OneIn
<1> QED
  BY <1>2, <1>3, <1>4, <1>5

\* A message that is taken off its way takes the only submission along if it
\* is one, and leaves them as they were if it is not.
LEMMA SubmitsTaken ==
    ASSUME NEW bag, IsABag(bag), NEW m \in BagToSet(bag),
           NEW fewer, fewer = bag (-) SetToBag({m})
    PROVE  /\ Submits(fewer) \subseteq Submits(bag)
           /\ m.kind # "submit" => Submits(fewer) = Submits(bag)
           /\ m.kind # "submit" /\ OneIn(bag) => OneIn(fewer)
           /\ m.kind = "submit" /\ OneIn(bag) =>
                Submits(fewer) = {} /\ Submits(bag) = {m}
<1>1. /\ BagToSet(fewer) \subseteq BagToSet(bag)
      /\ BagToSet(bag) \ {m} \subseteq BagToSet(fewer)
      /\ \A x \in BagToSet(fewer) \ {m} : fewer[x] = bag[x]
      /\ bag[m] = 1 => m \notin BagToSet(fewer)
  BY MessageTaken
<1>2. Submits(fewer) \subseteq Submits(bag)
  BY <1>1 DEF Submits
<1>3. m.kind # "submit" => Submits(fewer) = Submits(bag)
  BY <1>1 DEF Submits
<1>4. ASSUME m.kind # "submit", OneIn(bag)
      PROVE  OneIn(fewer)
  <2>1. PICK x \in BagToSet(bag) : Submits(bag) = {x} /\ bag[x] = 1
    BY <1>4 DEF OneIn
  <2>2. x \in BagToSet(fewer) /\ x # m
    BY <1>1, <1>4, <2>1 DEF Submits
  <2> QED
    BY <1>1, <1>3, <1>4, <2>1, <2>2 DEF OneIn
<1>5. ASSUME m.kind = "submit", OneIn(bag)
      PROVE  Submits(fewer) = {} /\ Submits(bag) = {m}
  <2>1. PICK x \in BagToSet(bag) : Submits(bag) = {x} /\ bag[x] = 1
    BY <1>5 DEF OneIn
  <2>2. x = m
    BY <1>5, <2>1 DEF Submits
  <2> QED
    BY <1>1, <2>1, <2>2 DEF Submits
<1> QED
  BY <1>2, <1>3, <1>4, <1>5

-----------------------------------------------------------------------------
(* What a step does to the messages.                                       *)

\* A step of the form sends at most one request, with the text that is shown
\* unless it is a reopening.
LEMMA FormSends ==
    ASSUME \/ ChangeContent \/ Autosave \/ Hide \/ Leave \/ HandleSubmit
           \/ HandleReopen \/ Refetch \/ UNCHANGED formVars
    PROVE  /\ answers' = answers
           /\ \/ net' = net
              \/ \E k \in Kinds : \E p : /\ Send(Request(k, p))
                                         /\ k # "reopen" => p = text
<1>1. CASE net' = net
  BY <1>1 DEF ChangeContent, Autosave, Hide, Leave, HandleSubmit, HandleReopen,
              Refetch, formVars
<1>2. CASE net' # net
  <2>1. Autosave \/ Hide \/ Leave \/ HandleSubmit \/ HandleReopen
    BY <1>2 DEF ChangeContent, Refetch, formVars
  <2>2. answers' = answers
    BY <2>1 DEF Autosave, Hide, Leave, HandleSubmit, HandleReopen
  <2>3. \/ Send(Request("save", text))
        \/ Send(Request("submit", text))
        \/ Send(Request("reopen", 0))
    BY <1>2, <2>1
       DEF Autosave, Hide, Leave, Flush, HandleSubmit, HandleReopen, SubmitPayload
  <2> QED
    BY <2>2, <2>3 DEF Kinds
<1> QED
  BY <1>1, <1>2

\* A submission is sent while none is under way.
LEMMA SubmitIsSent ==
    ASSUME HandleSubmit
    PROVE  Send(Request("submit", text))
BY DEF HandleSubmit, SubmitPayload

\* The message that is sent.
LEMMA RequestFields ==
    ASSUME NEW k, NEW p
    PROVE  /\ Request(k, p).kind = k
           /\ Request(k, p).text = p
           /\ Request(k, p).shown = text
BY DEF Request

-----------------------------------------------------------------------------
(* Each part of the invariant.                                             *)

\* What is sent carries the text that is shown, and nothing changes it after.
LEMMA CarriesTextStep ==
    FormTypeOK /\ CarriesText /\ [FormNext]_formVars => CarriesText'
<1> SUFFICES ASSUME FormTypeOK, CarriesText, [FormNext]_formVars
             PROVE  CarriesText'
  OBVIOUS
<1>1. IsABag(net)
  BY DEF FormTypeOK
<1>2. CASE net' = net
  BY <1>2 DEF CarriesText
<1>3. ASSUME NEW k \in Kinds, NEW p, Send(Request(k, p)), k # "reopen" => p = text
      PROVE  CarriesText'
  <2>1. BagToSet(net') = BagToSet(net) \cup {Request(k, p)}
    BY <1>1, <1>3, MessageAdded DEF Send
  <2> QED
    BY <1>3, <2>1, RequestFields DEF CarriesText
<1>4. ASSUME NEW r \in BagToSet(net), net' = net (-) SetToBag({r})
      PROVE  CarriesText'
  <2>1. BagToSet(net') \subseteq BagToSet(net)
    BY <1>1, <1>4, MessageTaken
  <2> QED
    BY <2>1 DEF CarriesText
<1>5. CASE Handle \/ LoseRequest
  BY <1>4, <1>5 DEF Handle, LoseRequest
<1>6. CASE Receive \/ LoseAnswer
  BY <1>2, <1>6 DEF Receive, LoseAnswer
<1> QED
  BY <1>2, <1>3, <1>5, <1>6, FormSends DEF FormNext

\* Only the submission turns the report into a submitted one, with the text
\* that it shows, and nothing is written in it before it is reopened.
LEMMA SubmittedStep ==
    FormTypeOK /\ CarriesText /\ SubmittedAsShown /\ [FormNext]_formVars
        => SubmittedAsShown'
<1> SUFFICES ASSUME FormTypeOK, CarriesText, SubmittedAsShown, [FormNext]_formVars
             PROVE  SubmittedAsShown'
  OBVIOUS
<1>1. CASE UNCHANGED server
  BY <1>1 DEF server, SubmittedAsShown
<1>2. CASE Handle
  <2>1. PICK r \in BagToSet(net) : SaveAnswers(r) \/ Submit(r) \/ Reopen(r)
    BY <1>2 DEF Handle
  <2>2. CASE SaveAnswers(r)
    BY <2>2 DEF SaveAnswers, ClaimEditable, SubmittedAsShown, EDITABLE
  <2>3. CASE Submit(r)
    BY <2>3 DEF Submit, Store, server, CarriesText, SubmittedAsShown
  <2>4. CASE Reopen(r)
    BY <2>4 DEF Reopen, SubmittedAsShown
  <2> QED
    BY <2>1, <2>2, <2>3, <2>4
<1> QED
  BY <1>1, <1>2
     DEF FormNext, ChangeContent, Autosave, Hide, Leave, HandleSubmit, HandleReopen,
         Receive, Refetch, LoseRequest, LoseAnswer, formVars

\* The answer to a request is put on its way.
LEMMA Answered ==
    ASSUME FormTypeOK, NEW r, NEW ok, Answer(r, ok)
    PROVE  /\ \E a : /\ a.kind = r.kind /\ a.shown = r.shown /\ a.ok = ok
                     /\ BagToSet(answers') = BagToSet(answers) \cup {a}
           /\ r.kind # "submit" => Submits(answers') = Submits(answers)
           /\ r.kind # "submit" /\ OneIn(answers) => OneIn(answers')
           /\ r.kind = "submit" /\ Submits(answers) = {} => OneIn(answers')
<1> DEFINE a == [kind |-> r.kind, shown |-> r.shown, ok |-> ok]
<1>1. a.kind = r.kind /\ a.shown = r.shown /\ a.ok = ok
  OBVIOUS
<1>2. answers' = answers (+) SetToBag({a})
  BY DEF Answer
<1>3. IsABag(answers)
  BY DEF FormTypeOK
<1> HIDE DEF a
<1>4. BagToSet(answers') = BagToSet(answers) \cup {a}
  BY <1>2, <1>3, MessageAdded
<1>5. /\ a.kind # "submit" => Submits(answers') = Submits(answers)
      /\ a.kind = "submit" => Submits(answers') = Submits(answers) \cup {a}
      /\ a.kind # "submit" /\ OneIn(answers) => OneIn(answers')
      /\ a.kind = "submit" /\ Submits(answers) = {} => OneIn(answers')
  BY <1>2, <1>3, SubmitsAdded
<1> QED
  BY <1>1, <1>4, <1>5

\* The answer to a request is lost, and the form takes it for refused.
LEMMA AnswerIsLost ==
    ASSUME FormTypeOK, NEW a \in BagToSet(answers),
           answers' = (answers (-) SetToBag({a}))
                        (+) SetToBag({[a EXCEPT !.ok = FALSE]})
    PROVE  /\ BagToSet(answers) \ {a} \subseteq BagToSet(answers')
           /\ a.kind # "submit" => Submits(answers') = Submits(answers)
           /\ a.kind # "submit" /\ OneIn(answers) => OneIn(answers')
           /\ a.kind = "submit" /\ OneIn(answers) => OneIn(answers')
<1> DEFINE rest == answers (-) SetToBag({a})
           b == [a EXCEPT !.ok = FALSE]
<1>1. IsABag(answers) /\ a \in Answers
  BY DEF FormTypeOK
<1>2. b.kind = a.kind
  BY <1>1 DEF Answers
<1>3. answers' = rest (+) SetToBag({b})
  OBVIOUS
<1> HIDE DEF b
<1>4. IsABag(rest) /\ BagToSet(answers) \ {a} \subseteq BagToSet(rest)
  BY <1>1, MessageTaken
<1>5. /\ a.kind # "submit" => Submits(rest) = Submits(answers)
      /\ a.kind # "submit" /\ OneIn(answers) => OneIn(rest)
      /\ a.kind = "submit" /\ OneIn(answers) => Submits(rest) = {}
  BY <1>1, SubmitsTaken
<1> HIDE DEF rest
<1>6. BagToSet(answers') = BagToSet(rest) \cup {b}
  BY <1>3, <1>4, MessageAdded
<1>7. /\ b.kind # "submit" => Submits(answers') = Submits(rest)
      /\ b.kind # "submit" /\ OneIn(rest) => OneIn(answers')
      /\ b.kind = "submit" /\ Submits(rest) = {} => OneIn(answers')
  BY <1>3, <1>4, SubmitsAdded
<1> QED
  BY <1>2, <1>4, <1>5, <1>6, <1>7

\* A request that is no submission leaves those alone, and the only submission
\* is gone when it is taken; so it is with the answers.
LEMMA TakenSubmits ==
    ASSUME FormTypeOK, OneSubmit
    PROVE  /\ \A r \in BagToSet(net) :
                net' = net (-) SetToBag({r}) =>
                  /\ r.kind # "submit" =>
                       /\ Submits(net') = Submits(net)
                       /\ OneIn(net) => OneIn(net')
                  /\ r.kind = "submit" =>
                       /\ Submits(net') = {} /\ Submits(net) = {r} /\ OneIn(net)
                       /\ submitting = "sent" /\ Submits(answers) = {}
           /\ \A a \in BagToSet(answers) :
                answers' = answers (-) SetToBag({a}) =>
                  /\ a.kind # "submit" =>
                       /\ Submits(answers') = Submits(answers)
                       /\ OneIn(answers) => OneIn(answers')
                  /\ a.kind = "submit" =>
                       /\ Submits(answers') = {} /\ Submits(answers) = {a}
                       /\ submitting = "sent" /\ Submits(net) = {}
<1>1. IsABag(net) /\ IsABag(answers)
  BY DEF FormTypeOK
<1>2. \A r \in BagToSet(net) : r.kind = "submit" =>
        OneIn(net) /\ submitting = "sent" /\ Submits(answers) = {}
  BY DEF OneSubmit, Submits
<1>3. \A a \in BagToSet(answers) : a.kind = "submit" =>
        OneIn(answers) /\ submitting = "sent" /\ Submits(net) = {}
  BY DEF OneSubmit, Submits
<1>4. ASSUME NEW r \in BagToSet(net), net' = net (-) SetToBag({r})
      PROVE  /\ r.kind # "submit" => Submits(net') = Submits(net)
             /\ r.kind # "submit" /\ OneIn(net) => OneIn(net')
             /\ r.kind = "submit" /\ OneIn(net) =>
                  Submits(net') = {} /\ Submits(net) = {r}
  BY <1>1, <1>4, SubmitsTaken
<1>5. ASSUME NEW a \in BagToSet(answers), answers' = answers (-) SetToBag({a})
      PROVE  /\ a.kind # "submit" => Submits(answers') = Submits(answers)
             /\ a.kind # "submit" /\ OneIn(answers) => OneIn(answers')
             /\ a.kind = "submit" /\ OneIn(answers) =>
                  Submits(answers') = {} /\ Submits(answers) = {a}
  BY <1>1, <1>5, SubmitsTaken
<1> QED
  BY <1>2, <1>3, <1>4, <1>5

\* No other step of the form touches the submissions.
LEMMA NoSubmitSent ==
    ASSUME FormTypeOK, \/ ChangeContent \/ Autosave \/ Hide \/ Leave \/ HandleReopen
                   \/ Refetch \/ UNCHANGED formVars
    PROVE  /\ answers' = answers
           /\ Submits(net') = Submits(net) /\ (OneIn(net) => OneIn(net'))
           /\ Submits(answers') = Submits(answers)
           /\ OneIn(answers) => OneIn(answers')
<1>1. answers' = answers
  BY FormSends
<1>2. Submits(answers') = Submits(answers) /\ (OneIn(answers) => OneIn(answers'))
  BY <1>1 DEF Submits, OneIn
<1>3. CASE net' = net
  BY <1>1, <1>2, <1>3 DEF Submits, OneIn
<1>4. ASSUME NEW k, NEW p, Send(Request(k, p)), k # "submit"
      PROVE  Submits(net') = Submits(net) /\ (OneIn(net) => OneIn(net'))
  BY <1>4, SubmitsAdded, RequestFields DEF Send, FormTypeOK
<1>5. net' = net \/ Send(Request("save", text)) \/ Send(Request("reopen", 0))
  BY DEF ChangeContent, Autosave, Hide, Leave, Flush, HandleReopen, Refetch, formVars
<1> QED
  BY <1>1, <1>2, <1>3, <1>4, <1>5

\* The form submits only while it waits for no submission, and it waits until
\* the answer is there.
LEMMA OneSubmitStep == FormTypeOK /\ OneSubmit /\ [FormNext]_formVars => OneSubmit'
<1> SUFFICES ASSUME FormTypeOK, OneSubmit, [FormNext]_formVars
             PROVE  OneSubmit'
  OBVIOUS
<1>1. IsABag(net) /\ IsABag(answers)
  BY DEF FormTypeOK
<1>2. CASE \/ ChangeContent \/ Autosave \/ Hide \/ Leave \/ HandleReopen
           \/ Refetch \/ UNCHANGED formVars
  <2>1. /\ Submits(net') = Submits(net) /\ (OneIn(net) => OneIn(net'))
        /\ Submits(answers') = Submits(answers)
        /\ OneIn(answers) => OneIn(answers')
    BY <1>2, NoSubmitSent
  <2>2. \/ submitting' = submitting
        \/ submitting = "answered" /\ submitting' = "no"
    <3>1. CASE Refetch
      BY <3>1 DEF Refetch
    <3>2. CASE \/ ChangeContent \/ Autosave \/ Hide \/ Leave \/ HandleReopen
               \/ UNCHANGED formVars
      BY <3>2 DEF ChangeContent, Autosave, Hide, Leave, HandleReopen, form, formVars
    <3> QED
      BY <1>2, <3>1, <3>2
  <2> QED
    BY <2>1, <2>2 DEF OneSubmit
<1>3. CASE HandleSubmit
  <2>1. answers' = answers /\ submitting = "no" /\ submitting' = "sent"
    BY <1>3 DEF HandleSubmit
  <2>2. Submits(net) = {} /\ Submits(answers) = {}
    BY <2>1 DEF OneSubmit
  <2>3. OneIn(net')
    BY <1>1, <1>3, <2>2, SubmitIsSent, SubmitsAdded, RequestFields DEF Send
  <2> QED
    BY <2>1, <2>2, <2>3 DEF OneSubmit, Submits
<1>4. CASE Receive
  <2>1. PICK a \in BagToSet(answers) :
          /\ answers' = answers (-) SetToBag({a})
          /\ submitting' =
               IF a.kind # "submit" THEN submitting
               ELSE IF a.ok THEN "answered" ELSE "no"
    BY <1>4 DEF Receive
  <2>2. net' = net
    BY <1>4 DEF Receive
  <2>5. a.ok \in BOOLEAN
    BY DEF FormTypeOK, Answers
  <2>3. CASE a.kind # "submit"
    <3>1. Submits(answers') = Submits(answers) /\ (OneIn(answers) => OneIn(answers'))
      BY <2>1, <2>3, TakenSubmits
    <3>2. Submits(net') = Submits(net) /\ (OneIn(net) => OneIn(net'))
      BY <2>2 DEF Submits, OneIn
    <3>3. submitting' = submitting
      BY <2>1, <2>3, <2>5
    <3> QED
      BY <3>1, <3>2, <3>3 DEF OneSubmit
  <2>4. CASE a.kind = "submit"
    <3>1. Submits(answers') = {} /\ Submits(net) = {}
      BY <2>1, <2>4, TakenSubmits
    <3>2. submitting' # "sent"
      BY <2>1, <2>4, <2>5
    <3> QED
      BY <2>2, <3>1, <3>2 DEF OneSubmit, Submits
  <2> QED
    BY <2>3, <2>4
<1>5. CASE Handle \/ LoseRequest
  <2>1. PICK r \in BagToSet(net) :
          /\ net' = net (-) SetToBag({r})
          /\ \E ok : Answer(r, ok)
    BY <1>5 DEF Handle, LoseRequest, SaveAnswers, Submit, Reopen
  <2>2. submitting' = submitting
    BY <1>5 DEF Handle, LoseRequest, form
  <2>3. CASE r.kind # "submit"
    <3>1. Submits(net') = Submits(net) /\ (OneIn(net) => OneIn(net'))
      BY <2>1, <2>3, TakenSubmits
    <3>2. Submits(answers') = Submits(answers) /\ (OneIn(answers) => OneIn(answers'))
      BY <2>1, <2>3, Answered
    <3> QED
      BY <2>2, <3>1, <3>2 DEF OneSubmit
  <2>4. CASE r.kind = "submit"
    <3>1. Submits(net') = {} /\ submitting = "sent" /\ Submits(answers) = {}
      BY <2>1, <2>4, TakenSubmits
    <3>2. OneIn(answers')
      BY <2>1, <2>4, <3>1, Answered
    <3> QED
      BY <2>2, <3>1, <3>2 DEF OneSubmit
  <2> QED
    BY <2>3, <2>4
<1>6. CASE LoseAnswer
  <2>1. PICK a \in BagToSet(answers) :
          answers' = (answers (-) SetToBag({a})) (+) SetToBag({[a EXCEPT !.ok = FALSE]})
    BY <1>6 DEF LoseAnswer
  <2>2. net' = net /\ submitting' = submitting
    BY <1>6 DEF LoseAnswer, form
  <2>3. CASE a.kind # "submit"
    BY <2>1, <2>2, <2>3, AnswerIsLost DEF OneSubmit, Submits, OneIn
  <2>4. CASE a.kind = "submit"
    <3>1. submitting = "sent" /\ Submits(net) = {} /\ OneIn(answers)
      BY <2>4 DEF OneSubmit, Submits
    <3>2. OneIn(answers')
      BY <2>1, <2>4, <3>1, AnswerIsLost
    <3> QED
      BY <2>2, <3>1, <3>2 DEF OneSubmit, Submits
  <2> QED
    BY <2>3, <2>4
<1> QED
  BY <1>2, <1>3, <1>4, <1>5, <1>6 DEF FormNext

\* The form learns of the report's status from what it fetches and from the
\* answers to its submissions, and only a submission takes the report from it.
LEMMA AwareStep == FormTypeOK /\ OneSubmit /\ Aware /\ [FormNext]_formVars => Aware'
<1> SUFFICES ASSUME FormTypeOK, OneSubmit, Aware, [FormNext]_formVars, ~ unaware'
             PROVE  /\ Submits(net') # {} => status' \in EDITABLE
                    /\ /\ known' \in EDITABLE /\ submitting' # "answered"
                       /\ \A a \in Submits(answers') : ~ a.ok
                       => status' \in EDITABLE
  BY DEF Aware
<1>1. CASE \/ ChangeContent \/ Autosave \/ Hide \/ Leave \/ HandleReopen
           \/ UNCHANGED formVars
  <2>1. Submits(net') = Submits(net) /\ Submits(answers') = Submits(answers)
    BY <1>1, NoSubmitSent
  <2>2. /\ unaware' = unaware /\ status' = status /\ known' = known
        /\ submitting' = submitting
    BY <1>1 DEF ChangeContent, Autosave, Hide, Leave, HandleReopen, form, server,
                formBounds, formVars
  <2> QED
    BY <2>1, <2>2 DEF Aware
<1>2. CASE HandleSubmit
  <2>1. /\ unaware' = unaware /\ status' = status /\ known \in EDITABLE
        /\ submitting = "no"
    BY <1>2 DEF HandleSubmit, readOnly, server, formBounds
  <2>2. Submits(answers) = {}
    BY <2>1 DEF OneSubmit
  <2> QED
    BY <2>1, <2>2 DEF Aware
<1>3. CASE Receive
  <2>1. PICK a \in BagToSet(answers) :
          /\ answers' = answers (-) SetToBag({a})
          /\ submitting' =
               IF a.kind # "submit" THEN submitting
               ELSE IF a.ok THEN "answered" ELSE "no"
    BY <1>3 DEF Receive
  <2>2. unaware' = unaware /\ status' = status /\ known' = known /\ net' = net
    BY <1>3 DEF Receive, server, formBounds
  <2>3. Submits(net') = Submits(net)
    BY <2>2 DEF Submits
  <2>4. CASE a.kind # "submit"
    <3>1. Submits(answers') = Submits(answers) /\ submitting' = submitting
      BY <2>1, <2>4, TakenSubmits
    <3> QED
      BY <2>2, <2>3, <3>1 DEF Aware
  <2>5. CASE a.kind = "submit"
    <3>1. Submits(answers) = {a} /\ submitting = "sent"
      BY <2>1, <2>5, TakenSubmits
    <3>2. a.ok => submitting' = "answered"
      BY <2>1, <2>5
    <3> QED
      BY <2>2, <2>3, <3>1, <3>2 DEF Aware
  <2> QED
    BY <2>4, <2>5
<1>4. CASE Refetch
  <2>1. Submits(net') = Submits(net)
    BY <1>4, NoSubmitSent
  <2>2. unaware' = unaware /\ status' = status /\ known' = status
    BY <1>4 DEF Refetch, server, formBounds
  <2> QED
    BY <2>1, <2>2 DEF Aware
<1>5. CASE Handle
  <2>1. PICK r \in BagToSet(net) :
          /\ net' = net (-) SetToBag({r})
          /\ SaveAnswers(r) \/ Submit(r) \/ Reopen(r)
    BY <1>5 DEF Handle
  <2>2. unaware' = unaware /\ known' = known /\ submitting' = submitting
    BY <1>5 DEF Handle, form, formBounds
  <2>3. CASE SaveAnswers(r)
    <3>1. Answer(r, ClaimEditable) /\ r.kind # "submit" /\ status' = status
      BY <2>3 DEF SaveAnswers
    <3>2. Submits(net') = Submits(net) /\ Submits(answers') = Submits(answers)
      BY <2>1, <3>1, TakenSubmits, Answered
    <3> QED
      BY <2>2, <3>1, <3>2 DEF Aware
  <2>4. CASE Submit(r)
    <3>1. Answer(r, TRUE) /\ r.kind = "submit"
      BY <2>4 DEF Submit
    <3>2. Submits(net') = {}
      BY <2>1, <3>1, TakenSubmits
    <3>3. \E a \in Submits(answers') : a.ok
      <4>1. PICK ok : ok = TRUE /\ Answer(r, ok)
        BY <3>1
      <4>2. Answer(r, ok)
        BY <4>1
      <4>3. PICK a : /\ a.kind = r.kind /\ a.shown = r.shown /\ a.ok = ok
                     /\ BagToSet(answers') = BagToSet(answers) \cup {a}
        BY <4>2, Answered
      <4> QED
        BY <3>1, <4>1, <4>3 DEF Submits
    <3> QED
      BY <3>2, <3>3
  <2>5. CASE Reopen(r)
    BY <2>5 DEF Reopen, FormTypeOK, EDITABLE
  <2> QED
    BY <2>1, <2>3, <2>4, <2>5
<1>6. CASE LoseRequest
  <2>1. PICK r \in BagToSet(net) :
          net' = net (-) SetToBag({r}) /\ Answer(r, FALSE)
    BY <1>6 DEF LoseRequest
  <2>2. /\ unaware' = unaware /\ known' = known /\ submitting' = submitting
        /\ status' = status
    BY <1>6 DEF LoseRequest, form, server
  <2>3. CASE r.kind # "submit"
    <3>1. Submits(net') = Submits(net) /\ Submits(answers') = Submits(answers)
      BY <2>1, <2>3, TakenSubmits, Answered
    <3> QED
      BY <2>2, <3>1 DEF Aware
  <2>4. CASE r.kind = "submit"
    <3>1. Submits(net) = {r}
      BY <2>1, <2>4, TakenSubmits
    <3> QED
      BY <2>2, <3>1 DEF Aware
  <2> QED
    BY <2>3, <2>4
<1>7. CASE LoseAnswer
  <2>1. PICK a \in BagToSet(answers) :
          /\ answers' = (answers (-) SetToBag({a}))
                          (+) SetToBag({[a EXCEPT !.ok = FALSE]})
          /\ unaware' = (unaware \/ a.kind = "submit")
    BY <1>7 DEF LoseAnswer
  <2>2. known' = known /\ submitting' = submitting /\ status' = status /\ net' = net
    BY <1>7 DEF LoseAnswer, form, server
  <2>3. Submits(net') = Submits(net)
    BY <2>2 DEF Submits
  <2>4. a.kind # "submit" /\ ~ unaware
    BY <2>1
  <2>5. Submits(answers') = Submits(answers)
    BY <2>1, <2>4, AnswerIsLost
  <2> QED
    BY <2>2, <2>3, <2>4, <2>5 DEF Aware
<1> QED
  BY <1>1, <1>2, <1>3, <1>4, <1>5, <1>6, <1>7 DEF FormNext

\* Nothing that was typed is dropped: it is sent or stays dirty, the server
\* stores it or refuses it, and its refusal is told.
LEMMA TextIsKeptStep ==
    FormTypeOK /\ CarriesText /\ Aware /\ TextIsKept /\ [FormNext]_formVars => TextIsKept'
<1> SUFFICES ASSUME FormTypeOK, CarriesText, Aware, TextIsKept, [FormNext]_formVars
             PROVE  TextIsKept'
  OBVIOUS
<1> DEFINE Sent(r) == r.kind # "reopen" /\ r.shown >= text
           Refused(a) == ~ a.ok /\ a.kind # "reopen" /\ a.shown >= text
<1>1. IsABag(net) /\ IsABag(answers)
  BY DEF FormTypeOK
<1>2. text \in Int /\ told \in Int /\ arrived \in Int
  BY FormAssumption DEF FormTypeOK, Texts
<1>3. \A r \in BagToSet(net) : r.text \in Int /\ r.shown \in Int
  BY FormAssumption DEF FormTypeOK, Requests, Texts
<1>4. \A a \in BagToSet(answers) : a.shown \in Int /\ a.ok \in BOOLEAN
  BY FormAssumption DEF FormTypeOK, Answers, Texts
<1>5. CASE ChangeContent
  BY <1>5 DEF ChangeContent, TextIsKept
<1>6. ASSUME NEW k \in Kinds, Send(Request(k, text)), k # "reopen", text' = text
      PROVE  TextIsKept'
  <2>1. Request(k, text) \in BagToSet(net')
    <3>1. net' = net (+) SetToBag({Request(k, text)})
      BY <1>6 DEF Send
    <3>2. BagToSet(net') = BagToSet(net) \cup {Request(k, text)}
      BY <1>1, <3>1, MessageAdded
    <3> QED
      BY <3>2
  <2>2. Request(k, text).kind # "reopen" /\ Request(k, text).shown >= text
    BY <1>2, <1>6, RequestFields
  <2> QED
    BY <1>6, <2>1, <2>2 DEF TextIsKept
<1>7. ASSUME UNCHANGED <<text, dirty, told, arrived, unaware, answers>>,
             BagToSet(net) \subseteq BagToSet(net')
      PROVE  TextIsKept'
  BY <1>7 DEF TextIsKept
<1>8. CASE Autosave
  BY <1>6, <1>8 DEF Autosave, Kinds
<1>9. CASE Hide
  <2>1. CASE Send(Request("save", text))
    BY <1>6, <1>9, <2>1 DEF Hide, Kinds
  <2>2. CASE UNCHANGED <<dirty, net>>
    BY <1>7, <1>9, <2>2 DEF Hide, server
  <2> QED
    BY <1>9, <2>1, <2>2 DEF Hide, Flush
<1>10. CASE Leave
  <2>1. CASE Send(Request("save", text))
    BY <1>6, <1>10, <2>1 DEF Leave, Kinds
  <2>2. CASE UNCHANGED <<dirty, net>>
    BY <1>7, <1>10, <2>2 DEF Leave, server, formBounds
  <2> QED
    BY <1>10, <2>1, <2>2 DEF Leave, Flush
<1>11. CASE HandleSubmit
  BY <1>6, <1>11, SubmitIsSent DEF HandleSubmit, Kinds
<1>12. CASE HandleReopen
  <2>1. BagToSet(net) \subseteq BagToSet(net')
    <3>1. net' = net (+) SetToBag({Request("reopen", 0)})
      BY <1>12 DEF HandleReopen, Send
    <3>2. BagToSet(net') = BagToSet(net) \cup {Request("reopen", 0)}
      BY <1>1, <3>1, MessageAdded
    <3> QED
      BY <3>2
  <2> QED
    BY <1>7, <1>12, <2>1 DEF HandleReopen, form, server
<1>13. CASE Receive
  <2>1. PICK a \in BagToSet(answers) :
          /\ answers' = answers (-) SetToBag({a})
          /\ told' = IF IsTold(a) THEN Latest(told, a.shown) ELSE told
    BY <1>13 DEF Receive
  <2>2. UNCHANGED <<text, dirty, net, arrived, unaware>>
    BY <1>13 DEF Receive, server, formBounds
  <2>3. BagToSet(answers) \ {a} \subseteq BagToSet(answers')
    BY <1>1, <2>1, MessageTaken
  <2>4. told >= text => told' >= text
    BY <1>2, <1>4, <2>1 DEF Latest
  <2>5. Refused(a) => told' >= text
    BY <1>2, <1>4, <2>1 DEF Latest, IsTold
  <2> QED
    BY <2>2, <2>3, <2>4, <2>5 DEF TextIsKept
<1>14. CASE Refetch
  BY <1>7, <1>14 DEF Refetch, server, formBounds
<1>15. CASE Handle
  <2>1. PICK r \in BagToSet(net) :
          /\ net' = net (-) SetToBag({r})
          /\ SaveAnswers(r) \/ Submit(r) \/ Reopen(r)
    BY <1>15 DEF Handle
  <2>2. UNCHANGED <<text, dirty, told, unaware>>
    BY <1>15 DEF Handle, form, formBounds
  <2>3. BagToSet(net) \ {r} \subseteq BagToSet(net')
    BY <1>1, <2>1, MessageTaken
  <2>4. BagToSet(answers) \subseteq BagToSet(answers')
    BY <2>1, Answered DEF SaveAnswers, Submit, Reopen
  <2>5. arrived >= text => arrived' >= text
    <3>1. arrived' = arrived \/ arrived' = Latest(arrived, r.text)
      BY <2>1 DEF SaveAnswers, Submit, Reopen, Store, server
    <3> QED
      BY <1>2, <1>3, <3>1 DEF Latest
  <2>6. ASSUME Sent(r), ~ unaware
        PROVE  arrived' >= text \/ \E a \in BagToSet(answers') : Refused(a)
    <3>1. r.text = r.shown
      BY <2>6 DEF CarriesText
    <3>2. CASE SaveAnswers(r) /\ ClaimEditable
      BY <1>2, <1>3, <2>6, <3>1, <3>2 DEF SaveAnswers, Store, Latest
    <3>3. CASE SaveAnswers(r) /\ ~ ClaimEditable
      <4>1. Answer(r, ClaimEditable)
        BY <3>3, Zenon DEF SaveAnswers
      <4>2. PICK a : /\ a.kind = r.kind /\ a.shown = r.shown
                     /\ a.ok = ClaimEditable
                     /\ BagToSet(answers') = BagToSet(answers) \cup {a}
        BY <4>1, Answered
      <4>3. Refused(a)
        BY <2>6, <3>3, <4>2
      <4> QED
        BY <4>2, <4>3
    <3>4. CASE Submit(r)
      <4>1. r \in Submits(net)
        BY <3>4 DEF Submit, Submits
      <4>2. status \in EDITABLE
        BY <2>6, <4>1 DEF Aware
      <4> QED
        BY <1>2, <1>3, <2>6, <3>1, <3>4, <4>2 DEF Submit, Store, Latest
    <3>5. ~ Reopen(r)
      BY <2>6 DEF Reopen
    <3> QED
      BY <2>1, <3>2, <3>3, <3>4, <3>5
  <2> QED
    BY <2>2, <2>3, <2>4, <2>5, <2>6 DEF TextIsKept
<1>16. CASE LoseRequest
  <2>1. PICK r \in BagToSet(net) :
          net' = net (-) SetToBag({r}) /\ Answer(r, FALSE)
    BY <1>16 DEF LoseRequest
  <2>2. UNCHANGED <<text, dirty, told, unaware, arrived>>
    BY <1>16 DEF LoseRequest, form, server
  <2>3. BagToSet(net) \ {r} \subseteq BagToSet(net')
    BY <1>1, <2>1, MessageTaken
  <2>4. BagToSet(answers) \subseteq BagToSet(answers')
    BY <2>1, Answered
  <2>5. Sent(r) => \E a \in BagToSet(answers') : Refused(a)
    BY <2>1, Answered
  <2> QED
    BY <2>2, <2>3, <2>4, <2>5 DEF TextIsKept
<1>17. CASE LoseAnswer
  <2>1. PICK a \in BagToSet(answers) :
          /\ a.ok
          /\ answers' = (answers (-) SetToBag({a}))
                          (+) SetToBag({[a EXCEPT !.ok = FALSE]})
          /\ unaware' = (unaware \/ a.kind = "submit")
    BY <1>17 DEF LoseAnswer
  <2>2. UNCHANGED <<text, dirty, told, arrived, net>> /\ (unaware => unaware')
    BY <1>17, <2>1 DEF LoseAnswer, form, server
  <2>3. BagToSet(answers) \ {a} \subseteq BagToSet(answers')
    BY <2>1, AnswerIsLost
  <2>4. ~ Refused(a)
    BY <2>1
  <2> QED
    BY <2>2, <2>3, <2>4 DEF TextIsKept
<1>18. CASE UNCHANGED formVars
  BY <1>7, <1>18 DEF formVars, form, server, formBounds
<1> QED
  BY <1>5, <1>8, <1>9, <1>10, <1>11, <1>12, <1>13, <1>14, <1>15, <1>16, <1>17,
     <1>18 DEF FormNext

\* A key sets the timer and so does the end of the time in which the form was
\* read-only; what clears the timer sends the text, or leaves the form.
LEMMA DirtyHasTimerStep ==
    FormTypeOK /\ DirtyHasTimer /\ [FormNext]_formVars => DirtyHasTimer'
<1> SUFFICES ASSUME FormTypeOK, DirtyHasTimer, [FormNext]_formVars
             PROVE  DirtyHasTimer'
  OBVIOUS
<1>1. CASE ChangeContent \/ Autosave \/ Leave \/ HandleSubmit
  BY <1>1 DEF ChangeContent, Autosave, Leave, HandleSubmit, DirtyHasTimer
<1>2. CASE Hide
  BY <1>2 DEF Hide, Flush, DirtyHasTimer, readOnly
<1>3. CASE Refetch
  BY <1>3 DEF Refetch, DirtyHasTimer
<1>4. CASE \/ HandleReopen \/ Receive \/ Handle \/ LoseRequest \/ LoseAnswer
           \/ UNCHANGED formVars
  <2>1. UNCHANGED <<open, dirty, known, timer>>
    BY <1>4 DEF HandleReopen, Receive, Handle, LoseRequest, LoseAnswer, form, formVars
  <2> QED
    BY <2>1 DEF DirtyHasTimer, readOnly
<1> QED
  BY <1>1, <1>2, <1>3, <1>4 DEF FormNext

-----------------------------------------------------------------------------
(* The theorems.                                                           *)

FormInv == FormTypeOK /\ CarriesText /\ OneSubmit /\ Aware

\* The parts of the invariant hold together.
LEMMA FormInvHolds == FormSpec => []FormInv
<1>1. FormInit => FormInv
  <2> SUFFICES ASSUME FormInit
               PROVE  CarriesText /\ OneSubmit /\ Aware
    BY FormInitType DEF FormInv
  <2>1. BagToSet(net) = {} /\ BagToSet(answers) = {}
    BY NothingSent DEF FormInit
  <2> QED
    BY <2>1 DEF FormInit, CarriesText, OneSubmit, Submits, Aware, EDITABLE
<1>2. FormInv /\ [FormNext]_formVars => FormInv'
  BY FormTypeStep, CarriesTextStep, OneSubmitStep, AwareStep DEF FormInv
<1> QED
  BY <1>1, <1>2, PTL DEF FormSpec

\* A submitted report holds what its member had on the screen when submitting.
THEOREM ShownCorrect == FormSpec => []SubmittedAsShown
<1>1. FormInit => SubmittedAsShown
  BY DEF FormInit, SubmittedAsShown
<1>2. FormInv /\ SubmittedAsShown /\ [FormNext]_formVars => SubmittedAsShown'
  BY SubmittedStep DEF FormInv
<1> QED
  BY <1>1, <1>2, FormInvHolds, PTL DEF FormSpec

\* The form never has two submissions under way, also when the first one is
\* lost or the form is left.
THEOREM SubmitsOnce == FormSpec => []OneSubmit
<1>1. FormInv => OneSubmit
  BY DEF FormInv
<1> QED
  BY <1>1, FormInvHolds, PTL

\* No text is dropped between the keyboard and the report without its member
\* being told, unless a submission was accepted without the form knowing; and
\* what waits for the timer has one.
THEOREM TextKept == FormSpec => [](TextIsKept /\ DirtyHasTimer)
<1>1. FormInit => TextIsKept /\ DirtyHasTimer
  BY DEF FormInit, TextIsKept, DirtyHasTimer
<1>2. FormInv /\ TextIsKept /\ DirtyHasTimer /\ [FormNext]_formVars
        => TextIsKept' /\ DirtyHasTimer'
  BY TextIsKeptStep, DirtyHasTimerStep DEF FormInv
<1> QED
  BY <1>1, <1>2, FormInvHolds, PTL DEF FormSpec

=============================================================================
