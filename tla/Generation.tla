------------------------------ MODULE Generation ------------------------------
(***************************************************************************)
(* The drafts of one scope on one reporting day, and the notices that they *)
(* are ready (daily-report-generator.service.ts). They are materialised by *)
(* the cron of 07:30 and its catch-up every five minutes, by a member who  *)
(* opens the screen, by a leader who asks for them, by the configuration   *)
(* of the scope, and by whoever reads the board: any number of these run   *)
(* at a time, each reading before it writes.                               *)
(*                                                                         *)
(* Of a group, its owner is a member by the row of the group, and the     *)
(* others by the periods of their memberships, which are given: nothing in *)
(* src writes them. The periods keep the past, the row does not: a group   *)
(* that is deleted has no owner at any instant. Of a team, the rows of its *)
(* members are the periods.                                                *)
(***************************************************************************)
EXTENDS Integers, FiniteSets

CONSTANTS
    Users,
    Owner,      \* of the group, where the scope is one
    Cron,       \* the call of the cron and its catch-up
    Calls,      \* other calls served at a time
    MaxNow,     \* bound of the clock
    MaxUpdates, \* bound of the changes of the scope and its group
    MaxCrashes, \* bound of the crashes
    MaxStarts   \* bound of the other calls

\* 07:30, snapshotInstant
SnapshotAt == 1

ASSUME GenerationAssumption ==
    /\ MaxNow \in Nat /\ MaxNow >= SnapshotAt
    /\ Cron \notin Calls /\ Owner \in Users
    /\ MaxUpdates \in Nat /\ MaxCrashes \in Nat /\ MaxStarts \in Nat

VARIABLES
    now,
    periodsAt,  \* who has a period of membership at which instant
    group,      \* the row of the group, "none" in a scope of a team
    groupAt,    \* createdAt of the group
    createdAt,  \* of the scope
    enabled,    \* isEnabled
    archived,   \* archivedAt is set
    reports,    \* daily_reports of the day: the status by user
    ready,      \* users whose notice of the ready report is in the outbox
    call,       \* what every call has read
    updates, crashes, starts

members == <<periodsAt, group, groupAt>>
scope == <<createdAt, enabled, archived>>
bounds == <<updates, crashes, starts>>
vars == <<now, members, scope, reports, ready, call, bounds>>

Times == 0 .. MaxNow
Asked == SnapshotAt .. MaxNow  \* the instants whose members somebody asks for
Idle == [step |-> "idle"]
\* The options of ensureReportsForScope: `notify` for enqueueNotifications,
\* `repair` for repairMissingMembers, `must` for requireExistingSnapshot.
Options == [at : Asked, notify : BOOLEAN, repair : BOOLEAN, must : BOOLEAN]
CallStates ==
    {Idle}
    \cup [step : {"begin", "enqueue"}, options : Options]
    \cup [step : {"create"}, options : Options, missing : SUBSET Users]

TypeOK ==
    /\ now \in Times /\ createdAt \in Times
    /\ periodsAt \in [Asked -> SUBSET Users]
    /\ group \in {"none", "there", "deleted"} /\ groupAt \in Times
    /\ {enabled, archived} \subseteq BOOLEAN
    /\ reports \in [Users -> {"none", "DRAFT", "ARCHIVED"}]
    /\ ready \subseteq Users
    /\ call \in [Calls \cup {Cron} -> CallStates]
    /\ updates \in 0 .. MaxUpdates /\ crashes \in 0 .. MaxCrashes
    /\ starts \in 0 .. MaxStarts

Init ==
    /\ now = 0
    /\ periodsAt \in [Asked -> SUBSET Users]
    /\ createdAt \in Times
    /\ \/ group = "none" /\ groupAt = 0
       \/ group = "there" /\ groupAt \in 0 .. createdAt
    /\ enabled = TRUE /\ archived = FALSE
    /\ reports = [u \in Users |-> "none"]
    /\ ready = {}
    /\ call = [c \in Calls \cup {Cron} |-> Idle]
    /\ updates = 0 /\ crashes = 0 /\ starts = 0

Reported == {u \in Users : reports[u] # "none"}
Created == createdAt <= now

OwnerAt(instant) == IF group = "there" /\ groupAt <= instant THEN {Owner} ELSE {}
GetMemberIdsAt(instant) == OwnerAt(instant) \cup periodsAt[instant]

-----------------------------------------------------------------------------
(* Mistakes this code could have made.                                     *)

\* A leader's call takes the members of the moment.
ManualSnapshot_Now == now

\* A call that finds the reports of the day there has nothing to do.
Finish_Done(c, o) == call' = [call EXCEPT ![c] = Idle]

-----------------------------------------------------------------------------
(* Who calls.                                                              *)

WithOptions(at, notify, repair, must) ==
    [at |-> at, notify |-> notify, repair |-> repair, must |-> must]

\* Every call has read the scope as enabled, and goes on with what it read.
Begin(c, options) ==
    /\ call[c] = Idle
    /\ Created /\ enabled /\ ~archived
    /\ now >= SnapshotAt
    /\ call' = [call EXCEPT ![c] = [step |-> "begin", options |-> options]]
    /\ UNCHANGED <<now, members, scope, reports, ready, updates, crashes>>

\* generateForAllScopes, at 07:30 and every five minutes
RunGeneration ==
    /\ Begin(Cron, WithOptions(SnapshotAt, TRUE, FALSE, FALSE))
    /\ UNCHANGED starts

Start(c, options) ==
    /\ starts < MaxStarts
    /\ starts' = starts + 1
    /\ Begin(c, options)

\* ensureReportsForUser, of a member without a report; the controllers of
\* create and update call the same way
EnsureReportsForUser(c) ==
    /\ \E u \in GetMemberIdsAt(SnapshotAt) : reports[u] = "none"
    /\ Start(c, WithOptions(SnapshotAt, TRUE, FALSE, FALSE))

\* manualSnapshotInstant: of a scope created after 07:30, the moment of the call
ManualSnapshotInstant == IF createdAt > SnapshotAt THEN now ELSE SnapshotAt

GenerateTodayForScope(c) ==
    /\ Start(c, WithOptions(ManualSnapshotInstant, TRUE, TRUE, FALSE))
    /\ GetMemberIdsAt(ManualSnapshotInstant) # {}

\* ensureReportsForRead
EnsureReportsForRead(c) == Start(c, WithOptions(SnapshotAt, FALSE, TRUE, TRUE))

-----------------------------------------------------------------------------
(* ensureReportsForScope.                                                  *)

Done(c) == call' = [call EXCEPT ![c] = Idle]
GoEnqueue(c, o) == call' = [call EXCEPT ![c] = [step |-> "enqueue", options |-> o]]

\* All are there: they are announced, unless somebody only reads.
Finish(c, o) == IF o.notify THEN GoEnqueue(c, o) ELSE Done(c)

\* It looks for a report of the day, and for those of the members.
ReadExisting(c) ==
    /\ call[c].step = "begin"
    /\ LET o == call[c].options
           all == GetMemberIdsAt(o.at)
           missing == all \ Reported
       IN  IF \/ o.must /\ Reported = {}
              \/ (Reported = {} \/ o.repair) /\ all = {}
              \/ o.repair /\ missing = {} /\ ~o.notify
           THEN Done(c)
           ELSE IF (Reported = {} \/ o.repair) /\ missing # {}
           THEN call' = [call EXCEPT ![c] =
                           [step |-> "create", options |-> o, missing |-> missing]]
           ELSE Finish(c, o)
    /\ UNCHANGED <<now, members, scope, reports, ready, bounds>>

\* createMany with skipDuplicates
CreateReports(c) ==
    /\ call[c].step = "create"
    /\ reports' = [u \in Users |->
            IF u \in call[c].missing /\ reports[u] = "none" THEN "DRAFT"
            ELSE reports[u]]
    /\ IF call[c].options.notify THEN GoEnqueue(c, call[c].options) ELSE Done(c)
    /\ UNCHANGED <<now, members, scope, ready, bounds>>

\* Every report of the day is announced, whoever has created it: the outbox
\* keeps one notice by report.
Announced == Reported

EnqueueReady(c) ==
    /\ call[c].step = "enqueue"
    /\ ready' = ready \cup Announced
    /\ Done(c)
    /\ UNCHANGED <<now, members, scope, reports, bounds>>

-----------------------------------------------------------------------------
(* The scope, and the process.                                             *)

Configure ==
    /\ Created /\ ~archived
    /\ updates < MaxUpdates
    /\ updates' = updates + 1

\* update of isEnabled
Update ==
    /\ Configure
    /\ enabled' = ~enabled
    /\ UNCHANGED <<now, members, createdAt, archived, reports, ready, call,
                   crashes, starts>>

\* remove: the reports there are become read-only, with the scope
Remove ==
    /\ Configure
    /\ archived' = TRUE
    /\ enabled' = FALSE
    /\ reports' = [u \in Users |-> IF u \in Reported THEN "ARCHIVED" ELSE "none"]
    /\ UNCHANGED <<now, members, createdAt, ready, call, crashes, starts>>

\* remove, removeAsAdmin of the groups: the scope stays, without its group
RemoveGroup ==
    /\ group = "there"
    /\ Configure
    /\ group' = "deleted"
    /\ UNCHANGED <<now, periodsAt, groupAt, scope, reports, ready, call, crashes, starts>>

Crash ==
    /\ crashes < MaxCrashes
    /\ crashes' = crashes + 1
    /\ call' = [c \in Calls \cup {Cron} |-> Idle]
    /\ UNCHANGED <<now, members, scope, reports, ready, updates, starts>>

Tick ==
    /\ now < MaxNow
    /\ now' = now + 1
    /\ UNCHANGED <<members, scope, reports, ready, call, bounds>>

EnsureReportsForScope(c) == ReadExisting(c) \/ CreateReports(c) \/ EnqueueReady(c)

Next ==
    \/ RunGeneration
    \/ \E c \in Calls :
        EnsureReportsForUser(c) \/ GenerateTodayForScope(c) \/ EnsureReportsForRead(c)
    \/ \E c \in Calls \cup {Cron} : EnsureReportsForScope(c)
    \/ Update \/ Remove \/ RemoveGroup \/ Crash \/ Tick

Spec == Init /\ [][Next]_vars

\* The catch-up comes again and again and is not kept from its end.
FairSpec ==
    Spec /\ WF_vars(RunGeneration) /\ WF_vars(EnsureReportsForScope(Cron))

-----------------------------------------------------------------------------
(* Properties.                                                             *)

\* The members at 07:30 are the ones who owe a report, all of them or, before
\* the first call, nobody: whoever calls, in which order, and whoever joins or
\* leaves during the day ("Một khi đã chụp thì thay đổi membership trong ngày
\* không được bổ sung/xóa người khỏi tập này"). Of a scope that existed then. Only
\* the owner of a group that has been deleted may be missing.
ObligationIsFixed ==
    createdAt <= SnapshotAt =>
        \/ Reported = {}
        \/ Reported = GetMemberIdsAt(SnapshotAt)
        \/ group = "deleted" /\ Reported = periodsAt[SnapshotAt] \cup {Owner}

\* Every draft is announced to its member, also when the process stopped
\* between creating and announcing it, and when it was created by somebody
\* reading the board, unless the scope is switched off ("Repair-safe").
DraftIsAnnounced ==
    \A u \in Users : reports[u] = "DRAFT" ~> u \in ready \/ ~enabled

=============================================================================
