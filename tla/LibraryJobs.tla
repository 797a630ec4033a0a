---------------------------- MODULE LibraryJobs ----------------------------
(***************************************************************************)
(* The Jobs of one Library, and the gate that starts them.                 *)
(*                                                                         *)
(* Every Job of a Library runs a catalog agent on the Library's one claim, *)
(* and two agents on one database corrupt it, so a pass of the operator    *)
(* creates a Job only while it sees no unfinished one.  What a pass sees   *)
(* is a list composed of the watch's store and of the memo of the          *)
(* operator's own writes, read one key at a time while the API server, the *)
(* Job controller and the watch go on.                                     *)
(*                                                                         *)
(* A Job is a number: its name holds the time it was created, so the       *)
(* numbers are also the order of creation.  A resourceVersion is the stage *)
(* of the Job's life; every write of the Job controller to an unfinished   *)
(* Job after its first is one stage, because the gate reads them alike.    *)
(***************************************************************************)
EXTENDS Integers, FiniteSets

CONSTANTS
    MaxJobs,    \* how many Jobs are created (a bound)
    Folders,    \* the folders a webhook can name
    FullWalk,   \* the empty path: a webhook that asks for a full walk
    HeldLimit,  \* heldPathLimit
    Faults      \* what may go wrong besides refusals and restarts

(* "lostCreate": a create lands and its answer is lost.  "lostRead": the   *)
(* read of a Job that the store does not hold yet fails.  "slowAnswer": a  *)
(* Job's pod can walk before the operator has the answer of the create.    *)
FaultKinds == {"lostCreate", "lostRead", "slowAnswer"}

ASSUME JobsAssumption ==
    /\ MaxJobs \in Nat \ {0}
    /\ HeldLimit \in Nat \ {0}
    /\ FullWalk \notin Folders
    /\ Faults \subseteq FaultKinds

JobIds == 1..MaxJobs
Paths  == Folders \cup {FullWalk}

\* The stages of a Job's life, as its resourceVersion shows them.
Absent == 0
Created == 1
Walking == 2
Ended == 3
Gone == 4
Stages == Absent..Gone
Unfinished == {Created, Walking}
Standing == {Created, Walking, Ended}

\* What the memo holds of a Job besides a version.
NoNote == -1
NoCopy == 0

\* The newest of a set of Jobs, and 0 for none.
Newest(S) == IF S = {} THEN 0 ELSE CHOOSE j \in S : \A k \in S : k <= j

Plans == [kind : {"full", "folders", "gaps"}, paths : SUBSET Folders]
GapsPlan == [kind |-> "gaps", paths |-> {}]

VARIABLES
    api,      \* the API server: the stage of each Job
    clean,    \* whether the Job ended on a pod that exited zero
    job,      \* what each Job was created to do
    store,    \* the watch's store: the stage of its copy of each Job
    memo,     \* versionMemo.seen
    pc,       \* where the operator's pass is
    keys,     \* the keys the list still has to read
    view,     \* the list: the stage of each Job it answered, Absent for none
    plan,     \* the Job the pass decided on
    read,     \* the held paths the pass read
    held,     \* heldPaths of the Library
    waiting,  \* failedStands: a backoff after a failure has not elapsed
    desk,     \* the report on the desk: the newest Job it has runs of
    owed      \* observation: folders named since which no Job walked them or failed

server == <<api, clean, job>>
pass   == <<pc, keys, view, plan, read>>
vars   == <<api, clean, job, store, memo, pc, keys, view, plan, read,
            held, waiting, desk, owed>>

\* The pass returns, and with it go the list and what it decided.
PassEnds ==
    /\ pc' = "idle"
    /\ keys' = {}
    /\ view' = [j \in JobIds |-> Absent]
    /\ plan' = GapsPlan
    /\ read' = {}

NoReport == 0

\* One type invariant for the state of the server, the store, the memo and
\* the pass.
TypeOK ==
    /\ api \in [JobIds -> Stages]
    /\ clean \in [JobIds -> BOOLEAN]
    /\ job \in [JobIds -> Plans]
    /\ store \in [JobIds -> Stages]
    /\ memo \in [JobIds -> NoNote..Ended]
    /\ pc \in {"idle", "keys", "reading", "gate", "create", "release"}
    /\ keys \subseteq JobIds
    /\ view \in [JobIds -> Absent..Ended]
    /\ plan \in Plans
    /\ read \subseteq Paths
    /\ held \subseteq Paths
    /\ waiting \in BOOLEAN
    /\ desk \in NoReport..MaxJobs
    /\ owed \subseteq Folders

Init ==
    /\ api = [j \in JobIds |-> Absent]
    /\ clean = [j \in JobIds |-> FALSE]
    /\ job = [j \in JobIds |-> GapsPlan]
    /\ store = [j \in JobIds |-> Absent]
    /\ memo = [j \in JobIds |-> NoNote]
    /\ pc = "idle"
    /\ keys = {}
    /\ view = [j \in JobIds |-> Absent]
    /\ plan = GapsPlan
    /\ read = {}
    /\ held = {}
    /\ waiting = FALSE
    /\ desk = NoReport
    /\ owed = {}

-----------------------------------------------------------------------------
(* The list of the worker Jobs: currentList on a whole store.              *)

StoreHolds(j) == store[j] \in Standing

\* Mutant of Unheld: the list reads the keys of the watch's store alone.
NoUnheld == {}

\* versionMemo.unheld: the keys noted at a version that the store lacks.
Unheld == {j \in JobIds : ~StoreHolds(j) /\ memo[j] \in Standing}

\* versionMemo.current: the store's copy is as new as the operator's own.
Current(j) == StoreHolds(j) /\ memo[j] \in {NoNote, store[j]}

\* The pass begins: the memo's keys are read before the store's.
ListUnheld ==
    /\ pc = "idle"
    /\ keys' = Unheld
    /\ pc' = "keys"
    /\ UNCHANGED <<server, store, memo, view, plan, read, held, waiting, desk, owed>>

\* Mutant of ListStored: the store's keys replace the memo's.
ListStoredOnly ==
    /\ pc = "keys"
    /\ keys' = {j \in JobIds : StoreHolds(j)}
    /\ pc' = "reading"
    /\ UNCHANGED <<server, store, memo, view, plan, read, held, waiting, desk, owed>>

\* The store's keys join them.
ListStored ==
    /\ pc = "keys"
    /\ keys' = keys \cup {j \in JobIds : StoreHolds(j)}
    /\ pc' = "reading"
    /\ UNCHANGED <<server, store, memo, view, plan, read, held, waiting, desk, owed>>

\* One key of the list: the store's copy while it is current, and a read of
\* the API server, noted, while it is not.  A 404 leaves the Job out.
ReadKey(j) ==
    /\ pc = "reading"
    /\ j \in keys
    /\ keys' = keys \ {j}
    /\ IF Current(j)
       THEN /\ view' = [view EXCEPT ![j] = store[j]]
            /\ memo' = memo
       ELSE IF api[j] \in Standing
       THEN /\ view' = [view EXCEPT ![j] = api[j]]
            /\ memo' = [memo EXCEPT ![j] = api[j]]
       ELSE /\ view' = view
            /\ memo' = [memo EXCEPT ![j] = NoCopy]
    /\ UNCHANGED <<server, store, pc, plan, read, held, waiting, desk, owed>>

\* A read that fails ends the pass, and notes that the operator has no copy.
ReadFails(j) ==
    /\ pc = "reading"
    /\ j \in keys
    /\ ~Current(j)
    /\ StoreHolds(j) \/ "lostRead" \in Faults
    /\ memo' = [memo EXCEPT ![j] = NoCopy]
    /\ PassEnds
    /\ UNCHANGED <<server, store, held, waiting, desk, owed>>

\* Mutant of ListEnds: forgetGone drops every key that the store lacks.
ListForgets ==
    /\ pc = "reading"
    /\ keys = {}
    /\ LET kept == [j \in JobIds |->
                     IF ~StoreHolds(j) THEN NoNote ELSE memo[j]]
           over == {j \in JobIds : view[j] = Ended /\ clean[j]}
       IN  \E retired \in SUBSET over : \E refused \in SUBSET retired :
             /\ memo' = [j \in JobIds |-> IF j \in retired THEN NoCopy ELSE kept[j]]
             /\ api' = [j \in JobIds |->
                          IF j \in retired \ refused THEN Gone ELSE api[j]]
    /\ pc' = "gate"
    /\ UNCHANGED <<clean, job, store, keys, view, plan, read, held, waiting, desk, owed>>

\* versionMemo.forgetGone, then retireSucceededJobs, which deletes what the
\* list answered as succeeded (retired), some of it in vain (refused).  The
\* five minutes of grace are the choice of the set.
ListEnds ==
    /\ pc = "reading"
    /\ keys = {}
    /\ LET kept == [j \in JobIds |->
                     IF view[j] = Absent /\ ~StoreHolds(j) THEN NoNote ELSE memo[j]]
           over == {j \in JobIds : view[j] = Ended /\ clean[j]}
       IN  \E retired \in SUBSET over : \E refused \in SUBSET retired :
             /\ memo' = [j \in JobIds |-> IF j \in retired THEN NoCopy ELSE kept[j]]
             /\ api' = [j \in JobIds |->
                          IF j \in retired \ refused THEN Gone ELSE api[j]]
    /\ pc' = "gate"
    /\ UNCHANGED <<clean, job, store, keys, view, plan, read, held, waiting, desk, owed>>

-----------------------------------------------------------------------------
(* The gate: runLibrary over the list the pass holds.                      *)

\* libraryJobUnfinished
SeesUnfinished == \E j \in JobIds : view[j] \in Unfinished

\* unansweredFailure: the newest failed Job, unless a Job created after it
\* succeeded or the report carries a clean run that started after it.
Unanswered ==
    LET failed == Newest({j \in JobIds : view[j] = Ended /\ ~clean[j]})
    IN  /\ failed > 0
        /\ ~ \E j \in JobIds : j > failed /\ view[j] = Ended /\ clean[j]
        /\ ~ \E j \in JobIds : j > failed /\ j <= desk /\ clean[j]

\* mayFollow: the backoff entry goes with the failure it answers, and one
\* allowance is taken on every pass that asks, due or not.
MayFollow == ~Unanswered \/ ~waiting

\* lastWalkStart
LastWalk == Newest({j \in JobIds : job[j].kind = "full" /\ (view[j] # Absent \/ j <= desk)})

\* Mutant of WalkDue: a webhook's full walk is no cause.
NeverWalked == LastWalk = 0

\* walkCause without the calendar: no walk yet, or a webhook that asked for one.
WalkDue == LastWalk = 0 \/ FullWalk \in held

\* nextLibraryJob: the Jobs that can be due.  Whether a schedule or a refresh
\* time has come since the last walk is left open, and so is whether the
\* report shows a gap with a cause.
FullPlan == [kind |-> "full", paths |-> {}]
DuePlans ==
    {FullPlan} \cup
    (IF WalkDue THEN {}
     ELSE IF held # {} THEN {[kind |-> "folders", paths |-> held]}
     ELSE IF desk = NoReport THEN {}
     ELSE {GapsPlan})

\* The pass leaves the Library alone: a Job is unfinished, or the backoff
\* after a failure has not elapsed.
GateHolds ==
    /\ pc = "gate"
    /\ SeesUnfinished \/ ~MayFollow
    /\ PassEnds
    /\ UNCHANGED <<server, store, memo, held, waiting, desk, owed>>

\* Nothing is due: no walk, no held folder, and no gap of the report.
GateFindsNothing ==
    /\ pc = "gate"
    /\ ~SeesUnfinished
    /\ MayFollow
    /\ ~WalkDue
    /\ held = {}
    /\ waiting' = Unanswered
    /\ PassEnds
    /\ UNCHANGED <<server, store, memo, held, desk, owed>>

GatePlans ==
    /\ pc = "gate"
    /\ ~SeesUnfinished
    /\ MayFollow
    /\ plan' \in DuePlans
    /\ read' = held
    /\ waiting' = Unanswered
    /\ pc' = "create"
    /\ UNCHANGED <<server, store, memo, keys, view, held, desk, owed>>

\* The Job a create makes: the next number, because its name is the time.
IsNext(n) == \A k \in JobIds : api[k] # Absent <=> k < n

Land(n) ==
    /\ api' = [api EXCEPT ![n] = Created]
    /\ job' = [job EXCEPT ![n] = plan]

\* createJob answers: the memo notes the version, and a walk goes on to
\* release the paths the pass read.
Create(n) ==
    /\ pc = "create"
    /\ IsNext(n)
    /\ Land(n)
    /\ memo' = [memo EXCEPT ![n] = Created]
    /\ IF plan.kind = "gaps" THEN PassEnds
       ELSE pc' = "release" /\ UNCHANGED <<keys, view, plan, read>>
    /\ UNCHANGED <<clean, store, held, waiting, desk, owed>>

\* The create fails, and whether it landed is not known.
CreateFails(n) ==
    /\ pc = "create"
    /\ IsNext(n)
    /\ memo' = [memo EXCEPT ![n] = NoCopy]
    /\ \/ UNCHANGED <<api, job>>
       \/ "lostCreate" \in Faults /\ Land(n)
    /\ PassEnds
    /\ UNCHANGED <<clean, store, held, waiting, desk, owed>>

\* Mutant of Release: every held path goes, not only those the pass read.
ReleaseAll ==
    /\ pc = "release"
    /\ held' = {}
    /\ PassEnds
    /\ UNCHANGED <<server, store, memo, waiting, desk, owed>>

\* heldPaths.release: the paths this pass read.
Release ==
    /\ pc = "release"
    /\ held' = held \ read
    /\ PassEnds
    /\ UNCHANGED <<server, store, memo, waiting, desk, owed>>

-----------------------------------------------------------------------------
(* The rest of the world.                                                  *)

\* heldPaths.hold: nothing beside a full walk, and past the limit the set
\* collapses to one.
Hold(p) ==
    IF FullWalk \in held THEN held
    ELSE IF p = FullWalk \/ Cardinality(held) >= HeldLimit THEN {FullWalk}
    ELSE held \cup {p}

Webhook(p) ==
    /\ held' = Hold(p)
    /\ owed' = owed \cup (IF p = FullWalk THEN Folders ELSE {p})
    /\ UNCHANGED <<server, store, memo, pass, waiting, desk>>

\* The folders a Job reads.
Reads(j) ==
    CASE job[j].kind = "full" -> Folders
      [] job[j].kind = "folders" -> job[j].paths \cap Folders
      [] OTHER -> {}

\* The operator has the answer of the Job's create and has released its paths:
\* one round trip against a pod that is scheduled, starts and syncs first.
Answered(j) == "slowAnswer" \in Faults \/ ~(pc = "release" /\ IsNext(j + 1))

\* The Job's pod starts, and its walk reads the volume from here on.
PodWalks(j) ==
    /\ api[j] = Created
    /\ Answered(j)
    /\ api' = [api EXCEPT ![j] = Walking]
    /\ owed' = owed \ Reads(j)
    /\ UNCHANGED <<clean, job, store, memo, pass, held, waiting, desk>>

\* The controller ends a Job on a pod that exited zero.
Succeeds(j) ==
    /\ api[j] = Walking
    /\ api' = [api EXCEPT ![j] = Ended]
    /\ clean' = [clean EXCEPT ![j] = TRUE]
    /\ UNCHANGED <<job, store, memo, pass, held, waiting, desk, owed>>

\* The backoff limit or the deadline ends a Job, with or without a pod.  A release is
\* final: the folders of a Job that fails before it walks are not held again, and come
\* with the next walk.
Fails(j) ==
    /\ api[j] \in Unfinished
    /\ Answered(j)
    /\ api' = [api EXCEPT ![j] = Ended]
    /\ owed' = owed \ Reads(j)
    /\ UNCHANGED <<clean, job, store, memo, pass, held, waiting, desk>>

\* ttlSecondsAfterFinished
Expires(j) ==
    /\ api[j] = Ended
    /\ api' = [api EXCEPT ![j] = Gone]
    /\ UNCHANGED <<clean, job, store, memo, pass, held, waiting, desk, owed>>

\* The watch delivers a later copy of one Job, or its delete.
Deliver(j) ==
    /\ store[j] < api[j]
    /\ \E s \in (store[j] + 1)..api[j] : store' = [store EXCEPT ![j] = s]
    /\ UNCHANGED <<server, memo, pass, held, waiting, desk, owed>>

\* The reporter's report reaches the desk with the runs of ended Jobs.
Report ==
    /\ \E j \in JobIds : j > desk /\ api[j] >= Ended /\ desk' = j
    /\ UNCHANGED <<server, store, memo, pass, held, waiting, owed>>

BackoffElapses ==
    /\ waiting
    /\ waiting' = FALSE
    /\ UNCHANGED <<server, store, memo, pass, held, desk, owed>>

\* The operator restarts: everything it holds in memory is gone, and its
\* first pass waits for the watch's first read.
Restart ==
    /\ PassEnds
    /\ held' = {}
    /\ owed' = {}
    /\ memo' = [j \in JobIds |-> NoNote]
    /\ waiting' = FALSE
    /\ desk' = NoReport
    /\ store' = api
    /\ UNCHANGED server

Next ==
    \/ ListUnheld \/ ListStored \/ ListEnds
    \/ GateHolds \/ GateFindsNothing \/ GatePlans \/ Release
    \/ \E j \in JobIds :
          \/ ReadKey(j) \/ ReadFails(j) \/ Create(j) \/ CreateFails(j)
          \/ PodWalks(j) \/ Succeeds(j) \/ Fails(j) \/ Expires(j)
          \/ Deliver(j)
    \/ \E p \in Paths : Webhook(p)
    \/ Report \/ BackoffElapses \/ Restart

Spec == Init /\ [][Next]_vars

-----------------------------------------------------------------------------
(* Properties.                                                             *)

\* No two Jobs of the Library are unfinished at once, so no two agents open
\* its catalog claim, whatever the watch's store has not delivered yet.
AtMostOneUnfinishedJob ==
    \A j, k \in JobIds : api[j] \in Unfinished /\ api[k] \in Unfinished => j = k

\* An unfinished Job is always where the next list looks for it: in the
\* store, or in the memo at a version, until the watch delivers it.
UnfinishedJobIsFindable ==
    \A j \in JobIds :
        api[j] \in Unfinished => StoreHolds(j) \/ memo[j] \in Standing

\* A list in progress misses no unfinished Job: it is in the keys, in the
\* store, or already answered, and a finished list answers it as unfinished.
ListMissesNothing ==
    \A j \in JobIds : api[j] \in Unfinished =>
        /\ pc = "keys" => j \in keys \/ StoreHolds(j)
        /\ pc = "reading" => j \in keys \/ view[j] \in Unfinished
        /\ pc = "gate" => view[j] \in Unfinished
        /\ pc # "create"

\* A folder that a webhook named and that no walk has read since is held, or
\* is covered by a full walk that is held, or by a Job whose walk is still to
\* come, until a Job that has it fails.  A release never drops a folder named after
\* the pass read the set.
NamedFolderIsKept ==
    \A f \in owed :
        \/ held \cap {f, FullWalk} # {}
        \/ \E j \in JobIds : api[j] = Created /\ f \in Reads(j)

\* A copy of a Job in the store, the memo or the list is never newer than the
\* API server's, so a Job that a pass sees as ended has ended.
CopiesLag ==
    \A j \in JobIds : store[j] <= api[j] /\ memo[j] <= api[j] /\ view[j] <= api[j]

\* What the steps of the gate preserve together.
GateInvariant ==
    /\ TypeOK
    /\ CopiesLag
    /\ AtMostOneUnfinishedJob
    /\ UnfinishedJobIsFindable
    /\ ListMissesNothing

=============================================================================
