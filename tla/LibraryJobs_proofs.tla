------------------------- MODULE LibraryJobs_proofs -------------------------
(***************************************************************************)
(* The gate keeps one Job per Library for every number of Jobs and every   *)
(* set of folders, as long as the answer of no create is lost and no read  *)
(* fails for a Job that the store does not hold yet.                       *)
(***************************************************************************)
EXTENDS LibraryJobs, TLAPS

NoLostAnswers == Faults \cap {"lostCreate", "lostRead"} = {}

USE DEF Absent, Created, Walking, Ended, Gone, NoNote, NoCopy, NoReport

\* What a pass holds before it reads anything.
LEMMA EmptyPlan == GapsPlan \in Plans
BY DEF GapsPlan, Plans

\* The list of a pass that has not read anything: it answers no Job.
LEMMA EmptyView == [j \in JobIds |-> Absent] \in [JobIds -> Absent..Ended]
OBVIOUS

\* The memo of a process that has written nothing.
LEMMA EmptyMemo == [j \in JobIds |-> NoNote] \in [JobIds -> NoNote..Ended]
OBVIOUS

\* The desk of a process that no report has reached.
LEMMA EmptyDesk == NoReport \in NoReport..MaxJobs
BY JobsAssumption

\* The program starts with no Job, and with no list begun.
LEMMA InitGate == Init => GateInvariant
<1> SUFFICES ASSUME Init PROVE GateInvariant
  OBVIOUS
<1> USE DEF Init
<1>1. TypeOK
  <2>1. [j \in JobIds |-> Absent] \in [JobIds -> Stages]
    BY DEF Stages
  <2>2. [j \in JobIds |-> GapsPlan] \in [JobIds -> Plans]
    BY EmptyPlan
  <2> QED
    BY <2>1, <2>2, EmptyPlan, EmptyView, EmptyMemo, EmptyDesk DEF TypeOK
<1>2. \A j \in JobIds : api[j] = Absent /\ store[j] = Absent /\ memo[j] = NoNote /\ view[j] = Absent
  OBVIOUS
<1> QED
  BY <1>1, <1>2 DEF GateInvariant, CopiesLag, AtMostOneUnfinishedJob,
     UnfinishedJobIsFindable, ListMissesNothing, Unfinished

\* What a pass and the world do to the state keeps its type.
LEMMA TypeStep == TypeOK /\ [Next]_vars => TypeOK'
<1> SUFFICES ASSUME TypeOK, [Next]_vars PROVE TypeOK'
  OBVIOUS
<1> USE JobsAssumption DEF TypeOK, Stages, Standing, Unfinished, Paths
<1>1. CASE ListUnheld
  BY <1>1 DEF ListUnheld, Unheld, server
<1>2. CASE ListStored
  BY <1>2 DEF ListStored, server
<1>3. CASE ListEnds
  BY <1>3 DEF ListEnds
<1>4. CASE GateHolds
  BY <1>4, EmptyPlan, EmptyView DEF GateHolds, PassEnds, server
<1>5. CASE GateFindsNothing
  BY <1>5, EmptyPlan, EmptyView DEF GateFindsNothing, PassEnds, server, Unanswered
<1>6. CASE GatePlans
  <2>1. plan' \in Plans
    BY <1>6 DEF GatePlans, DuePlans, WalkDue, FullPlan, GapsPlan, Plans
  <2> QED
    BY <1>6, <2>1 DEF GatePlans, server, Unanswered
<1>7. CASE Release
  BY <1>7, EmptyPlan, EmptyView DEF Release, PassEnds, server
<1>8. ASSUME NEW j \in JobIds, ReadKey(j) PROVE TypeOK'
  BY <1>8 DEF ReadKey, server, Current, StoreHolds
<1>9. ASSUME NEW j \in JobIds, ReadFails(j) PROVE TypeOK'
  BY <1>9, EmptyPlan, EmptyView DEF ReadFails, PassEnds, server
<1>10. ASSUME NEW j \in JobIds, Create(j) PROVE TypeOK'
  BY <1>10, EmptyPlan, EmptyView DEF Create, Land, PassEnds
<1>11. ASSUME NEW j \in JobIds, CreateFails(j) PROVE TypeOK'
  BY <1>11, EmptyPlan, EmptyView DEF CreateFails, Land, PassEnds
<1>12. ASSUME NEW j \in JobIds, PodWalks(j) PROVE TypeOK'
  BY <1>12 DEF PodWalks, pass
<1>13. ASSUME NEW j \in JobIds, Succeeds(j) PROVE TypeOK'
  BY <1>13 DEF Succeeds, pass
<1>14. ASSUME NEW j \in JobIds, Fails(j) PROVE TypeOK'
  BY <1>14 DEF Fails, pass
<1>15. ASSUME NEW j \in JobIds, Expires(j) PROVE TypeOK'
  BY <1>15 DEF Expires, pass
<1>16. ASSUME NEW j \in JobIds, Deliver(j) PROVE TypeOK'
  BY <1>16 DEF Deliver, pass, server
<1>17. ASSUME NEW p \in Paths, Webhook(p) PROVE TypeOK'
  BY <1>17 DEF Webhook, Hold, pass, server
<1>18. CASE Report
  BY <1>18 DEF Report, pass, server, JobIds
<1>19. CASE BackoffElapses
  BY <1>19 DEF BackoffElapses, pass, server
<1>20. CASE Restart
  BY <1>20, EmptyPlan, EmptyView, EmptyMemo, EmptyDesk DEF Restart, PassEnds, server
<1>21. CASE UNCHANGED vars
  BY <1>21 DEF vars
<1> QED
  BY <1>1, <1>2, <1>3, <1>4, <1>5, <1>6, <1>7, <1>8, <1>9, <1>10, <1>11, <1>12,
     <1>13, <1>14, <1>15, <1>16, <1>17, <1>18, <1>19, <1>20, <1>21 DEF Next

-----------------------------------------------------------------------------

\* What each step of the gate keeps, over one step from a state where all of
\* it holds.
LEMMA GateStep ==
  ASSUME NoLostAnswers, GateInvariant, [Next]_vars
  PROVE  GateInvariant'
<1> USE DEF GateInvariant
<1>0. TypeOK'
  BY TypeStep
<1> USE <1>0
<1> DEFINE I == CopiesLag /\ AtMostOneUnfinishedJob /\ UnfinishedJobIsFindable /\ ListMissesNothing
<1> SUFFICES I'
  OBVIOUS
<1> USE DEF TypeOK, Stages, Standing, Unfinished, CopiesLag, AtMostOneUnfinishedJob,
            UnfinishedJobIsFindable, ListMissesNothing, StoreHolds, server, pass
<1>1. CASE ListUnheld
  BY <1>1 DEF ListUnheld, Unheld
<1>2. CASE ListStored
  BY <1>2 DEF ListStored
<1>3. CASE ListEnds
  BY <1>3 DEF ListEnds
<1>4. CASE GateHolds
  BY <1>4 DEF GateHolds, PassEnds
<1>5. CASE GateFindsNothing
  BY <1>5 DEF GateFindsNothing, PassEnds
<1>6. CASE GatePlans
  BY <1>6 DEF GatePlans, SeesUnfinished
<1>7. CASE Release
  BY <1>7 DEF Release, PassEnds
<1>8. ASSUME NEW j \in JobIds, ReadKey(j) PROVE I'
  BY <1>8 DEF ReadKey, Current
<1>9. ASSUME NEW j \in JobIds, ReadFails(j) PROVE I'
  BY <1>9 DEF ReadFails, PassEnds, NoLostAnswers
<1>10. ASSUME NEW j \in JobIds, Create(j) PROVE I'
  <2>1. api[j] = Absent
    BY <1>10 DEF Create, IsNext, JobIds
  <2>2. \A k \in JobIds : api[k] \notin Unfinished
    BY <1>10 DEF Create
  <2> QED
    BY <1>10, <2>1, <2>2 DEF Create, Land, PassEnds
<1>11. ASSUME NEW j \in JobIds, CreateFails(j) PROVE I'
  BY <1>11 DEF CreateFails, IsNext, PassEnds, NoLostAnswers
<1>12. ASSUME NEW j \in JobIds, PodWalks(j) PROVE I'
  BY <1>12 DEF PodWalks
<1>13. ASSUME NEW j \in JobIds, Succeeds(j) PROVE I'
  BY <1>13 DEF Succeeds
<1>14. ASSUME NEW j \in JobIds, Fails(j) PROVE I'
  BY <1>14 DEF Fails
<1>15. ASSUME NEW j \in JobIds, Expires(j) PROVE I'
  BY <1>15 DEF Expires
<1>16. ASSUME NEW j \in JobIds, Deliver(j) PROVE I'
  BY <1>16 DEF Deliver
<1>17. ASSUME NEW p \in Paths, Webhook(p) PROVE I'
  BY <1>17 DEF Webhook
<1>18. CASE Report
  BY <1>18 DEF Report
<1>19. CASE BackoffElapses
  BY <1>19 DEF BackoffElapses
<1>20. CASE Restart
  BY <1>20 DEF Restart, PassEnds
<1>21. CASE UNCHANGED vars
  BY <1>21 DEF vars
<1> QED
  BY <1>1, <1>2, <1>3, <1>4, <1>5, <1>6, <1>7, <1>8, <1>9, <1>10, <1>11, <1>12,
     <1>13, <1>14, <1>15, <1>16, <1>17, <1>18, <1>19, <1>20, <1>21 DEF Next

\* Every state has its type, whatever is lost.
THEOREM TypeCorrect == Spec => []TypeOK
<1>1. Init => TypeOK
  BY InitGate DEF GateInvariant
<1> QED
  BY <1>1, TypeStep, PTL DEF Spec

\* With every answer heard, the list a pass decides on shows each unfinished
\* Job (ListMissesNothing), whatever the watch has delivered.
THEOREM GateInductive == NoLostAnswers => (Spec => []GateInvariant)
<1> SUFFICES ASSUME NoLostAnswers PROVE Spec => []GateInvariant
  OBVIOUS
<1>1. GateInvariant /\ [Next]_vars => GateInvariant'
  BY GateStep
<1> QED
  BY <1>1, InitGate, PTL DEF Spec

\* libraryschedule.go's rule: at most one Job of a Library is unfinished.
THEOREM OneJobPerLibrary == NoLostAnswers => (Spec => []AtMostOneUnfinishedJob)
<1> SUFFICES ASSUME NoLostAnswers PROVE Spec => []AtMostOneUnfinishedJob
  OBVIOUS
<1>1. Spec => []GateInvariant
  BY GateInductive
<1>2. GateInvariant => AtMostOneUnfinishedJob
  BY DEF GateInvariant
<1> QED
  BY <1>1, <1>2, PTL

-----------------------------------------------------------------------------
(* What a webhook named is kept.  This half does not need that no answer   *)
(* is lost: only that a Job's pod does not walk before the operator has    *)
(* the answer of the create.                                               *)

NoSlowAnswers == "slowAnswer" \notin Faults

\* Before its create, a plan covers the paths the pass read: a full walk does,
\* and folders are those very paths, with no full walk among them.
PlanCovers ==
    pc = "create" =>
        \/ plan.kind \in {"full", "gaps"}
        \/ plan.kind = "folders" /\ plan.paths = read /\ FullWalk \notin read

\* Before the release, the newest Job has not walked, and is to read the folders
\* of the paths that the release drops.
ReleaseIsCovered ==
    pc = "release" =>
        \E n \in JobIds :
            /\ IsNext(n + 1)
            /\ api[n] = Created
            /\ \/ job[n].kind = "full"
               \/ job[n].kind = "folders" /\ job[n].paths = read /\ FullWalk \notin read

KeptInvariant ==
    TypeOK /\ CopiesLag /\ PlanCovers /\ ReleaseIsCovered /\ NamedFolderIsKept

LEMMA WhatAJobReads ==
  \A j \in JobIds, f \in Folders :
      f \in Reads(j) <=> \/ job[j].kind = "full"
                         \/ job[j].kind = "folders" /\ f \in job[j].paths
BY DEF Reads

LEMMA InitKept == Init => KeptInvariant
<1> SUFFICES ASSUME Init PROVE KeptInvariant
  OBVIOUS
<1>1. TypeOK /\ CopiesLag
  BY InitGate DEF GateInvariant
<1> QED
  BY <1>1 DEF Init, KeptInvariant, PlanCovers, ReleaseIsCovered, NamedFolderIsKept

\* No copy gets ahead of the API server, whatever answers are lost.
LEMMA CopiesStep ==
  ASSUME TypeOK, CopiesLag, [Next]_vars
  PROVE  CopiesLag'
<1> USE JobsAssumption DEF TypeOK, CopiesLag, Stages, Standing, Unfinished, server, pass, StoreHolds
<1>1. CASE ListEnds
  BY <1>1 DEF ListEnds
<1>2. CASE ListUnheld \/ ListStored \/ GateHolds \/ GateFindsNothing \/ GatePlans \/ Release
           \/ Report \/ BackoffElapses
  BY <1>2 DEF ListUnheld, ListStored, GateHolds, GateFindsNothing, GatePlans, Release, Report,
     BackoffElapses, PassEnds
<1>3. ASSUME NEW j \in JobIds, ReadKey(j) PROVE CopiesLag'
  BY <1>3 DEF ReadKey, Current
<1>4. ASSUME NEW j \in JobIds, ReadFails(j) PROVE CopiesLag'
  BY <1>4 DEF ReadFails, PassEnds
<1>5. ASSUME NEW j \in JobIds, Create(j) PROVE CopiesLag'
  <2>1. api[j] = Absent /\ UNCHANGED store
    BY <1>5 DEF Create, IsNext, JobIds
  <2>2. api' = [api EXCEPT ![j] = Created] /\ memo' = [memo EXCEPT ![j] = Created]
    BY <1>5 DEF Create, Land
  <2>3. \A k \in JobIds : view'[k] \in {view[k], Absent}
    BY <1>5 DEF Create, PassEnds
  <2> QED
    BY <2>1, <2>2, <2>3
<1>6. ASSUME NEW j \in JobIds, CreateFails(j) PROVE CopiesLag'
  <2>1. api[j] = Absent /\ UNCHANGED store
    BY <1>6 DEF CreateFails, IsNext, JobIds
  <2>2. api' \in {api, [api EXCEPT ![j] = Created]} /\ memo' = [memo EXCEPT ![j] = NoCopy]
    BY <1>6 DEF CreateFails, Land
  <2>3. view' = [k \in JobIds |-> Absent]
    BY <1>6 DEF CreateFails, PassEnds
  <2> QED
    BY <2>1, <2>2, <2>3
<1>7. ASSUME NEW j \in JobIds, PodWalks(j) \/ Succeeds(j) \/ Fails(j) \/ Expires(j) PROVE CopiesLag'
  BY <1>7 DEF PodWalks, Succeeds, Fails, Expires
<1>8. ASSUME NEW j \in JobIds, Deliver(j) PROVE CopiesLag'
  BY <1>8 DEF Deliver
<1>9. ASSUME NEW p \in Paths, Webhook(p) PROVE CopiesLag'
  BY <1>9 DEF Webhook
<1>10. CASE Restart
  BY <1>10 DEF Restart, PassEnds
<1>11. CASE UNCHANGED vars
  BY <1>11 DEF vars
<1> QED
  BY <1>1, <1>2, <1>3, <1>4, <1>5, <1>6, <1>7, <1>8, <1>9, <1>10, <1>11 DEF Next

\* A plan is made from the paths that were read with it, and neither changes
\* before the create.
LEMMA PlanStep ==
  ASSUME TypeOK, PlanCovers, [Next]_vars
  PROVE  PlanCovers'
<1> USE DEF PlanCovers, server, pass
<1>1. CASE GatePlans
  <2>1. plan' \in DuePlans /\ read' = held
    BY <1>1 DEF GatePlans
  <2> QED
    BY <2>1 DEF DuePlans, WalkDue, FullPlan, GapsPlan
<1>2. CASE ListUnheld \/ ListStored \/ ListEnds \/ GateHolds \/ GateFindsNothing \/ Release \/ Restart
  BY <1>2 DEF ListUnheld, ListStored, ListEnds, GateHolds, GateFindsNothing, Release, Restart, PassEnds
<1>3. ASSUME NEW j \in JobIds, ReadFails(j) \/ Create(j) \/ CreateFails(j) PROVE PlanCovers'
  BY <1>3 DEF ReadFails, Create, CreateFails, PassEnds
<1>4. CASE UNCHANGED <<pc, plan, read>>
  BY <1>4
<1> QED
  BY <1>1, <1>2, <1>3, <1>4 DEF Next, vars, ReadKey, PodWalks, Succeeds, Fails, Expires, Deliver,
     Webhook, Report, BackoffElapses

\* A Job whose create was not answered does not start, so it is the newest and
\* has not walked until its paths are released.
LEMMA ReleaseStep ==
  ASSUME NoSlowAnswers, TypeOK, PlanCovers, ReleaseIsCovered, [Next]_vars
  PROVE  ReleaseIsCovered'
<1> USE DEF ReleaseIsCovered, server, pass
<1>1. ASSUME NEW n \in JobIds, Create(n) PROVE ReleaseIsCovered'
  <2>1. CASE plan.kind = "gaps"
    BY <1>1, <2>1 DEF Create, PassEnds
  <2>2. CASE plan.kind # "gaps"
    <3>1. api' = [api EXCEPT ![n] = Created] /\ job' = [job EXCEPT ![n] = plan] /\ read' = read
      BY <1>1, <2>2 DEF Create, Land
    <3>2. \/ plan.kind = "full"
          \/ plan.kind = "folders" /\ plan.paths = read /\ FullWalk \notin read
      BY <1>1, <2>2 DEF Create, PlanCovers
    <3>3. IsNext(n + 1)'
      <4>1. \A k \in JobIds : api[k] # Absent <=> k < n
        BY <1>1 DEF Create, IsNext
      <4>2. \A k \in JobIds : api'[k] = IF k = n THEN Created ELSE api[k]
        BY <3>1 DEF TypeOK
      <4>3. JobIds \subseteq Int
        BY DEF JobIds
      <4>4. \A k \in JobIds : api'[k] # Absent <=> k < n + 1
        BY <4>1, <4>2, <4>3
      <4> QED
        BY <4>4 DEF IsNext
    <3>4. api'[n] = Created /\ job'[n] = plan
      BY <3>1 DEF TypeOK
    <3> QED
      BY <3>1, <3>2, <3>3, <3>4
  <2> QED
    BY <2>1, <2>2
<1>2. CASE ListUnheld \/ ListStored \/ ListEnds \/ GateHolds \/ GateFindsNothing \/ GatePlans
           \/ Release \/ Restart
  BY <1>2 DEF ListUnheld, ListStored, ListEnds, GateHolds, GateFindsNothing, GatePlans, Release,
     Restart, PassEnds
<1>3. ASSUME NEW j \in JobIds, ReadFails(j) \/ CreateFails(j) PROVE ReleaseIsCovered'
  BY <1>3 DEF ReadFails, CreateFails, PassEnds
<1>4. ASSUME NEW j \in JobIds, PodWalks(j) \/ Succeeds(j) \/ Fails(j) \/ Expires(j)
      PROVE  ReleaseIsCovered'
  <2> SUFFICES ASSUME pc' = "release" PROVE ReleaseIsCovered'
    OBVIOUS
  <2>1. pc = "release" /\ UNCHANGED <<job, read>> /\ api[j] # Absent
    BY <1>4 DEF PodWalks, Succeeds, Fails, Expires, Unfinished
  <2>2. PICK n \in JobIds :
            /\ IsNext(n + 1)
            /\ api[n] = Created
            /\ \/ job[n].kind = "full"
               \/ job[n].kind = "folders" /\ job[n].paths = read /\ FullWalk \notin read
    BY <2>1
  <2>3. j # n
    BY <1>4, <2>1, <2>2 DEF PodWalks, Succeeds, Fails, Expires, Answered, NoSlowAnswers
  <2>4. \E s \in {Walking, Ended, Gone} : api' = [api EXCEPT ![j] = s]
    BY <1>4 DEF PodWalks, Succeeds, Fails, Expires
  <2>5. api'[n] = Created /\ IsNext(n + 1)'
    BY <2>1, <2>2, <2>3, <2>4 DEF IsNext, TypeOK
  <2> QED
    BY <2>1, <2>2, <2>5
<1>5. CASE UNCHANGED <<pc, api, job, read>>
  BY <1>5 DEF IsNext
<1> QED
  BY <1>1, <1>2, <1>3, <1>4, <1>5 DEF Next, vars, ReadKey, Deliver, Webhook, Report, BackoffElapses

\* No step loses a folder that a webhook named and no walk has read since.
LEMMA NamedStep ==
  ASSUME TypeOK, CopiesLag, ReleaseIsCovered, NamedFolderIsKept, [Next]_vars
  PROVE  NamedFolderIsKept'
<1> DEFINE Kept(f) == \/ held \cap {f, FullWalk} # {}
                      \/ \E j \in JobIds : api[j] = Created /\ f \in Reads(j)
<1>0. owed \subseteq Folders /\ \A f \in owed : Kept(f)
  BY DEF NamedFolderIsKept, TypeOK
<1> SUFFICES ASSUME NEW f \in owed' PROVE Kept(f)'
  BY DEF NamedFolderIsKept
<1> USE DEF server, pass
<1>1. CASE Release
  <2>1. f \in owed /\ f \in Folders /\ UNCHANGED <<api, job>> /\ held' = held \ read /\ pc = "release"
    BY <1>0, <1>1 DEF Release
  <2>2. PICK n \in JobIds :
            /\ api[n] = Created
            /\ \/ job[n].kind = "full"
               \/ job[n].kind = "folders" /\ job[n].paths = read /\ FullWalk \notin read
    BY <2>1 DEF ReleaseIsCovered
  <2>3. CASE f \in read \/ FullWalk \in read
    <3>1. f \in Reads(n)
      BY <2>1, <2>2, <2>3, WhatAJobReads
    <3> QED
      BY <2>1, <2>2, <3>1 DEF Reads
  <2>4. CASE f \notin read /\ FullWalk \notin read
    BY <1>0, <2>1, <2>4 DEF Reads
  <2> QED
    BY <2>3, <2>4
<1>2. ASSUME NEW p \in Paths, Webhook(p) PROVE Kept(f)'
  <2>1. UNCHANGED <<api, job>> /\ held' = Hold(p)
    BY <1>2 DEF Webhook
  <2>2. CASE f \in owed
    BY <1>0, <2>1, <2>2 DEF Hold, Reads
  <2>3. CASE f \notin owed
    <3>1. p \in {f, FullWalk}
      BY <1>2, <2>3 DEF Webhook
    <3> QED
      BY <2>1, <3>1 DEF Hold
  <2> QED
    BY <2>2, <2>3
<1>3. ASSUME NEW n \in JobIds, Create(n) \/ CreateFails(n) PROVE Kept(f)'
  <2>1. f \in owed /\ UNCHANGED held /\ api[n] = Absent
    BY <1>3 DEF Create, CreateFails, IsNext, JobIds
  <2>2. \A j \in JobIds \ {n} : api'[j] = api[j] /\ job'[j] = job[j]
    BY <1>3 DEF Create, CreateFails, Land, TypeOK
  <2> QED
    BY <1>0, <2>1, <2>2 DEF Reads
<1>4. ASSUME NEW n \in JobIds, PodWalks(n) \/ Fails(n) PROVE Kept(f)'
  <2>1. f \in owed /\ f \notin Reads(n) /\ UNCHANGED <<held, job>>
    BY <1>4 DEF PodWalks, Fails
  <2>2. \A j \in JobIds \ {n} : api'[j] = api[j]
    BY <1>4 DEF PodWalks, Fails, TypeOK
  <2> QED
    BY <1>0, <2>1, <2>2 DEF Reads
<1>5. ASSUME NEW n \in JobIds, Succeeds(n) \/ Expires(n) PROVE Kept(f)'
  <2>1. f \in owed /\ api[n] # Created /\ UNCHANGED <<held, job>>
    BY <1>5 DEF Succeeds, Expires
  <2>2. \A j \in JobIds \ {n} : api'[j] = api[j]
    BY <1>5 DEF Succeeds, Expires, TypeOK
  <2> QED
    BY <1>0, <2>1, <2>2 DEF Reads
<1>6. CASE ListEnds
  <2>1. f \in owed /\ UNCHANGED <<held, job>>
    BY <1>6 DEF ListEnds
  <2>2. \A j \in JobIds : api[j] = Created => api'[j] = Created
    BY <1>6 DEF ListEnds, TypeOK, CopiesLag, Stages
  <2> QED
    BY <1>0, <2>1, <2>2 DEF Reads
<1>7. CASE Restart
  BY <1>7 DEF Restart
<1>8. CASE UNCHANGED <<api, job, held, owed>>
  BY <1>0, <1>8 DEF Reads
<1> QED
  BY <1>1, <1>2, <1>3, <1>4, <1>5, <1>6, <1>7, <1>8 DEF Next, vars, ListUnheld, ListStored,
     GateHolds, GateFindsNothing, GatePlans, ReadKey, ReadFails, PassEnds, Deliver, Report,
     BackoffElapses

\* A folder that a webhook named is never lost: it is held, or a full walk is,
\* or a Job that has not walked yet reads it; heldPaths.release drops no path
\* that was held after the pass read the set.
THEOREM NoNamedFolderIsLost == NoSlowAnswers => (Spec => []NamedFolderIsKept)
<1> SUFFICES ASSUME NoSlowAnswers PROVE Spec => []NamedFolderIsKept
  OBVIOUS
<1>1. KeptInvariant /\ [Next]_vars => KeptInvariant'
  BY TypeStep, CopiesStep, PlanStep, ReleaseStep, NamedStep DEF KeptInvariant
<1>2. KeptInvariant => NamedFolderIsKept
  BY DEF KeptInvariant
<1> QED
  BY <1>1, <1>2, InitKept, PTL DEF Spec

=============================================================================
