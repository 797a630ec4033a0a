-------------------------- MODULE Departure_proofs --------------------------
(***************************************************************************)
(* For every set of rows and every number of mishaps: the sweep runs after *)
(* the Library's last Job, and a Library that keeps its claim is released  *)
(* with no row left on the standing copy.                                  *)
(***************************************************************************)
EXTENDS Departure, TLAPS

JobInvariant   == TypeOK /\ SweepFollowsJob
SweepInvariant == JobInvariant /\ ReleaseFollowsSweep

\* What a pass holds before it reads the Jobs.
LEMMA NothingListed ==
    Unlisted \in [worker : WorkerStages, cleanup : CleanupStages]
BY DEF Unlisted, WorkerStages, CleanupStages

\* A Library that a person deletes: the sweep has not begun, and its last Job
\* is at any stage.
LEMMA InitJob == Init => JobInvariant
<1> SUFFICES ASSUME Init PROVE JobInvariant
  OBVIOUS
<1> USE DEF Init
<1>1. claim \in [Rows -> {0, 1}] /\ standing \in [Rows -> {0, 1}]
  <2>1. CASE FreshClaim
    BY <2>1
  <2>2. CASE ~FreshClaim
    BY <2>2
  <2> QED
    BY <2>1, <2>2
<1>2. \A r \in Rows : claim[r] \in {0, 1} /\ standing[r] \in {0, 1}
  BY <1>1
<1>3. TypeOK
  <2>1. claim \in [Rows -> Lengths] /\ standing \in [Rows -> Lengths]
    BY <1>1 DEF Lengths
  <2>2. worker \in WorkerStages
    BY DEF WorkerStages
  <2>3. mishaps \in 0..MaxMishaps /\ catalogs \in 0..2
    BY DepartureAssumption
  <2> QED
    BY <2>1, <2>2, <2>3, NothingListed DEF TypeOK, CleanupStages
<1>4. SweepFollowsJob
  BY <1>2 DEF SweepFollowsJob, JobOver
<1> QED
  BY <1>3, <1>4 DEF JobInvariant

\* What each step does to the types, from a state where the rows' lengths are
\* bounded by the sweep.
LEMMA TypeStep ==
  ASSUME JobInvariant, [Next]_vars
  PROVE  TypeOK'
<1> USE DEF JobInvariant, TypeOK, jobs, data, desk, pass
<1>1. CASE WorkerGoesOn
  BY <1>1 DEF WorkerGoesOn, WorkerStages
<1>2. CASE WorkerExpires
  BY <1>2 DEF WorkerExpires, WorkerStages
<1>3. CASE PodStarts
  BY <1>3 DEF PodStarts, CleanupStages
<1>4. CASE SweepEnds
  BY <1>4 DEF SweepEnds
<1>5. CASE PodSucceeds
  BY <1>5 DEF PodSucceeds, CleanupStages
<1>6. CASE PodFails
  BY <1>6, DepartureAssumption DEF PodFails, Mishap, CleanupStages
<1>7. CASE LingererEnds
  BY <1>7 DEF LingererEnds
<1>8. ASSUME NEW r \in Rows, WorkerWrites(r) PROVE TypeOK'
  BY <1>8 DEF WorkerWrites, Lengths
<1>9. ASSUME NEW r \in Rows, SweepRow(r) PROVE TypeOK'
  <2>1. claim[r] \in {0, 1, 2}
    BY DEF SweepFollowsJob, Lengths
  <2> QED
    BY <1>9, <2>1 DEF SweepRow, Lengths
<1>10. ASSUME NEW r \in Rows, Gossip(r) PROVE TypeOK'
  BY <1>10 DEF Gossip, Longer, Lengths
<1>11. CASE Report
  BY <1>11 DEF Report
<1>12. CASE CatalogGoes
  BY <1>12 DEF CatalogGoes, Lengths
<1>13. CASE PassReads
  BY <1>13 DEF PassReads
<1>14. CASE PassWaits
  BY <1>14, NothingListed DEF PassWaits, PassEnds
<1>15. CASE PassStands
  BY <1>15, NothingListed DEF PassStands, PassEnds, CleanupStages
<1>16. CASE PassRetiresFailed
  BY <1>16, NothingListed DEF PassRetiresFailed, DeleteCleanup, PassEnds, CleanupStages
<1>17. CASE PassRetiresClean
  BY <1>17, DepartureAssumption DEF PassRetiresClean, DeleteCleanup, Mishap, CleanupStages
<1>18. CASE PassReleases
  BY <1>18 DEF PassReleases, DeleteCleanup, CleanupStages
<1>19. CASE Release
  BY <1>19, NothingListed DEF Release, PassEnds
<1>20. CASE ReleaseFails
  BY <1>20, NothingListed, DepartureAssumption DEF ReleaseFails, PassEnds, Mishap
<1>21. CASE BackoffElapses
  BY <1>21 DEF BackoffElapses
<1>22. CASE Restart
  <2>1. mishaps' \in 0..MaxMishaps
    BY <1>22, DepartureAssumption DEF Restart, Mishap
  <2> QED
    BY <1>22, <2>1, NothingListed DEF Restart, PassEnds
<1>23. CASE UNCHANGED vars
  BY <1>23 DEF vars
<1> QED
  BY <1>1, <1>2, <1>3, <1>4, <1>5, <1>6, <1>7, <1>8, <1>9, <1>10, <1>11, <1>12, <1>13,
     <1>14, <1>15, <1>16, <1>17, <1>18, <1>19, <1>20, <1>21, <1>22, <1>23 DEF Next

\* What each step does to the order of the last Job and the sweep.
LEMMA JobStep ==
  ASSUME JobInvariant, [Next]_vars
  PROVE  SweepFollowsJob'
<1>0. TypeOK'
  BY TypeStep
<1> USE DEF JobInvariant, TypeOK, SweepFollowsJob, JobOver, jobs, data, desk, pass
<1>1. CASE WorkerGoesOn
  BY <1>1 DEF WorkerGoesOn
<1>2. CASE WorkerExpires
  BY <1>2 DEF WorkerExpires
<1>3. CASE PodStarts
  BY <1>3 DEF PodStarts
<1>4. CASE SweepEnds
  BY <1>4 DEF SweepEnds
<1>5. CASE PodSucceeds
  BY <1>5 DEF PodSucceeds
<1>6. CASE PodFails
  BY <1>6 DEF PodFails, Mishap
<1>7. CASE LingererEnds
  BY <1>7 DEF LingererEnds
<1>8. ASSUME NEW r \in Rows, WorkerWrites(r) PROVE SweepFollowsJob'
  <2>1. claim[r] = 0
    BY <1>8 DEF WorkerWrites
  <2> QED
    BY <1>8, <2>1 DEF WorkerWrites
<1>9. ASSUME NEW r \in Rows, SweepRow(r) PROVE SweepFollowsJob'
  <2>1. claim[r] = 1
    BY <1>9 DEF SweepRow, Present, Lengths
  <2> QED
    BY <1>9, <2>1 DEF SweepRow
<1>10. ASSUME NEW r \in Rows, Gossip(r) PROVE SweepFollowsJob'
  BY <1>10 DEF Gossip, Longer, Lengths
<1>11. CASE Report
  BY <1>11 DEF Report
<1>12. CASE CatalogGoes
  BY <1>12 DEF CatalogGoes, Lengths
<1>13. CASE PassReads
  BY <1>13 DEF PassReads
<1>14. CASE PassWaits
  BY <1>14 DEF PassWaits, PassEnds
<1>15. CASE PassStands
  BY <1>15 DEF PassStands, PassEnds, Blocked
<1>16. CASE PassRetiresFailed
  BY <1>16 DEF PassRetiresFailed, DeleteCleanup, PassEnds
<1>17. CASE PassRetiresClean
  BY <1>17 DEF PassRetiresClean, DeleteCleanup
<1>18. CASE PassReleases
  BY <1>18 DEF PassReleases, DeleteCleanup
<1>19. CASE Release
  BY <1>19 DEF Release, PassEnds
<1>20. CASE ReleaseFails
  BY <1>20 DEF ReleaseFails, PassEnds
<1>21. CASE BackoffElapses
  BY <1>21 DEF BackoffElapses
<1>22. CASE Restart
  BY <1>22 DEF Restart, PassEnds
<1>23. CASE UNCHANGED vars
  BY <1>23 DEF vars
<1> QED
  BY <1>1, <1>2, <1>3, <1>4, <1>5, <1>6, <1>7, <1>8, <1>9, <1>10, <1>11, <1>12, <1>13,
     <1>14, <1>15, <1>16, <1>17, <1>18, <1>19, <1>20, <1>21, <1>22, <1>23 DEF Next

\* Every state of the departure has its type, whatever claim the cleanup has.
THEOREM TypeCorrect == Spec => []TypeOK
<1>1. JobInvariant /\ [Next]_vars => JobInvariant'
  BY TypeStep, JobStep DEF JobInvariant
<1>2. JobInvariant => TypeOK
  BY DEF JobInvariant
<1> QED
  BY <1>1, <1>2, InitJob, PTL DEF Spec

\* depart.go's guard: no Job of the Library runs, nor will run again, while the
\* cleanup sweeps.
THEOREM SweepAlone == Spec => []SweepRunsAlone
<1>1. JobInvariant /\ [Next]_vars => JobInvariant'
  BY TypeStep, JobStep DEF JobInvariant
<1>2. JobInvariant => SweepRunsAlone
  BY DEF JobInvariant, SweepFollowsJob, SweepRunsAlone, JobOver
<1> QED
  BY <1>1, <1>2, InitJob, PTL DEF Spec

-----------------------------------------------------------------------------

\* A Library that keeps its claim begins with every standing row on the claim.
LEMMA InitSweep == ASSUME ~FreshClaim, Init PROVE ReleaseFollowsSweep
BY DEF Init, ReleaseFollowsSweep

\* A sweep that is done stays done: nobody writes the claim again, and the
\* standing copy never falls behind it.
LEMMA SweptStays ==
  ASSUME SweepInvariant, [Next]_vars, Swept
  PROVE  Swept'
<1> USE DEF SweepInvariant, JobInvariant, TypeOK, Swept, JobOver, jobs, data, desk, pass
<1>1. CASE WorkerGoesOn
  BY <1>1 DEF WorkerGoesOn, Present
<1>2. CASE WorkerExpires
  BY <1>2 DEF WorkerExpires, Present
<1>3. ASSUME NEW r \in Rows, WorkerWrites(r) PROVE Swept'
  BY <1>3 DEF WorkerWrites
<1>4. ASSUME NEW r \in Rows, SweepRow(r) PROVE Swept'
  BY <1>4 DEF SweepRow
<1>5. ASSUME NEW r \in Rows, Gossip(r) PROVE Swept'
  <2>1. standing[r] <= claim[r] /\ claim[r] <= standing[r]
    BY <1>5 DEF Gossip, ReleaseFollowsSweep
  <2>2. claim[r] = standing[r]
    BY <2>1 DEF Lengths
  <2> QED
    BY <1>5, <2>2 DEF Gossip
<1>6. CASE CatalogGoes
  BY <1>6 DEF CatalogGoes, Present
<1>7. CASE UNCHANGED <<claim, standing, catalogs, worker>>
  BY <1>7 DEF Present
<1> QED
  BY <1>1, <1>2, <1>3, <1>4, <1>5, <1>6, <1>7
  DEF Next, PodStarts, SweepEnds, PodSucceeds, PodFails, LingererEnds, Report, PassReads,
      PassWaits, PassStands, PassRetiresFailed, PassRetiresClean, DeleteCleanup, PassReleases,
      Release, ReleaseFails, BackoffElapses, Restart, vars

\* The claim stays ahead of the standing copy, and an empty copy stays empty.
LEMMA ClaimStaysAhead ==
  ASSUME SweepInvariant, [Next]_vars
  PROVE  \A r \in Rows : standing'[r] <= claim'[r] /\ (catalogs' = 0 => standing'[r] = 0)
<1> USE DEF SweepInvariant, JobInvariant, TypeOK, ReleaseFollowsSweep, jobs, data, desk, pass
<1>1. ASSUME NEW r \in Rows, WorkerWrites(r)
      PROVE  \A q \in Rows : standing'[q] <= claim'[q] /\ (catalogs' = 0 => standing'[q] = 0)
  BY <1>1 DEF WorkerWrites, Lengths
<1>2. ASSUME NEW r \in Rows, SweepRow(r)
      PROVE  \A q \in Rows : standing'[q] <= claim'[q] /\ (catalogs' = 0 => standing'[q] = 0)
  BY <1>2 DEF SweepRow, Lengths
<1>3. ASSUME NEW r \in Rows, Gossip(r)
      PROVE  \A q \in Rows : standing'[q] <= claim'[q] /\ (catalogs' = 0 => standing'[q] = 0)
  BY <1>3 DEF Gossip, Longer, Lengths
<1>4. CASE CatalogGoes
  BY <1>4 DEF CatalogGoes, Lengths
<1>5. CASE UNCHANGED <<claim, standing, catalogs>>
  BY <1>5
<1> QED
  BY <1>1, <1>2, <1>3, <1>4, <1>5
  DEF Next, WorkerGoesOn, WorkerExpires, PodStarts, SweepEnds, PodSucceeds, PodFails,
      LingererEnds, Report, PassReads, PassWaits, PassStands, PassRetiresFailed,
      PassRetiresClean, DeleteCleanup, PassReleases, Release, ReleaseFails, BackoffElapses,
      Restart, vars

\* A sweep that has ended, on its way to the hand-off, has nothing to sweep
\* again.
LEMMA HandOffStaysEmpty ==
  ASSUME SweepInvariant, [Next]_vars, sweeping' = "handoff"
  PROVE  Present(claim)' = {}
<1> USE DEF SweepInvariant, JobInvariant, TypeOK, ReleaseFollowsSweep, SweepFollowsJob,
            JobOver, jobs, data, desk, pass
<1>1. CASE SweepEnds
  BY <1>1 DEF SweepEnds, Present
<1>2. CASE sweeping = "handoff" /\ claim' = claim
  BY <1>2 DEF Present
<1>3. ASSUME NEW r \in Rows, WorkerWrites(r), sweeping = "handoff" PROVE FALSE
  BY <1>3 DEF WorkerWrites
<1>4. ASSUME NEW r \in Rows, Gossip(r) PROVE claim' = claim
  <2>1. standing[r] <= claim[r] /\ claim[r] \in Lengths /\ standing[r] \in Lengths
    BY <1>4 DEF Gossip
  <2>2. Longer(claim[r], standing[r]) = claim[r]
    BY <2>1 DEF Longer, Lengths
  <2> QED
    BY <1>4, <2>2 DEF Gossip
<1> QED
  BY <1>1, <1>2, <1>3, <1>4
  DEF Next, WorkerGoesOn, WorkerExpires, PodStarts, PodSucceeds, PodFails, SweepRow,
      WorkerWrites, Gossip, CatalogGoes,
      LingererEnds, Report, PassReads, PassWaits, PassStands, PassRetiresFailed,
      PassRetiresClean, DeleteCleanup, PassReleases, Release, ReleaseFails, BackoffElapses,
      Restart, vars

\* What each step does to the sweep and the release that follows it.
LEMMA SweepStep ==
  ASSUME SweepInvariant, [Next]_vars
  PROVE  ReleaseFollowsSweep'
<1> USE DEF SweepInvariant
<1>1. cleanup' = "clean" => Swept'
  <2>1. CASE cleanup = "clean"
    BY <2>1, SweptStays DEF ReleaseFollowsSweep
  <2>2. CASE PodSucceeds
    BY <2>2 DEF PodSucceeds, StandingHasAll, ReleaseFollowsSweep, SweepFollowsJob,
       JobInvariant, Swept, JobOver, Present, data
  <2>3. ASSUME cleanup # "clean", ~PodSucceeds PROVE cleanup' # "clean"
    BY <2>3 DEF Next, WorkerGoesOn, WorkerExpires, WorkerWrites, PodStarts, SweepRow,
       SweepEnds, PodFails, LingererEnds, Gossip, CatalogGoes, Report, PassReads, PassWaits,
       PassStands, PassRetiresFailed, PassRetiresClean, DeleteCleanup, PassReleases, Release,
       ReleaseFails, BackoffElapses, Restart, jobs, vars
  <2> QED
    BY <2>1, <2>2, <2>3
<1>2. pc' = "decide" /\ listed'.cleanup = "clean" => Swept'
  <2>1. CASE PassReads
    BY <2>1, SweptStays DEF PassReads, ReleaseFollowsSweep
  <2>2. ASSUME ~PassReads, pc' = "decide"
        PROVE  pc = "decide" /\ listed' = listed
    BY <2>2 DEF Next, WorkerGoesOn, WorkerExpires, WorkerWrites, PodStarts, SweepRow,
       SweepEnds, PodSucceeds, PodFails, LingererEnds, Gossip, CatalogGoes, Report, PassEnds,
       PassWaits, PassStands, PassRetiresFailed, PassRetiresClean, DeleteCleanup,
       PassReleases, Release, ReleaseFails, BackoffElapses, Restart, pass, vars
  <2> QED
    BY <2>1, <2>2, SweptStays DEF ReleaseFollowsSweep
<1>3. pc' = "patch" \/ library' = "gone" => Swept' \/ catalogs' = 0
  <2>1. CASE PassReleases
    BY <2>1, SweptStays DEF PassReleases, ReleaseFollowsSweep, Complete
  <2>2. ASSUME ~PassReleases, pc' = "patch" \/ library' = "gone"
        PROVE  pc = "patch" \/ library = "gone"
    BY <2>2 DEF Next, WorkerGoesOn, WorkerExpires, WorkerWrites, PodStarts, SweepRow,
       SweepEnds, PodSucceeds, PodFails, LingererEnds, Gossip, CatalogGoes, Report, PassEnds,
       PassReads, PassWaits, PassStands, PassRetiresFailed, PassRetiresClean, DeleteCleanup,
       Release, ReleaseFails, BackoffElapses, Restart, pass, vars
  <2>3. ASSUME catalogs = 0 PROVE catalogs' = 0
    BY <2>3 DEF Next, WorkerGoesOn, WorkerExpires, WorkerWrites, PodStarts, SweepRow,
       SweepEnds, PodSucceeds, PodFails, LingererEnds, Gossip, CatalogGoes, Report,
       PassReads, PassWaits, PassStands, PassRetiresFailed, PassRetiresClean, PassReleases,
       Release, ReleaseFails, BackoffElapses, Restart, vars
  <2> QED
    BY <2>1, <2>2, <2>3, SweptStays DEF ReleaseFollowsSweep
<1> QED
  BY <1>1, <1>2, <1>3, ClaimStaysAhead, HandOffStaysEmpty DEF ReleaseFollowsSweep

\* cleanupjob.go's release rule: a Library that keeps its claim is gone only
\* once no row of it stands on the standing copy, and none comes back.
THEOREM RowsGone == ~FreshClaim => (Spec => []RowsGoneWhenReleased)
<1> SUFFICES ASSUME ~FreshClaim PROVE Spec => []RowsGoneWhenReleased
  OBVIOUS
<1>1. Init => SweepInvariant
  BY InitJob, InitSweep DEF SweepInvariant
<1>2. SweepInvariant /\ [Next]_vars => SweepInvariant'
  BY TypeStep, JobStep, SweepStep DEF SweepInvariant, JobInvariant
<1>3. SweepInvariant => RowsGoneWhenReleased
  <2> SUFFICES ASSUME SweepInvariant, library = "gone", NEW r \in Rows
               PROVE  standing[r] \notin {1, 3}
    BY DEF RowsGoneWhenReleased, Present
  <2> USE DEF SweepInvariant, ReleaseFollowsSweep
  <2>1. CASE catalogs = 0
    BY <2>1
  <2>2. CASE catalogs # 0 /\ Swept
    <3>1. claim[r] \notin {1, 3}
      BY <2>2 DEF Swept, Present
    <3>2. claim[r] = standing[r]
      BY <2>2 DEF Swept, JobInvariant, TypeOK, Lengths
    <3> QED
      BY <3>1, <3>2
  <2> QED
    BY <2>1, <2>2
<1> QED
  BY <1>1, <1>2, <1>3, PTL DEF Spec

=============================================================================
