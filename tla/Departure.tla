----------------------------- MODULE Departure -----------------------------
(***************************************************************************)
(* The departure of a deleting Library: the ladder a pass climbs, the      *)
(* cleanup Job it stands, and the replication that carries the deletes.    *)
(*                                                                         *)
(* A row of the catalog is a causal length, as cr-sqlite keeps it: 0 for a *)
(* row a copy never held, odd while the row is there and even once it is   *)
(* deleted.  Two copies that meet keep the longer.  The cleanup's agent    *)
(* opens the Library's own claim, where every Job of the Library wrote.    *)
(*                                                                         *)
(* A pass acts on the Jobs it listed and on the desk's report, so the      *)
(* cluster may be past both when the pass creates, deletes or releases.    *)
(* How the list is composed is module LibraryJobs; how a Job's hand-off    *)
(* proves its rows is module HandOff, and here it is one step.             *)
(***************************************************************************)
EXTENDS Integers, FiniteSets

CONSTANTS
    Rows,         \* rows of the Library in the catalog
    FreshClaim,   \* the Library's claim was gone, and the pass stood an empty one
    MaxMishaps    \* failed pods, lost patches and restarts together (a bound)

ASSUME DepartureAssumption ==
    /\ FreshClaim \in BOOLEAN
    /\ MaxMishaps \in Nat

VARIABLES
    library,    \* "deleting", and "gone" once its finalizer is off
    catalogs,   \* how many Catalogs the namespace holds
    worker,     \* the Library's last Job that is not a cleanup
    openRun,    \* the desk's report carries that Job's run with no finish
    cleanup,    \* the cleanup Job
    sweeping,   \* how far the pod of the cleanup Job is
    lingering,  \* a pod of a deleted cleanup Job that has not ended
    claim,      \* the rows on the Library's claim
    standing,   \* the rows on the standing copy
    ran,        \* the standing copy has the cleanup's finished run
    echoed,     \* the desk's report has it
    pc,         \* where the pass is
    listed,     \* the Jobs the pass listed: the worker's and the cleanup's
    cooling,    \* cleanupStands: the wait after the last stand has not elapsed
    mishaps     \* what has gone wrong so far

jobs == <<worker, cleanup, sweeping, lingering>>
data == <<claim, standing>>
desk == <<openRun, echoed>>
pass == <<pc, listed, cooling>>
vars == <<library, catalogs, worker, openRun, cleanup, sweeping, lingering,
          claim, standing, ran, echoed, pc, listed, cooling, mishaps>>

\* A Job with a pod, between two pods of its backoff, ended, and absent.
WorkerStages  == {"pod", "between", "clean", "failed", "absent"}
CleanupStages == {"new", "pod", "between", "clean", "failed", "absent"}
Lengths == 0..3

TypeOK ==
    /\ library \in {"deleting", "gone"}
    /\ catalogs \in 0..2
    /\ worker \in WorkerStages
    /\ openRun \in BOOLEAN
    /\ cleanup \in CleanupStages
    /\ sweeping \in {"no", "rows", "handoff"}
    /\ lingering \in BOOLEAN
    /\ claim \in [Rows -> Lengths]
    /\ standing \in [Rows -> Lengths]
    /\ ran \in BOOLEAN
    /\ echoed \in BOOLEAN
    /\ pc \in {"idle", "decide", "patch"}
    /\ listed \in [worker : WorkerStages, cleanup : CleanupStages]
    /\ cooling \in BOOLEAN
    /\ mishaps \in 0..MaxMishaps

Unlisted == [worker |-> "absent", cleanup |-> "absent"]

\* A person deletes the Library: its last Job may be at any stage, and what
\* that Job wrote may not have reached the standing copy yet.
Init ==
    /\ library = "deleting"
    /\ catalogs \in {1, 2}
    /\ openRun \in BOOLEAN
    /\ IF FreshClaim
       THEN /\ worker = "absent"
            /\ claim = [r \in Rows |-> 0]
            /\ standing = [r \in Rows |-> 1]
       ELSE /\ worker \in WorkerStages
            /\ claim \in [Rows -> {0, 1}]
            /\ standing \in [Rows -> {0, 1}]
            /\ \A r \in Rows : standing[r] <= claim[r]
    /\ cleanup = "absent"
    /\ sweeping = "no"
    /\ lingering = FALSE
    /\ ran = FALSE
    /\ echoed = FALSE
    /\ pc = "idle"
    /\ listed = Unlisted
    /\ cooling = FALSE
    /\ mishaps = 0

Present(copy) == {r \in Rows : copy[r] \in {1, 3}}

\* Something goes wrong, within the bound.
Mishap == mishaps < MaxMishaps /\ mishaps' = mishaps + 1

-----------------------------------------------------------------------------
(* The Library's last Job.                                                 *)

WorkerWrites(r) ==
    /\ worker = "pod"
    /\ claim[r] \in {0, 2}
    /\ claim' = [claim EXCEPT ![r] = @ + 1]
    /\ UNCHANGED <<library, catalogs, jobs, standing, ran, desk, pass, mishaps>>

\* A pod fails and the controller waits out its backoff, or another starts, or
\* the controller ends the Job.
WorkerGoesOn ==
    /\ \/ worker = "pod" /\ worker' \in {"between", "clean", "failed"}
       \/ worker = "between" /\ worker' \in {"pod", "failed"}
    /\ UNCHANGED <<library, catalogs, openRun, cleanup, sweeping, lingering, data,
                   ran, echoed, pass, mishaps>>

\* The TTL of an ended Job, or retireSucceededJobs.
WorkerExpires ==
    /\ worker \in {"clean", "failed"}
    /\ worker' = "absent"
    /\ UNCHANGED <<library, catalogs, openRun, cleanup, sweeping, lingering, data,
                   ran, echoed, pass, mishaps>>

-----------------------------------------------------------------------------
(* The cleanup Job and its pods.                                           *)

PodStarts ==
    /\ cleanup \in {"new", "between"}
    /\ cleanup' = "pod"
    /\ sweeping' = "rows"
    /\ UNCHANGED <<library, catalogs, worker, lingering, data, ran, desk, pass, mishaps>>

\* Mutant of SweepRow: a delete of a row that is not there lengthens it.
SweepAnyRow(r) ==
    /\ sweeping = "rows"
    /\ claim' = [claim EXCEPT ![r] = @ + 1]
    /\ UNCHANGED <<library, catalogs, jobs, standing, ran, desk, pass, mishaps>>

\* SweepLibrary deletes the rows that the agent's copy holds now.
SweepRow(r) ==
    /\ sweeping = "rows"
    /\ r \in Present(claim)
    /\ claim' = [claim EXCEPT ![r] = @ + 1]
    /\ UNCHANGED <<library, catalogs, jobs, standing, ran, desk, pass, mishaps>>

\* No row is left on the copy, and the runs and confirmations go as well.
SweepEnds ==
    /\ sweeping = "rows"
    /\ Present(claim) = {}
    /\ sweeping' = "handoff"
    /\ ran' = FALSE
    /\ UNCHANGED <<library, catalogs, worker, cleanup, lingering, data, desk, pass, mishaps>>

\* Mutant of StandingHasAll: the Job ends once its own writes are made.
StandingIsUp == catalogs > 0

\* What the hand-off proves: the standing copy has every write of this claim.
StandingHasAll == catalogs > 0 /\ \A r \in Rows : claim[r] <= standing[r]

PodSucceeds ==
    /\ sweeping = "handoff"
    /\ StandingHasAll
    /\ cleanup' = "clean"
    /\ sweeping' = "no"
    /\ ran' = TRUE
    /\ UNCHANGED <<library, catalogs, worker, lingering, data, desk, pass, mishaps>>

\* The pod fails; the controller replaces it, or ends the Job.
PodFails ==
    /\ cleanup = "pod"
    /\ Mishap
    /\ cleanup' \in {"between", "failed"}
    /\ sweeping' = "no"
    /\ UNCHANGED <<library, catalogs, worker, lingering, data, ran, desk, pass>>

\* The pod of a deleted Job ends when its grace is over.
LingererEnds ==
    /\ lingering
    /\ lingering' = FALSE
    /\ UNCHANGED <<library, catalogs, worker, cleanup, sweeping, data, ran, desk,
                   pass, mishaps>>

-----------------------------------------------------------------------------
(* Replication, the report, and people.                                    *)

Agents == {a \in {"worker", "cleanup", "lingering"} :
             CASE a = "worker"    -> worker = "pod"
               [] a = "cleanup"   -> cleanup = "pod"
               [] a = "lingering" -> lingering}

\* The agent on the claim and a standing agent exchange one row.
Longer(m, n) == IF m > n THEN m ELSE n
Gossip(r) ==
    /\ Agents # {}
    /\ catalogs > 0
    /\ claim[r] # standing[r]
    /\ LET length == Longer(claim[r], standing[r])
       IN  \/ claim' = [claim EXCEPT ![r] = length] /\ UNCHANGED standing
           \/ standing' = [standing EXCEPT ![r] = length] /\ UNCHANGED claim
    /\ data' # data
    /\ UNCHANGED <<library, catalogs, jobs, ran, desk, pass, mishaps>>

\* The reporter's report reaches the desk.  A run that died is never closed.
Report ==
    /\ catalogs > 0
    /\ echoed' = ran
    /\ openRun' \in {openRun, openRun /\ worker # "clean"}
    /\ desk' # desk
    /\ UNCHANGED <<library, catalogs, jobs, data, ran, pass, mishaps>>

\* A person deletes a Catalog, and the standing copy goes with the last one.
CatalogGoes ==
    /\ catalogs > 0
    /\ catalogs' = catalogs - 1
    /\ standing' = IF catalogs = 1 THEN [r \in Rows |-> 0] ELSE standing
    /\ UNCHANGED <<library, jobs, claim, ran, desk, pass, mishaps>>

-----------------------------------------------------------------------------
(* The pass over the deleting Library.                                     *)

PassReads ==
    /\ library = "deleting"
    /\ pc = "idle"
    /\ listed' = [worker |-> worker, cleanup |-> cleanup]
    /\ pc' = "decide"
    /\ UNCHANGED <<library, catalogs, jobs, data, ran, desk, cooling, mishaps>>

PassEnds == pc' = "idle" /\ listed' = Unlisted

\* Mutants of Blocked: a Job counts while a pod of it runs (active and not
\* finished), and an open run counts whether or not its Job is listed.
BlockedWhileActive ==
    \/ listed.worker = "pod"
    \/ openRun /\ listed.worker # "absent"
BlockedByAnyRun ==
    \/ listed.worker \in {"pod", "between"}
    \/ openRun

\* departureBlocker: a Job of the Library that the controller has not ended, or
\* the report's open run of a Job that is still listed.
Blocked ==
    \/ listed.worker \in {"pod", "between"}
    \/ openRun /\ listed.worker # "absent"

GaveUp == listed.cleanup \in {"between", "failed"}
Complete == listed.cleanup = "clean" /\ echoed

\* Two Catalogs, a Job still running, or a cleanup Job that goes on: the pass
\* only reports the blocker.
PassWaits ==
    /\ pc = "decide"
    /\ \/ catalogs = 2
       \/ catalogs = 1 /\ Blocked
       \/ catalogs = 1 /\ ~Blocked /\ listed.cleanup = "absent" /\ cooling
       \/ catalogs = 1 /\ ~Blocked /\ listed.cleanup \in {"new", "pod"}
       \/ catalogs = 1 /\ ~Blocked /\ listed.cleanup = "clean" /\ ~echoed
    /\ PassEnds
    /\ UNCHANGED <<library, catalogs, jobs, data, ran, desk, cooling, mishaps>>

\* standCleanupJob with no Job: mayStandCleanup takes its wait, then the create.
PassStands ==
    /\ pc = "decide"
    /\ catalogs = 1
    /\ ~Blocked
    /\ listed.cleanup = "absent"
    /\ ~cooling
    /\ cooling' = TRUE
    /\ cleanup' = IF cleanup = "absent" THEN "new" ELSE cleanup
    /\ PassEnds
    /\ UNCHANGED <<library, catalogs, worker, sweeping, lingering, data, ran, desk, mishaps>>

\* deleteJob in the background: the object goes now and its pod later.
DeleteCleanup ==
    /\ cleanup' = "absent"
    /\ sweeping' = "no"
    /\ lingering' = (lingering \/ cleanup = "pod")
    /\ UNCHANGED worker

\* standCleanupJob with a Job that gave up.
PassRetiresFailed ==
    /\ pc = "decide"
    /\ catalogs = 1
    /\ ~Blocked
    /\ GaveUp
    /\ DeleteCleanup
    /\ PassEnds
    /\ UNCHANGED <<library, catalogs, data, ran, desk, cooling, mishaps>>

\* retireSucceededJobs: the grace of a clean cleanup Job that nobody echoed yet
\* has run out, and this pass still decides on the list it holds.
PassRetiresClean ==
    /\ pc = "decide"
    /\ listed.cleanup = "clean"
    /\ cleanup = "clean"
    /\ Mishap
    /\ DeleteCleanup
    /\ UNCHANGED <<library, catalogs, data, ran, desk, pass>>

\* releaseLibrary, when no Catalog is left or the cleanup is complete: the Job
\* goes first, and the finalizer last.
PassReleases ==
    /\ pc = "decide"
    /\ catalogs = 0 \/ (catalogs = 1 /\ ~Blocked /\ Complete)
    /\ DeleteCleanup
    /\ pc' = "patch"
    /\ UNCHANGED <<library, catalogs, data, ran, desk, listed, cooling, mishaps>>

Release ==
    /\ pc = "patch"
    /\ library' = "gone"
    /\ PassEnds
    /\ UNCHANGED <<catalogs, jobs, data, ran, desk, cooling, mishaps>>

\* A conflict or a server that fails: the next pass climbs the ladder again.
ReleaseFails ==
    /\ pc = "patch"
    /\ Mishap
    /\ PassEnds
    /\ UNCHANGED <<library, catalogs, jobs, data, ran, desk, cooling>>

BackoffElapses ==
    /\ cooling
    /\ cooling' = FALSE
    /\ UNCHANGED <<library, catalogs, jobs, data, ran, desk, pc, listed, mishaps>>

\* The operator restarts, and the bus redelivers its retained report.
Restart ==
    /\ Mishap
    /\ PassEnds
    /\ cooling' = FALSE
    /\ UNCHANGED <<library, catalogs, jobs, data, ran, desk>>

Pass == PassReads \/ PassWaits \/ PassStands \/ PassRetiresFailed \/ PassReleases \/ Release

Next ==
    \/ WorkerGoesOn \/ WorkerExpires
    \/ PodStarts \/ SweepEnds \/ PodSucceeds \/ PodFails \/ LingererEnds
    \/ \E r \in Rows : WorkerWrites(r) \/ SweepRow(r) \/ Gossip(r)
    \/ Report \/ CatalogGoes
    \/ PassReads \/ PassWaits \/ PassStands \/ PassRetiresFailed
    \/ PassRetiresClean \/ PassReleases \/ Release \/ ReleaseFails
    \/ BackoffElapses \/ Restart

Spec == Init /\ [][Next]_vars

\* The operator passes again and again, the controller starts pods and ends
\* Jobs (the deadline of each is two hours), agents replicate while they run,
\* and the reporter publishes.  Nothing says when a person acts.
Fairness ==
    /\ WF_vars(Pass)
    /\ WF_vars(WorkerGoesOn /\ worker' \notin {"pod", "between"})
    /\ WF_vars(WorkerExpires)
    /\ WF_vars(PodStarts) /\ WF_vars(SweepEnds) /\ WF_vars(PodSucceeds)
    /\ WF_vars(\E r \in Rows : SweepRow(r))
    /\ WF_vars(\E r \in Rows : Gossip(r) /\ standing' # standing)
    /\ WF_vars(Report /\ echoed' # echoed)
    /\ WF_vars(BackoffElapses)

FairSpec == Spec /\ Fairness

-----------------------------------------------------------------------------
(* Properties.                                                             *)

\* A Library whose finalizer is off has no row left on the standing copy, and
\* none comes back: not from the claim, and not from a pod that still ends.
RowsGoneWhenReleased == library = "gone" => Present(standing) = {}

\* No other Job of the Library writes while the cleanup sweeps, between the
\* pods of a backoff included, so no write follows the delete of its row.
SweepRunsAlone == sweeping # "no" => worker \notin {"pod", "between"}

\* The cleanup's agent is the only one on the Library's catalog claim.
OneAgent == Cardinality(Agents) <= 1

\* A deleting Library goes, unless its namespace holds two Catalogs and waits
\* for a person, whatever failed on the way.
DepartureEnds == library = "deleting" /\ catalogs < 2 ~> library = "gone"

\* The last Job of the Library has ended, and no pod of it writes again.
JobOver == worker \notin {"pod", "between"}

\* What the steps preserve together, whatever claim the cleanup has: the sweep
\* rests on the last Job being over, which is still so when a pass acts on its
\* list, and so no row is written again after its delete.
SweepFollowsJob ==
    /\ pc = "decide" /\ listed.worker \notin {"pod", "between"} => JobOver
    /\ cleanup # "absent" => JobOver
    /\ sweeping # "no" => cleanup = "pod"
    /\ \A r \in Rows :
          /\ claim[r] <= 2 /\ standing[r] <= 2
          /\ claim[r] = 2 \/ standing[r] = 2 => JobOver

\* The sweep is done for good: nothing stands on the claim, the standing copy
\* has every delete, and no Job of the Library is left that could write.
Swept ==
    /\ Present(claim) = {}
    /\ catalogs = 0 \/ \A r \in Rows : claim[r] <= standing[r]
    /\ JobOver

\* What they preserve when the Library keeps its claim, which then has every
\* row of the standing copy: a cleanup that is over, and a pass that listed it
\* so, stand for a sweep that is done.
ReleaseFollowsSweep ==
    /\ sweeping = "handoff" => Present(claim) = {}
    /\ cleanup = "clean" => Swept
    /\ pc = "decide" /\ listed.cleanup = "clean" => Swept
    /\ pc = "patch" \/ library = "gone" => Swept \/ catalogs = 0
    /\ \A r \in Rows : standing[r] <= claim[r] /\ (catalogs = 0 => standing[r] = 0)

=============================================================================
