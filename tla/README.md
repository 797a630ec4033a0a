# A verification project for library-operator

library-operator keeps catalogs of media libraries in Kubernetes. One Go
binary plays every role: the operator (a cluster singleton), the containers of
a Library's Jobs (scan, one container per phase of facts, close), the
containers beside the standing catalog pods (reporter, confirmer), the cleanup
of a deleted Library, and the progress store. The catalog is a CRDT SQLite
database replicated by Corrosion agents; the rest of the cluster talks over an
MQTT bus. A Rust browser reads a copy of the catalog.

The project models the paths on which a row of the catalog can be lost,
resurrected or corrupted, because that is what the code takes most care of: one
agent per claim, a Job that ends only when its rows are durable, a sweep that
never takes a row whose file is there, and a finalizer that outlives the rows.
Around that core it models the rest of what the processes promise each other:
the Lease and the bus under them, the workloads they stand, the files a Job's
containers share, the reports and counts that follow the rows, and the positions
of people.

## Inventory

| Part | State | Operations | Interacts with | What makes it correct | Modelled |
|---|---|---|---|---|---|
| Jobs of a Library: `libraryschedule.go`, `batch.go`, `libraryjobfault.go` | the Jobs (API server), the failure backoff, the held webhook paths, the reports | list, gate, create, release, retire | the watch's store, the memo, the reporter, webhooks | one unfinished Job per Library; no named folder dropped | `LibraryJobs` |
| Read-your-writes cache: `versionmemo.go`, `objectcache.go`, `watch.go` | resourceVersions the operator wrote; the stores of the watches | note, unheld, current, forgetGone | every reconcile | a list misses nothing the operator wrote | `LibraryJobs` |
| Hand-off: `handoff.go`, `closerun.go`, `confirmer.go`, `confirmations.go` | the runs and confirmations rows on every copy; the confirmer's pending and confirmed sets | two writes and a wait; settle, recheck, write, mark | the Job's agent, a standing agent | a Job succeeds only when its rows are on a standing copy; a wait ends | `HandOff`, `DurableRows` |
| Walk and prune: `scan.go`, `scanwrite.go`, `prune.go`, `factrows.go`, `identityrole.go` | the volume, the rows, the seen table | walk, rescan, identify, write a fact's rows, mark, sweep | the containers of one Job run side by side | what stands on the volume stays; what left goes with the next complete walk | `WalkPrune` |
| Departure: `depart.go`, `cleanupjob.go`, `cleanup.go`, `librarysweep.go` | the finalizer, the cleanup Job, its backoff, the echo of its run | the ladder of a pass; the sweep | the last Job, gossip, reporter, people who delete Catalogs | the rows are gone before the finalizer, nothing writes beside the sweep, it ends | `Departure` |
| Phases of a Job: `phaseloop.go`, `phasemarks.go`, `libraryphases.go`, `enrich*.go` | marks and locks in the Job's emptyDir, the gap of each phase | start, finish, loop, wait for needs | the containers of one Job | no phase ends with a gap its needs opened; a dead phase is seen as dead, and no other; the closing container waits for all | `Phases` |
| Progress: `progress*.go`, `plays.go`, `people.go`, `storemarks.go` | plays and people rows; retained messages; the operator's desk of answers | record position, audience, final; forget; publish, answer, release, clear | operator, screens, bus | a finalizer goes only after the stores hold or forgot; an ended row stays ended | `Progress` |
| Jellyfin bridge: `jellyfin*.go` | the join of a Play, the index, the backfill's status and Job | read, tick, write; stand, read, retire; record outside | bus, a Jellyfin server, the progress store | a resume point is a reported one; the newest event wins; a backfill ends | `Jellyfin`, `JellyfinBackfill` |
| Leadership: `leader.go`, `operatorprocess.go` | the Lease, each copy's clocks | look, take, renew, lose, quiet, release, clear | the API server | two operators never act at once; a Lease that was left is taken | `Leadership` |
| Bus client: `bus.go` | the session, its queue, the filters | dial, subscribe, resubscribe, read, write, stop | the broker | a whole session hears every filter; a role that is gone is marked so | `Bus` |
| Workloads: `pod.go`, `storereplicas.go`, `storeheal.go`, `pernodevolume.go`, `screen*.go` | claims, volumes and pods; the watch's copies | stand, replace, retire, heal, recover | the API server, scheduler, kubelets, people | nothing in use goes; what lost its node comes back | `Stand`, `Stores`, `Screens` |
| Stood objects: `service.go`, `endpoints.go`, `screenpeople.go`, `trickplayclaim.go`; `watch.go`, `objectcache.go` | an object, the watch's copy, the memo, the wake | read, create, update, replace | the API server, people | a pass never writes over what it did not read | `Watched`, `Stood` |
| Providers: `providercheck.go`, `providercadence.go`, `status.go` | the status of a provider, the note of its last call | check, write, settle after a conflict | the provider, the API server, people | calls are spaced; one pass leaves the right verdict | `Watched`, `Providers` |
| Facts in an `.nfo` file: `nfofactsrole.go`, `identityrole.go`, `probe*.go`, `likenledger.go`, `attempts.go`, `volumewrite.go` | the file, its lock, each fact's ledger and attempt, the rows | ask, lock, read, edit, rename, note | another writer on the volume, the walk | no edit is lost; no fight with oneself; a gap is filled | `NfoFacts` |
| Reporter: `reporter.go`, `catalogupdates.go`, `report.go`, `status.go` | the runs row, the report built, published, retained, on the desk; the phase | follow, debounce, build, publish, refill; pass | the agent, bus, operator | the desk comes to say what the rows say; no dead Job is a scan | `Reports` |
| Counts: `tally.go`, `tallyreport.go`, `metricstallies.go` | totals, rows, counters | flush, report, observe | reporter, operator | no count added twice or lost | `Tallies` |
| Play requests, SQL client, names, metrics, CLI, schemas | | requests, parsing, formatting | | | no |
| Media browser (Rust) | | read-only views | | | no |

Behaviours that are hard here: the pass reads caches that lag and acts on them
some requests later; an answer can be lost after the write landed; every copy
of the catalog receives versions in its own order; the containers of a Job
share a database and no lock; a Job between the pods of its backoff has no pod
and is not over; the operator and the confirmer restart with nothing in memory.
`PROJECT.json` lists each hazard at its line.

## Modules

**`LibraryJobs`** is one Library's Jobs and the operator's pass over them. A
Job is a number in the order of creation and its resourceVersion is the stage
of its life. A pass (`pc`) lists in the steps of `currentList`: the memo's keys
(`ListUnheld`), the store's keys (`ListStored`), each key on its own
(`ReadKey`), then `forgetGone` and the retire of succeeded Jobs (`ListEnds`).
The gate (`GateHolds`, `GateFindsNothing`, `GatePlans`) reads that list and the
create follows in a step of its own (`Create`, `CreateFails`), then the release
of the held paths (`Release`). Beside it go the watch (`Deliver`), the Job
controller, webhooks, the report and a restart at any step. The cron schedule,
the refresh times and what the report shows as gaps are nondeterminism.

**`HandOff`** is the end of a Job. The pods of one Job write versions in
turn (`log`), the standing copy applies them in any order (`Apply`), and the
row the confirmer's query answers is computed from what is applied (`RunRow`).
The two goroutines of the confirmer are separate processes with a step per read
and write; a write can fail and have landed; the process can restart.
**`DurableRows`** is the promise: rows are written, received, and the Job
succeeds only when all were received. `HandOff` implements it
(`KeepsPromise`), with the data rows of the log as `written`.

**`WalkPrune`** has two actors, the scan container (a full walk or a rescan)
and the identity container (a rescan per title it identified), each with a
buffer, an epoch, and a sweep of three tables, one read and one delete each. An
epoch is the actor that holds it. Titles come and go, get art from a fact whose
rows follow in a later step, and change their key when they are identified.
`kept`, `exposed` and `gone` are observations: `kept` holds the rows that the
catalog was given and the volume holds, `exposed` those that were written
beside a sweep that may take them.

**`Departure`** is a Library from its deletion to the release of its
finalizer: its last Job at any stage, the cleanup Job and its pods (a deleted
Job's pod lingers), the claim's copy and the standing copy with cr-sqlite's
causal length per row (odd while the row stands, the longer wins), the report,
and the pass, which lists in one step and decides in the next.

**`Phases`** is one pod of a library Job: the scan, the phases of facts and the
closing container, each a process (`pc`). `plan` is what the Job includes. The
start of a phase is two steps (`Stage`: the staged file and its lock; `Name`: the
rename), its end two more (`Mark`, `Release`), and it can be killed between any
two (`Dies`). The read of a need is a step per look: the mark (`ReadMark`), the
lock (`TryLock`), the mark again (`ReadMarkAgain`), and for the scan its runs row
(`ReadWalkRow`). A phase loops through `Top`, its needs, `ReadGap`, and a pass
whose list is read later than the gap (`BeginPass`, `Work`, `EndPass`), or waits
(`Await`) on the channel that `DirectoryChanges`, `RowChanges` and `RunsChange`
fill. A title is in a phase's gap when each need has written its row. `looked` is
an observation: the titles a phase worked on when its needs wrote no more.

**`Progress`** follows a Play and a Person through the operator's reconcile
(`ReconcilePlay`, `ForgetPerson`), the retained topics, the progress role of each
namespace (`HandleMessage`, `StoreRefuses`), its answer and the desk that folds it
(`FoldMark`). A payload is a set of at most one value; a publish made while
disconnected is dropped and a session that ends loses what was on its way. The
rows are what `recordPosition`, `recordAudience` and `recordFinal` leave.

**`Jellyfin`** is the join of one Play and the two goroutines that write it: each
copies the join under the mutex, then looks up, builds the index or posts, a step
per request. **`JellyfinBackfill`** is the Catalog's `status.jellyfin`, the Job and
its backoff, and the outside row that the backfill and the webhook both record. A
message may be skipped in `Jellyfin`, as over a session that ended: the reader then
goes on from the newest.

**`Leadership`** has a clock per process and no common one: the age of its last
answered renewal, how long it saw the Lease unchanged. The versions of the Lease
are held as whether they are still the Lease's. client-go is external, as
`leader.go` configures it. **`Bus`** is one client's sessions, with the goroutine
that subscribes (`Subscribe`, `SubscribeSends`) beside the reconnect (`Snapshot`,
`Resubscribe`).

**`Stand`** is how a pass stands claims, per-node volumes and pods from copies it
read at its start, one request a step; **`Stores`** and **`Screens`** extend it with
the heal of a store on a lost node and the recovery of a screen whose display
moved. Whether the per-node driver serves the class of a claim is part of what is
declared (`want`). No uid has a value: a copy holds whether its object still is the one that
stands. The binder of the cluster takes two requests for a volume, its `claimRef`'s uid
and then the phases (`MarkVolume`, `Bind`), and one to release it (`ReleaseVolume`);
between two of them a volume is `HalfWay`, and `Holds` says whose uid is on it. The bound
`races` counts the reads of a pass that meet a volume half-way, and the claims that end
between a pass's look at their volume and its create. The run has none of them: with one,
a pass deletes the volume of a live claim, which is in the table below. A claim that a
person wrote under the name of a copy's claim is not a state of the model, and so the
label that spares it (`storeheal.go:142`) is not a guard there. **`Watched`** is one object with the watch's copy, the memo and the wake;
**`Stood`** and **`Providers`** extend it with what a pass does with the object.

**`NfoFacts`** is one title's `.nfo` file, edited by three containers and another
writer, each fact a sequence of steps (`Take`, ask, `Lock`, read, write, ledger,
rows). **`Reports`** has the reporter's three goroutines, the retained report, the
desk and the phase. **`Tallies`** has the counts. `Reports` is a simplification in
two places: `count` stands for everything a report counts, and a report is stored and
published in one step, where `reporter.go:265-270` publishes after the unlock. The order
that this lets two builds publish in is one that `overlaps` has already.

In `LibraryJobs` a Job that fails takes its held folders with it, also where no pod of it
began: the retry limit of the Job is the end of what it was asked for, and
`NamedFolderIsKept` speaks of the operator's bookkeeping up to there. In `Jellyfin` a
status that comes after the final may carry any position.

`Media`, `Operator` and `Workloads` are sums. Their parts share no state in the
model, so one specification composes several: `focus` names the part that a behaviour
is about and never changes, the variables of the other parts are `{}`, and each
property says of which part it speaks. The parts' own actions and properties are in
their modules; the sum states the fairness once, and a weak fairness condition of the
sum may be that of an action of several parts, because a behaviour is about one.
`Faults` is a set of bounds on the mishaps, and a behaviour starts with one of them;
several values of `focus` are one part under different bounds (`reporter` and
`hurried`; `store`, `roughstore`, `spread` and `again`; `screen` and `roughscreen`). `Media` is the side
of the media: `Progress`, `Jellyfin` and `JellyfinBackfill`. `Operator` is the process
of the operator: `Leadership`, `Bus`, `Stood` for an object that is updated, and
`Providers`. `Workloads` is what it stands and what that leaves behind: `NfoFacts`,
`Reports`, `Tallies`, `Stores`, `Screens`, and `Stood` for the template of a claim,
which is deleted and created where it differs. With the bound `Apart`, a behaviour of
`Media` is never about both Plays and People; the theorems hold with and without it.

The `MC*` modules hold the bounds under which TLC checks, and nothing else.
`*_proofs` hold the theorems. Operators named in comments as mutants stand
before the definition they replace; the specification does not use them.

## Runs

| Run | Expect | What it shows |
|---|---|---|
| `LibraryJobs` | pass | one unfinished Job, and no folder dropped |
| `LibraryJobsLostCreate` | violation | a lost answer of a create makes two Jobs |
| `HandOff` | pass | a confirmation is proved, a Job that succeeded left every row on the standing copy, and `DurableRows` is implemented |
| `HandOffWait` | pass | under fairness, a wait that does not fail is answered |
| `WalkPrune` | pass | settled rows stand; a complete walk leaves nothing of what was gone before it |
| `WalkPruneIdentity` | violation | a rescan beside a walk loses the rows of a standing folder |
| `Departure` | pass | no row after the release, nothing beside the sweep, and the Library goes |
| `DepartureFreshClaim` | violation | a fresh claim sweeps nothing and the Library is released |
| `Phases` | pass | a phase that ends has worked on its gap after its needs were over; the closing container waits for every phase, names the failures that were, and ends |
| `MCMedia` | pass | `Progress`, `Jellyfin`, `JellyfinBackfill`: nothing is released before it is recorded or forgotten, no late report reopens a row or moves a resume point, the newest outside event wins, and what is owed comes |
| `MCOperator` | pass | `Leadership`, `Bus`, `Stood`, `Providers`: one operator acts, a session is whole, no blind write, calls are spaced, one pass leaves the right verdict, and all of it catches up |
| `MCWorkloads` | pass | `NfoFacts`, `Reports`, `Tallies`, `Stores`, `Screens`, the template: edits keep one another, no fact fights itself, no count is added twice, nothing in use goes, and what a Job, a node or a display left comes to be so |

The violations are findings: `PROJECT.json` quotes for each the line of the
repository that says otherwise. They lose rows, leave rows, or run two agents on
one database.

### Other disagreements

Each of these was found with the same modules, is not a run of the project, and
comes back with the constants named. Where a definition is named, TLC violates it.

| What the code does | Where | How it shows |
|---|---|---|
| The next pod of a Job takes the first pod's finished runs row for its scan's mark and hands off before its scan has walked | `phaseloop.go:183` | `Phases`, `Retried = TRUE`: `NoRowAfterHandOff` |
| The recheck writes the confirmation of the first pod's run after the stream wrote the second's and before it placed it; the second is marked as confirmed and nobody writes it again, so the row proves the older version, against `confirmations.go:24-27`, and the second pod waits to its timeout | `confirmer.go:369` | `HandOff`, two pods: `ConfirmationNeverGoesBack`; `HandOffWait`, two pods: `WaitEnds` |
| A pass whose copy of the claims is old reads the volume of a claim while the binder has written the uid and not the phase; it takes the volume for that of a claim that is gone and deletes it under the live one (`pernodevolume.go:179-182`, `passreads.go:10-13` say that a pass may be late) | `pernodevolume.go:187` | `Stores`, one `redeclares` and one `races`: `SpentIsOfNoClaim`, `NamedVolumeStays` |
| A volume that is still Bound to a claim that is gone, or that goes before the pass creates its own, is taken for the right one; the claim that is created then names a volume that is about to be released, and no pass looks at it again | `pernodevolume.go:184` | the same bound: `NamedVolumeStays` |
| A cleanup Job between two pods of its backoff counts as given up; it is deleted in the background, and two cleanup agents can be on the claim | `cleanupjob.go:105` | `Departure`, one mishap: `OneAgent` |
| The operator restarts, or is off the bus, after it let a Person go and before it cleared the answers; a Person of the same name is then let go over them, with no store asked | `people.go:92` | `Progress`, one `reborn` and one `opRestart` or `opDrop`: `ForgetBeforeRelease` |
| An audience published while the Person is going is recorded after the store forgot them, and leaves a row that names the person | `people.go:64` | `Progress`, one Play and one Person: `ForgottenHasNoRow` |
| A Job that read one server counts as the backfill of the server that the Catalog names when it is read | `jellyfinbackfilljob.go:130` | `JellyfinBackfill`, two servers and two edits: `FinishedWasRead` |
| After a write of the verdict that fails, the pass still stands the Library's Job, with the verdict only in its own copy | `providercheck.go:71` | `Providers`, one `fails`: `JobWaitsForTheWrite` |
| A read that fails makes the pass act on an old copy of the provider; its status can then be the verdict before the last | `objectcache.go:186` | `Providers`, one `reads` and two `changes`: `OnePassSettles` |
| A crash between the rename of the `.nfo` file and its ledger, then a refresh and a changed answer: the fact takes its own write for another writer's for good | `nfofactsrole.go:290` | `NfoFacts`, one `dies`, `refreshes` and `changes` in one bound: `FightIsTrue` |
| A link row that a fact writes beside the art it made, while a walk runs, bears no mark of the walk and is swept; the next walk writes it again. `prune.go:709-712` says so of files and attempts, and nothing of links | `prune.go:703` | `WalkPrune`, `Identifiable = {}` and `Illustrated = {t1}`: `KeptRowsStand` |
| A process whose renewals fail releases the Lease before it exits, for up to one more renewal deadline; where that release lands and its answer is late, another takes the Lease while it still runs, and `leader.go:21-23` says that it exits before | `leader.go:141` | `Leadership`, one `lateRelease`: `OneActs` |
| Two Libraries of one name in two namespaces share the state of the counters | `metricstallies.go:82` | `Tallies`, two `Homes`: `CountedOnce` |
| Two goroutines build a report at once and the older is published last; or a build whose read times out publishes nothing and is not tried again before the next change | `reporter.go:187` | `Reports`, a bound with `overlaps` and `counts`, or with one `slow`: `ReportComesTrue` |

### Bounds

Each passing run is exhaustive over its constants. States: `LibraryJobs`
4,149,178, `HandOff` 267,943, `HandOffWait` 1,711, `WalkPrune` 2,899,751,
`Departure` 54,428, `Phases` 136,564, `MCMedia` 181,555, `MCOperator` 45,504,
`MCWorkloads` 352,889.

- `LibraryJobs`: two Jobs are enough for one to be created beside the other,
  to fail before the other, and to be retired while the other runs; two
  folders with `HeldLimit` 1 reach the collapse to a full walk. `Faults` is
  empty in the passing run: a lost answer of a create breaks the property
  (the other run), a failed first read would lose the memo's key the same way,
  and a pod that walks before the operator has the answer of its create is
  excluded (`Answered`).
- `HandOff`: two pods of one data row and one renewal each: versions of the
  first pod can be missing while the second waits. `HandOffWait` has one pod:
  with two, the wait of the second can stay without its answer (the entry for
  `confirmer.go:369` above), and the run shows what holds where that race is not.
- `WalkPrune`: two titles, a batch of one item (so a walk flushes between
  titles) and a ratio floor of one (so both titles missing is implausible and
  one is not).
- `Departure`: two rows, each of which the last Job may have written, may
  still write or may have on the standing copy; and two mishaps of any kind (pod
  failure, refused patch, early retire, restart). `DepartureFreshClaim` starts after the claim
  was created.
- `Phases`: one title, two plans: a walk with trickplay, and a Job that fills
  gaps with the probe and trickplay. Between them a waiter has each kind of need
  (one that walks, one that loops, one that a row stands for), a phase with and
  one without a limit, and one process is killed at any point. One title is
  enough for a gap to open after a read of it, to stay open after a pass, and to
  be the same at the next read.
- `MCMedia`: one Play of one position step (its final and a late report are two
  events of it) in the first of two namespaces, one Person of both (one can answer
  and the other be down), and each again under the faults that stop a deletion for
  good, for safety alone: a bus that is down when a mark is cleared, a broker that
  forgets its retained messages, a store that refuses. `Jellyfin` runs a Play of two
  positions through one of each mishap; the backfill has two seconds, so that two
  events come in either order or at the same second, and a Catalog that stops
  naming its server and names it again.
- `MCOperator`: two processes are enough for one to hold the Lease while the
  other's late renewal is on its way, with the durations in retry periods in the
  order that `leader.go` sets, and three tries of a clear. Two sessions with a queue
  of two and one filter: a subscribe meets a reconnect, and a full queue drops its
  frame. One stood object and one provider under two or three mishaps at a time.
- `MCWorkloads`: one fact beside the probe and the identity, with any one mishap, or a
  refresh that meets a newer answer; one Job with one mishap; two runs of one
  worker, of which the report holds the newest, so that one leaves the window. A
  store on a claim its node pins, two copies on a per-node class, one that is declared
  again (no pass meets the binder half-way there); a screen whose display moves; each
  with the mishap it recovers from, and again, for safety, under edits, failed requests
  and a restart. One template whose Library changes, that somebody deletes, and one
  request that fails.

`CHECK_DEADLOCK FALSE` stands where the system stops: a Job that is over, a
Library that is gone, and in the sums a Play that was let go, a client that was
stopped, a process that left its Lease or a part whose bound on events is spent.
The other runs check deadlock.

### Fairness

`HandOff`: the containers go on (weak fairness of the pod's steps); the newest
version reaches the standing copy, because a wait renews its run, and a copy
pulls the gaps it knows. The confirmer's steps are strongly fair: a stream
that ends and a restart do not come every time before its next step.
`Departure`: the operator passes on a backstop timer, the controller starts
pods and ends Jobs at their deadline, agents replicate while they run, the
reporter publishes. Nothing is assumed of people. `Phases`: a container that
runs takes its next step, and a walk and a pass end. Nothing is assumed of a
process that has not named its running file: a container that never starts, or
that dies before the rename, leaves the others to the deadline of the Job, and
`CloseEnds` speaks of the other case. The kernel frees a lock and reports the
close of its file in one step of the model; `awaitWake` lets a second pass
between the event and the next read.

In the sums a process that runs takes its next step, a watch delivers, a message
on its way arrives while its session stands, a client that lost its session dials
again (`Run` loops), a scheduler and a kubelet act on what they can, and time
passes; `TimePasses` of `NfoFacts` is strongly fair, because a window lapses
however often a container works in between. All the other conditions are weak.
Nothing is assumed of people, of providers beyond that a mishap happens as often as
its bound says, or of a Job that dies. In `Bus` a
dial is answered: `bus.go:139` reads the CONNACK with no deadline, so a broker that takes
the connection and says nothing would hold the client for good. In `Leadership` a tick is held back until
every process whose deadline it is has acted: the deadlines are what `leader.go`
configures, and a process that misses one is a crash. Liveness of `Jellyfin` speaks
of a server whose requests do not fail; a failed one waits for the next report.

## Proofs

Each theorem holds for every value of the constants that the module's assumption
admits. A hypothesis beyond that is named in the theorem, and the paragraphs below say
what fails without it. TLC checked each inductive invariant on an instance before it
was proved (in brackets, its distinct states).

| Module | Theorems | Under |
|---|---|---|
| `LibraryJobs_proofs` | `TypeCorrect`, `GateInductive`, `OneJobPerLibrary`, `NoNamedFolderIsLost` | no answer lost (`NoLostAnswers`); for the folders only, no pod walks before the operator has the answer of its create (`NoSlowAnswers`) |
| `HandOff_proofs` | `TypeCorrect`, `HandOffInductive`, `ConfirmationTheorem`, `NoRowIsLeftBehind`, `Implements` | |
| `WalkPrune_proofs` | `TypeCorrect`, `WalkInductive`, `NoSettledRowIsSwept`, `NoRemovalIsMissed` | |
| `Phases_proofs` | `TypeCorrect`, `ReportInductive`, `FailuresTheorem`; `FirstPodInductive`, `GapTheorem`, `NoLateRow` | the last three: the first pod of a Job (`~Retried`) |
| `Departure_proofs` | `TypeCorrect`, `SweepAlone`, `RowsGone` | `RowsGone`: the Library keeps its claim (`~FreshClaim`) |
| `Operator_proofs` | of `Leadership`: `LeaseInductive`, `LeaderTypes`, `OneActsTheorem` | `OneActsTheorem`: a holder stops before its Lease expires (`ExitBy < Duration`), a clear has two tries at least, and where `OneActs` is claimed no release lands late |
| | of `Bus`: `BusInductive`, `BusTypes`, `SessionsAreWhole` | |
| | of `Stood`: `StoodInductive`, `StoodTypes`, `StoodTheorem` | |
| | of `Providers`: `ProviderInductive`, `ProviderTypes`, `SpacedTheorem`, `SettledTheorem` | the provider is created again once at most (`CreatedOnce`); `SettledTheorem`: every read of it lands (`EveryReadLands`) |
| | of all four: `TypeCorrect` | `CreatedOnce` |
| `Workloads_proofs` | of `Tallies`: `CountsInductive`, `CountsTypes`, `CountedTheorem` | `CountedTheorem`: one Library of each name (`OneHome`) |
| | of `NfoFacts`: `TitleInductive`, `TitleTypes`, `EditTheorem`, `FightTheorem` | `FightTheorem`: `OneKindOfMishap` |
| | of `Stores` and `Screens`: `StoreInductive`, `ScreenInductive`, `StoreTypes`, `ScreenTypes`, `HeldTheorem`; `VolumeInductive`, `InUseTheorem` | the last two: no pass meets the binder half-way (`NoRaces`) |
| | of `Reports`: `ReportTypes`; of the template: `TemplateTypes` | |
| | of all: `TypeCorrect` | |
| `Media_proofs` | of `Progress`: `ProgressInductive`, `StoreTypes`, `MarksTheorem`, `EndedTheorem`, `RecordTheorem`, `ReleaseTheorem` | `ReleaseTheorem`: no name is created again (`NeverReborn`) |
| | of `Jellyfin`: `BridgeInductive`, `BridgeTypes`, `WrittenTheorem` | |
| | of `JellyfinBackfill`: `BackfillInductive`, `BackfillTypes`, `NewestTheorem`, `FinishedTheorem` | `FinishedTheorem`: the Catalog's server is edited only where no backfill Job stands (`QuietEdits`) |
| | of all three: `TypeCorrect` | |

The theorems about a part speak of the sum that the run checks: a lemma (`LeaderOnly`,
`ClientOnly`, `StoreOnly` and so on) says that a state of the sum about a part begins
as the part does, and that a step of the sum about it is a step of the part or a
stutter. Above it, the invariant and its steps are the part's alone.

**`LibraryJobs`.** `AtMostOneUnfinishedJob` is not inductive: a state with one Job
that no list can find satisfies it and its next create breaks it. `GateInvariant`
adds that copies lag the server (so a Job seen as ended has ended), that an
unfinished Job is in the store or in the memo (`UnfinishedJobIsFindable`), and where
each unfinished Job is in a list half read (`ListMissesNothing`). For
`NamedFolderIsKept`, `PlanCovers` says what a plan between its decision and its
create reads: the set of paths that was read then, or everything.

**`HandOff`** [267,943]. `Complete(v)` says that the standing copy misses nothing
under version `v`, and nothing can undo it. `HandOffInvariant` follows it from the
check of either goroutine (`Carries`) to the row it writes, to the Job's copy of that
row, and adds that a pod writes no data row after its finished run
(`NoRowAfterTheRun`). That is why no lock is needed between the confirmer's check and
its write. `Implements` is the refinement of `DurableRows`, a step at a time: a data
row is a write of the promise, `Apply` a receipt, the end of a pod the success, and
all the rest is a stutter.

**`WalkPrune`** [2,899,751]. A row on the volume is safe because it is still to be
read, is in the buffer, carries the walk's mark, or comes with art that is newer than
the epoch (`ReadIsKnown`); or another actor wrote it beside (`exposed`, which
`OverlapIsExposed` ties to two walks of one title). From what is `Known` follows that
nothing is doomed by mistake (`DoomedIsLoose`). The other direction is that a row that
went since the epoch has no mark of it (`GoneIsUnmarked`), so each table is clean of
it when its sweep is over (`SweptIsClean`). The titles are a finite set because the
ratio of `prune.go` counts them.

**`Phases`** [136,564; about 3,200,000 on a larger plan]. `BoardInvariant` is
the protocol of marks and locks: a process holds its lock for as long as it lives, and
a mark is the last thing it writes. `ReadInvariant` says what each step of a read may
rest on: at the second look at a mark the lock was free, so the process is over. For
the gaps, `IsSettled` says that a phase's needs are over and that what is left of its
gap was looked at; a pass that begins after the needs ended makes it so
(`GapInvariant`). In a later pod of the Job the finished row of an earlier one stands
for the scan's mark, and both `GapTheorem` and `NoLateRow` fail; `FailuresTheorem`
does not.

**`Departure`** [54,428]. `SweepFollowsJob`: the last Job is over whenever a cleanup
Job stands, and what a pass listed as over is still over when it acts. The bound on a
row's causal length needs the same fact, because only a Job that writes beside the
sweep could write a row again. `RowsGone` is from `ReleaseFollowsSweep`: a cleanup Job
that is over, and a pass that listed it as over, stand for a sweep that is done
(`Swept`), and `SweptStays` says that no step undoes it. The invariant carries
`standing[r] <= claim[r]`, which is what a fresh claim lacks; `DepartureFreshClaim` is
its counterexample.

**`Leadership`** [7,807; 211,063 with three processes]. Nobody has the clock of
another, so `OneActs` is about clocks that agree: a copy that waits and has read the
Lease has not seen it unchanged for longer than its holder is without an answered
renewal (`ClocksAgree`), and the holder is quiet before that is a whole duration.
Below it, `FreshIsTheHolders`: a request that carries the version of the Lease is its
holder's, because every other write changed the version. `ConflictsOnce` is why
`clearIfHeld` needs two tries and no more: the only thing that can make its read stale
is its own last renewal. A release that is answered late frees the Lease while its
process still runs, so `OneActs` leaves it out (the entry for `leader.go:141` above) and
`SteppedDownIsFree` does not.

**`Progress`** [31,520 a Play; 47,309 a Person; 526,665 under every fault].
`SentIsTrue`: whatever the broker keeps or has under way claims what is so
(`Claims`): a final, that the Play is over and where; a mark, that the row ended; an
answer, that this store ran the forget. A claim that is true stays true (`ClaimsLast`),
so it does not matter how long the bus holds it, how often it delivers it again, or
what is lost. `EndIsTrue` ties the position of a row that ended to that of the Play.

**`Bus`** [60,137, with two filters and three sessions]. `SessionIsWhole` speaks of
a session that has drained; the invariant says what one that has not still owes
(`OnItsWay`): a remembered filter is with the broker, in the queue, in the list of
the resubscribe, or in a `Subscribe` that is past the lock and read the queue of this
very session. One that read an older queue is why the list is taken after `out` is
set: its frame goes nowhere, and the list has its filter. `OneQueue` is what the close
of a session owes the next: no queue until its CONNACK.

**`Stood`** [11,596; 7,772 on the wakes alone]. `WatchInvariant` is what `Watched` keeps:
versions rise, and the queue of the watch ends with the object as it stands. The memo
holds the last version this operator wrote, or a newer one it read, or one that no
object has (`MemoIsNew`); where it holds nothing the copy is as new as the last write. So
a pass leaves an object alone on such a copy only, and its update lands on the version
it read or not at all. The theorem is of an object that an update changes; of the
template, which is deleted and created, TLC checks that it comes to stand, and
`TemplateTypes` [2,309] of `Workloads_proofs` proves that its watch catches up: the queue ends
with what stands, and the memo names no version that was never written.

**`Providers`** [331,310]. `SpacedTheorem`: what this process asked last is in the note,
or the note went with the provider (`AskedIsNoted`), through every failed write. The
model gives the uids 1 and 2, so a second creation would take the first's uid again: that
is all that `CreatedOnce` excludes. `OnePassSettles` is over a pass that nothing
disturbed, and what stands when it begins is the work of passes that were: a write over a
stale copy, a lost answer, a note of another provider of the name. `SettleInvariant` says
that the watch delivers no version from before the last write while the memo holds
nothing (`WatchIsNew`), that what a pass holds has been passed by nothing but changes of
others (`HeldIsPassed`), and that a note marked as written is the status (`NoteIsTrue`).
A read that fails leaves the pass with an old copy (`objectcache.go:186`): that breaks
the first of these, hence `EveryReadLands`.

**`Tallies`** [28,362; 27,048]. What a counter holds of a run is at most what the
operator last saw of it, and that at most what its container flushed; or the run has left
the report's window and no later report shows it again, which is why the operator may
forget it (`CountedOf`, `Passed`). `OneHome` is needed because the seen totals are kept by
the Library's name (`metricstallies.go:82`).

**`NfoFacts`** [1,946,795]. `EditKeepsTheRest` is the lock's doing: a container that is
to write holds it, and what it read under it is the file as it is (`WorksOn`). For
`FightIsTrue`, the hash in a fact's ledger is of what the fact left in the file, unless an
outside writer was there or the record of an edit is still to come (`HashIsOf`). A death
or a failed write between the rename and the ledger leaves the hash one edit behind, which
is harmless as long as the provider's answer stays: the next edit is the same one. A bound
that has both, and the refresh between them, is the entry for `nfofactsrole.go:290` above,
and `OneKindOfMishap` leaves out just the bounds with both.

**`Stores`** [225,473, with a restart beside the owner that is declared again]. A pass acts on copies that were true when it began, so the
invariant says what is left of that truth at each request. What it read of a pod that
still is the one that stands is where that pod is (`ReadIsTrue`, and for the pass its
part in `PassIsTrue`), and a task of the heal is of a copy that was read on a stranded
node: a delete that carries the uid therefore takes the pod of a lost node or nothing. A
claim that its node pins has one copy (`OneIsPinned`), so when its delete is the next
request, no pod stands that could mount it (`Ready`); a claim of a per-node class is never
taken. A claim is going only where no pod runs on it, or its owner is gone
(`NothingInUseGoes`): that much is `HeldTheorem`, and it has no hypothesis. That a claim
keeps the volume it names is `VolumesHold`, which `VolumeInductive` adds under `NoRaces`:
a claim that stands has a volume that is not going and whose uid is its own or nobody's,
what a pass has in its hands to delete is of a claim that is gone, and what the watch
calls released is either that or an object that is no more. The hypothesis leaves out
what `races` counts and nothing else: stale copies, restarts, refused requests and an owner
that is declared again are all within the theorem.

**`Screens`** [41,812]. The recovery deletes the pod and the claims by name, on what a pass
read of the pod: what makes it safe is its order. Its requests are the head of the list
of a pass or all that is left of it, and it goes on from the pod to the claims only where
the pod is going already (`ScreenPass`); so a claim that is going belongs to a pod that
is going or was never placed (`ScreenWorld`), through every edit, refusal and restart
between two requests. The types of both ask for a cluster that has a node
(`StandAssumption`).

**`Jellyfin`** [29,392]. A position that is written was copied from the join, and the
join holds reports of this Play only; what the writer carries from a step to the next is
then a reported one, whatever the reader does meanwhile. **`JellyfinBackfill`** [36,950].
`NewestEventWins` is inductive with the types: an event that is recorded is the row, or
is older than the row was. A Job reads the server that the Catalog named
when it was created, and is of the one that it names now because no edit comes while it
stands (`FinishIsTrue`): the Catalog may change its server as often as it likes between
two Jobs, and a status of the old one is then no longer a finish. An edit beside a Job is
in the table above.

Only model-checked, because it is out of the prover's reach: liveness (`WaitEnds`,
`DepartureEnds`, `CloseEnds`, `MediaCatchesUp`, `OperatorCatchesUp`, `WorkloadsCatchUp`).
Every invariant and every safety property that a run checks has its theorem.

## Plan

1. Done: the core (`LibraryJobs`, `HandOff`, `WalkPrune`, `Departure`, `Phases`)
   and around it `Progress`, `Jellyfin`, `JellyfinBackfill`, `Leadership`, `Bus`,
   `Stand` with `Stores` and `Screens`, `Watched` with `Stood` and `Providers`,
   `NfoFacts`, `Reports`, `Tallies`.
2. Done: proofs of every safety property of the core, of the refinement of `HandOff`,
   and of every invariant and safety property of the sums `Operator`, `Media` and `Workloads`.
3. Left: the parts of `Not modelled` below that keep state.

## Not modelled

Formatting and parsing (names, NFO elements, schedules, topics), the requests to
providers and how their answers are merged and ranked, trailers, trickplay images,
contributors and franchises, the SQL of the catalog client beyond the order of its
writes, events and metrics other than the counts, the conditions of a status, the
fields of the objects that the operator builds, Play requests, the command line and
the browser. They hold no state across steps that a property could be about, or
only data that no property tells apart. The clock of a volume and that of a node
are one clock in `WalkPrune`; aliases, credits, genres, trailers, people and sets
are swept as links are and are not tables of the model. In `Phases` a written row stays written: a walk that
finds a changed file is left out there, and a refresh that opens a filled gap is in
`NfoFacts`.
