------------------------------ MODULE HandOff ------------------------------
(***************************************************************************)
(* The hand-off that closes a worker Job, and the confirmer of a standing  *)
(* catalog pod that answers it.                                            *)
(*                                                                         *)
(* Every write of the Job's agent is one db version.  The standing copy    *)
(* applies versions in any order, while the Job's agent runs: a broadcast  *)
(* that was not sent is gone when its pod ends.  The runs row is one row   *)
(* per worker, and each of its cells is that of the newest write applied.  *)
(* The confirmer's two goroutines read the bookkeeping of its copy and     *)
(* write the one confirmations row the Job waits on, and a pod of the Job  *)
(* that times out is followed by another on the same claim.                *)
(***************************************************************************)
EXTENDS Integers, Sequences

CONSTANTS
    MaxPods,    \* the pods of one Job: scanBackoffLimit + 1
    MaxRows,    \* data rows that one pod writes (a bound)
    MaxNudges   \* renewals of the wait of one pod (a bound)

ASSUME HandOffAssumption ==
    /\ MaxPods \in Nat \ {0}
    /\ MaxRows \in Nat
    /\ MaxNudges \in Nat

\* A write of the Job's agent: the run's start, a data row, the finished run
\* with no version, the finished run that names that write, and a renewal.
Kinds == {"open", "data", "first", "second", "nudge"}

VARIABLES
    pod,        \* which pod of the Job runs
    podPc,      \* how far that pod is
    rows,       \* data rows the pod has written
    nudges,     \* renewals the pod has made
    log,        \* the writes of the Job's agent, by db version
    named,      \* the version the pod's run names, 0 until it has one
    applied,    \* the versions the standing copy holds
    streamed,   \* the run the agent last streamed to the confirmer, 0 for none
    pending,    \* the confirmer's pending run of the row, 0 for none
    confirmed,  \* the runs the confirmer has confirmed in this process
    stream,     \* the run stream's goroutine: where it is, and its run
    recheck,    \* the recheck's goroutine
    conf,       \* the version of the confirmations row on the standing copy
    heard       \* the same cell on the Job's copy

job       == <<pod, podPc, rows, nudges, log, named>>
confirmer == <<pending, confirmed, stream, recheck>>
vars      == <<pod, podPc, rows, nudges, log, named, applied, streamed,
               pending, confirmed, stream, recheck, conf, heard>>

Versions == 1..Len(log)
PodStages == {"open", "data", "second", "wait", "done", "failed"}
Idle == [at |-> "idle", run |-> 0]
Goroutines == [at : {"idle", "check", "write", "mark", "place"}, run : Nat]

TypeOK ==
    /\ pod \in 1..MaxPods
    /\ podPc \in PodStages
    /\ rows \in 0..MaxRows
    /\ nudges \in 0..MaxNudges
    /\ log \in Seq(Kinds)
    /\ named \in Nat
    /\ applied \subseteq Versions
    /\ streamed \in Nat
    /\ pending \in Nat
    /\ confirmed \subseteq Nat
    /\ stream \in Goroutines
    /\ recheck \in Goroutines
    /\ conf \in Nat
    /\ heard \in Nat

Init ==
    /\ pod = 1
    /\ podPc = "open"
    /\ rows = 0
    /\ nudges = 0
    /\ log = <<>>
    /\ named = 0
    /\ applied = {}
    /\ streamed = 0
    /\ pending = 0
    /\ confirmed = {}
    /\ stream = Idle
    /\ recheck = Idle
    /\ conf = 0
    /\ heard = 0

-----------------------------------------------------------------------------
(* The Job's pod.                                                          *)

\* An UpsertRun or a data write: the next db version of the Job's agent.
Write(kind) == log' = Append(log, kind)

WriteOpen ==
    /\ podPc = "open"
    /\ Write("open")
    /\ podPc' = "data"
    /\ UNCHANGED <<pod, rows, nudges, named, applied, streamed, confirmer, conf, heard>>

WriteData ==
    /\ podPc = "data"
    /\ rows < MaxRows
    /\ Write("data")
    /\ rows' = rows + 1
    /\ UNCHANGED <<pod, podPc, nudges, named, applied, streamed, confirmer, conf, heard>>

\* handOff's first write: the finished run, and the version it answers with.
WriteFinished ==
    /\ podPc = "data"
    /\ Write("first")
    /\ named' = Len(log) + 1
    /\ podPc' = "second"
    /\ UNCHANGED <<pod, rows, nudges, applied, streamed, confirmer, conf, heard>>

\* The second write names the first, and the wait begins.
WriteNamed ==
    /\ podPc = "second"
    /\ Write("second")
    /\ podPc' = "wait"
    /\ UNCHANGED <<pod, rows, nudges, named, applied, streamed, confirmer, conf, heard>>

\* handoffWaiter.renew
Nudge ==
    /\ podPc = "wait"
    /\ nudges < MaxNudges
    /\ Write("nudge")
    /\ nudges' = nudges + 1
    /\ UNCHANGED <<pod, podPc, rows, named, applied, streamed, confirmer, conf, heard>>

AgentRuns == podPc \in {"data", "second", "wait"}

\* The confirmations row of the standing copy reaches the Job's.
HearConfirmation ==
    /\ AgentRuns
    /\ heard # conf
    /\ heard' = conf
    /\ UNCHANGED <<job, applied, streamed, confirmer, conf>>

\* Mutant of Answers: any confirmation of the Job ends the wait.
AnswersAny(version) == version > 0

\* The wait's subscription: this Job, at the version this pod named.
Answers(version) == version = named

\* handoffWaiter.note: the pod exits zero.
PodSucceeds ==
    /\ podPc = "wait"
    /\ Answers(heard)
    /\ podPc' = "done"
    /\ UNCHANGED <<pod, rows, nudges, log, named, applied, streamed, confirmer, conf, heard>>

\* Mutant of PodFails: no backoff limit.
PodFailsAgain ==
    /\ AgentRuns
    /\ pod' = pod + 1
    /\ podPc' = "open"
    /\ rows' = 0
    /\ nudges' = 0
    /\ named' = 0
    /\ UNCHANGED <<log, applied, streamed, confirmer, conf, heard>>

\* The wait times out, or the pod fails before it; the Job's controller
\* replaces the pod up to the backoff limit.
PodFails ==
    /\ AgentRuns
    /\ IF pod < MaxPods
       THEN /\ pod' = pod + 1
            /\ podPc' = "open"
            /\ rows' = 0
            /\ nudges' = 0
            /\ named' = 0
       ELSE /\ podPc' = "failed"
            /\ UNCHANGED <<pod, rows, nudges, named>>
    /\ UNCHANGED <<log, applied, streamed, confirmer, conf, heard>>

-----------------------------------------------------------------------------
(* The standing copy.                                                      *)

\* A broadcast arrives, or the copy pulls a version it knows it is missing.
Apply(k) ==
    /\ AgentRuns
    /\ k \in Versions \ applied
    /\ applied' = applied \cup {k}
    /\ UNCHANGED <<job, streamed, confirmer, conf, heard>>

\* __corro_bookkeeping_gaps: versions under the newest applied, not applied.
Gaps == {k \in Versions \ applied : \E m \in applied : m > k}

\* Mutant of Held: the newest version alone, without the gaps behind it.
HeldNewest(version) ==
    /\ version > 0
    /\ \E m \in applied : m >= version

\* versionsHeld: a version at least that high, and no gap that reaches back
\* over it.
Held(version) ==
    /\ version > 0
    /\ \E m \in applied : m >= version
    /\ ~ \E k \in Gaps : k <= version

\* The newest write of the kinds that set one cell of the row, 0 for none.
NewestOf(kinds) ==
    LET of == {k \in applied : log[k] \in kinds}
    IN  IF of = {} THEN 0 ELSE CHOOSE k \in of : \A m \in of : m <= k

\* The row as the confirmer's query answers it: the version its newest write
\* named, while the row is finished and names one, and 0 outside the query.
RunRow ==
    LET version  == NewestOf({"open", "first", "second"})
        finished == NewestOf({"open", "first", "nudge"})
    IN  IF version > 0 /\ log[version] = "second" /\ finished > 0 /\ log[finished] # "open"
        THEN version - 1
        ELSE 0

-----------------------------------------------------------------------------
(* The confirmer: the run stream and the recheck, over one runs row.       *)

\* confirmer.noteRun: the agent streams the row's last change.  A row outside
\* the query is a delete, and clears the row; a run goes on to be settled.
StreamEvent ==
    /\ stream.at = "idle"
    /\ RunRow # streamed
    /\ streamed' = RunRow
    /\ IF RunRow = 0
       THEN pending' = 0 /\ stream' = stream
       ELSE pending' = pending /\ stream' = [at |-> "check", run |-> RunRow]
    /\ UNCHANGED <<job, applied, confirmed, recheck, conf, heard>>

\* Where a settled run's reads lead: it is done, the row already says so, the
\* copy holds it, or it does not hold it yet.
Verdict(run) ==
    IF run \in confirmed THEN "done"
    ELSE IF conf = run THEN "already"
    ELSE IF Held(run) THEN "held"
    ELSE "missing"

\* The stream's settle: done, confirmedBy and versionsHeld.
StreamChecks ==
    /\ stream.at = "check"
    /\ stream' = [stream EXCEPT !.at =
                    CASE Verdict(stream.run) = "already" -> "mark"
                      [] Verdict(stream.run) = "held" -> "write"
                      [] OTHER -> "place"]
    /\ UNCHANGED <<job, applied, streamed, pending, confirmed, recheck, conf, heard>>

\* writeIf, which asks nothing more of a run the stream carries.
StreamWrites ==
    /\ stream.at = "write"
    /\ conf' = stream.run
    /\ stream' = [stream EXCEPT !.at = "mark"]
    /\ UNCHANGED <<job, applied, streamed, pending, confirmed, recheck, heard>>

\* A write that fails may have landed, and leaves the run unconfirmed.
StreamWriteFails ==
    /\ stream.at = "write"
    /\ conf' \in {conf, stream.run}
    /\ stream' = [stream EXCEPT !.at = "place"]
    /\ UNCHANGED <<job, applied, streamed, pending, confirmed, recheck, heard>>

StreamMarks ==
    /\ stream.at = "mark"
    /\ confirmed' = confirmed \cup {stream.run}
    /\ pending' = IF pending = stream.run THEN 0 ELSE pending
    /\ stream' = [stream EXCEPT !.at = "place"]
    /\ UNCHANGED <<job, applied, streamed, recheck, conf, heard>>

\* Mutant of StreamPlaces: a run that is not held yet is not kept pending.
StreamDrops ==
    /\ stream.at = "place"
    /\ pending' = 0
    /\ stream' = Idle
    /\ UNCHANGED <<job, applied, streamed, confirmed, recheck, conf, heard>>

\* confirmer.place
StreamPlaces ==
    /\ stream.at = "place"
    /\ pending' = IF stream.run \in confirmed THEN 0 ELSE stream.run
    /\ stream' = Idle
    /\ UNCHANGED <<job, applied, streamed, confirmed, recheck, conf, heard>>

\* The stream ends: forget empties the pending set, and the next stream's
\* snapshot sends the row again.
StreamEnds ==
    /\ stream.at = "idle"
    /\ streamed' = 0
    /\ pending' = 0
    /\ UNCHANGED <<job, applied, confirmed, stream, recheck, conf, heard>>

\* recheckWhilePending takes a copy of the pending run.
RecheckTakes ==
    /\ recheck.at = "idle"
    /\ pending # 0
    /\ recheck' = [at |-> "check", run |-> pending]
    /\ UNCHANGED <<job, applied, streamed, pending, confirmed, stream, conf, heard>>

RecheckChecks ==
    /\ recheck.at = "check"
    /\ recheck' = CASE Verdict(recheck.run) = "already" -> [recheck EXCEPT !.at = "mark"]
                    [] Verdict(recheck.run) = "held" -> [recheck EXCEPT !.at = "write"]
                    [] OTHER -> Idle
    /\ UNCHANGED <<job, applied, streamed, pending, confirmed, stream, conf, heard>>

\* writeIf: under the mutex, while the run is still the pending one.
RecheckWrites ==
    /\ recheck.at = "write"
    /\ IF pending = recheck.run
       THEN \/ conf' = recheck.run /\ recheck' = [recheck EXCEPT !.at = "mark"]
            \/ conf' \in {conf, recheck.run} /\ recheck' = Idle
       ELSE conf' = conf /\ recheck' = Idle
    /\ UNCHANGED <<job, applied, streamed, pending, confirmed, stream, heard>>

RecheckMarks ==
    /\ recheck.at = "mark"
    /\ confirmed' = confirmed \cup {recheck.run}
    /\ pending' = IF pending = recheck.run THEN 0 ELSE pending
    /\ recheck' = Idle
    /\ UNCHANGED <<job, applied, streamed, stream, conf, heard>>

\* The confirmer restarts beside an agent that keeps its copy.
ConfirmerRestarts ==
    /\ streamed' = 0
    /\ pending' = 0
    /\ confirmed' = {}
    /\ stream' = Idle
    /\ recheck' = Idle
    /\ UNCHANGED <<job, applied, conf, heard>>

Stream  == StreamEvent \/ StreamChecks \/ StreamWrites \/ StreamMarks \/ StreamPlaces
Recheck == RecheckTakes \/ RecheckChecks \/ RecheckWrites \/ RecheckMarks

Next ==
    \/ WriteOpen \/ WriteData \/ WriteFinished \/ WriteNamed \/ Nudge
    \/ HearConfirmation \/ PodSucceeds \/ PodFails
    \/ \E k \in Versions : Apply(k)
    \/ StreamEvent \/ StreamChecks \/ StreamWrites \/ StreamWriteFails
    \/ StreamMarks \/ StreamPlaces \/ StreamEnds
    \/ RecheckTakes \/ RecheckChecks \/ RecheckWrites \/ RecheckMarks
    \/ ConfirmerRestarts

Spec == Init /\ [][Next]_vars

\* The containers go on.  A broadcast of the newest version arrives in the end,
\* because the wait keeps making newer ones, and a copy pulls the gaps it knows.
\* A stream that ends and a write that fails do so only so often.
Fairness ==
    /\ WF_vars(WriteOpen) /\ WF_vars(WriteFinished) /\ WF_vars(WriteNamed)
    /\ WF_vars(Nudge) /\ WF_vars(PodSucceeds)
    /\ WF_vars(HearConfirmation)
    /\ WF_vars(AgentRuns /\ Apply(Len(log)))
    /\ WF_vars(\E k \in Gaps : Apply(k))
    /\ SF_vars(StreamEvent) /\ SF_vars(StreamChecks) /\ SF_vars(StreamWrites)
    /\ SF_vars(StreamMarks) /\ SF_vars(StreamPlaces)
    /\ SF_vars(RecheckTakes) /\ SF_vars(RecheckChecks) /\ SF_vars(RecheckMarks)
    /\ WF_vars(RecheckWrites)
    /\ SF_vars(RecheckWrites /\ recheck'.at = "mark")

FairSpec == Spec /\ Fairness

-----------------------------------------------------------------------------
(* Properties.                                                             *)

\* A confirmations row on the standing copy names a version behind which that
\* copy misses nothing, whichever goroutine wrote it and whatever order the
\* versions came in.
ConfirmationIsProved == \A k \in Versions : k <= conf => k \in applied

\* A Job that succeeded leaves no row behind on its claim: every data row of
\* every pod of it, those that timed out included, is on the standing copy.
Rows == {k \in Versions : log[k] = "data"}
SucceededRowsAreStanding == podPc = "done" => Rows \subseteq applied

\* The hand-off implements what it promises.
Promise == INSTANCE DurableRows
    WITH Rows      <- 1..(MaxPods * (MaxRows + MaxNudges + 3)),
         written   <- Rows,
         standing  <- Rows \cap applied,
         succeeded <- (podPc = "done")
KeepsPromise == Promise!RowsSpec

\* A pod of the Job that does not fail is confirmed: the wait does not last.
WaitEnds == podPc = "wait" ~> podPc # "wait"

\* The confirmations row of one Job moves to a later pod's version and never
\* back to the version before it.
ConfirmationNeverGoesBack == [][conf' >= conf]_vars

=============================================================================
