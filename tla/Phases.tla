------------------------------- MODULE Phases -------------------------------
(***************************************************************************)
(* The containers of one pod of a library Job, and how each learns that    *)
(* the phases it needs have ended.                                         *)
(*                                                                         *)
(* All of them start together: the scan, one container per phase, and the  *)
(* container that closes the Job.  A phase stages a running file, locks    *)
(* it, and gives it its name; it writes a mark when it ends, and its       *)
(* process frees the lock, however it ends.  A waiter reads the mark,      *)
(* tries the lock, and reads the mark once more.  Between reads it waits   *)
(* on one channel, which a change of the directory and a row change of a   *)
(* table it reads both fill.                                               *)
(*                                                                         *)
(* A title is in the gap of a phase when each phase it needs has written   *)
(* the title's row and it has not.                                         *)
(***************************************************************************)
EXTENDS Integers, Sequences

CONSTANTS
    Titles,
    Facts,      \* the phases that run facts
    Scan,       \* the phase that walks
    Close,      \* the container that closes the Job; no phase
    Plans,      \* the lists of phases that a Job may include
    Needs,      \* the phases that each phase of facts needs
    Limited,    \* the phases that stop at the time limit
    Retried,    \* whether a pod of this Job wrote its finished walk before
    MaxDeaths   \* processes that the kernel kills (a bound)

Phases == Facts \cup {Scan}
Waiters == Facts \cup {Close}

\* phaseNeedsOf walks the whole table, so Needs is transitively closed.
ASSUME PhasesAssumption ==
    /\ Scan \notin Facts
    /\ Close \notin Phases
    /\ Plans \subseteq Seq(Phases)
    /\ Needs \in [Facts -> SUBSET Phases]
    /\ \A p \in Facts : /\ p \notin Needs[p]
                        /\ \A q \in Needs[p] \cap Facts : Needs[q] \subseteq Needs[p]
    /\ Limited \subseteq Facts
    /\ Retried \in BOOLEAN
    /\ MaxDeaths \in Nat

VARIABLES
    plan,       \* the phases of this Job, in the order of its plan
    pc,         \* where each container is
    named,      \* the running files that have their names
    locked,     \* the running files whose lock is held
    mark,       \* the mark of each phase: "none", "done" or "failed"
    wake,       \* the waiters whose channel holds a change
    at,         \* the step a waiter has reached in the read of one need
    asked,      \* the needs that a waiter has read in this round
    ended,      \* the phases that found every need ended in this round
    last,       \* the gap a phase read before its last pass
    passed,     \* the phases that have run a pass since their needs ended
    list,       \* the titles left in a pass
    late,       \* the limited phases whose time limit has passed
    rows,       \* the titles whose row each phase has written
    missed,     \* the titles each phase has recorded a miss for
    run,        \* the walk's runs row: "none", "open" or "finished"
    failures,   \* the phases whose failure the closing container names
    deaths,     \* processes killed so far
    looked      \* history: titles a phase worked on with its needs over

\* The phases the Job includes, and those a container of it waits for.  Its
\* environment lists them in the order of the plan, and it reads them so.
Included == {plan[k] : k \in DOMAIN plan}
NeedsOf(w) == {p \in Included : w = Close \/ p \in Needs[w]}
NextNeed(w, p) ==
    LET left == NeedsOf(w) \ asked[w]
    IN  \E k \in DOMAIN plan :
            /\ p = plan[k] /\ p \in left
            /\ \A j \in 1..k - 1 : plan[j] \notin left

board   == <<named, locked, mark>>
reading == <<at, asked, failures>>
loop    == <<ended, last, passed, list>>
catalog == <<rows, missed, run>>
vars    == <<plan, pc, board, wake, reading, loop, late, catalog, deaths, looked>>

ReadSteps == {"mark", "lock", "again", "row"}

Fresh == {"absent", "staged"}
Ending == {"done", "failed"}
Over == {"marked", "over"}
Stages == Fresh \cup Ending \cup Over \cup
    {"open", "walk", "follow", "top", "ask", "gap", "list", "pass", "wait",
     "tell", "handed"}

TypeOK ==
    /\ plan \in Plans
    /\ pc \in [Phases \cup {Close} -> Stages]
    /\ named \subseteq Phases
    /\ locked \subseteq {p \in Phases : pc[p] \notin {"absent", "over"}}
    /\ mark \in [Phases -> {"none", "done", "failed"}]
    /\ wake \subseteq Waiters
    /\ at \in [Waiters -> ReadSteps]
    /\ asked \in [Waiters -> SUBSET Phases]
    /\ \A w \in Waiters : asked[w] \subseteq NeedsOf(w)
    /\ ended \subseteq Facts
    /\ last \in [Facts -> SUBSET Titles]
    /\ passed \subseteq Facts
    /\ list \in [Facts -> SUBSET Titles]
    /\ \A p \in Facts : list[p] # {} => pc[p] = "pass"
    /\ late \subseteq Limited
    /\ rows \in [Phases -> SUBSET Titles]
    /\ missed \in [Facts -> SUBSET Titles]
    /\ run \in {"none", "open", "finished"}
    /\ failures \subseteq Phases
    /\ deaths \in 0..MaxDeaths
    /\ looked \in [Facts -> SUBSET Titles]

Init ==
    /\ plan \in Plans
    /\ pc = [c \in Phases \cup {Close} |-> IF c = Close THEN "follow" ELSE "absent"]
    /\ named = {}
    /\ locked = {}
    /\ mark = [p \in Phases |-> "none"]
    /\ wake = {}
    /\ at = [w \in Waiters |-> "mark"]
    /\ asked = [w \in Waiters |-> {}]
    /\ ended = {}
    /\ last = [p \in Facts |-> {}]
    /\ passed = {}
    /\ list = [p \in Facts |-> {}]
    /\ late = {}
    /\ \E known \in SUBSET Titles :
         rows = [p \in Phases |-> IF p \in Included /\ p # Scan THEN {} ELSE known]
    /\ missed = [p \in Facts |-> {}]
    /\ run = IF Retried THEN "finished" ELSE "none"
    /\ failures = {}
    /\ deaths = 0
    /\ looked = [p \in Facts |-> {}]

Goes(c, stage) == pc' = [pc EXCEPT ![c] = stage]

Following(w) == pc[w] \notin Fresh \cup Ending \cup Over \cup {"follow", "handed"}

\* markChanged: the channel of a waiter that follows it holds one change,
\* and the rest are dropped.
Wakes(waiters) == wake' = wake \cup {w \in waiters : Following(w)}

\* phaseWatchEvents: a file of p that takes its name, or that is closed after
\* a write.  The channel of p itself is gone when its loop is.
DirectoryChanges(p) == wake' = (wake \cup {w \in Waiters : Following(w)}) \ {p}

\* The streams of the tables that a gap query reads.
RowChanges(p) == Wakes({q \in Facts : q = p \/ p \in Needs[q]})

RunsChange == Wakes({w \in Waiters : Scan \in Included /\ (w = Close \/ Scan \in Needs[w])})

-----------------------------------------------------------------------------
(* The board.                                                              *)

\* Mutant of Stage: the file takes its name before its lock.
StageNamed(p) ==
    /\ p \in Included
    /\ pc[p] = "absent"
    /\ Goes(p, "staged")
    /\ named' = named \cup {p}
    /\ UNCHANGED <<plan, locked, mark, wake, reading, loop, late, catalog, deaths, looked>>

\* start: the running file is created under a name of its own, and locked.
Stage(p) ==
    /\ p \in Included
    /\ pc[p] = "absent"
    /\ Goes(p, "staged")
    /\ locked' = locked \cup {p}
    /\ UNCHANGED <<plan, named, mark, wake, reading, loop, late, catalog, deaths, looked>>

\* start: the rename.
Name(p) ==
    /\ pc[p] = "staged"
    /\ Goes(p, IF p = Scan THEN "open" ELSE "follow")
    /\ named' = named \cup {p}
    /\ locked' = locked \cup {p}
    /\ DirectoryChanges(p)
    /\ UNCHANGED <<plan, mark, reading, loop, late, catalog, deaths, looked>>

\* What the process held in memory is gone with it.
Forgets(p) ==
    IF p = Scan THEN UNCHANGED <<at, asked, loop>>
    ELSE /\ at' = [at EXCEPT ![p] = "mark"]
         /\ asked' = [asked EXCEPT ![p] = {}]
         /\ ended' = ended \ {p}
         /\ last' = [last EXCEPT ![p] = {}]
         /\ passed' = passed \ {p}
         /\ list' = [list EXCEPT ![p] = {}]

\* finish: the mark arrives by a rename.
Mark(p) ==
    /\ pc[p] \in Ending
    /\ mark' = [mark EXCEPT ![p] = pc[p]]
    /\ Goes(p, "marked")
    /\ DirectoryChanges(p)
    /\ Forgets(p)
    /\ UNCHANGED <<plan, named, locked, failures, late, catalog, deaths, looked>>

\* finish: the running file is closed, and the lock with it.
Release(p) ==
    /\ pc[p] = "marked"
    /\ Goes(p, "over")
    /\ locked' = locked \ {p}
    /\ DirectoryChanges(p)
    /\ UNCHANGED <<plan, named, mark, reading, loop, late, catalog, deaths, looked>>

\* Mutant of Dies: the watch has no IN_CLOSE_WRITE.
DiesUnheard(p) ==
    /\ deaths < MaxDeaths
    /\ pc[p] \notin {"absent"} \cup Over
    /\ deaths' = deaths + 1
    /\ Goes(p, "over")
    /\ locked' = locked \ {p}
    /\ wake' = wake \ {p}
    /\ Forgets(p)
    /\ UNCHANGED <<plan, named, mark, failures, late, catalog, looked>>

\* The process ends with no mark, killed, stopped or unable to write one:
\* the kernel closes its files.
Dies(p) ==
    /\ deaths < MaxDeaths
    /\ pc[p] \notin {"absent"} \cup Over
    /\ deaths' = deaths + 1
    /\ Goes(p, "over")
    /\ locked' = locked \ {p}
    /\ DirectoryChanges(p)
    /\ Forgets(p)
    /\ UNCHANGED <<plan, named, mark, failures, late, catalog, looked>>

-----------------------------------------------------------------------------
(* The read of another phase's state.  The closing container reads twice:  *)
(* in "ask" to wait, as every phase does, and in "tell" for the failures.  *)

\* What a round of needsEnded answers.
Answers(w, yes) ==
    /\ at' = [at EXCEPT ![w] = "mark"]
    /\ asked' = [asked EXCEPT ![w] = {}]
    /\ Goes(w, IF w # Close THEN "gap" ELSE IF yes THEN "tell" ELSE "wait")
    /\ ended' = IF w # Close /\ yes THEN ended \cup {w} ELSE ended
    /\ UNCHANGED failures

\* The need has ended, and with a failure or not.
Finds(w, p, failed) ==
    /\ at' = [at EXCEPT ![w] = "mark"]
    /\ asked' = [asked EXCEPT ![w] = @ \cup {p}]
    /\ failures' = IF pc[w] = "tell" /\ failed THEN failures \cup {p} ELSE failures
    /\ UNCHANGED <<pc, ended>>

GoesOn(w, step) ==
    /\ at' = [at EXCEPT ![w] = step]
    /\ UNCHANGED <<pc, asked, failures, ended>>

\* needsEnded answers no at the first need that has not ended, once the
\* walk's row has not stood for the scan; allEnded goes to the next.
FindsRunning(w, p) ==
    CASE pc[w] = "tell" -> Finds(w, p, FALSE)
      [] pc[w] = "ask" /\ p = Scan -> GoesOn(w, "row")
      [] OTHER -> Answers(w, FALSE)

ReadsOnly == UNCHANGED <<plan, board, wake, last, passed, list, late, catalog, deaths, looked>>

\* The need that a waiter reads next, at this step of its read.
IsAt(w, p, step) ==
    /\ pc[w] \in {"ask", "tell"}
    /\ NextNeed(w, p)
    /\ at[w] = step

\* ended: the first read of the mark.
ReadMark(w, p) ==
    /\ IsAt(w, p, "mark")
    /\ IF mark[p] # "none" THEN Finds(w, p, mark[p] = "failed") ELSE GoesOn(w, "lock")
    /\ ReadsOnly

\* ended: the open of the running file and the try of its lock.
TryLock(w, p) ==
    /\ IsAt(w, p, "lock")
    /\ IF p \in named \ locked THEN GoesOn(w, "again") ELSE FindsRunning(w, p)
    /\ ReadsOnly

\* Mutant of ReadMarkAgain: a free lock is a dead process.
ReadNoMark(w, p) ==
    /\ IsAt(w, p, "again")
    /\ Finds(w, p, TRUE)
    /\ ReadsOnly

\* ended: the second read, and the death of a phase with no mark.
ReadMarkAgain(w, p) ==
    /\ IsAt(w, p, "again")
    /\ Finds(w, p, mark[p] # "done")
    /\ ReadsOnly

\* walkFinished: the row of this Job's walk stands for the scan's mark.
ReadWalkRow(w) ==
    /\ IsAt(w, Scan, "row")
    /\ IF run = "finished" THEN Finds(w, Scan, FALSE) ELSE Answers(w, FALSE)
    /\ ReadsOnly

AllEnded(w) ==
    /\ pc[w] = "ask"
    /\ asked[w] = NeedsOf(w)
    /\ Answers(w, TRUE)
    /\ ReadsOnly

-----------------------------------------------------------------------------
(* The scan.                                                               *)

\* runJob's first write: the run with no finish.
OpenRun ==
    /\ pc[Scan] = "open"
    /\ Goes(Scan, "walk")
    /\ run' = "open"
    /\ RunsChange
    /\ UNCHANGED <<plan, board, reading, loop, late, rows, missed, deaths, looked>>

Walk(t) ==
    /\ pc[Scan] = "walk"
    /\ t \in Titles \ rows[Scan]
    /\ rows' = [rows EXCEPT ![Scan] = @ \cup {t}]
    /\ RowChanges(Scan)
    /\ UNCHANGED <<plan, pc, board, reading, loop, late, missed, run, deaths, looked>>

\* runJob's last write, of a walk that failed too.
FinishRun ==
    /\ pc[Scan] = "walk"
    /\ \E outcome \in Ending : Goes(Scan, outcome)
    /\ run' = "finished"
    /\ RunsChange
    /\ UNCHANGED <<plan, board, reading, loop, late, rows, missed, deaths, looked>>

-----------------------------------------------------------------------------
(* The loop of a phase.                                                    *)

\* The gap query: an attempt that missed takes the title out as well.
Gap(p) ==
    {t \in Titles \ (rows[p] \cup missed[p]) : \A q \in Needs[p] : t \in rows[q]}

\* wakes: the channel is followed before anything is read.
Follow(w) ==
    /\ pc[w] = "follow"
    /\ Goes(w, IF w = Close THEN "ask" ELSE "top")
    /\ wake' = wake \ {w}
    /\ UNCHANGED <<plan, board, reading, loop, late, catalog, deaths, looked>>

Top(p) ==
    /\ pc[p] = "top"
    /\ Goes(p, IF p \in late THEN "done" ELSE "ask")
    /\ ended' = ended \ {p}
    /\ UNCHANGED <<plan, board, wake, reading, last, passed, list, late, catalog, deaths, looked>>

\* Mutant of MayPass: a pass runs over a gap that changed, and no other.
MayPassOnChange(p, gap) == gap # {} /\ gap # last[p]

\* A pass runs when the gap holds work and changed since the last pass, and
\* once more when every need has ended.
MayPass(p, gap) ==
    gap # {} /\ (gap # last[p] \/ p \in ended \ passed)

\* gapSnapshot, and the choice of a pass, the end or a wait.  Nothing reads
\* the last snapshot before the pass is over.
ReadGap(p) ==
    /\ pc[p] = "gap"
    /\ IF MayPass(p, Gap(p))
       THEN Goes(p, "list") /\ last' = [last EXCEPT ![p] = Gap(p)]
       ELSE Goes(p, IF p \in ended THEN "done" ELSE "wait") /\ UNCHANGED last
    /\ UNCHANGED <<plan, board, wake, reading, ended, passed, list, late, catalog, deaths, looked>>

\* A fact reads its own list of the gap, later than the snapshot.
BeginPass(p) ==
    /\ pc[p] = "list"
    /\ Goes(p, "pass")
    /\ list' = [list EXCEPT ![p] = Gap(p)]
    /\ UNCHANGED <<plan, board, wake, reading, ended, last, passed, late, catalog, deaths, looked>>

\* Whether the needs of a phase write no more.
NeedsAreOver(p) ==
    \A q \in Needs[p] \cap Included : pc[q] \in Ending \cup Over

\* A fact at one title: its row, a recorded miss, or neither, as for a title outside
\* the Job's folders.
Work(p, t) ==
    /\ pc[p] = "pass"
    /\ p \notin late
    /\ t \in list[p]
    /\ list' = [list EXCEPT ![p] = @ \ {t}]
    /\ \/ rows' = [rows EXCEPT ![p] = @ \cup {t}] /\ RowChanges(p) /\ UNCHANGED missed
       \/ missed' = [missed EXCEPT ![p] = @ \cup {t}] /\ UNCHANGED <<rows, wake>>
       \/ UNCHANGED <<rows, missed, wake>>
    /\ looked' = IF NeedsAreOver(p) THEN [looked EXCEPT ![p] = @ \cup {t}] ELSE looked
    /\ UNCHANGED <<plan, pc, board, reading, ended, last, passed, late, run, deaths>>

\* Mutant of EndPass: the limit leaves the rest of the list in hand.
EndPassHolding(p) ==
    /\ pc[p] = "pass"
    /\ list[p] = {} \/ p \in late
    /\ Goes(p, "top")
    /\ passed' = passed \cup ({p} \cap ended)
    /\ UNCHANGED <<plan, board, wake, reading, ended, last, list, late, catalog, deaths, looked>>

\* pass returns; past the limit a fact starts no other title.
EndPass(p) ==
    /\ pc[p] = "pass"
    /\ list[p] = {} \/ p \in late
    /\ Goes(p, "top")
    /\ list' = [list EXCEPT ![p] = {}]
    /\ passed' = passed \cup ({p} \cap ended)
    /\ UNCHANGED <<plan, board, wake, reading, ended, last, late, catalog, deaths, looked>>

\* The sync, a gap query or a fact fails, and the phase with it.
Fails(p) ==
    /\ pc[p] \in {"follow", "gap", "pass"}
    /\ Goes(p, "failed")
    /\ list' = [list EXCEPT ![p] = {}]
    /\ UNCHANGED <<plan, board, wake, reading, ended, last, passed, late, catalog, deaths, looked>>

\* awaitWake takes the change, or passes the limit.
Await(p) ==
    /\ pc[p] = "wait"
    /\ \/ p \in wake /\ wake' = wake \ {p}
       \/ p \in late /\ UNCHANGED wake
    /\ Goes(p, IF p = Close THEN "ask" ELSE "top")
    /\ UNCHANGED <<plan, board, reading, loop, late, catalog, deaths, looked>>

\* stopStarting, which is set where the loop begins.
TimeLimit(p) ==
    /\ p \in Limited \ late
    /\ pc[p] \notin Fresh \cup Over \cup {"follow"}
    /\ late' = late \cup {p}
    /\ UNCHANGED <<plan, pc, board, wake, reading, loop, catalog, deaths, looked>>

-----------------------------------------------------------------------------
\* awaitPhases returns the failures of the second read, and runJob hands off.
HandOff ==
    /\ pc[Close] = "tell"
    /\ asked[Close] = Included
    /\ Goes(Close, "handed")
    /\ UNCHANGED <<plan, board, wake, reading, loop, late, catalog, deaths, looked>>

Reads(w) ==
    \/ \E p \in Phases : ReadMark(w, p) \/ TryLock(w, p) \/ ReadMarkAgain(w, p)
    \/ ReadWalkRow(w)
    \/ AllEnded(w)

\* What a container does by itself, given time.
ScanSteps == OpenRun \/ (\E t \in Titles : Walk(t)) \/ FinishRun
BoardSteps(p) == Stage(p) \/ Name(p) \/ Mark(p) \/ Release(p)
FactSteps(p) ==
    \/ Follow(p) \/ Top(p) \/ Reads(p) \/ ReadGap(p) \/ BeginPass(p)
    \/ (\E t \in Titles : Work(p, t)) \/ EndPass(p) \/ Await(p)
CloseSteps == Follow(Close) \/ Reads(Close) \/ Await(Close) \/ HandOff

Next ==
    \/ ScanSteps
    \/ \E p \in Phases : BoardSteps(p) \/ Dies(p)
    \/ \E p \in Facts : FactSteps(p) \/ Fails(p) \/ TimeLimit(p)
    \/ CloseSteps

Spec == Init /\ [][Next]_vars

\* A container that runs takes its next step, and the walk ends.  A process
\* that has not named its running file owes nothing.
FairSpec ==
    /\ Spec
    /\ WF_vars(ScanSteps) /\ WF_vars(CloseSteps)
    /\ \A p \in Phases : WF_vars(Mark(p) \/ Release(p))
    /\ \A p \in Facts : WF_vars(FactSteps(p))

-----------------------------------------------------------------------------
\* A phase that ends with a done mark before its limit has worked on every
\* title left in its gap, in a pass that its needs wrote nothing during or
\* after: it read that they had ended before it read the gap.
LookedAtItsGap ==
    \A p \in Facts \ late : mark[p] = "done" => Gap(p) \subseteq looked[p]

\* The closing container names the failure of each phase of facts that
\* failed or died, and of no phase, the scan included, that wrote a done mark
\* or still runs.  A scan that its row stands for may fail without a name
\* here: its own row carries the failure.
FailuresAreTrue ==
    pc[Close] = "handed" =>
        /\ failures \cap Facts = {p \in Facts \cap Included : mark[p] # "done"}
        /\ \A p \in failures : pc[p] \in Over /\ mark[p] # "done"

\* "Waits until every phase of the Job has ended": the catalog takes no row
\* of this pod's phases once its closing container hands off.
NoRowAfterHandOff == [][pc[Close] = "handed" => UNCHANGED rows]_vars

\* Once every phase has named its running file the closing container hands
\* off, whichever of them fail, pass their limit or are killed.
CloseEnds == (named = Included) ~> (pc[Close] = "handed")
=============================================================================
