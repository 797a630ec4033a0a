------------------------------ MODULE Reports ------------------------------
(***************************************************************************)
(* How a Library's status follows its catalog: the walk's run row, the     *)
(* reporter that reads the catalog and publishes a retained report         *)
(* (reporter.go, catalogupdates.go), the broker, the operator's desk       *)
(* (report.go), and the phase that the pass derives (status.go, runs.go).  *)
(*                                                                         *)
(* A report is the newest run of the walk and a count, which stands for    *)
(* the counts and the gaps: rows that change with no change of the runs    *)
(* table.  The reporter's goroutines are three: "runs" follows the runs    *)
(* table, "tables" answers the marks of the update streams, and "link"     *)
(* refills the broker when a session connects.                             *)
(***************************************************************************)
EXTENDS Naturals, FiniteSets

CONSTANTS
    MaxJob,    \* bound: the Jobs
    Faults     \* bounds: how often the count changes, a build begins beside another,
               \* and each kind of mishap happens

ReportsAssumption ==
    /\ MaxJob \in Nat
    /\ Faults \subseteq
           [{"counts", "overlaps", "dies", "down", "slow", "breaks", "restarts", "operators"} -> Nat]

Threads == {"runs", "tables", "link"}
Builders == {"runs", "tables"}

VARIABLES
    job,        \* the newest Job
    listed,     \* {} or how that Job stands: runs, succeeded or failed
    run,        \* the row of the walk: [job, state]
    count,
    due,        \* the builders with a change to answer: an event, the mark
    at,         \* where each goroutine is
    report,     \* the report it builds
    published,  \* {} or the report that the reporter published last
    linked,     \* whether the reporter's session is up
    retained,   \* {} or the message that the broker holds
    desk,       \* {} or the report on the operator's desk
    phase,
    budget

cluster == <<job, listed>>
catalog == <<run, count>>
threads == <<at, report>>
bus == <<linked, retained>>
vars == <<cluster, catalog, due, threads, published, bus, desk, phase, budget>>

None == [run |-> [job |-> 0, state |-> "none"], count |-> 0]
True == [run |-> run, count |-> count]
Spend(kind) == budget[kind] > 0 /\ budget' = [budget EXCEPT ![kind] = @ - 1]

Init ==
    /\ job = 0 /\ listed = {} /\ run = None.run /\ count = 0
    /\ due = {"runs"}
    /\ at = [t \in Threads |-> "idle"] /\ report = [t \in Threads |-> None]
    /\ published = {} /\ linked = TRUE /\ retained = {} /\ desk = {}
    /\ phase = "Pending"
    /\ budget \in Faults

-----------------------------------------------------------------------------
(* The Job and its rows.                                                   *)

CreateJob ==
    /\ job < MaxJob /\ listed \in {{}, {"succeeded"}}
    /\ job' = job + 1 /\ listed' = {"runs"}
    /\ UNCHANGED <<catalog, due, threads, published, bus, desk, phase, budget>>

\* A row of the runs table: an event of its stream and a mark of its updates.
Row(state) == run' = [job |-> job, state |-> state] /\ due' = due \cup Builders
OpenRun ==
    /\ listed = {"runs"} /\ run.job < job
    /\ Row("open")
    /\ UNCHANGED <<cluster, count, threads, published, bus, desk, phase, budget>>
EndRun ==
    /\ listed = {"runs"} /\ run = [job |-> job, state |-> "open"]
    /\ \E state \in {"closed", "failed"} : Row(state)
    /\ UNCHANGED <<cluster, count, threads, published, bus, desk, phase, budget>>

CountMoves ==
    /\ Spend("counts")
    /\ count' = count + 1 /\ due' = due \cup {"tables"}
    /\ UNCHANGED <<cluster, run, threads, published, bus, desk, phase>>

JobEnds ==
    /\ listed = {"runs"} /\ run.job = job /\ run.state # "open"
    /\ listed' = {IF run.state = "closed" THEN "succeeded" ELSE "failed"}
    /\ UNCHANGED <<job, catalog, due, threads, published, bus, desk, phase, budget>>

\* The pod dies, and its row is never closed; or the Job is deleted.
JobDies ==
    /\ listed = {"runs"}
    /\ Spend("dies")
    /\ listed' = {"failed"}
    /\ UNCHANGED <<job, catalog, due, threads, published, bus, desk, phase>>
JobGoes ==
    /\ listed \in {{"succeeded"}, {"failed"}}
    /\ listed' = {}
    /\ UNCHANGED <<job, catalog, due, threads, published, bus, desk, phase, budget>>

-----------------------------------------------------------------------------
(* The reporter.                                                           *)

Rests(t) == at' = [at EXCEPT ![t] = "idle"] /\ report' = [report EXCEPT ![t] = None]
Alone == IF \A t \in Threads : at[t] = "idle" THEN UNCHANGED budget ELSE Spend("overlaps")

\* buildReport reads the runs first, and the counts after them.  A mark is answered
\* with the libraries that the reporter published before.
StartsBuild(t) ==
    /\ t \in due /\ at[t] = "idle" /\ Alone
    /\ due' = due \ {t}
    /\ IF t = "tables" /\ published = {} THEN UNCHANGED threads
       ELSE /\ at' = [at EXCEPT ![t] = "counts"]
            /\ report' = [report EXCEPT ![t] = [run |-> run, count |-> 0]]
    /\ UNCHANGED <<cluster, catalog, published, bus, desk, phase>>
ReadsCounts(t) ==
    /\ at[t] = "counts"
    /\ at' = [at EXCEPT ![t] = "publish"]
    /\ report' = [report EXCEPT ![t].count = count]
    /\ UNCHANGED <<cluster, catalog, due, published, bus, desk, phase, budget>>

\* A read that fails leaves the report where it is.  An agent that is down ends
\* the streams as well, and each of them answers the end with a fresh read; one
\* that is only slow ends nothing.
NoReread(t) == UNCHANGED due \* mutant: a stream that ended is opened again, and no more
Reread(t) == due' = due \cup Builders
ReadFails(t, kind) ==
    /\ at[t] = "counts"
    /\ Spend(kind)
    /\ Rests(t)
    /\ IF kind = "down" THEN Reread(t) ELSE UNCHANGED due
    /\ UNCHANGED <<cluster, catalog, published, bus, desk, phase>>

\* A publish with no session goes nowhere.
Publishes(t) ==
    /\ t \in Builders /\ at[t] = "publish"
    /\ Rests(t)
    /\ published' = {report[t]}
    /\ retained' = IF linked THEN {report[t]} ELSE retained
    /\ UNCHANGED <<cluster, catalog, due, linked, desk, phase, budget>>

\* onConnect: the reports that the reporter published, as it held them then.
Connects ==
    /\ ~linked /\ Alone
    /\ linked' = TRUE
    /\ at' = [at EXCEPT !["link"] = IF published = {} THEN "idle" ELSE "publish"]
    /\ report' = [report EXCEPT !["link"] = IF published = {} THEN None ELSE CHOOSE r \in published : TRUE]
    /\ UNCHANGED <<cluster, catalog, due, published, retained, desk, phase>>
Refills ==
    /\ at["link"] = "publish"
    /\ Rests("link")
    /\ retained' = IF linked THEN {report["link"]} ELSE retained
    /\ UNCHANGED <<cluster, catalog, due, published, linked, desk, phase, budget>>

\* The session breaks; the broker restarts, with nothing retained; the reporter
\* restarts, and publishes every library that the catalog holds rows of.
LinkBreaks ==
    /\ linked
    /\ Spend("breaks")
    /\ linked' = FALSE
    /\ \E kept \in {{}, retained} : retained' = kept
    /\ UNCHANGED <<cluster, catalog, due, threads, published, desk, phase>>
ReporterRestarts ==
    /\ Spend("restarts")
    /\ at' = [t \in Threads |-> "idle"] /\ report' = [t \in Threads |-> None]
    /\ published' = {} /\ linked' = FALSE
    /\ due' = {"runs"}
    /\ UNCHANGED <<cluster, catalog, retained, desk, phase>>

-----------------------------------------------------------------------------
(* The operator.                                                           *)

Deliver ==
    /\ retained # {} /\ desk # retained
    /\ desk' = retained
    /\ UNCHANGED <<cluster, catalog, due, threads, published, bus, phase, budget>>

OperatorRestarts ==
    /\ Spend("operators")
    /\ desk' = {}
    /\ UNCHANGED <<cluster, catalog, due, threads, published, bus, phase>>

\* runAbandoned: a run with no finish, whose Job the pass did not list.
NeverAbandoned(r) == FALSE       \* mutant: the row alone says that a walk runs
Abandoned(r) == r.state = "open" /\ (listed = {} \/ r.job # job)

\* libraryPhase, with the fault of the newest Job before the report.
PhaseOf(seen) ==
    IF listed = {"failed"} THEN "Failed"
    ELSE IF seen = {} THEN "Pending"
    ELSE LET r == (CHOOSE s \in seen : TRUE).run
         IN  IF r.state = "failed" THEN "Failed"
             ELSE IF r.state = "open" /\ ~Abandoned(r) THEN "Scanning"
             ELSE "Idle"
Pass ==
    /\ phase # PhaseOf(desk)
    /\ phase' = PhaseOf(desk)
    /\ UNCHANGED <<cluster, catalog, due, threads, published, bus, desk, budget>>

-----------------------------------------------------------------------------
JobMoves == OpenRun \/ EndRun \/ JobEnds \/ JobGoes
Reporting(t) == StartsBuild(t) \/ ReadsCounts(t) \/ Publishes(t)
Next ==
    \/ CreateJob \/ JobMoves \/ CountMoves \/ JobDies
    \/ \E t \in Builders : Reporting(t) \/ ReadFails(t, "down") \/ ReadFails(t, "slow")
    \/ Connects \/ Refills \/ LinkBreaks \/ ReporterRestarts
    \/ Deliver \/ OperatorRestarts \/ Pass

\* The goroutines, the bus and the passes run; a Job ends or dies, and goes.
Fairness ==
    /\ \A t \in Builders : WF_vars(Reporting(t))
    /\ WF_vars(Connects) /\ WF_vars(Refills)
    /\ WF_vars(Deliver) /\ WF_vars(Pass)
    /\ WF_vars(JobMoves)

Spec == Init /\ [][Next]_vars /\ Fairness

-----------------------------------------------------------------------------
\* Types.
Report == [run : [job : 0..MaxJob, state : {"none", "open", "closed", "failed"}], count : Nat]
TypeOK ==
    /\ True \in Report
    /\ published \subseteq Report /\ retained \subseteq Report /\ desk \subseteq Report
    /\ Cardinality(published) <= 1 /\ Cardinality(retained) <= 1 /\ Cardinality(desk) <= 1
    /\ listed \in {{}, {"runs"}, {"succeeded"}, {"failed"}}
    /\ due \subseteq Builders
    /\ phase \in {"Pending", "Scanning", "Failed", "Idle"}

\* reporter.go: the report on the desk comes to be what the catalog holds, through
\* a broker that lost it, a session that broke and a reporter that started again.
Shows == desk = {True}
ReportComesTrue == ~Shows ~> Shows

\* runs.go: a run whose pod died is no run in flight, so no library scans for ever.
ScanningEnds == phase = "Scanning" ~> phase # "Scanning"
=============================================================================
