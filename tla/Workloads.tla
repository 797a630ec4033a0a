----------------------------- MODULE Workloads ------------------------------
(* What the operator stands in the cluster: the library Jobs with what they   *)
(* leave behind (the .nfo file that the containers edit, the report of the    *)
(* rows, the counts), the stores and the screens with their claims, and the   *)
(* template of a claim.  The parts share no state here, so their modules      *)
(* compose as a sum: focus says which part a behaviour is about, and never    *)
(* changes.                                                                   *)
EXTENDS Naturals, Sequences, FiniteSets

CONSTANTS
    Facts, TitleFaults,                         \* of NfoFacts
    MaxJob, ReporterFaults, HurriedFaults,      \* of Reports, whose builds take turns or not
    Homes, MaxRun, MaxTotal, Newest, CountFaults, \* of Tallies
    Nodes, Copies,                              \* of Stores and Screens
    StoreFaults, RoughStoreFaults, SpreadFaults, AgainFaults,
    ScreenFaults, RoughScreenFaults,
    Keys, TemplateFaults                        \* of Stood

VARIABLES
    focus,
    nfo, lock, ledger, holds, proc,
    listed, count, due, at, report, published, linked, retained, phase,
    held, most, counter,
    want, up, pods, claims, volumes,
    obj, copy, queue, memo, clock, wake, facts,
    rows, job, run, desk, last, seen, pass, budget

nfoVars == <<nfo, lock, ledger, holds, proc>>
reportVars == <<listed, count, due, at, report, published, linked, retained, phase>>
tallyVars == <<held, most, counter>>
standVars == <<want, up, pods, claims, volumes>>
watchVars == <<obj, copy, queue, memo, clock, wake, facts>>
vars == <<focus, nfoVars, reportVars, tallyVars, standVars, watchVars,
          rows, job, run, desk, last, seen, pass, budget>>

Title == INSTANCE NfoFacts WITH Faults <- TitleFaults

\* A Job and its reports, which come true where the builds take turns.
Reporter == INSTANCE Reports WITH Faults <- ReporterFaults \cup HurriedFaults

Counts == INSTANCE Tallies WITH Faults <- CountFaults

\* A store on a claim that its node pins, or of several copies on a per-node class.
Store == INSTANCE Stores WITH Claims <- {"rows"},
    Faults <- StoreFaults \cup RoughStoreFaults \cup SpreadFaults \cup AgainFaults

\* The screen of a Player.
Screen == INSTANCE Screens WITH Copies <- {0}, Claims <- {"rows", "art"},
    Faults <- ScreenFaults \cup RoughScreenFaults

\* The template of a claim, which is deleted and created where it differs.
Template == INSTANCE Stood WITH Rule <- [k \in Keys |-> "addedOrRemoved"], Replaces <- TRUE,
    Faults <- TemplateFaults

ASSUME WorkloadsAssumption ==
    /\ Title!NfoAssumption /\ Counts!TalliesAssumption
    /\ Reporter!ReportsAssumption /\ Store!StoresAssumption /\ Screen!StandAssumption
    /\ Template!StoodAssumption

\* A node pins the claim, so that one copy stands.
Pinned == ~want.perNode /\ want.copies = 1

NoTitle == nfo = {} /\ lock = {} /\ ledger = {} /\ holds = {} /\ proc = {}
NoReporter ==
    /\ listed = {} /\ count = {} /\ due = {} /\ at = {} /\ report = {} /\ published = {}
    /\ linked = {} /\ retained = {} /\ phase = {}
NoCounts == held = {} /\ most = {} /\ counter = {}
NoStand == want = {} /\ up = {} /\ pods = {} /\ claims = {} /\ volumes = {}
NoWatch ==
    obj = {} /\ copy = {} /\ queue = {} /\ memo = {} /\ clock = {} /\ wake = {} /\ facts = {}
NoPass == seen = {} /\ pass = {}

Init ==
    \/ /\ focus = "title" /\ Title!Init
       /\ NoReporter /\ NoCounts /\ NoStand /\ NoWatch /\ NoPass
       /\ run = {} /\ desk = {} /\ last = {}
    \/ /\ Reporter!Init
       /\ \/ focus = "reporter" /\ budget \in ReporterFaults
          \/ focus = "hurried" /\ budget \in HurriedFaults
       /\ NoTitle /\ NoCounts /\ NoStand /\ NoWatch /\ NoPass
       /\ rows = {} /\ last = {}
    \/ /\ focus = "counts" /\ Counts!Init
       /\ NoTitle /\ NoReporter /\ NoStand /\ NoWatch /\ NoPass
       /\ job = {}
    \/ /\ \/ /\ Store!Init
             /\ \/ focus = "store" /\ Pinned /\ budget \in StoreFaults
                \/ focus = "roughstore" /\ Pinned /\ budget \in RoughStoreFaults
                \/ focus = "spread" /\ want.perNode /\ budget \in SpreadFaults
                \/ focus = "again" /\ want.perNode /\ want.copies = 1 /\ budget \in AgainFaults
          \/ /\ Screen!Init
             /\ \/ focus = "screen" /\ Pinned /\ budget \in ScreenFaults
                \/ focus = "roughscreen" /\ Pinned /\ budget \in RoughScreenFaults
       /\ NoTitle /\ NoReporter /\ NoCounts /\ NoWatch
       /\ rows = {} /\ job = {} /\ run = {} /\ desk = {} /\ last = {}
    \/ /\ focus = "template" /\ Template!Init
       /\ NoTitle /\ NoReporter /\ NoCounts /\ NoStand
       /\ rows = {} /\ job = {} /\ run = {} /\ desk = {}

About(part) == focus = part /\ UNCHANGED focus
OfTitle ==
    /\ About("title")
    /\ UNCHANGED <<reportVars, tallyVars, standVars, watchVars, run, desk, last, seen, pass>>
OfReport(part) ==
    /\ About(part)
    /\ UNCHANGED <<nfoVars, tallyVars, standVars, watchVars, rows, last, seen, pass>>
OfCounts ==
    /\ About("counts")
    /\ UNCHANGED <<nfoVars, reportVars, standVars, watchVars, job, seen, pass>>
OfStand(part) ==
    /\ About(part)
    /\ UNCHANGED <<nfoVars, reportVars, tallyVars, watchVars, rows, job, run, desk, last>>
OfTemplate ==
    /\ About("template")
    /\ UNCHANGED <<nfoVars, reportVars, tallyVars, standVars, rows, job, run, desk>>

Next ==
    \/ OfTitle /\ Title!Next
    \/ OfReport("reporter") /\ Reporter!Next
    \/ OfReport("hurried") /\ Reporter!Next
    \/ OfCounts /\ Counts!Next
    \/ OfStand("store") /\ Store!Next
    \/ OfStand("roughstore") /\ Store!Next
    \/ OfStand("spread") /\ Store!Next
    \/ OfStand("again") /\ Store!Next
    \/ OfStand("screen") /\ Screen!Next
    \/ OfStand("roughscreen") /\ Screen!Next
    \/ OfTemplate /\ Template!Next

\* Each part's own Fairness, and nothing of a part's where it is here for safety alone.
\* A behaviour is about one part, so a condition here may be that of an action of
\* several parts.
TitleFairness ==
    /\ WF_vars(OfTitle /\ Title!StartJob)
    /\ WF_vars(OfTitle /\ (Title!WalkReads \/ Title!WalkFlushes \/ Title!NoteProbe))
    /\ WF_vars(OfTitle /\ Title!JobEnds)
    /\ \A r \in Title!Runs :
           WF_vars(OfTitle /\ Title!Take(r)) /\ SF_vars(OfTitle /\ Title!TimePasses(r))
    /\ \A c \in Title!Containers : WF_vars(OfTitle /\ Title!Works(c))
ReportFairness ==
    /\ \A t \in {"runs", "tables"} : WF_vars(
           \/ OfReport("reporter") /\ Reporter!Reporting(t)
           \/ OfReport("hurried") /\ Reporter!Reporting(t))
    /\ WF_vars(OfReport("reporter") /\ (Reporter!Connects \/ Reporter!Refills))
    /\ WF_vars(
           \/ OfReport("reporter") /\ Reporter!Deliver
           \/ OfReport("hurried") /\ Reporter!Deliver
           \/ OfCounts /\ \E h \in Homes : Counts!Reports(h))
    /\ WF_vars(
           \/ OfReport("reporter") /\ Reporter!Pass
           \/ OfReport("hurried") /\ Reporter!Pass
           \/ OfCounts /\ \E h \in Homes : Counts!Observes(h))
    /\ WF_vars(
           \/ OfReport("reporter") /\ Reporter!JobMoves
           \/ OfReport("hurried") /\ Reporter!JobMoves)
StandFairness ==
    /\ WF_vars(
           \/ OfStand("store") /\ Store!PassSteps
           \/ OfStand("screen") /\ Screen!PassSteps
           \/ OfTemplate /\ Template!PassSteps)
    /\ WF_vars(
           \/ OfStand("store") /\ Store!Deliver
           \/ OfStand("screen") /\ Screen!Deliver
           \/ OfTemplate /\ Template!DeliverObject)
    /\ WF_vars(
           \/ OfStand("store") /\ Store!Schedule(0)
           \/ OfStand("screen") /\ Screen!Schedule(0)
           \/ OfTemplate /\ Template!DeliverFacts)
    /\ WF_vars(
           \/ OfStand("store") /\ Store!PodEnds(0)
           \/ OfStand("screen") /\ Screen!PodEnds(0)
           \/ OfTemplate /\ (Template!Take \/ Template!TickStarts))
    /\ WF_vars(
           \/ OfStand("store") /\ Store!ClaimEnds("rows")
           \/ OfStand("screen") /\ Screen!ClaimEnds("rows"))
    /\ WF_vars(OfStand("screen") /\ Screen!ClaimEnds("art"))
    /\ WF_vars(OfStand("screen") /\ Screen!Refuse(0))

Spec == Init /\ [][Next]_vars /\ TitleFairness /\ ReportFairness /\ StandFairness

-----------------------------------------------------------------------------
(* The properties of the parts, each where it is about something.           *)

\* Types, of every part.
TypeOK ==
    /\ focus = "title" => Title!TypeOK
    /\ focus = "reporter" => Reporter!TypeOK
    /\ focus = "hurried" => Reporter!TypeOK
    /\ focus = "counts" => Counts!TypeOK
    /\ focus = "store" => Store!TypeOK
    /\ focus = "roughstore" => Store!TypeOK
    /\ focus = "spread" => Store!TypeOK
    /\ focus = "again" => Store!TypeOK
    /\ focus = "screen" => Screen!TypeOK
    /\ focus = "roughscreen" => Screen!TypeOK
    /\ focus = "template" => Template!TypeOK

\* NfoFacts: an edit of the shared file keeps what the other containers wrote.
EditKeepsTheRest == [][focus = "title" => Title!EditKeepsTheRest]_vars

\* NfoFacts: a fact that gives way to another writer does so because there is one.
FightIsTrue == focus = "title" => Title!FightIsTrue

\* Tallies: no run is counted beyond what its container flushed.
CountedOnce == focus = "counts" => Counts!CountedOnce

\* Stores and Screens: no claim goes that a copy which runs mounts, no pod goes by
\* force but the one of a node that was lost, and a claim keeps the volume of its
\* name.
InUseIsKept ==
    [][/\ focus \in {"store", "roughstore", "spread", "again"} =>
              /\ Store!HealTakesTheStranded /\ Store!MountedClaimIsKept
              /\ Store!NamedVolumeStays
       /\ focus \in {"screen", "roughscreen"} =>
              Screen!PlayingScreenIsKept]_vars

\* The workloads catch up: the fact is in the file, or another writer holds it, and the
\* rows say what the file does; the report of the rows is on the desk; a run that is over
\* is no scan in flight; the totals of the newest run are in the counters; a store that
\* lost its node, and a screen that lost its display, come back; and the template comes to
\* be what the Library calls for.
Behind ==
    \/ focus = "title" /\ ~Title!Settled
    \/ focus = "reporter" /\ ~Reporter!Shows
    \/ focus = "counts" /\ \E h \in Homes : Counts!Behind(h)
    \/ focus = "store" /\ Store!Down
    \/ focus = "screen" /\ Screen!Dark
    \/ focus = "template" /\ ~Template!Stands
Scans == focus \in {"reporter", "hurried"} /\ phase = "Scanning"
WorkloadsCatchUp == (Behind ~> ~Behind) /\ (Scans ~> ~Scans)
=============================================================================
