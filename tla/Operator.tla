------------------------------ MODULE Operator ------------------------------
(* The process of the operator, its bus, an object that it stands and the   *)
(* providers that it checks share no state here, so their modules compose   *)
(* as a sum: focus says which part a behaviour is about, and never changes. *)
EXTENDS Naturals, Sequences, FiniteSets

CONSTANTS
    Procs, Duration, RenewDeadline, Tries,      \* of Leadership,
    LeaderFaults, LateFaults,                   \* without and with late releases
    Filters, Depth, Sessions, Messages,         \* of Bus
    Keys,                                       \* of Watched
    ObjectFaults, WakedFaults,                  \* of Stood
    Answers, ProviderFaults, UnreadFaults       \* of Providers

VARIABLES
    focus,
    holder, proc, flight,
    run, at, conn, n, out, filters, pending, thread, broker, handling, lost, messages,
    obj, copy, memo, clock, last, wake,
    facts,
    account, note, job, asked, settled,
    queue, seen, pass, budget

leaderVars == <<holder, proc, flight>>
busVars == <<run, at, conn, n, out, filters, pending, thread, broker, handling,
             lost, messages>>
watchVars == <<obj, copy, memo, clock, last, wake>>
checkVars == <<account, note, job, asked, settled>>
vars == <<focus, leaderVars, busVars, watchVars, facts, checkVars, queue, seen,
          pass, budget>>

\* The processes and the Lease.
Leader == INSTANCE Leadership WITH Faults <- LeaderFaults \cup LateFaults
Client == INSTANCE Bus

\* An object under every mishap, or one that only the wakes of the watch serve.
Object == INSTANCE Stood WITH Rule <- [k \in Keys |-> "addedOrRemoved"], Replaces <- FALSE,
    Faults <- ObjectFaults \cup WakedFaults

Provider == INSTANCE Providers WITH Rule <- [k \in Keys |-> "edited"],
    Faults <- ProviderFaults \cup UnreadFaults

ASSUME OperatorAssumption ==
    /\ Leader!LeadershipAssumption /\ Client!BusAssumption
    /\ Object!StoodAssumption /\ Provider!ProvidersAssumption

NoLeader == holder = {} /\ proc = {} /\ flight = {}
NoClient ==
    /\ run = {} /\ at = {} /\ conn = {} /\ n = {} /\ out = {} /\ filters = {}
    /\ pending = {} /\ thread = {} /\ broker = {} /\ handling = {} /\ lost = {}
    /\ messages = {}
NoWatch == obj = {} /\ copy = {} /\ memo = {} /\ clock = {} /\ last = {} /\ wake = {}
NoCheck == account = {} /\ note = {} /\ job = {} /\ asked = {} /\ settled = {}

Init ==
    \/ /\ Leader!Init
       /\ \/ focus = "leader" /\ budget \in LeaderFaults
          \/ focus = "late" /\ budget \in LateFaults
       /\ NoClient /\ NoWatch /\ NoCheck
       /\ facts = {} /\ queue = {} /\ seen = {} /\ pass = {}
    \/ /\ focus = "bus" /\ Client!Init
       /\ NoLeader /\ NoWatch /\ NoCheck
       /\ facts = {} /\ seen = {} /\ pass = {} /\ budget = {}
    \/ /\ \/ focus = "object" /\ Object!Init /\ budget \in ObjectFaults
          \/ focus = "waked" /\ Object!Init /\ budget \in WakedFaults
       /\ NoLeader /\ NoClient /\ NoCheck
    \/ /\ Provider!Init
       /\ \/ focus = "provider" /\ budget \in ProviderFaults
          \/ focus = "unread" /\ budget \in UnreadFaults
       /\ NoLeader /\ NoClient /\ facts = {} /\ seen = {}

About(part) == focus = part /\ UNCHANGED focus
OfLeader(part) ==
    About(part) /\ UNCHANGED <<busVars, watchVars, facts, checkVars, queue, seen, pass>>
OfBus ==
    /\ About("bus")
    /\ UNCHANGED <<leaderVars, watchVars, facts, checkVars, seen, pass, budget>>
OfObject(part) == About(part) /\ UNCHANGED <<leaderVars, busVars, checkVars>>
OfProvider(part) == About(part) /\ UNCHANGED <<leaderVars, busVars, facts, seen>>

Next ==
    \/ OfLeader("leader") /\ Leader!Next
    \/ OfLeader("late") /\ Leader!Next
    \/ OfBus /\ Client!Next
    \/ OfObject("object") /\ Object!Next
    \/ OfObject("waked") /\ Object!Next
    \/ OfProvider("provider") /\ Provider!Next
    \/ OfProvider("unread") /\ Provider!Next

\* Each part's own Fairness, and nothing of a part's where it is here for safety alone.
\* For "waked" no ticker need start a pass: the wakes of the watch do.  A behaviour is
\* about one part, so a condition here may be that of an action of several parts.
Fairness ==
    /\ WF_vars(
           \/ OfLeader("leader") /\ Leader!Tick
           \/ OfBus /\ Client!Session
           \/ OfObject("object") /\ Object!PassSteps
           \/ OfObject("waked") /\ Object!PassSteps
           \/ OfProvider("provider") /\ Provider!PassSteps
           \/ OfProvider("unread") /\ Provider!PassSteps)
    /\ WF_vars(
           \/ OfBus /\ Client!StopBus
           \/ OfObject("object") /\ Object!DeliverObject
           \/ OfObject("waked") /\ Object!DeliverObject
           \/ OfProvider("provider") /\ Provider!DeliverProvider
           \/ OfProvider("unread") /\ Provider!DeliverProvider)
    /\ WF_vars(
           \/ OfBus /\ Client!Handled
           \/ OfObject("object") /\ Object!DeliverFacts
           \/ OfObject("waked") /\ Object!DeliverFacts
           \/ OfProvider("provider") /\ Provider!TimePasses
           \/ OfProvider("unread") /\ Provider!TimePasses)
    /\ WF_vars(
           \/ OfBus /\ Client!BrokerNotices
           \/ OfObject("object") /\ (Object!Take \/ Object!TickStarts)
           \/ OfObject("waked") /\ Object!Take)
    /\ WF_vars(OfBus /\ Client!Return)
    /\ \A p \in Procs :
           /\ WF_vars(OfLeader("leader") /\ Leader!Look(p))
           /\ WF_vars(OfLeader("leader") /\ Leader!Take(p))
           /\ WF_vars(OfLeader("leader") /\ Leader!GiveUp(p))
           /\ WF_vars(OfLeader("leader") /\ Leader!Lose(p))
           /\ WF_vars(OfLeader("leader") /\ Leader!Quiet(p))
           /\ WF_vars(OfLeader("leader") /\ Leader!ReadLease(p))
           /\ WF_vars(OfLeader("leader") /\ Leader!WriteLease(p))
           /\ WF_vars(OfLeader("leader") /\ Leader!Conflict(p))

Spec == Init /\ [][Next]_vars /\ Fairness

-----------------------------------------------------------------------------
(* The properties of the parts, each where it is about something.           *)

\* Types, of every part.
TypeOK ==
    /\ focus = "leader" => Leader!TypeOK
    /\ focus = "late" => Leader!TypeOK
    /\ focus = "bus" => Client!TypeOK
    /\ focus = "object" => Object!TypeOK
    /\ focus = "waked" => Object!TypeOK
    /\ focus = "provider" => Provider!TypeOK
    /\ focus = "unread" => Provider!TypeOK

\* Leadership: two operators never act at once, and a quiet step-down frees the
\* Lease at once.
OneActs ==
    /\ focus = "leader" => Leader!OneActs /\ Leader!SteppedDownIsFree
    /\ focus = "late" => Leader!SteppedDownIsFree

\* Bus: a session with nothing in its queue hears every filter, and says so.
SessionIsWhole == focus = "bus" => Client!SessionIsWhole

\* Stood: a pass that leaves an object alone saw what this operator wrote last, and
\* it never writes over what it did not read.
StandsOnWhatItRead ==
    [][/\ focus = "object" => Object!LeftAloneIsNew /\ Object!NoBlindWrite
       /\ focus = "waked" => Object!LeftAloneIsNew /\ Object!NoBlindWrite]_vars

\* Providers: one undisturbed pass leaves the verdict of this very provider.
OnePassSettles == focus = "provider" => Provider!OnePassSettles

\* Providers: one process does not call a provider before its interval is over.
CallsAreSpaced ==
    [][/\ focus = "provider" => Provider!CallsAreSpaced
       /\ focus = "unread" => Provider!CallsAreSpaced]_vars

\* The operator catches up: some process leads; a stop of the bus ends; an object
\* comes to be what the operator builds; and a status comes to say what the provider
\* answers.
Leaderless == focus = "leader" /\ Leader!SomeoneWaits /\ ~\E p \in Procs : Leader!Acts(p)
Stopping == focus = "bus" /\ run # "on" /\ ~Client!Stopped
Behind ==
    \/ Leaderless \/ Stopping
    \/ focus = "object" /\ ~Object!Stands
    \/ focus = "waked" /\ ~Object!Stands
    \/ focus = "provider" /\ ~Provider!Shows
    \/ focus = "unread" /\ ~Provider!Shows
OperatorCatchesUp == Behind ~> ~Behind
=============================================================================
