------------------------------- MODULE Media --------------------------------
(* The parts of the media side share no state, so their modules compose as  *)
(* a sum: focus says which part a behaviour is about, and never changes.    *)
EXTENDS Naturals, Sequences, FiniteSets

CONSTANTS
    Namespaces, Plays, People, Home, MaxPos,    \* of Progress,
    PlayFaults, RoughFaults,                    \* about Plays,
    PersonFaults, RebornFaults,                 \* and about People,
    Apart,                                      \* bound: never about both at once
    Duration, BridgeFaults,                     \* of Jellyfin
    Servers, MaxAt, BackfillFaults              \* of JellyfinBackfill

VARIABLES
    focus,
    stores, plays, people, rows, net, conn, published, recorded, forgotten,
    clearing, asked,
    said, pod, heard, play, thread, index, hasItem, server, reports,
    spec, status, job, waits, listening, now, msgs, row, played, ran, handled,
    budget

progressVars == <<stores, plays, people, rows, net, conn, published, recorded,
                  forgotten, clearing, asked>>
jellyfinVars == <<said, pod, heard, play, thread, index, hasItem, server, reports>>
backfillVars == <<spec, status, job, waits, listening, now, msgs, row, played,
                  ran, handled>>
vars == <<focus, progressVars, jellyfinVars, backfillVars, budget>>

\* The Plays, and the People of several namespaces, under the faults that the code
\* recovers from; and each, for safety alone, under those that stop a deletion for good.
Store == INSTANCE Progress WITH
    Faults <- PlayFaults \cup RoughFaults \cup PersonFaults \cup RebornFaults
Bridge == INSTANCE Jellyfin WITH Faults <- BridgeFaults
Backfill == INSTANCE JellyfinBackfill WITH Faults <- BackfillFaults

ASSUME MediaAssumption ==
    /\ Store!ProgressAssumption /\ Apart \in BOOLEAN
    /\ Bridge!JellyfinAssumption /\ Backfill!BackfillAssumption

NoProgress ==
    /\ stores = {} /\ plays = {} /\ people = {} /\ rows = {} /\ net = {}
    /\ conn = {} /\ published = {} /\ recorded = {} /\ forgotten = {}
    /\ clearing = {} /\ asked = {}
NoBridge ==
    /\ said = {} /\ pod = {} /\ heard = {} /\ play = {} /\ thread = {}
    /\ index = {} /\ hasItem = {} /\ server = {} /\ reports = {}
NoBackfill ==
    /\ spec = {} /\ status = {} /\ job = {} /\ waits = {} /\ listening = {}
    /\ now = {} /\ msgs = {} /\ row = {} /\ played = {} /\ ran = {}
    /\ handled = {}

\* Apart, a behaviour of the store is about Plays that name nobody, with no store but
\* of their own namespaces, or about People.
PlaysAlone ==
    (\A a \in People : people[a].life = "gone") /\ stores \subseteq {Home[p] : p \in Plays}
PeopleAlone == \A p \in Plays : plays[p].phase = "gone"
Init ==
    \/ /\ Store!Init /\ NoBridge /\ NoBackfill
       /\ \/ /\ focus = "play" /\ budget \in PlayFaults
             /\ Apart => PlaysAlone
          \/ /\ focus = "rough" /\ budget \in RoughFaults
             /\ Apart => PlaysAlone
          \/ /\ focus = "person" /\ budget \in PersonFaults
             /\ Apart => PeopleAlone
          \/ /\ focus = "reborn" /\ budget \in RebornFaults
             /\ Apart => PeopleAlone
    \/ focus = "bridge" /\ Bridge!Init /\ NoProgress /\ NoBackfill
    \/ focus = "backfill" /\ Backfill!Init /\ NoProgress /\ NoBridge

About(part) == focus = part /\ UNCHANGED focus
OfProgress(part) == About(part) /\ UNCHANGED <<jellyfinVars, backfillVars>>
OfBridge == About("bridge") /\ UNCHANGED <<progressVars, backfillVars>>
OfBackfill == About("backfill") /\ UNCHANGED <<progressVars, jellyfinVars>>

Next ==
    \/ OfProgress("play") /\ Store!Next
    \/ OfProgress("person") /\ Store!Next
    \/ OfProgress("rough") /\ Store!Next
    \/ OfProgress("reborn") /\ Store!Next
    \/ OfBridge /\ Bridge!Next
    \/ OfBackfill /\ Backfill!Next

\* Each part's own Fairness, and nothing of a part's where it is here for safety alone.
\* A behaviour is about one part, so a condition here may be that of an action of
\* several parts.
Recovers == OfProgress("play") \/ OfProgress("person")
Fairness ==
    /\ \A p \in Plays : WF_vars(OfProgress("play") /\ Store!PassStep(p))
    /\ \A a \in People : WF_vars(OfProgress("person") /\ Store!PersonStep(a))
    /\ \A n \in Namespaces : WF_vars(Recovers /\ Store!HandleMessage(n))
    /\ \A c \in Store!Clients : WF_vars(Recovers /\ Store!Connect(c))
    /\ WF_vars(\/ OfProgress("play") /\ Store!RetainRecorded
               \/ OfBridge /\ Bridge!Read
               \/ OfBackfill /\ Backfill!Pass)
    /\ WF_vars(\/ Recovers /\ Store!ClearTopic
               \/ OfBridge /\ Bridge!TickWrites
               \/ OfBackfill /\ Backfill!BackoffPasses)
    /\ WF_vars(\/ Recovers /\ Store!FoldMark
               \/ OfBridge /\ Bridge!Write("reader")
               \/ OfBackfill /\ Backfill!RunBackfill)
    /\ WF_vars(\/ OfBridge /\ Bridge!Write("tick")
               \/ OfBackfill /\ Backfill!StoreComes)

Spec == Init /\ [][Next]_vars /\ Fairness

-----------------------------------------------------------------------------
(* The properties of the parts, each where it is about something.           *)

\* Types, of every part.
OfStore == focus \in {"play", "rough", "person", "reborn"}
TypeOK ==
    /\ OfStore => Store!TypeOK
    /\ focus = "bridge" => Bridge!TypeOK
    /\ focus = "backfill" => Backfill!TypeOK

\* Progress: no mark says more than the store holds.
MarksAreTrue == OfStore => Store!MarksAreTrue

\* Progress: a Play is let go only when the store holds its end, and a Person only
\* when every store forgot this very Person.
ReleaseIsEarned ==
    [][OfStore => Store!RecordBeforeRelease /\ Store!ForgetBeforeRelease]_vars

\* Progress: a late report does not reopen a row that ended.
EndedStays == [][OfStore => Store!RowStaysEnded]_vars

\* Jellyfin: a write moves nobody's resume point to where no report put it.
WrittenWasReported == focus = "bridge" => Bridge!WrittenWasReported

\* JellyfinBackfill: an outside row is the newest event the store was told of.
NewestEventWins == focus = "backfill" => Backfill!NewestEventWins

\* What the media side owes comes: a deleted Play and a deleted Person go, a server
\* comes to hold the position of a Play that runs, and a server that stays named is
\* read to its end.
Owed ==
    \/ focus = "play" /\ \E p \in Plays : plays[p].deleting /\ plays[p].phase # "gone"
    \/ focus = "person" /\ \E a \in People : people[a].life = "deleting"
    \/ focus = "bridge" /\ Bridge!Behind
    \/ focus = "backfill" /\ \E s \in spec : s \notin ran
MediaCatchesUp == Owed ~> ~Owed
=============================================================================
