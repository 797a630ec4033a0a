------------------------------ MODULE Jellyfin ------------------------------
(***************************************************************************)
(* The outbound half of the jellyfin role (jellyfinoutbound.go) with its   *)
(* index (jellyfinindex.go): one Play of one person, joined in memory from *)
(* the playback pod's status and the operator's audience and final, and    *)
(* written to a Jellyfin server.  Two goroutines write: the bus reader, at *)
(* a final, and the ten-second tick.  Each copies the join under the mutex *)
(* and makes its requests without it.                                      *)
(***************************************************************************)
EXTENDS Naturals, FiniteSets

CONSTANTS
    Duration,   \* the length of the work, which a Play runs through
    Faults      \* bound: restarts, failed requests, late reports, index ageings

JellyfinAssumption ==
    /\ Duration \in Nat \ {0}
    /\ Faults \in [{"restart", "fails", "late", "ages"} -> Nat]

VARIABLES
    said,     \* what the operator holds retained: "", "audience", "final", "clear"
    pod,      \* the position of the last report of the playback pod
    heard,    \* what the reader took of each since the role started
    play,     \* the join: jellyfinPlay, or {} before the first message
    thread,   \* where each writing goroutine is
    index,    \* whether the index holds the item, and is too young to rebuild
    hasItem,  \* whether the server's library holds the item yet
    server,   \* the position the server holds for the person, and played
    reports,  \* history: where the server began, and every position reported
    budget

vars == <<said, pod, heard, play, thread, index, hasItem, server, reports, budget>>
world == <<said, pod>>

Threads == {"reader", "tick"}
Idle == [at |-> "idle", copy |-> 0]
AtZero ==      \* mutant: no report is position zero
    [position |-> 0, reported |-> TRUE, claimed |-> FALSE, written |-> {}]
NoPlay == [position |-> 0, reported |-> FALSE, claimed |-> FALSE, written |-> {}]

Init ==
    /\ said = "" /\ pod = 0
    /\ heard = [op |-> "", pod |-> 0]
    /\ play = {}
    /\ thread = [t \in Threads |-> Idle]
    /\ index = [holds |-> FALSE, young |-> FALSE]
    /\ hasItem \in BOOLEAN
    /\ server \in [position : {0, 1}, played : {FALSE}]
    /\ reports = {server.position}
    /\ budget = Faults

Spend(kind) == budget[kind] > 0 /\ budget' = [budget EXCEPT ![kind] = @ - 1]

-----------------------------------------------------------------------------
(* What is published around the role.                                      *)

PodReports ==
    /\ said \in {"", "audience"} /\ pod < Duration
    /\ pod' = pod + 1
    /\ UNCHANGED <<said, heard, play, thread, index, hasItem, server, reports, budget>>

\* The operator publishes the audience, then the final, and clears both with
\* the release of the Play.
OperatorSays ==
    /\ \/ said = "" /\ said' = "audience"
       \/ said = "audience" /\ pod > 0 /\ said' = "final"
       \/ said = "final" /\ said' = "clear"
    /\ UNCHANGED <<pod, heard, play, thread, index, hasItem, server, reports, budget>>

ServerGainsItem ==
    /\ ~hasItem /\ hasItem' = TRUE
    /\ UNCHANGED <<world, heard, play, thread, index, server, reports, budget>>

-----------------------------------------------------------------------------
(* The bus reader: onMessage, one message at a time, and never one while a *)
(* final's write is under way.                                             *)

\* entry: the join of this Play, made on the first message of any topic.
Entry == IF play = {} THEN NoPlay ELSE CHOOSE held \in play : TRUE
HeldBeside(held) == play' = play \cup {held}     \* mutant: the entry is added
Held(held) == play' = {held}
ReaderFree == thread["reader"] = Idle

\* status folds a position.  It does not ask whether the final came.
ReadStatus(pos) ==
    /\ ReaderFree
    /\ Held([Entry EXCEPT !.position = pos, !.reported = TRUE])
    /\ reports' = reports \cup {pos}

ReadNewStatus ==
    /\ heard.pod < pod
    /\ ReadStatus(pod)
    /\ heard' = [heard EXCEPT !.pod = pod]
    /\ UNCHANGED <<world, thread, index, hasItem, server, budget>>

\* A report that was under way when the final was published, or that the pod
\* sends for about a second past it.
ReadLateStatus ==
    /\ heard.op = "final" /\ heard.pod = pod
    /\ Spend("late")
    /\ \E pos \in 1..Duration : ReadStatus(pos)
    /\ UNCHANGED <<world, heard, thread, index, hasItem, server>>

ReadAudience ==
    /\ ReaderFree /\ said \in {"audience", "final"} /\ heard.op = ""
    /\ Held([Entry EXCEPT !.claimed = TRUE])
    /\ heard' = [heard EXCEPT !.op = "audience"]
    /\ UNCHANGED <<world, thread, index, hasItem, server, reports, budget>>

\* final folds the last position and goes into write on this goroutine.
ReadFinal ==
    /\ ReaderFree /\ said = "final" /\ heard.op = "audience"
    /\ Held([Entry EXCEPT !.position = pod, !.reported = TRUE])
    /\ reports' = reports \cup {pod}
    /\ heard' = [heard EXCEPT !.op = "final", !.pod = pod]
    /\ thread' = [thread EXCEPT !["reader"] = [at |-> "write", copy |-> 0]]
    /\ UNCHANGED <<world, index, hasItem, server, budget>>

\* forget, at the clear of a topic.
ReadClear ==
    /\ ReaderFree /\ said = "clear" /\ heard.op \in {"audience", "final"}
    /\ play' = {}
    /\ heard' = [heard EXCEPT !.op = "clear"]
    /\ UNCHANGED <<world, thread, index, hasItem, server, reports, budget>>

-----------------------------------------------------------------------------
(* write, on either goroutine.                                             *)

Goes(t, at, copy) == thread' = [thread EXCEPT ![t] = [at |-> at, copy |-> copy]]

\* moved: the tick takes up a Play that reported and whose position is not the
\* one written last.
Moved == \E held \in play : held.reported /\ held.written # {held.position}
TickWrites ==
    /\ thread["tick"] = Idle /\ Moved
    /\ Goes("tick", "write", 0)
    /\ UNCHANGED <<world, heard, play, index, hasItem, server, reports, budget>>

\* write copies the Play under the mutex, and goes no further with a Play that
\* was forgotten, that nobody claimed, or that no report reached.
CopyPlay(t) ==
    /\ thread[t].at = "write"
    /\ IF \E held \in play : held.claimed /\ held.reported
       THEN Goes(t, "lookup", Entry.position) ELSE Goes(t, "idle", 0)
    /\ UNCHANGED <<world, heard, play, index, hasItem, server, reports, budget>>

\* itemFor and find: an index that holds the item answers; a miss rebuilds, at
\* most once a minute, and refreshItems stamps the time before the listing is
\* read, so a miss beside a build answers not found.
LookUp(t) ==
    /\ thread[t].at = "lookup"
    /\ IF index.holds THEN Goes(t, "post", thread[t].copy) /\ UNCHANGED index
       ELSE IF index.young THEN Goes(t, "idle", 0) /\ UNCHANGED index
       ELSE /\ index' = [index EXCEPT !.young = TRUE]
            /\ Goes(t, "build", thread[t].copy)
    /\ UNCHANGED <<world, heard, play, hasItem, server, reports, budget>>

\* build and hold: the listing in place of the whole index, or the index as it
\* was where a page failed; then the second find.
Build(t) ==
    /\ thread[t].at = "build"
    /\ \/ /\ index' = [index EXCEPT !.holds = hasItem]
          /\ IF hasItem THEN Goes(t, "post", thread[t].copy) ELSE Goes(t, "idle", 0)
          /\ UNCHANGED budget
       \/ /\ Spend("fails")
          /\ Goes(t, "idle", 0)
          /\ UNCHANGED index
    /\ UNCHANGED <<world, heard, play, hasItem, server, reports>>

\* writeOne: the request reaches the server; a refused one, or one that took
\* longer than its ten seconds, leaves a line and the write goes on.
Watched(position) == Duration - position = 0
PostUserData(t) ==
    /\ thread[t].at = "post"
    /\ Goes(t, "wrote", thread[t].copy)
    /\ \/ /\ server' = [position |-> thread[t].copy, played |-> Watched(thread[t].copy)]
          /\ UNCHANGED budget
       \/ Spend("fails") /\ UNCHANGED server
    /\ UNCHANGED <<world, heard, play, index, hasItem, reports>>

\* The last of write: the copied position is what was written last, whether
\* the request was answered well or not.  The pointer is still the Play's, so
\* a Play forgotten meanwhile is written to and dropped.
MarkJoin(t) ==                     \* mutant: what the join holds now counts as written
    /\ thread[t].at = "wrote"
    /\ play' = {[held EXCEPT !.written = {held.position}] : held \in play}
    /\ Goes(t, "idle", 0)
    /\ UNCHANGED <<world, heard, index, hasItem, server, reports, budget>>
MarkWritten(t) ==
    /\ thread[t].at = "wrote"
    /\ play' = {[held EXCEPT !.written = {thread[t].copy}] : held \in play}
    /\ Goes(t, "idle", 0)
    /\ UNCHANGED <<world, heard, index, hasItem, server, reports, budget>>

Write(t) == CopyPlay(t) \/ LookUp(t) \/ Build(t) \/ PostUserData(t) \/ MarkWritten(t)

\* An hour or a minute passes: the index may be built again.
IndexAges ==
    /\ index.young /\ \A t \in Threads : thread[t].at # "build"
    /\ Spend("ages")
    /\ index' = [index EXCEPT !.young = FALSE]
    /\ UNCHANGED <<world, heard, play, thread, hasItem, server, reports>>

\* The pod restarts: the join, the index and the requests are gone, and the
\* retained messages come again.
Restart ==
    /\ Spend("restart")
    /\ heard' = [op |-> "", pod |-> 0]
    /\ play' = {}
    /\ thread' = [t \in Threads |-> Idle]
    /\ index' = [holds |-> FALSE, young |-> FALSE]
    /\ UNCHANGED <<world, hasItem, server, reports>>

-----------------------------------------------------------------------------
Read == ReadNewStatus \/ ReadAudience \/ ReadFinal \/ ReadClear

Next ==
    \/ PodReports \/ OperatorSays \/ ServerGainsItem
    \/ Read \/ ReadLateStatus
    \/ TickWrites \/ \E t \in Threads : Write(t)
    \/ IndexAges \/ Restart

\* The reader reads, the tick comes, a request is answered.
Fairness ==
    /\ WF_vars(Read)
    /\ WF_vars(TickWrites)
    /\ \A t \in Threads : WF_vars(Write(t))

Spec == Init /\ [][Next]_vars /\ Fairness

-----------------------------------------------------------------------------
\* Types.
TypeOK ==
    /\ said \in {"", "audience", "final", "clear"} /\ pod \in 0..Duration
    /\ Cardinality(play) <= 1
    /\ \A held \in play : held \in [position : 0..Duration, reported : BOOLEAN,
           claimed : BOOLEAN, written : SUBSET (0..Duration)]
    /\ thread \in [Threads -> [at : {"idle", "write", "lookup", "build", "post", "wrote"},
                               copy : 0..Duration]]
    /\ index \in [holds : BOOLEAN, young : BOOLEAN] /\ hasItem \in BOOLEAN

\* No person's resume point is moved to the beginning by the join: what the
\* server holds is what it held at first, or a position some report carried
\* (jellyfinPlay.reported).
WrittenWasReported == server.position \in reports

\* While the Play runs, and the index holds its item, the server comes to hold
\* the position of the join: a position that moved during a write is a Play
\* that is still moved, because written is the copy and not the join.
Behind ==
    /\ \E held \in play : held.claimed /\ held.reported /\ held.position # server.position
    /\ heard.op = "audience" /\ index.holds /\ budget["fails"] = Faults["fails"]
ServerCatchesUp == Behind ~> ~Behind
=============================================================================
