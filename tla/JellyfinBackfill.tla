-------------------------- MODULE JellyfinBackfill --------------------------
(***************************************************************************)
(* The one-time backfill from a Jellyfin server (jellyfinbackfilljob.go,   *)
(* jellyfinbackfill.go) and the rows its messages share with the webhook's *)
(* (jellyfinwebhook.go, recordOutside of progressstore.go).  One Catalog,  *)
(* one person, one item.  A time is a second; a message is not retained.   *)
(***************************************************************************)
EXTENDS Naturals, FiniteSets

CONSTANTS
    Servers,    \* the URLs spec.jellyfin may name
    MaxAt,      \* bound: the last second
    Faults      \* bound: edits of the Catalog, failed Jobs, lost patches, flaps

BackfillAssumption ==
    /\ MaxAt \in Nat \ {0}
    /\ Faults \in [{"edits", "fails", "conflicts", "flaps"} -> Nat]

VARIABLES
    spec,       \* spec.jellyfin: a set of at most one server
    status,     \* status.jellyfin: a set of at most one [server, backfill]
    job,        \* the backfill Job: a set of at most one [server, state]
    waits,      \* whether the recreate backoff is still to pass
    listening,  \* whether every durable copy of the progress store is up
    now,        \* the clock
    msgs,       \* the messages under way to the progress role
    row,        \* the outside row: [at, ended], at 0 where none stands
    played,     \* what the server says of the person: the second of the last play
    ran,        \* history: the servers a Job read to its end
    handled,    \* history: the seconds of the messages the store answered
    budget

vars == <<spec, status, job, waits, listening, now, msgs, row, played, ran,
          handled, budget>>
outside == <<now, msgs, row, played, handled>>

Init ==
    /\ spec = {} /\ status = {} /\ job = {} /\ waits = FALSE
    /\ listening \in BOOLEAN
    /\ now = 1 /\ msgs = {} /\ row = [at |-> 0, ended |-> FALSE]
    /\ played = 0 /\ ran = {} /\ handled = {}
    /\ budget = Faults

Spend(kind) == budget[kind] > 0 /\ budget' = [budget EXCEPT ![kind] = @ - 1]

-----------------------------------------------------------------------------
EditCatalog ==
    /\ Spend("edits")
    /\ spec' \in ({{}} \cup {{s} : s \in Servers}) \ {spec}
    /\ UNCHANGED <<status, job, waits, listening, outside, ran>>

\* progressStoreListening, as the pods of the durable copies come and go.
StoreGoes ==
    /\ listening /\ listening' = FALSE
    /\ Spend("flaps")
    /\ UNCHANGED <<spec, status, job, waits, outside, ran>>

StoreComes ==
    /\ ~listening /\ listening' = TRUE
    /\ UNCHANGED <<spec, status, job, waits, outside, ran, budget>>

-----------------------------------------------------------------------------
(* standJellyfinBackfill: the pass reads the Job it listed and the status   *)
(* the Catalog holds, and answers the status it should hold.               *)

State == CHOOSE s \in {j.state : j \in job} : TRUE
Server == CHOOSE s \in spec : TRUE
Says(backfill) == {[server |-> Server, backfill |-> backfill]}
BackfilledFrom == Says("finished") = status

\* The status is a patch of its own, and one that meets a conflict is lost.
Report(answer) ==
    \/ status' = answer /\ UNCHANGED budget
    \/ answer # status /\ Spend("conflicts") /\ UNCHANGED status

\* A Catalog that names no server loses the Job and says nothing.
RetireBackfill ==
    /\ spec = {} /\ (job # {} \/ status # {})
    /\ job' = {} /\ waits' = FALSE
    /\ Report({})
    /\ UNCHANGED <<spec, listening, outside, ran>>

\* readJellyfinBackfillJob: the verdict of the Job that stands.
ReadFailedStands ==                \* mutant: the Job that gave up is kept
    /\ spec # {} /\ job # {}
    /\ Report(Says(CASE State = "succeeded" -> "finished" [] State = "gaveUp" -> "failed"
                     [] OTHER -> "running"))
    /\ waits' = (waits /\ State # "succeeded")
    /\ UNCHANGED <<spec, job, listening, outside, ran>>
ReadBackfillJob ==
    /\ spec # {} /\ job # {}
    /\ \/ State = "succeeded" /\ waits' = FALSE /\ UNCHANGED job /\ Report(Says("finished"))
       \/ State = "gaveUp" /\ job' = {} /\ UNCHANGED waits /\ Report(Says("failed"))
       \/ State = "running" /\ UNCHANGED <<job, waits>> /\ Report(Says("running"))
    /\ UNCHANGED <<spec, listening, outside, ran>>

\* With no Job and no finish against this server, the Job is created once the
\* store is up and the backoff allows it; the pass says pending till then.
StandBackfill ==
    /\ spec # {} /\ job = {} /\ ~BackfilledFrom
    /\ IF listening /\ ~waits
       THEN /\ job' = {[server |-> Server, state |-> "running"]}
            /\ waits' = TRUE
            /\ Report(Says("running"))
       ELSE UNCHANGED <<job, waits>> /\ Report(Says("pending"))
    /\ UNCHANGED <<spec, listening, outside, ran>>

BackoffPasses ==
    /\ waits /\ job = {}
    /\ waits' = FALSE
    /\ UNCHANGED <<spec, status, job, listening, outside, ran, budget>>

\* retireSucceededJobs, or the Job's own time to live.
RetireSucceeded ==
    /\ job # {} /\ State = "succeeded"
    /\ job' = {}
    /\ UNCHANGED <<spec, status, waits, listening, outside, ran, budget>>

-----------------------------------------------------------------------------
(* The Job: run and carry.  One message per item, of the second the server  *)
(* holds for it; an item with none carries the floor (jellyfinBackfillAt). *)

BackfillFloor == 1
RunBackfill ==
    /\ job # {} /\ State = "running"
    /\ \/ /\ job' = {[j EXCEPT !.state = "succeeded"] : j \in job}
          /\ ran' = ran \cup {j.server : j \in job}
          /\ msgs' = msgs \cup {[at |-> IF played = 0 THEN BackfillFloor ELSE played,
                                 ended |-> played # 0]}
          /\ UNCHANGED budget
       \/ /\ Spend("fails")
          /\ job' = {[j EXCEPT !.state = "gaveUp"] : j \in job}
          /\ UNCHANGED <<msgs, ran>>
    /\ UNCHANGED <<spec, status, waits, listening, now, row, played, handled>>

\* A person plays in Jellyfin: the webhook publishes each event at its second.
PlayOutside(ended) ==
    /\ now < MaxAt
    /\ now' = now + 1
    /\ played' = now + 1
    /\ msgs' = msgs \cup {[at |-> now + 1, ended |-> ended]}
    /\ UNCHANGED <<spec, status, job, waits, listening, row, ran, handled, budget>>

\* recordOutside: the newer second wins, and a tie leaves the row.
RecordLatest(m) ==                 \* mutant: the last to arrive wins
    /\ m \in msgs
    /\ msgs' = msgs \ {m}
    /\ row' = m
    /\ handled' = handled \cup {m.at}
    /\ UNCHANGED <<spec, status, job, waits, listening, now, played, ran, budget>>
RecordOutside(m) ==
    /\ m \in msgs
    /\ msgs' = msgs \ {m}
    /\ row' = IF m.at > row.at THEN m ELSE row
    /\ handled' = handled \cup {m.at}
    /\ UNCHANGED <<spec, status, job, waits, listening, now, played, ran, budget>>

\* The role is off the bus: the message is nobody's.
LoseMessage(m) ==
    /\ m \in msgs /\ ~listening
    /\ msgs' = msgs \ {m}
    /\ UNCHANGED <<spec, status, job, waits, listening, now, row, played, ran,
                   handled, budget>>

-----------------------------------------------------------------------------
Pass == RetireBackfill \/ ReadBackfillJob \/ StandBackfill

Next ==
    \/ EditCatalog \/ StoreGoes \/ StoreComes
    \/ Pass \/ BackoffPasses \/ RetireSucceeded
    \/ RunBackfill
    \/ \E ended \in BOOLEAN : PlayOutside(ended)
    \/ \E m \in msgs : RecordOutside(m) \/ LoseMessage(m)

\* The pass comes back, the waits end, the Job runs, and a store that is down
\* comes up again.
Fairness ==
    /\ WF_vars(Pass) /\ WF_vars(BackoffPasses) /\ WF_vars(RunBackfill)
    /\ WF_vars(StoreComes)

Spec == Init /\ [][Next]_vars /\ Fairness

-----------------------------------------------------------------------------
\* Types.
TypeOK ==
    /\ Cardinality(spec) <= 1 /\ spec \subseteq Servers
    /\ Cardinality(status) <= 1 /\ status \subseteq
           [server : Servers, backfill : {"pending", "running", "finished", "failed"}]
    /\ Cardinality(job) <= 1 /\ job \subseteq
           [server : Servers, state : {"running", "succeeded", "gaveUp"}]
    /\ waits \in BOOLEAN /\ listening \in BOOLEAN
    /\ row \in [at : 0..MaxAt, ended : BOOLEAN]

\* An outside row is the newest event the store was told of: a backfill that
\* arrives after a play, or two posts out of order, rewind nothing.
NewestEventWins == \A at \in handled : at <= row.at

\* A Catalog that names a server is not left with its backfill undone, through
\* lost patches, failed Jobs and a store that comes and goes.
BackfillEnds ==
    \A s \in Servers : (spec = {s}) ~> (spec # {s} \/ s \in ran)

\* "A Catalog whose spec.jellyfin.url changed is a different server, and its
\* backfill runs again" (backfilledFrom): a status that says finished names a
\* server some Job read.
FinishedWasRead == \A said \in status : said.backfill = "finished" => said.server \in ran
=============================================================================
