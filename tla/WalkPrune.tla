----------------------------- MODULE WalkPrune -----------------------------
(***************************************************************************)
(* The mark-and-sweep of one Library's catalog.                            *)
(*                                                                         *)
(* A full walk reads every title folder, writes its rows and marks their   *)
(* keys with the walk's epoch, then sweeps the rows that carry another     *)
(* epoch's mark or none.  A rescan does the same for one folder.  The scan *)
(* container of a Job runs either; the identity container of the same Job  *)
(* rescans each title it identifies, in a process of its own that shares   *)
(* no mutex with the walk; and a fact writes art, and its rows, beside     *)
(* both.                                                                   *)
(*                                                                         *)
(* A row is a title and what it is: an item under the title's key, a file, *)
(* or the link of the art to the item.  Aliases, credits, genres and       *)
(* trailers are swept as links are, by their mark alone.  An epoch is the  *)
(* actor that holds it: a mark of an earlier epoch is no mark, because     *)
(* every read of the marks asks for one epoch.                             *)
(***************************************************************************)
EXTENDS Integers, FiniteSets

CONSTANTS
    Titles,        \* title folders of the volume
    Identifiable,  \* the titles that the identity role can identify
    Illustrated,   \* the titles that a fact can write art for
    Departing,     \* the titles that can come to the volume and leave it
    BatchLimit,    \* scanFlushBatch
    RatioFloor     \* pruneRatioFloor

ASSUME WalkAssumption ==
    /\ IsFiniteSet(Titles)
    /\ Identifiable \subseteq Titles
    /\ Illustrated \subseteq Titles
    /\ Departing \subseteq Titles
    /\ BatchLimit \in Nat \ {0}
    /\ RatioFloor \in Nat

Actors == {"scan", "identity"}
Other(a) == IF a = "scan" THEN "identity" ELSE "scan"

\* The tables, by what a row of a title is.
ItemKinds == {"raw", "known"}
FileKinds == {"video", "art"}
LinkKinds == {"rawArt", "knownArt"}
Rows == Titles \X (ItemKinds \cup FileKinds \cup LinkKinds)

Table(name) ==
    CASE name = "items" -> Titles \X ItemKinds
      [] name = "files" -> Titles \X FileKinds
      [] name = "links" -> Titles \X LinkKinds
Links == Table("links")

RowsOf(S) == {r \in Rows : r[1] \in S}

VARIABLES
    key,      \* the volume: what keys each title, "none" for no folder
    art,      \* the volume: the titles with art
    rows,     \* the catalog
    seen,     \* the seen table: the actor whose epoch marked the row
    fresh,    \* the titles whose art is not older than an actor's epoch
    act,      \* the walk or rescan each actor is in
    turn,     \* what the scan container of the Job still has to do
    owing,    \* the titles whose art a fact wrote with its rows to come
    kept,     \* observation: rows the catalog was given and the volume holds
    exposed,  \* observation: rows written beside a walk that may sweep them
    gone      \* observation: rows off the volume since an actor's epoch

volume == <<key, art>>
ghosts == <<kept, exposed, gone>>
vars   == <<key, art, rows, seen, fresh, act, turn, owing, kept, exposed, gone>>

Idle == [pc |-> "idle", full |-> FALSE, scope |-> {}, todo |-> {}, buffer |-> {},
         error |-> FALSE, before |-> 0, found |-> 0, table |-> "items",
         doomed |-> {}, older |-> FALSE]

Stages == {"idle", "asked", "read", "put", "mark",
           "settle", "sweep", "delete", "clean"}
Passes == [pc : Stages, full : BOOLEAN, scope : SUBSET Titles, todo : SUBSET Titles,
           buffer : SUBSET Rows, error : BOOLEAN, before : Nat, found : Nat,
           table : {"items", "links", "files"}, doomed : SUBSET Rows, older : BOOLEAN]

TypeOK ==
    /\ key \in [Titles -> {"none"} \cup ItemKinds]
    /\ art \subseteq Illustrated
    /\ rows \subseteq Rows
    /\ seen \in [Rows -> Actors \cup {"none"}]
    /\ fresh \in [Actors -> SUBSET Illustrated]
    /\ act \in [Actors -> Passes]
    /\ turn \in {"full", "folders", "done"}
    /\ owing \subseteq Illustrated
    /\ kept \subseteq Rows
    /\ exposed \subseteq Rows
    /\ gone \in [Actors -> SUBSET Rows]

\* The actor has taken an epoch and is not done with it.
Busy(a) == act[a].pc \notin {"idle", "asked"}

-----------------------------------------------------------------------------
(* The volume.                                                             *)

\* What a read of a title's folder answers.
Folder(t) ==
    IF key[t] = "none" THEN {}
    ELSE {<<t, key[t]>>, <<t, "video">>} \cup
         (IF t \in art
          THEN {<<t, "art">>, <<t, IF key[t] = "raw" THEN "rawArt" ELSE "knownArt">>}
          ELSE {})
OnVolume == UNION {Folder(t) : t \in Titles}

\* The observations after a change of the volume.
Observe ==
    /\ kept' = kept \cap OnVolume'
    /\ gone' = [a \in Actors |-> gone[a] \ OnVolume']
    /\ UNCHANGED exposed

Init ==
    /\ key = [t \in Titles |-> IF t \in Departing THEN "none" ELSE "raw"]
    /\ art = {}
    /\ rows = {}
    /\ seen = [r \in Rows |-> "none"]
    /\ fresh = [a \in Actors |-> {}]
    /\ act = [a \in Actors |-> Idle]
    /\ turn = "full"
    /\ owing = {}
    /\ kept = {}
    /\ exposed = {}
    /\ gone = [a \in Actors |-> {}]

Arrives(t) ==
    /\ t \in Departing
    /\ key[t] = "none"
    /\ key' = [key EXCEPT ![t] = "raw"]
    /\ UNCHANGED <<art, rows, seen, fresh, act, turn, owing>>
    /\ Observe

Leaves(t) ==
    /\ t \in Departing
    /\ key[t] # "none"
    /\ key' = [key EXCEPT ![t] = "none"]
    /\ art' = art \ {t}
    /\ fresh' = [a \in Actors |-> fresh[a] \ {t}]
    /\ owing' = owing \ {t}
    /\ UNCHANGED <<rows, seen, act, turn>>
    /\ Observe

-----------------------------------------------------------------------------
(* A walk or a rescan, from its epoch to its last sweep.                   *)

\* Mutant of NewEpoch: a mark of any epoch counts.
AnyEpoch(a) == seen

\* What a new epoch leaves of the marks: the actor's earlier ones are of an
\* old epoch, which no query asks for.
NewEpoch(a) == [r \in Rows |-> IF seen[r] = a THEN "none" ELSE seen[r]]

\* The walk takes its epoch, and counts the items the catalog holds.
Begin(a, full, scope) ==
    LET overlap == IF Busy(Other(a)) THEN scope \cap act[Other(a)].scope ELSE {}
    IN  /\ act' = [act EXCEPT
                     ![a] = [Idle EXCEPT !.pc = "read", !.full = full, !.scope = scope,
                                         !.todo = scope,
                                         !.before = IF full THEN Cardinality(rows \cap Table("items"))
                                                    ELSE 0],
                     ![Other(a)].older = Busy(Other(a))]
        /\ seen' = NewEpoch(a)
        /\ fresh' = [fresh EXCEPT ![a] = {}]
        /\ IF Busy(Other(a))
           THEN exposed' = exposed \cup RowsOf(overlap) /\ UNCHANGED kept
           ELSE exposed' = exposed \ RowsOf(scope) /\ kept' = kept \ (exposed \cap RowsOf(scope))
        /\ gone' = [gone EXCEPT ![a] = RowsOf(scope) \ OnVolume]

\* The walk is over, and its epoch with it.
Ends(a) ==
    /\ act' = [act EXCEPT ![a] = Idle]
    /\ fresh' = [fresh EXCEPT ![a] = {}]
    /\ gone' = [gone EXCEPT ![a] = {}]

\* fullWalk, and rescan of one folder that a webhook named.
BeginWalk ==
    /\ act["scan"].pc = "idle"
    /\ turn = "full"
    /\ turn' = "done"
    /\ Begin("scan", TRUE, Titles)
    /\ UNCHANGED <<volume, rows, owing>>

BeginRescan(t) ==
    /\ act["scan"].pc = "idle"
    /\ turn = "folders"
    /\ Begin("scan", FALSE, {t})
    /\ UNCHANGED <<volume, rows, turn, owing>>

\* writeIdentity: the identity role reads a title with no id from the catalog
\* and writes the id into the folder, where it keys the title from now on.
Identify(t) ==
    /\ act["identity"].pc = "idle"
    /\ t \in Identifiable
    /\ key[t] = "raw"
    /\ <<t, "raw">> \in rows
    /\ key' = [key EXCEPT ![t] = "known"]
    /\ act' = [act EXCEPT !["identity"].pc = "asked", !["identity"].scope = {t}]
    /\ UNCHANGED <<art, rows, seen, fresh, turn, owing>>
    /\ Observe

\* rescanTitle
BeginIdentified ==
    /\ act["identity"].pc = "asked"
    /\ Begin("identity", FALSE, act["identity"].scope)
    /\ UNCHANGED <<volume, rows, turn, owing>>

\* One folder read into the buffer.  The walk flushes at the batch limit and
\* after the last folder.
ReadFolder(a, t) ==
    /\ act[a].pc = "read"
    /\ t \in act[a].todo
    /\ LET buffer == act[a].buffer \cup Folder(t)
           todo   == act[a].todo \ {t}
       IN  act' = [act EXCEPT
                     ![a].todo = todo, ![a].buffer = buffer,
                     ![a].found = @ + Cardinality(Folder(t) \cap Table("items")),
                     ![a].pc = IF todo = {} \/ Cardinality(buffer \cap Table("items")) >= BatchLimit
                               THEN "put" ELSE "read"]
    /\ UNCHANGED <<volume, rows, seen, fresh, turn, owing, ghosts>>

\* A folder the walk could not read in full: a walk goes on and is incomplete,
\* and a rescan writes nothing.
ReadError(a, t) ==
    /\ act[a].pc = "read"
    /\ t \in act[a].todo
    /\ IF act[a].full
       THEN LET todo == act[a].todo \ {t}
            IN  /\ act' = [act EXCEPT ![a].todo = todo, ![a].error = TRUE,
                                      ![a].pc = IF todo = {} THEN "put" ELSE "read"]
                /\ UNCHANGED <<fresh, gone>>
       ELSE Ends(a)
    /\ UNCHANGED <<volume, rows, seen, turn, owing, kept, exposed>>

\* upsertWalk: the buffer's rows, before any of their marks.
PutRows(a) ==
    /\ act[a].pc = "put"
    /\ rows' = rows \cup act[a].buffer
    /\ act' = [act EXCEPT ![a].pc = "mark"]
    /\ UNCHANGED <<volume, seen, fresh, turn, owing, ghosts>>

\* A write that fails leaves the tables before it, and ends the walk.
PutFails(a) ==
    /\ act[a].pc = "put"
    /\ \E written \in {Table("items"), Table("items") \cup Table("files")} :
          rows' = rows \cup (act[a].buffer \cap written)
    /\ Ends(a)
    /\ UNCHANGED <<volume, seen, turn, owing, kept, exposed>>

\* markSeen: a mark that stands takes the new epoch in place.
MarkSeen(a) ==
    /\ act[a].pc = "mark"
    /\ seen' = [r \in Rows |-> IF r \in act[a].buffer THEN a ELSE seen[r]]
    /\ act' = [act EXCEPT ![a].buffer = {},
                          ![a].pc = IF act[a].todo # {} THEN "read"
                                    ELSE IF act[a].full THEN "settle" ELSE "sweep"]
    /\ kept' = kept \cup (act[a].buffer \cap OnVolume)
    /\ UNCHANGED <<volume, rows, fresh, turn, owing, exposed, gone>>

\* incompleteWalk
Incomplete(a) ==
    \/ act[a].error
    \/ act[a].before > RatioFloor /\ 2 * act[a].found < act[a].before

\* The end of the walk: it sweeps only after a complete read that marked.
Settles(a) ==
    /\ act[a].pc = "settle"
    /\ IF Incomplete(a) \/ ~ \E r \in Rows : seen[r] = a
       THEN Ends(a)
       ELSE /\ act' = [act EXCEPT ![a].pc = "sweep", ![a].before = 0, ![a].found = 0]
            /\ UNCHANGED <<fresh, gone>>
    /\ UNCHANGED <<volume, rows, seen, turn, owing, kept, exposed>>

\* Mutant of Unmarked: no time guard on the files.
UnmarkedOfAnyAge(a, table) ==
    {r \in rows \cap Table(table) \cap RowsOf(act[a].scope) : seen[r] # a}

\* The rows a sweep of one table takes: no mark of this epoch, and a file only
\* if it is older than the epoch.
Unmarked(a, table) ==
    {r \in rows \cap Table(table) \cap RowsOf(act[a].scope) :
        /\ seen[r] # a
        /\ ~(r[2] = "art" /\ r[1] \in fresh[a])}

\* Catalog.sweep reads a batch of keys, then deletes it.
SweepReads(a) ==
    /\ act[a].pc = "sweep"
    /\ act' = [act EXCEPT ![a].pc = "delete", ![a].doomed = Unmarked(a, act[a].table)]
    /\ UNCHANGED <<volume, rows, seen, fresh, turn, owing, ghosts>>

SweepDeletes(a) ==
    /\ act[a].pc = "delete"
    /\ rows' = rows \ act[a].doomed
    /\ act' = [act EXCEPT ![a].doomed = {},
                          ![a].pc = IF act[a].table = "files" THEN "clean" ELSE "sweep",
                          ![a].table = IF @ = "items" THEN "links" ELSE "files"]
    /\ UNCHANGED <<volume, seen, fresh, turn, owing, ghosts>>

\* cleanSeen drops the marks behind the walk's epoch.  A rescan drops none.
Finishes(a) ==
    /\ act[a].pc = "clean"
    /\ seen' = [r \in Rows |->
                  IF act[a].full /\ act[Other(a)].older /\ seen[r] = Other(a)
                  THEN "none" ELSE seen[r]]
    /\ Ends(a)
    /\ UNCHANGED <<volume, rows, turn, owing, kept, exposed>>

\* A write or a read of the catalog fails, or the pod ends.
Stops(a) ==
    /\ act[a].pc # "idle"
    /\ Ends(a)
    /\ UNCHANGED <<volume, rows, seen, turn, owing, kept, exposed>>

\* The next Job, or the next pod of this one: every container of the last one
\* has ended.
NextJob ==
    /\ turn \in {"folders", "done"}
    /\ \A a \in Actors : act[a].pc = "idle"
    /\ turn' \in {"full", "folders"}
    /\ UNCHANGED <<volume, rows, seen, fresh, act, owing, ghosts>>

-----------------------------------------------------------------------------
(* A fact that writes art beside a title.                                  *)

\* Mutant of WriteArt: art for a title whose fact is not a gap.
WriteArtAnywhere(t) ==
    /\ t \notin art
    /\ key[t] # "none"
    /\ art' = art \cup {t}
    /\ fresh' = [a \in Actors |-> IF Busy(a) THEN fresh[a] \cup {t} ELSE {}]
    /\ owing' = owing \cup {t}
    /\ UNCHANGED <<key, rows, seen, act, turn>>
    /\ Observe

\* A fact writes a file into the title's folder.
WriteArt(t) ==
    /\ t \in Illustrated \ art
    /\ key[t] # "none"
    /\ art' = art \cup {t}
    /\ fresh' = [a \in Actors |-> IF Busy(a) THEN fresh[a] \cup {t} ELSE {}]
    /\ owing' = owing \cup {t}
    /\ UNCHANGED <<key, rows, seen, act, turn>>
    /\ Observe

\* writeArtRows: the art's file row and its link, as the folder stands now.
WriteArtRows(t) ==
    /\ t \in owing
    /\ LET images == Folder(t) \ {<<t, key[t]>>, <<t, "video">>}
       IN  /\ rows' = rows \cup images
           /\ kept' = kept \cup images
           /\ exposed' = exposed \cup
                UNION {images \cap (Links \cup act[a].doomed) :
                          a \in {b \in Actors : Busy(b) /\ t \in act[b].scope}}
    /\ owing' = owing \ {t}
    /\ UNCHANGED <<volume, seen, fresh, act, turn, gone>>

Next ==
    \/ BeginWalk \/ BeginIdentified \/ NextJob
    \/ \E t \in Titles :
          \/ Arrives(t) \/ Leaves(t) \/ BeginRescan(t) \/ Identify(t)
          \/ WriteArt(t) \/ WriteArtRows(t)
          \/ \E a \in Actors : ReadFolder(a, t) \/ ReadError(a, t)
    \/ \E a \in Actors :
          \/ PutRows(a) \/ PutFails(a) \/ MarkSeen(a)
          \/ Settles(a) \/ SweepReads(a) \/ SweepDeletes(a) \/ Finishes(a) \/ Stops(a)

Spec == Init /\ [][Next]_vars

-----------------------------------------------------------------------------
(* Properties.                                                             *)

\* A row that the catalog was given, and whose file or title is still on the
\* volume, stays in the catalog through every walk, rescan, failure and crash,
\* unless another actor wrote it while a walk or a rescan of its title ran.
SettledRowsStand == kept \ exposed \subseteq rows

\* The same with no exception: nothing written beside a walk is lost to it.
KeptRowsStand == kept \subseteq rows

\* A sweep that ran to its end left no row of what was off the volume since
\* its epoch, so a removal is never missed.
SweepIsComplete ==
    \A a \in Actors :
        act[a].pc = "clean" => rows \cap (gone[a] \ exposed) = {}

=============================================================================
