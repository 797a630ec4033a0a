-------------------------- MODULE WalkPrune_proofs --------------------------
(***************************************************************************)
(* The sweep of a walk takes no row that it should leave and leaves none   *)
(* that it should take, for every volume of finitely many titles and every *)
(* interleaving of the walk, the rescans of the identity role and the      *)
(* facts.  The argument follows a row through one epoch: what the walk     *)
(* reads it marks, so a row that stands on the volume carries the mark, is *)
(* newer than the epoch, or was written beside another walk of its title.  *)
(***************************************************************************)
EXTENDS WalkPrune, FiniteSetTheorems, TLAPS

\* The shape of a pass: it sweeps only with nothing left to read or to mark.
PassShape(a) ==
    /\ act[a].todo \subseteq act[a].scope
    /\ act[a].buffer \subseteq RowsOf(act[a].scope)
    /\ act[a].doomed \subseteq RowsOf(act[a].scope)
    /\ act[a].full => act[a].scope = Titles
    /\ ~act[a].full => ~act[a].error
    /\ ~Busy(a) => act[a].todo = {} /\ act[a].buffer = {} /\ act[a].doomed = {} /\ ~act[a].full
    /\ act[a].pc \in {"settle", "sweep", "delete", "clean"} => act[a].todo = {} /\ act[a].buffer = {}
    /\ act[a].pc \in {"sweep", "delete", "clean"} => ~act[a].error
    /\ act[a].pc \in {"read", "put", "mark", "settle"} => act[a].table = "items"

\* Two walks of one title expose its rows to each other.
OverlapIsExposed ==
    Busy("scan") /\ Busy("identity") =>
        RowsOf(act["scan"].scope \cap act["identity"].scope) \subseteq exposed

\* What the observations say of the volume.
VolumeIsObserved ==
    /\ kept \subseteq OnVolume
    /\ owing \subseteq art
    /\ \A t \in art : key[t] # "none"
    /\ \A a \in Actors :
          /\ fresh[a] \subseteq art
          /\ gone[a] \cap OnVolume = {}
          /\ gone[a] \subseteq RowsOf(act[a].scope)
          /\ ~Busy(a) => gone[a] = {}

\* The art rows that a fact has still to write.
OwedRows == {<<t, "art">> : t \in owing}

\* The sweep of an actor leaves such a row alone.
Known(a, r) == r \in act[a].buffer \/ seen[r] = a \/ (r[2] = "art" /\ r[1] \in fresh[a])

\* A title that was read has no row that the sweep would take by mistake.
ReadIsKnown(a) ==
    Busy(a) /\ ~act[a].error =>
        \A r \in (kept \cup OwedRows) \ exposed :
            r[1] \in act[a].scope \ act[a].todo => Known(a, r)

\* Between its rows and their marks a walk loses none of them.
PutStands(a) == act[a].pc = "mark" => act[a].buffer \subseteq rows \cup exposed

\* No row is doomed by mistake.
DoomedIsLoose(a) == act[a].pc = "delete" => act[a].doomed \cap kept \subseteq exposed

\* A row that is gone since the epoch has no mark of it.
GoneIsUnmarked(a) == \A r \in gone[a] : r \notin act[a].buffer /\ seen[r] # a

\* What is gone is out of each table that was swept.
SweptIsClean(a) ==
    /\ act[a].pc = "delete" =>
          rows \cap gone[a] \cap Table(act[a].table) \subseteq act[a].doomed \cup exposed
    /\ act[a].pc \in {"sweep", "delete"} /\ act[a].table # "items" =>
          rows \cap gone[a] \cap Table("items") \subseteq exposed
    /\ act[a].pc \in {"sweep", "delete"} /\ act[a].table = "files" =>
          rows \cap gone[a] \cap Table("links") \subseteq exposed
    /\ act[a].pc = "clean" => rows \cap gone[a] \subseteq exposed

\* What a pass is owed, whatever runs beside it.
PassStands(a) ==
    ReadIsKnown(a) /\ PutStands(a) /\ DoomedIsLoose(a) /\ GoneIsUnmarked(a) /\ SweptIsClean(a)

WalkInvariant ==
    /\ TypeOK
    /\ \A a \in Actors : PassShape(a)
    /\ OverlapIsExposed
    /\ VolumeIsObserved
    /\ \A a \in Actors : PassStands(a)
    /\ SettledRowsStand

-----------------------------------------------------------------------------
(* The volume and the tables.                                              *)

\* A row of the volume is a row of its title's folder, and of no other.
LEMMA FolderRows ==
  ASSUME TypeOK
  PROVE  /\ \A t \in Titles : Folder(t) \subseteq RowsOf({t})
         /\ \A r \in OnVolume : r \in Rows /\ r[1] \in Titles /\ r \in Folder(r[1])
         /\ \A t \in Titles : Folder(t) \subseteq OnVolume
<1>1. ASSUME NEW t \in Titles PROVE Folder(t) \subseteq RowsOf({t})
  BY DEF Folder, RowsOf, Rows, TypeOK, ItemKinds, FileKinds, LinkKinds
<1>2. \A t \in Titles : Folder(t) \subseteq OnVolume
  BY DEF OnVolume
<1>3. ASSUME NEW r \in OnVolume PROVE r \in Rows /\ r[1] \in Titles /\ r \in Folder(r[1])
  <2>1. PICK t \in Titles : r \in Folder(t)
    BY DEF OnVolume
  <2>2. r \in Rows /\ r[1] = t
    BY <1>1, <2>1 DEF RowsOf
  <2> QED
    BY <2>1, <2>2
<1> QED
  BY <1>1, <1>2, <1>3

\* The tables hold every row between them.
LEMMA TablesCoverRows == Rows = Table("items") \cup Table("links") \cup Table("files")
BY DEF Rows, Table

\* A volume of finitely many titles has finitely many items.
LEMMA ItemsAreFinite ==
  ASSUME NEW S
  PROVE  Cardinality(S \cap Table("items")) \in Nat
<1>1. IsFiniteSet({"raw"}) /\ IsFiniteSet({"raw"} \cup {"known"})
  BY FS_Singleton, FS_AddElement
<1>2. IsFiniteSet(ItemKinds)
  <2>1. ItemKinds = {"raw"} \cup {"known"}
    BY DEF ItemKinds
  <2> QED
    BY <1>1, <2>1
<1>3. IsFiniteSet(Titles \X ItemKinds)
  BY <1>2, WalkAssumption, FS_Product
<1>4. IsFiniteSet(S \cap Table("items"))
  BY <1>3, FS_Subset DEF Table
<1> QED
  BY <1>4, FS_CardinalityType

-----------------------------------------------------------------------------
(* What each step of a walk does to the passes.                            *)

LEMMA TheOther == \A a \in Actors : Other(a) \in Actors /\ Other(a) # a /\ Actors = {a, Other(a)}
BY DEF Actors, Other

LEMMA IdleIsPass == Idle \in Passes
BY DEF Idle, Passes, Stages

\* An actor goes on to another state of its pass, and the other one stays.
LEMMA PassMoves ==
  ASSUME TypeOK, NEW a \in Actors, NEW p \in Passes, act' = [act EXCEPT ![a] = p]
  PROVE  act' \in [Actors -> Passes] /\ act'[a] = p /\ act'[Other(a)] = act[Other(a)]
BY TheOther DEF TypeOK

\* What no step of a pass under way changes but its begin.
Same(a) == act'[a].scope = act[a].scope /\ act'[a].full = act[a].full

\* A pass as a step of the other actor leaves it.
Stays(a) ==
    /\ Same(a)
    /\ act'[a].pc = act[a].pc /\ act'[a].todo = act[a].todo /\ act'[a].buffer = act[a].buffer
    /\ act'[a].doomed = act[a].doomed /\ act'[a].error = act[a].error
    /\ act'[a].table = act[a].table

LEMMA EndsDoes ==
  ASSUME TypeOK, NEW a \in Actors, Ends(a)
  PROVE  /\ act' \in [Actors -> Passes] /\ act'[a] = Idle /\ act'[Other(a)] = act[Other(a)]
         /\ fresh' \in [Actors -> SUBSET Illustrated] /\ fresh'[a] = {} /\ fresh'[Other(a)] = fresh[Other(a)]
         /\ gone' \in [Actors -> SUBSET Rows] /\ gone'[a] = {} /\ gone'[Other(a)] = gone[Other(a)]
BY IdleIsPass, TheOther DEF Ends, TypeOK

LEMMA BeginDoes ==
  ASSUME TypeOK, NEW a \in Actors, NEW full \in BOOLEAN, NEW scope \in SUBSET Titles,
         Begin(a, full, scope)
  PROVE  /\ act' \in [Actors -> Passes]
         /\ act'[a].pc = "read" /\ act'[a].full = full /\ act'[a].scope = scope
         /\ act'[a].todo = scope /\ act'[a].buffer = {} /\ act'[a].doomed = {}
         /\ act'[a].error = FALSE /\ act'[a].table = "items"
         /\ Stays(Other(a))
<1> DEFINE before == IF full THEN Cardinality(rows \cap Table("items")) ELSE 0
           started == [Idle EXCEPT !.pc = "read", !.full = full, !.scope = scope,
                                   !.todo = scope, !.before = before]
           b == Other(a)
           p == [act[b] EXCEPT !.older = Busy(b)]
<1>1. before \in Nat
  BY ItemsAreFinite
<1>2. started \in Passes
  BY <1>1 DEF Idle, Passes, Stages
<1>3. act' = [act EXCEPT ![a] = started, ![b].older = Busy(b)]
  BY DEF Begin
<1>4. b \in Actors /\ b # a /\ Actors = {a, b} /\ Busy(b) \in BOOLEAN /\ act \in [Actors -> Passes]
  BY TheOther DEF Busy, TypeOK
<1>5. act'[a] = started /\ act'[b] = p
  BY <1>3, <1>4
<1>6. p \in Passes
  BY <1>4 DEF Passes
<1>7. act' \in [Actors -> Passes]
  BY <1>2, <1>3, <1>4, <1>5, <1>6
<1>8. Stays(b)
  BY <1>4, <1>5 DEF Passes, Stays, Same
<1> QED
  BY <1>5, <1>7, <1>8 DEF Idle

LEMMA IdentifyDoes ==
  ASSUME TypeOK, NEW t \in Titles, Identify(t)
  PROVE  /\ act' \in [Actors -> Passes]
         /\ act'["scan"] = act["scan"] /\ act["identity"].pc = "idle"
         /\ act'["identity"].pc = "asked" /\ act'["identity"].scope = {t}
         /\ act'["identity"].full = act["identity"].full
         /\ act'["identity"].todo = act["identity"].todo
         /\ act'["identity"].buffer = act["identity"].buffer
         /\ act'["identity"].doomed = act["identity"].doomed
         /\ act'["identity"].error = act["identity"].error
<1> DEFINE p == [act["identity"] EXCEPT !.pc = "asked", !.scope = {t}]
<1>0. act["identity"] \in Passes
  BY DEF TypeOK, Actors
<1>1. /\ p \in Passes /\ p.pc = "asked" /\ p.scope = {t}
      /\ p.full = act["identity"].full /\ p.todo = act["identity"].todo
      /\ p.buffer = act["identity"].buffer /\ p.doomed = act["identity"].doomed
      /\ p.error = act["identity"].error
  BY <1>0 DEF Passes, Stages
<1>2. act' = [act EXCEPT !["identity"] = p] /\ act["identity"].pc = "idle"
  BY DEF Identify
<1> HIDE DEF p
<1>3. "identity" \in Actors /\ Other("identity") = "scan"
  BY DEF Actors, Other
<1>4. act' \in [Actors -> Passes] /\ act'["identity"] = p /\ act'["scan"] = act["scan"]
  BY <1>1, <1>2, <1>3, PassMoves
<1> QED
  BY <1>1, <1>2, <1>4

LEMMA ReadFolderDoes ==
  ASSUME TypeOK, NEW t \in Titles, NEW a \in Actors, ReadFolder(a, t)
  PROVE  /\ act' \in [Actors -> Passes] /\ act'[Other(a)] = act[Other(a)] /\ Same(a)
         /\ act'[a].todo = act[a].todo \ {t}
         /\ act'[a].buffer = act[a].buffer \cup Folder(t)
         /\ act'[a].error = act[a].error /\ act'[a].doomed = act[a].doomed
         /\ act[a].pc = "read" /\ act'[a].pc \in {"read", "put"} /\ t \in act[a].todo
         /\ act'[a].table = act[a].table
<1> DEFINE buffer == act[a].buffer \cup Folder(t)
           todo   == act[a].todo \ {t}
           found  == act[a].found + Cardinality(Folder(t) \cap Table("items"))
           pc     == IF todo = {} \/ Cardinality(buffer \cap Table("items")) >= BatchLimit
                     THEN "put" ELSE "read"
           p == [act[a] EXCEPT !.todo = todo, !.buffer = buffer, !.found = found, !.pc = pc]
<1>1. Folder(t) \subseteq Rows /\ Cardinality(Folder(t) \cap Table("items")) \in Nat
  BY FolderRows, ItemsAreFinite DEF RowsOf
<1>2. act[a] \in Passes
  BY DEF TypeOK
<1>3. buffer \in SUBSET Rows /\ todo \in SUBSET Titles /\ found \in Nat /\ pc \in {"read", "put"}
  BY <1>1, <1>2 DEF Passes
<1>4. act' = [act EXCEPT ![a] = p] /\ act[a].pc = "read" /\ t \in act[a].todo
  BY DEF ReadFolder
<1> HIDE DEF buffer, todo, found, pc
<1>5. /\ p \in Passes
      /\ p.todo = todo /\ p.buffer = buffer /\ p.pc = pc /\ p.scope = act[a].scope
      /\ p.full = act[a].full /\ p.error = act[a].error /\ p.doomed = act[a].doomed
      /\ p.table = act[a].table
  BY <1>2, <1>3 DEF Passes, Stages
<1> HIDE DEF p
<1>6. act' \in [Actors -> Passes] /\ act'[a] = p /\ act'[Other(a)] = act[Other(a)]
  BY <1>4, <1>5, PassMoves
<1> QED
  BY <1>3, <1>4, <1>5, <1>6 DEF Same, todo, buffer

LEMMA ReadErrorDoes ==
  ASSUME TypeOK, NEW t \in Titles, NEW a \in Actors, ReadError(a, t), act[a].full
  PROVE  /\ act' \in [Actors -> Passes] /\ act'[Other(a)] = act[Other(a)] /\ Same(a)
         /\ act'[a].todo = act[a].todo \ {t} /\ act'[a].error
         /\ act'[a].buffer = act[a].buffer /\ act'[a].doomed = act[a].doomed
         /\ act[a].pc = "read" /\ act'[a].pc \in {"read", "put"} /\ act'[a].table = act[a].table
<1> DEFINE todo == act[a].todo \ {t}
           pc   == IF todo = {} THEN "put" ELSE "read"
           p    == [act[a] EXCEPT !.todo = todo, !.error = TRUE, !.pc = pc]
<1>1. act[a] \in Passes
  BY DEF TypeOK
<1>2. todo \in SUBSET Titles /\ pc \in {"read", "put"}
  BY <1>1 DEF Passes
<1>3. act' = [act EXCEPT ![a] = p] /\ act[a].pc = "read"
  BY DEF ReadError
<1> HIDE DEF todo, pc
<1>4. /\ p \in Passes
      /\ p.todo = todo /\ p.error /\ p.pc = pc /\ p.scope = act[a].scope /\ p.full = act[a].full
      /\ p.buffer = act[a].buffer /\ p.doomed = act[a].doomed /\ p.table = act[a].table
  BY <1>1, <1>2 DEF Passes, Stages
<1> HIDE DEF p
<1>5. act' \in [Actors -> Passes] /\ act'[a] = p /\ act'[Other(a)] = act[Other(a)]
  BY <1>3, <1>4, PassMoves
<1> QED
  BY <1>2, <1>3, <1>4, <1>5 DEF Same, todo

LEMMA PutRowsDoes ==
  ASSUME TypeOK, NEW a \in Actors, PutRows(a)
  PROVE  /\ act' \in [Actors -> Passes] /\ act'[Other(a)] = act[Other(a)] /\ Same(a)
         /\ act[a].pc = "put" /\ act'[a].pc = "mark" /\ act'[a].table = act[a].table
         /\ act'[a].buffer = act[a].buffer /\ act'[a].todo = act[a].todo
         /\ act'[a].error = act[a].error /\ act'[a].doomed = act[a].doomed
<1> DEFINE p == [act[a] EXCEPT !.pc = "mark"]
<1>0. act[a] \in Passes
  BY DEF TypeOK
<1>1. /\ p \in Passes /\ p.pc = "mark" /\ p.buffer = act[a].buffer
      /\ p.todo = act[a].todo /\ p.scope = act[a].scope /\ p.full = act[a].full
      /\ p.error = act[a].error /\ p.doomed = act[a].doomed /\ p.table = act[a].table
  BY <1>0 DEF Passes, Stages
<1>2. act' = [act EXCEPT ![a] = p] /\ act[a].pc = "put"
  BY DEF PutRows
<1> HIDE DEF p
<1>3. act' \in [Actors -> Passes] /\ act'[a] = p /\ act'[Other(a)] = act[Other(a)]
  BY <1>1, <1>2, PassMoves
<1> QED
  BY <1>1, <1>2, <1>3 DEF Same

LEMMA MarkSeenDoes ==
  ASSUME TypeOK, NEW a \in Actors, MarkSeen(a)
  PROVE  /\ act' \in [Actors -> Passes] /\ act'[Other(a)] = act[Other(a)] /\ Same(a)
         /\ act'[a].buffer = {} /\ act'[a].todo = act[a].todo
         /\ act'[a].error = act[a].error /\ act'[a].doomed = act[a].doomed
         /\ act'[a].table = act[a].table /\ act[a].pc = "mark"
         /\ act'[a].pc = IF act[a].todo # {} THEN "read" ELSE IF act[a].full THEN "settle" ELSE "sweep"
<1> DEFINE pc == IF act[a].todo # {} THEN "read" ELSE IF act[a].full THEN "settle" ELSE "sweep"
           p  == [act[a] EXCEPT !.buffer = {}, !.pc = pc]
<1>1. act[a] \in Passes /\ pc \in {"read", "settle", "sweep"}
  BY DEF TypeOK
<1>2. act' = [act EXCEPT ![a] = p] /\ act[a].pc = "mark"
  BY DEF MarkSeen
<1> HIDE DEF pc
<1>3. /\ p \in Passes /\ p.buffer = {} /\ p.pc = pc
      /\ p.todo = act[a].todo /\ p.scope = act[a].scope /\ p.full = act[a].full
      /\ p.error = act[a].error /\ p.doomed = act[a].doomed /\ p.table = act[a].table
  BY <1>1 DEF Passes, Stages
<1> HIDE DEF p
<1>4. act' \in [Actors -> Passes] /\ act'[a] = p /\ act'[Other(a)] = act[Other(a)]
  BY <1>2, <1>3, PassMoves
<1> QED
  BY <1>2, <1>3, <1>4 DEF Same, pc

\* A walk that ends its reads ends, or goes on to sweep after a complete read.
LEMMA SettlesDoes ==
  ASSUME TypeOK, NEW a \in Actors, Settles(a)
  PROVE  /\ act[a].pc = "settle"
         /\ \/ Ends(a)
            \/ /\ act' \in [Actors -> Passes] /\ act'[Other(a)] = act[Other(a)] /\ Same(a)
               /\ act'[a].buffer = act[a].buffer /\ act'[a].todo = act[a].todo
               /\ ~act[a].error /\ act'[a].error = FALSE /\ act'[a].doomed = act[a].doomed
               /\ act'[a].table = act[a].table /\ act'[a].pc = "sweep" /\ UNCHANGED <<fresh, gone>>
<1>1. CASE Ends(a)
  BY <1>1 DEF Settles
<1>2. CASE ~Ends(a)
  <2> DEFINE p == [act[a] EXCEPT !.pc = "sweep", !.before = 0, !.found = 0]
  <2>1. act[a] \in Passes
    BY DEF TypeOK
  <2>2. /\ act' = [act EXCEPT ![a] = p] /\ act[a].pc = "settle" /\ UNCHANGED <<fresh, gone>>
        /\ ~act[a].error
    BY <1>2 DEF Settles, Incomplete
  <2>3. /\ p \in Passes /\ p.pc = "sweep" /\ p.buffer = act[a].buffer
        /\ p.todo = act[a].todo /\ p.scope = act[a].scope /\ p.full = act[a].full
        /\ p.error = act[a].error /\ p.doomed = act[a].doomed /\ p.table = act[a].table
    BY <2>1 DEF Passes, Stages
  <2> HIDE DEF p
  <2>4. act' \in [Actors -> Passes] /\ act'[a] = p /\ act'[Other(a)] = act[Other(a)]
    BY <2>2, <2>3, PassMoves
  <2>5. act[a].error \in BOOLEAN
    BY <2>1 DEF Passes
  <2> QED
    BY <2>2, <2>3, <2>4, <2>5 DEF Same
<1> QED
  BY <1>1, <1>2

LEMMA SweepReadsDoes ==
  ASSUME TypeOK, NEW a \in Actors, SweepReads(a)
  PROVE  /\ act' \in [Actors -> Passes] /\ act'[Other(a)] = act[Other(a)] /\ Same(a)
         /\ act[a].pc = "sweep" /\ act'[a].pc = "delete"
         /\ act'[a].doomed = Unmarked(a, act[a].table) /\ act'[a].table = act[a].table
         /\ act'[a].buffer = act[a].buffer /\ act'[a].todo = act[a].todo
         /\ act'[a].error = act[a].error
<1> DEFINE doomed == Unmarked(a, act[a].table)
           p == [act[a] EXCEPT !.pc = "delete", !.doomed = doomed]
<1>1. doomed \in SUBSET Rows
  BY DEF Unmarked, TypeOK
<1>2. act' = [act EXCEPT ![a] = p] /\ act[a].pc = "sweep"
  BY DEF SweepReads
<1> HIDE DEF doomed
<1>3. act[a] \in Passes
  BY DEF TypeOK
<1>4. /\ p \in Passes /\ p.pc = "delete" /\ p.doomed = doomed /\ p.table = act[a].table
      /\ p.buffer = act[a].buffer /\ p.todo = act[a].todo /\ p.error = act[a].error
      /\ p.scope = act[a].scope /\ p.full = act[a].full
  BY <1>1, <1>3 DEF Passes, Stages
<1> HIDE DEF p
<1>5. act' \in [Actors -> Passes] /\ act'[a] = p /\ act'[Other(a)] = act[Other(a)]
  BY <1>2, <1>4, PassMoves
<1> QED
  BY <1>2, <1>4, <1>5 DEF Same, doomed

LEMMA SweepDeletesDoes ==
  ASSUME TypeOK, NEW a \in Actors, SweepDeletes(a)
  PROVE  /\ act' \in [Actors -> Passes] /\ act'[Other(a)] = act[Other(a)] /\ Same(a)
         /\ act'[a].buffer = act[a].buffer /\ act'[a].todo = act[a].todo
         /\ act'[a].error = act[a].error /\ act'[a].doomed = {} /\ act[a].pc = "delete"
         /\ act'[a].pc = IF act[a].table = "files" THEN "clean" ELSE "sweep"
         /\ act'[a].table = IF act[a].table = "items" THEN "links" ELSE "files"
<1> DEFINE pc    == IF act[a].table = "files" THEN "clean" ELSE "sweep"
           table == IF act[a].table = "items" THEN "links" ELSE "files"
           p     == [act[a] EXCEPT !.doomed = {}, !.pc = pc, !.table = table]
<1>1. act[a] \in Passes /\ pc \in {"clean", "sweep"} /\ table \in {"links", "files"}
  BY DEF TypeOK
<1>2. act' = [act EXCEPT ![a] = p] /\ act[a].pc = "delete"
  BY DEF SweepDeletes
<1> HIDE DEF pc, table
<1>3. /\ p \in Passes /\ p.doomed = {} /\ p.pc = pc /\ p.table = table
      /\ p.todo = act[a].todo /\ p.scope = act[a].scope /\ p.full = act[a].full
      /\ p.error = act[a].error /\ p.buffer = act[a].buffer
  BY <1>1 DEF Passes, Stages
<1> HIDE DEF p
<1>4. act' \in [Actors -> Passes] /\ act'[a] = p /\ act'[Other(a)] = act[Other(a)]
  BY <1>2, <1>3, PassMoves
<1> QED
  BY <1>2, <1>3, <1>4 DEF Same, pc, table

-----------------------------------------------------------------------------
(* The type.                                                               *)

LEMMA InitType == Init => TypeOK
BY IdleIsPass, WalkAssumption DEF Init, TypeOK, ItemKinds

LEMMA BeginType ==
  ASSUME TypeOK, NEW a \in Actors, NEW full \in BOOLEAN, NEW scope \in SUBSET Titles,
         Begin(a, full, scope), UNCHANGED <<key, art, rows, owing>>, turn' \in {"full", "folders", "done"}
  PROVE  TypeOK'
<1>1. act' \in [Actors -> Passes]
  BY BeginDoes
<1>2. \A S : RowsOf(S) \subseteq Rows
  BY DEF RowsOf
<1> QED
  BY <1>1, <1>2 DEF Begin, TypeOK, NewEpoch

LEMMA ObserveType ==
  ASSUME TypeOK, Observe
  PROVE  /\ kept' \subseteq Rows /\ exposed' \subseteq Rows
         /\ gone' \in [Actors -> SUBSET Rows]
BY DEF Observe, TypeOK

LEMMA TypeStep == TypeOK /\ [Next]_vars => TypeOK'
<1> SUFFICES ASSUME TypeOK, [Next]_vars PROVE TypeOK'
  OBVIOUS
<1> USE DEF volume, ghosts
<1>0. \A a \in Actors : act[a] \in Passes
  BY DEF TypeOK
<1>1. CASE BeginWalk
  BY <1>1, BeginType DEF BeginWalk, Actors
<1>2. CASE BeginIdentified
  <2>1. act["identity"].scope \in SUBSET Titles /\ turn \in {"full", "folders", "done"}
    BY <1>0 DEF Passes, Actors, TypeOK
  <2> QED
    BY <1>2, <2>1, BeginType DEF BeginIdentified, Actors
<1>3. CASE NextJob
  BY <1>3 DEF NextJob, TypeOK
<1>4. ASSUME NEW t \in Titles, Arrives(t) PROVE TypeOK'
  BY <1>4, ObserveType DEF Arrives, TypeOK, ItemKinds
<1>5. ASSUME NEW t \in Titles, Leaves(t) PROVE TypeOK'
  BY <1>5, ObserveType DEF Leaves, TypeOK
<1>6. ASSUME NEW t \in Titles, BeginRescan(t) PROVE TypeOK'
  <2>1. {t} \in SUBSET Titles /\ turn \in {"full", "folders", "done"}
    BY DEF TypeOK
  <2> QED
    BY <1>6, <2>1, BeginType DEF BeginRescan, Actors
<1>7. ASSUME NEW t \in Titles, Identify(t) PROVE TypeOK'
  <2>1. act' \in [Actors -> Passes]
    BY <1>7, IdentifyDoes
  <2> QED
    BY <1>7, <2>1, ObserveType DEF Identify, TypeOK, ItemKinds
<1>8. ASSUME NEW t \in Titles, WriteArt(t) PROVE TypeOK'
  BY <1>8, ObserveType DEF WriteArt, TypeOK
<1>9. ASSUME NEW t \in Titles, WriteArtRows(t) PROVE TypeOK'
  <2>1. Folder(t) \subseteq Rows
    BY FolderRows DEF RowsOf
  <2> QED
    BY <1>9, <2>1 DEF WriteArtRows, TypeOK
<1>10. ASSUME NEW t \in Titles, NEW a \in Actors, ReadFolder(a, t) PROVE TypeOK'
  BY <1>10, ReadFolderDoes DEF ReadFolder, TypeOK
<1>11. ASSUME NEW t \in Titles, NEW a \in Actors, ReadError(a, t) PROVE TypeOK'
  <2>1. CASE act[a].full
    BY <1>11, <2>1, ReadErrorDoes DEF ReadError, TypeOK
  <2>2. CASE ~act[a].full
    BY <1>11, <2>2, EndsDoes DEF ReadError, TypeOK
  <2> QED
    BY <2>1, <2>2
<1>12. ASSUME NEW a \in Actors, PutRows(a) PROVE TypeOK'
  <2>1. act[a].buffer \subseteq Rows
    BY <1>0 DEF Passes
  <2> QED
    BY <1>12, <2>1, PutRowsDoes DEF PutRows, TypeOK
<1>13. ASSUME NEW a \in Actors, PutFails(a) PROVE TypeOK'
  <2>1. act[a].buffer \subseteq Rows
    BY <1>0 DEF Passes
  <2> QED
    BY <1>13, <2>1, EndsDoes DEF PutFails, TypeOK
<1>14. ASSUME NEW a \in Actors, MarkSeen(a) PROVE TypeOK'
  <2>1. act[a].buffer \subseteq Rows
    BY <1>0 DEF Passes
  <2> QED
    BY <1>14, <2>1, MarkSeenDoes DEF MarkSeen, TypeOK
<1>15. ASSUME NEW a \in Actors, Settles(a) PROVE TypeOK'
  BY <1>15, SettlesDoes, EndsDoes DEF Settles, TypeOK
<1>16. ASSUME NEW a \in Actors, SweepReads(a) PROVE TypeOK'
  BY <1>16, SweepReadsDoes DEF SweepReads, TypeOK
<1>17. ASSUME NEW a \in Actors, SweepDeletes(a) PROVE TypeOK'
  BY <1>17, SweepDeletesDoes DEF SweepDeletes, TypeOK
<1>18. ASSUME NEW a \in Actors, Finishes(a) PROVE TypeOK'
  BY <1>18, EndsDoes DEF Finishes, TypeOK
<1>19. ASSUME NEW a \in Actors, Stops(a) PROVE TypeOK'
  BY <1>19, EndsDoes DEF Stops, TypeOK
<1>20. CASE UNCHANGED vars
  BY <1>20 DEF vars, TypeOK
<1> QED
  BY <1>1, <1>2, <1>3, <1>4, <1>5, <1>6, <1>7, <1>8, <1>9, <1>10, <1>11, <1>12,
     <1>13, <1>14, <1>15, <1>16, <1>17, <1>18, <1>19, <1>20 DEF Next

-----------------------------------------------------------------------------
(* Every step is one of these, whoever begins or ends an epoch.            *)

\* A walk or a rescan begins.
Begins(a) ==
    \E full \in BOOLEAN, scope \in SUBSET Titles :
        /\ Begin(a, full, scope)
        /\ full => scope = Titles
        /\ ~Busy(a)
        /\ UNCHANGED <<key, art, rows, owing>>

\* An epoch is over, with its marks, or with some rows of its buffer put.
Over(a) ==
    /\ Ends(a)
    /\ UNCHANGED <<key, art, owing, kept, exposed>>
    /\ \/ rows' = rows
       \/ Busy(a) /\ \E S : rows' = rows \cup (act[a].buffer \cap S)
    /\ \/ seen' = seen
       \/ seen' = [r \in Rows |-> IF act[a].full /\ act[Other(a)].older /\ seen[r] = Other(a)
                                  THEN "none" ELSE seen[r]] /\ Busy(a)

\* The steps of a pass that is under way.
Walks(a) ==
    \/ \E t \in Titles : ReadFolder(a, t) \/ (ReadError(a, t) /\ act[a].full)
    \/ PutRows(a) \/ MarkSeen(a) \/ (Settles(a) /\ ~Ends(a)) \/ SweepReads(a) \/ SweepDeletes(a)

\* The steps beside the passes.
Besides(t) == Arrives(t) \/ Leaves(t) \/ Identify(t) \/ WriteArt(t) \/ WriteArtRows(t)

LEMMA StepKinds ==
  ASSUME TypeOK, Next
  PROVE  \/ NextJob
         \/ \E a \in Actors : Begins(a) \/ Over(a) \/ Walks(a)
         \/ \E t \in Titles : Besides(t)
<1> USE DEF volume, ghosts
<1>1. CASE BeginWalk
  <2>1. Begins("scan")
    BY <1>1 DEF BeginWalk, Begins, Busy
  <2> QED
    BY <2>1 DEF Actors
<1>2. CASE BeginIdentified
  <2>1. act["identity"].scope \in SUBSET Titles
    BY DEF TypeOK, Passes, Actors
  <2>2. Begins("identity")
    BY <1>2, <2>1 DEF BeginIdentified, Begins, Busy
  <2> QED
    BY <2>2 DEF Actors
<1>3. ASSUME NEW t \in Titles, BeginRescan(t)
      PROVE  \E a \in Actors : Begins(a)
  <2>1. {t} \in SUBSET Titles
    OBVIOUS
  <2>2. Begins("scan")
    BY <1>3, <2>1 DEF BeginRescan, Begins, Busy
  <2> QED
    BY <2>2 DEF Actors
<1>4. ASSUME NEW t \in Titles, NEW a \in Actors, ReadError(a, t), ~act[a].full
      PROVE  Over(a)
  BY <1>4 DEF ReadError, Over
<1>5. ASSUME NEW a \in Actors, PutFails(a) \/ (Settles(a) /\ Ends(a)) \/ Finishes(a) \/ Stops(a)
      PROVE  Over(a)
  BY <1>5 DEF PutFails, Settles, Finishes, Stops, Over, Busy
<1> QED
  BY <1>1, <1>2, <1>3, <1>4, <1>5 DEF Next, Walks, Besides

-----------------------------------------------------------------------------
(* The shape of the passes.                                                *)

\* A pass that a step leaves alone keeps its shape.
LEMMA ShapeStays ==
  ASSUME NEW a \in Actors, PassShape(a), Stays(a)
  PROVE  PassShape(a)'
BY DEF PassShape, Busy, RowsOf, Stays, Same

LEMMA UnchangedStays == \A a \in Actors : act'[a] = act[a] => Stays(a)
BY DEF Stays, Same

LEMMA ShapeStep ==
  ASSUME TypeOK, \A a \in Actors : PassShape(a), [Next]_vars
  PROVE  \A a \in Actors : PassShape(a)'
<1> USE DEF Busy
<1>1. ASSUME NEW a \in Actors, Begins(a) PROVE PassShape(a)' /\ PassShape(Other(a))'
  <2>1. PICK full \in BOOLEAN, scope \in SUBSET Titles :
              /\ Begin(a, full, scope)
              /\ full => scope = Titles
    BY <1>1 DEF Begins
  <2>2. PassShape(a)'
    <3>1. /\ act'[a].pc = "read" /\ act'[a].full = full /\ act'[a].scope = scope
          /\ act'[a].todo = scope /\ act'[a].buffer = {} /\ act'[a].doomed = {}
          /\ act'[a].error = FALSE /\ act'[a].table = "items"
      BY <2>1, BeginDoes, Zenon
    <3> QED
      BY <2>1, <3>1 DEF PassShape, RowsOf
  <2>3. PassShape(Other(a))'
    <3>1. Stays(Other(a)) /\ Other(a) \in Actors
      BY <2>1, BeginDoes, TheOther, Zenon
    <3> QED
      BY <3>1, ShapeStays
  <2> QED
    BY <2>2, <2>3
<1>2. ASSUME NEW a \in Actors, Over(a) PROVE PassShape(a)' /\ PassShape(Other(a))'
  <2>1. act'[a] = Idle /\ act'[Other(a)] = act[Other(a)]
    BY <1>2, EndsDoes DEF Over
  <2>2. PassShape(a)'
    BY <2>1 DEF PassShape, Idle
  <2> QED
    BY <2>1, <2>2, UnchangedStays, ShapeStays, TheOther
<1>3. ASSUME NEW a \in Actors, Walks(a) PROVE PassShape(a)' /\ PassShape(Other(a))'
  <2>0. act[a] \in Passes /\ PassShape(a)
    BY DEF TypeOK
  <2>1. ASSUME NEW t \in Titles, ReadFolder(a, t)
        PROVE  PassShape(a)' /\ act'[Other(a)] = act[Other(a)]
    <3>1. Folder(t) \subseteq RowsOf(act[a].scope)
      <4>1. t \in act[a].scope
        BY <2>0, <2>1, ReadFolderDoes DEF PassShape
      <4> QED
        BY <4>1, FolderRows DEF RowsOf
    <3> QED
      BY <2>0, <2>1, <3>1, ReadFolderDoes DEF PassShape, Same, RowsOf
  <2>2. ASSUME NEW t \in Titles, ReadError(a, t), act[a].full
        PROVE  PassShape(a)' /\ act'[Other(a)] = act[Other(a)]
    BY <2>0, <2>2, ReadErrorDoes DEF PassShape, Same, RowsOf
  <2>3. ASSUME PutRows(a) PROVE PassShape(a)' /\ act'[Other(a)] = act[Other(a)]
    BY <2>0, <2>3, PutRowsDoes DEF PassShape, Same, RowsOf
  <2>4. ASSUME MarkSeen(a) PROVE PassShape(a)' /\ act'[Other(a)] = act[Other(a)]
    BY <2>0, <2>4, MarkSeenDoes DEF PassShape, Same, RowsOf
  <2>5. ASSUME Settles(a), ~Ends(a) PROVE PassShape(a)' /\ act'[Other(a)] = act[Other(a)]
    BY <2>0, <2>5, SettlesDoes DEF PassShape, Same, RowsOf
  <2>6. ASSUME SweepReads(a) PROVE PassShape(a)' /\ act'[Other(a)] = act[Other(a)]
    <3>1. Unmarked(a, act[a].table) \subseteq RowsOf(act[a].scope)
      BY DEF Unmarked
    <3> QED
      BY <2>0, <2>6, <3>1, SweepReadsDoes DEF PassShape, Same, RowsOf
  <2>7. ASSUME SweepDeletes(a) PROVE PassShape(a)' /\ act'[Other(a)] = act[Other(a)]
    BY <2>0, <2>7, SweepDeletesDoes DEF PassShape, Same, RowsOf
  <2>8. PassShape(a)' /\ act'[Other(a)] = act[Other(a)]
    BY <1>3, <2>1, <2>2, <2>3, <2>4, <2>5, <2>6, <2>7 DEF Walks
  <2> QED
    BY <2>8, UnchangedStays, ShapeStays, TheOther
<1>4. ASSUME NEW t \in Titles, Besides(t), NEW a \in Actors PROVE PassShape(a)'
  <2>1. CASE Identify(t)
    <3>1. PassShape("identity")
      BY DEF Actors
    <3>2. PassShape("identity")'
      BY <3>1, <2>1, IdentifyDoes DEF PassShape
    <3>3. PassShape("scan")'
      BY <2>1, IdentifyDoes, UnchangedStays, ShapeStays DEF Actors
    <3> QED
      BY <3>2, <3>3 DEF Actors
  <2>2. CASE UNCHANGED act
    BY <2>2, UnchangedStays, ShapeStays
  <2> QED
    BY <1>4, <2>1, <2>2 DEF Besides, Arrives, Leaves, WriteArt, WriteArtRows
<1>5. ASSUME NextJob \/ UNCHANGED vars, NEW a \in Actors PROVE PassShape(a)'
  BY <1>5, UnchangedStays, ShapeStays DEF NextJob, vars
<1> QED
  BY <1>1, <1>2, <1>3, <1>4, <1>5, StepKinds, TheOther

-----------------------------------------------------------------------------
(* What a begin, a walk's own steps and the end of an epoch leave.         *)

LEMMA BeginsDoes ==
  ASSUME TypeOK, NEW a \in Actors, Begins(a)
  PROVE  /\ ~Busy(a) /\ Busy(a)' /\ Stays(Other(a)) /\ UNCHANGED <<key, art, rows, owing>>
         /\ act'[a].pc = "read" /\ act'[a].todo = act'[a].scope /\ act'[a].scope \subseteq Titles
         /\ seen' = NewEpoch(a)
         /\ fresh'[a] = {} /\ fresh'[Other(a)] = fresh[Other(a)]
         /\ gone'[a] = RowsOf(act'[a].scope) \ OnVolume /\ gone'[Other(a)] = gone[Other(a)]
         /\ act'[a].buffer = {}
         /\ Busy(Other(a)) =>
              kept' = kept /\ exposed' = exposed \cup RowsOf(act'[a].scope \cap act[Other(a)].scope)
         /\ ~Busy(Other(a)) =>
              /\ kept' = kept \ (exposed \cap RowsOf(act'[a].scope))
              /\ exposed' = exposed \ RowsOf(act'[a].scope)
<1>1. PICK full \in BOOLEAN, scope \in SUBSET Titles :
            Begin(a, full, scope) /\ ~Busy(a) /\ UNCHANGED <<key, art, rows, owing>>
  BY DEF Begins
<1>2. /\ act'[a].pc = "read" /\ act'[a].scope = scope /\ act'[a].todo = scope
      /\ act'[a].buffer = {} /\ Stays(Other(a))
  BY <1>1, BeginDoes, Zenon
<1>3. Busy(a)'
  BY <1>2 DEF Busy
<1>4. /\ fresh'[a] = {} /\ fresh'[Other(a)] = fresh[Other(a)]
      /\ gone'[a] = RowsOf(scope) \ OnVolume /\ gone'[Other(a)] = gone[Other(a)]
      /\ seen' = NewEpoch(a)
  BY <1>1, TheOther DEF Begin, TypeOK
<1>5. /\ Busy(Other(a)) =>
              kept' = kept /\ exposed' = exposed \cup RowsOf(scope \cap act[Other(a)].scope)
      /\ ~Busy(Other(a)) =>
              /\ kept' = kept \ (exposed \cap RowsOf(scope))
              /\ exposed' = exposed \ RowsOf(scope)
  BY <1>1 DEF Begin
<1> QED
  BY <1>1, <1>2, <1>3, <1>4, <1>5

\* A pass under way keeps its scope, and only its marks give the catalog rows.
LEMMA WalksDoes ==
  ASSUME TypeOK, NEW a \in Actors, Walks(a)
  PROVE  /\ Busy(a) /\ Busy(a)' /\ Same(a) /\ Stays(Other(a))
         /\ UNCHANGED <<key, art, fresh, owing, exposed, gone>> /\ kept' \subseteq kept \cup OnVolume
<1> USE DEF volume, ghosts
<1>1. ASSUME NEW t \in Titles, ReadFolder(a, t)
      PROVE  /\ Busy(a) /\ Busy(a)' /\ Same(a) /\ act'[Other(a)] = act[Other(a)]
             /\ UNCHANGED <<key, art, fresh, owing, exposed, gone>> /\ kept' \subseteq kept \cup OnVolume
  BY <1>1, ReadFolderDoes DEF ReadFolder, Busy
<1>2. ASSUME NEW t \in Titles, ReadError(a, t), act[a].full
      PROVE  /\ Busy(a) /\ Busy(a)' /\ Same(a) /\ act'[Other(a)] = act[Other(a)]
             /\ UNCHANGED <<key, art, fresh, owing, exposed, gone>> /\ kept' \subseteq kept \cup OnVolume
  BY <1>2, ReadErrorDoes DEF ReadError, Busy
<1>3. ASSUME PutRows(a) \/ MarkSeen(a) \/ (Settles(a) /\ ~Ends(a)) \/ SweepReads(a) \/ SweepDeletes(a)
      PROVE  Busy(a) /\ Busy(a)' /\ Same(a) /\ act'[Other(a)] = act[Other(a)]
  BY <1>3, PutRowsDoes, MarkSeenDoes, SettlesDoes, SweepReadsDoes, SweepDeletesDoes DEF Busy
<1>4. ASSUME PutRows(a) \/ MarkSeen(a) \/ (Settles(a) /\ ~Ends(a)) \/ SweepReads(a) \/ SweepDeletes(a)
      PROVE  /\ UNCHANGED <<key, art, fresh, owing, exposed, gone>> /\ kept' \subseteq kept \cup OnVolume
  BY <1>4, SettlesDoes DEF PutRows, MarkSeen, Settles, SweepReads, SweepDeletes
<1> QED
  BY <1>1, <1>2, <1>3, <1>4, UnchangedStays, TheOther DEF Walks

LEMMA OverDoes ==
  ASSUME TypeOK, NEW a \in Actors, Over(a)
  PROVE  /\ act'[a] = Idle /\ ~Busy(a)' /\ Stays(Other(a)) /\ UNCHANGED <<key, art, owing, kept, exposed>>
         /\ fresh'[a] = {} /\ fresh'[Other(a)] = fresh[Other(a)]
         /\ gone'[a] = {} /\ gone'[Other(a)] = gone[Other(a)]
BY EndsDoes, UnchangedStays, TheOther DEF Over, Busy, Idle

-----------------------------------------------------------------------------
(* The overlap of two passes, and the volume.                              *)

LEMMA OverlapStep ==
  ASSUME TypeOK, OverlapIsExposed, [Next]_vars
  PROVE  OverlapIsExposed'
<1> USE DEF OverlapIsExposed
<1>0. \A a \in Actors : Stays(a) => (Busy(a)' <=> Busy(a))
  BY DEF Stays, Busy
<1>1. ASSUME NEW a \in Actors, Begins(a) PROVE OverlapIsExposed'
  <2>1. Busy(Other(a))' => RowsOf(act'[a].scope \cap act'[Other(a)].scope) \subseteq exposed'
    BY <1>0, <1>1, BeginsDoes, TheOther DEF Stays, Same
  <2> QED
    BY <2>1, <1>1, BeginsDoes DEF Actors, Other, RowsOf
<1>2. ASSUME NEW a \in Actors, Over(a) PROVE OverlapIsExposed'
  BY <1>2, OverDoes DEF Actors
<1>3. ASSUME NEW a \in Actors, Walks(a) PROVE OverlapIsExposed'
  <2>1. Busy(a) /\ (Busy(Other(a))' => Busy(Other(a))) /\ Same(a) /\ Same(Other(a)) /\ exposed' = exposed
    BY <1>0, <1>3, WalksDoes, TheOther DEF Stays
  <2> QED
    BY <2>1 DEF Actors, Other, Same, RowsOf
<1>4. ASSUME NEW t \in Titles, Besides(t) PROVE OverlapIsExposed'
  <2>1. CASE Identify(t)
    BY <2>1, IdentifyDoes DEF Busy, Passes, TypeOK, Actors
  <2>2. CASE WriteArtRows(t)
    BY <2>2 DEF WriteArtRows, Busy, RowsOf
  <2>3. CASE Arrives(t) \/ Leaves(t) \/ WriteArt(t)
    BY <2>3 DEF Arrives, Leaves, WriteArt, Observe, Busy, RowsOf
  <2> QED
    BY <1>4, <2>1, <2>2, <2>3 DEF Besides
<1>5. CASE NextJob \/ UNCHANGED vars
  BY <1>5 DEF NextJob, vars, ghosts, Busy, RowsOf
<1> QED
  BY <1>1, <1>2, <1>3, <1>4, <1>5, StepKinds

\* A volume that nobody changes reads as before.
LEMMA VolumeStays ==
  ASSUME UNCHANGED <<key, art>>
  PROVE  OnVolume' = OnVolume /\ \A t \in Titles : Folder(t)' = Folder(t)
BY DEF OnVolume, Folder

LEMMA VolumeStep ==
  ASSUME TypeOK, VolumeIsObserved, [Next]_vars
  PROVE  VolumeIsObserved'
<1> USE DEF VolumeIsObserved
<1>0. \A a \in Actors : Stays(a) => Same(a) /\ (Busy(a)' <=> Busy(a))
  BY DEF Stays, Busy
<1>1. ASSUME NEW a \in Actors, Begins(a) PROVE VolumeIsObserved'
  <2> DEFINE b == Other(a)
  <2>1. b \in Actors /\ Actors = {a, b} /\ Same(b) /\ (Busy(b)' <=> Busy(b)) /\ OnVolume' = OnVolume
    BY <1>0, <1>1, BeginsDoes, VolumeStays, TheOther
  <2> HIDE DEF b
  <2>2. /\ Busy(a)' /\ UNCHANGED <<key, art, owing>> /\ kept' \subseteq kept
        /\ fresh'[a] = {} /\ gone'[a] = RowsOf(act'[a].scope) \ OnVolume
    BY <1>1, BeginsDoes
  <2>3. fresh'[b] = fresh[b] /\ gone'[b] = gone[b]
    BY <1>1, BeginsDoes DEF b
  <2>4. /\ fresh'[a] \subseteq art' /\ gone'[a] \cap OnVolume' = {}
        /\ gone'[a] \subseteq RowsOf(act'[a].scope) /\ (~Busy(a)' => gone'[a] = {})
    BY <2>1, <2>2
  <2>5. /\ fresh'[b] \subseteq art' /\ gone'[b] \cap OnVolume' = {}
        /\ gone'[b] \subseteq RowsOf(act'[b].scope) /\ (~Busy(b)' => gone'[b] = {})
    BY <2>1, <2>2, <2>3 DEF Same
  <2> QED
    BY <2>1, <2>2, <2>4, <2>5 DEF RowsOf
<1>2. ASSUME NEW a \in Actors, Over(a) PROVE VolumeIsObserved'
  <2> DEFINE b == Other(a)
  <2>1. b \in Actors /\ Actors = {a, b} /\ Same(b) /\ (Busy(b)' <=> Busy(b)) /\ OnVolume' = OnVolume
    BY <1>0, <1>2, OverDoes, VolumeStays, TheOther
  <2>2. /\ UNCHANGED <<key, art, owing, kept>>
        /\ fresh'[a] = {} /\ gone'[a] = {} /\ fresh'[b] = fresh[b] /\ gone'[b] = gone[b]
    BY <1>2, OverDoes
  <2> HIDE DEF b
  <2>5. /\ fresh'[b] \subseteq art' /\ gone'[b] \cap OnVolume' = {}
        /\ gone'[b] \subseteq RowsOf(act'[b].scope) /\ (~Busy(b)' => gone'[b] = {})
    BY <2>1, <2>2 DEF Same
  <2> QED
    BY <2>1, <2>2, <2>5 DEF RowsOf
<1>3. ASSUME NEW a \in Actors, Walks(a) PROVE VolumeIsObserved'
  <2>1. /\ UNCHANGED <<key, art, fresh, owing, gone>> /\ kept' \subseteq kept \cup OnVolume
        /\ Busy(a) /\ Busy(a)' /\ Same(a) /\ OnVolume' = OnVolume
    BY <1>3, WalksDoes, VolumeStays
  <2>2. Same(Other(a)) /\ (Busy(Other(a))' <=> Busy(Other(a)))
    BY <1>0, <1>3, WalksDoes, TheOther
  <2>3. \A c \in Actors : act'[c].scope = act[c].scope /\ (Busy(c)' <=> Busy(c))
    BY <2>1, <2>2, TheOther DEF Same
  <2> QED
    BY <2>1, <2>3 DEF RowsOf
<1>4. ASSUME NEW t \in Titles, Besides(t) PROVE VolumeIsObserved'
  <2>1. CASE Identify(t)
    <3>1. \A a \in Actors : (Busy(a)' <=> Busy(a)) /\ (Busy(a) => act'[a].scope = act[a].scope)
      BY <2>1, IdentifyDoes DEF Busy, Actors
    <3> QED
      BY <2>1, <3>1 DEF Identify, Observe, RowsOf, TypeOK
  <2>2. CASE WriteArtRows(t)
    <3>1. /\ UNCHANGED <<key, art, fresh, act, gone>> /\ owing' = owing \ {t}
          /\ kept' \subseteq kept \cup Folder(t)
      BY <2>2 DEF WriteArtRows, volume
    <3> QED
      BY <3>1, VolumeStays, FolderRows DEF Busy, RowsOf
  <2>3. CASE Arrives(t)
    BY <2>3 DEF Arrives, Observe, Busy, RowsOf, TypeOK
  <2>4. CASE Leaves(t)
    BY <2>4 DEF Leaves, Observe, Busy, RowsOf, TypeOK
  <2>5. CASE WriteArt(t)
    BY <2>5 DEF WriteArt, Observe, Busy, RowsOf, TypeOK
  <2> QED
    BY <1>4, <2>1, <2>2, <2>3, <2>4, <2>5 DEF Besides
<1>5. CASE NextJob \/ UNCHANGED vars
  BY <1>5, VolumeStays DEF NextJob, vars, volume, ghosts, Busy, RowsOf
<1> QED
  BY <1>1, <1>2, <1>3, <1>4, <1>5, StepKinds

-----------------------------------------------------------------------------
(* What a pass is owed, step by step.                                      *)

\* The rows of the overlap of two passes are exposed.
LEMMA SharedIsExposed ==
  ASSUME OverlapIsExposed, NEW a \in Actors, Busy(a), Busy(Other(a))
  PROVE  \A r \in Rows : r[1] \in act[a].scope /\ r[1] \in act[Other(a)].scope => r \in exposed
BY DEF OverlapIsExposed, RowsOf, Actors, Other

\* Art on the volume is read with its folder, and so is owed art.
LEMMA ArtIsOnVolume ==
  ASSUME TypeOK, VolumeIsObserved
  PROVE  /\ \A t \in art : t \in Titles /\ <<t, "art">> \in Folder(t) /\ <<t, "art">> \in OnVolume
         /\ OwedRows \subseteq OnVolume /\ OwedRows \subseteq Rows
         /\ kept \subseteq OnVolume /\ kept \subseteq Rows
<1>1. \A t \in art : t \in Titles /\ <<t, "art">> \in Folder(t)
  BY WalkAssumption DEF Folder, VolumeIsObserved, TypeOK
<1>2. \A t \in art : <<t, "art">> \in OnVolume
  BY <1>1, FolderRows
<1>3. OwedRows \subseteq OnVolume
  BY <1>2 DEF OwedRows, VolumeIsObserved
<1>4. kept \subseteq OnVolume
  BY DEF VolumeIsObserved
<1> QED
  BY <1>1, <1>2, <1>3, <1>4, FolderRows

\* A step that leaves the catalog and a pass alone leaves it what it is owed.
LEMMA UntouchedStands ==
  ASSUME NEW a \in Actors, PassStands(a), Stays(a), fresh'[a] = fresh[a], gone'[a] = gone[a],
         UNCHANGED <<rows, seen, kept, owing, exposed>>
  PROVE  PassStands(a)'
<1> USE DEF Stays, Same
<1>1. OwedRows' = OwedRows
  BY DEF OwedRows
<1>2. ReadIsKnown(a)'
  BY <1>1 DEF PassStands, ReadIsKnown, Known, Busy
<1>3. PutStands(a)' /\ DoomedIsLoose(a)' /\ GoneIsUnmarked(a)'
  BY DEF PassStands, PutStands, DoomedIsLoose, GoneIsUnmarked
<1>4. SweptIsClean(a)'
  BY DEF PassStands, SweptIsClean, Table
<1> QED
  BY <1>2, <1>3, <1>4 DEF PassStands

LEMMA ReadFolderStands ==
  ASSUME WalkInvariant, NEW a \in Actors, NEW t \in Titles, ReadFolder(a, t)
  PROVE  PassStands(a)' /\ PassStands(Other(a))' /\ SettledRowsStand'
<1> USE DEF WalkInvariant
<1>0. /\ UNCHANGED <<key, art, rows, seen, fresh, owing, kept, exposed, gone>>
      /\ PassStands(a) /\ PassShape(a) /\ OwedRows' = OwedRows
  BY DEF ReadFolder, volume, ghosts, OwedRows
<1>1. /\ Same(a) /\ act'[a].todo = act[a].todo \ {t}
      /\ act'[a].buffer = act[a].buffer \cup Folder(t)
      /\ act'[a].error = act[a].error
      /\ act[a].pc = "read" /\ act'[a].pc \in {"read", "put"} /\ t \in act[a].todo
  BY ReadFolderDoes
<1>2. ReadIsKnown(a)'
  <2>1. \A r \in kept \cup OwedRows : r[1] = t => r \in Folder(t)
    BY ArtIsOnVolume, FolderRows
  <2>2. Busy(a) /\ (\A r : Known(a, r) => Known(a, r)')
    BY <1>0, <1>1 DEF Busy, Known
  <2>3. \A r : r \in Folder(t) => Known(a, r)'
    BY <1>1 DEF Known
  <2> QED
    BY <1>0, <1>1, <2>1, <2>2, <2>3 DEF PassStands, ReadIsKnown, Same
<1>3. PutStands(a)' /\ DoomedIsLoose(a)' /\ SweptIsClean(a)'
  BY <1>1 DEF PutStands, DoomedIsLoose, SweptIsClean
<1>4. GoneIsUnmarked(a)'
  <2>1. gone[a] \cap Folder(t) = {}
    BY FolderRows DEF VolumeIsObserved
  <2> QED
    BY <1>0, <1>1, <2>1 DEF PassStands, GoneIsUnmarked
<1>5. PassStands(Other(a))'
  BY <1>0, ReadFolderDoes, TheOther, UnchangedStays, UntouchedStands
<1> QED
  BY <1>0, <1>2, <1>3, <1>4, <1>5 DEF PassStands, SettledRowsStand

LEMMA ReadErrorStands ==
  ASSUME WalkInvariant, NEW a \in Actors, NEW t \in Titles, ReadError(a, t), act[a].full
  PROVE  PassStands(a)' /\ PassStands(Other(a))' /\ SettledRowsStand'
<1> USE DEF WalkInvariant
<1>0. /\ UNCHANGED <<key, art, rows, seen, fresh, owing, kept, exposed, gone>>
      /\ PassStands(a)
  BY DEF ReadError, volume
<1>1. /\ act'[a].error /\ act'[a].buffer = act[a].buffer
      /\ act[a].pc = "read" /\ act'[a].pc \in {"read", "put"}
  BY ReadErrorDoes
<1>2. PassStands(a)'
  BY <1>0, <1>1 DEF PassStands, ReadIsKnown, PutStands, DoomedIsLoose, SweptIsClean, GoneIsUnmarked
<1>3. PassStands(Other(a))'
  BY <1>0, ReadErrorDoes, TheOther, UnchangedStays, UntouchedStands
<1> QED
  BY <1>0, <1>2, <1>3 DEF SettledRowsStand

LEMMA PutRowsStand ==
  ASSUME WalkInvariant, NEW a \in Actors, PutRows(a)
  PROVE  PassStands(a)' /\ PassStands(Other(a))' /\ SettledRowsStand'
<1> USE DEF WalkInvariant
<1> DEFINE b == Other(a)
<1>0. /\ UNCHANGED <<key, art, seen, fresh, owing, kept, exposed, gone>>
      /\ rows' = rows \cup act[a].buffer /\ OwedRows' = OwedRows
      /\ b \in Actors /\ PassStands(a) /\ PassStands(b) /\ PassShape(a) /\ PassShape(b)
  BY TheOther DEF PutRows, volume, ghosts, OwedRows
<1>1. /\ Same(a) /\ act'[a].todo = act[a].todo /\ act'[a].buffer = act[a].buffer
      /\ act'[a].error = act[a].error /\ act[a].pc = "put" /\ act'[a].pc = "mark" /\ Stays(b)
  BY PutRowsDoes, UnchangedStays, <1>0
<1>2. PassStands(a)'
  <2>1. ReadIsKnown(a)'
    BY <1>0, <1>1 DEF PassStands, ReadIsKnown, Known, Busy, Same
  <2>2. PutStands(a)' /\ DoomedIsLoose(a)' /\ SweptIsClean(a)' /\ GoneIsUnmarked(a)'
    BY <1>0, <1>1 DEF PassStands, PutStands, DoomedIsLoose, SweptIsClean, GoneIsUnmarked
  <2> QED
    BY <2>1, <2>2 DEF PassStands
<1>3. PassStands(b)'
  <2>1. Busy(b) => \A r \in act[a].buffer \cap gone[b] : r \in exposed
    <3>1. Busy(a)
      BY <1>1 DEF Busy
    <3> QED
      BY <1>0, <3>1, SharedIsExposed DEF PassShape, VolumeIsObserved, RowsOf
  <2>2. ReadIsKnown(b)'
    BY <1>0, <1>1 DEF PassStands, ReadIsKnown, Known, Busy, Stays, Same
  <2>3. PutStands(b)' /\ DoomedIsLoose(b)' /\ GoneIsUnmarked(b)'
    BY <1>0, <1>1 DEF PassStands, PutStands, DoomedIsLoose, GoneIsUnmarked, Stays
  <2>4. SweptIsClean(b)'
    BY <1>0, <1>1, <2>1 DEF PassStands, SweptIsClean, Stays, Busy, Table
  <2> QED
    BY <2>2, <2>3, <2>4 DEF PassStands
<1> QED
  BY <1>0, <1>2, <1>3 DEF SettledRowsStand

LEMMA MarkSeenStands ==
  ASSUME WalkInvariant, NEW a \in Actors, MarkSeen(a)
  PROVE  PassStands(a)' /\ PassStands(Other(a))' /\ SettledRowsStand'
<1> USE DEF WalkInvariant
<1> DEFINE b == Other(a)
<1>0. /\ UNCHANGED <<key, art, rows, fresh, owing, exposed, gone>>
      /\ seen' = [r \in Rows |-> IF r \in act[a].buffer THEN a ELSE seen[r]]
      /\ kept' = kept \cup (act[a].buffer \cap OnVolume) /\ OwedRows' = OwedRows
      /\ b \in Actors /\ a # b /\ PassStands(a) /\ PassStands(b) /\ PassShape(a) /\ PassShape(b)
  BY TheOther DEF MarkSeen, volume, OwedRows
<1>1. /\ Same(a) /\ act'[a].todo = act[a].todo /\ act'[a].buffer = {}
      /\ act'[a].error = act[a].error /\ act[a].pc = "mark"
      /\ act'[a].pc \in {"read", "settle", "sweep"} /\ act'[a].table = "items" /\ Stays(b)
  BY MarkSeenDoes, UnchangedStays, <1>0 DEF PassShape
<1>2. /\ act[a].buffer \subseteq Rows /\ OwedRows \subseteq Rows /\ kept \subseteq Rows
      /\ \A c \in Actors : gone[c] \subseteq Rows
  BY <1>0, ArtIsOnVolume DEF PassShape, RowsOf, TypeOK
<1>3. Busy(b) => \A r \in act[a].buffer : r[1] \in act[b].scope => r \in exposed
  <2>1. Busy(a)
    BY <1>1 DEF Busy
  <2> QED
    BY <1>0, <2>1, SharedIsExposed DEF PassShape, RowsOf
<1>4. PassStands(a)'
  <2>1. ReadIsKnown(a)'
    BY <1>0, <1>1, <1>2 DEF PassStands, ReadIsKnown, Known, Busy, Same
  <2>2. GoneIsUnmarked(a)'
    BY <1>0, <1>1, <1>2 DEF PassStands, GoneIsUnmarked
  <2>3. PutStands(a)' /\ DoomedIsLoose(a)' /\ SweptIsClean(a)'
    BY <1>1 DEF PutStands, DoomedIsLoose, SweptIsClean
  <2> QED
    BY <2>1, <2>2, <2>3 DEF PassStands
<1>5. PassStands(b)'
  <2>1. ReadIsKnown(b)'
    BY <1>0, <1>1, <1>2, <1>3 DEF PassStands, ReadIsKnown, Known, Busy, Stays, Same
  <2>2. GoneIsUnmarked(b)'
    BY <1>0, <1>1, <1>2 DEF PassStands, GoneIsUnmarked, Stays
  <2>3. DoomedIsLoose(b)'
    BY <1>0, <1>1, <1>3 DEF PassStands, DoomedIsLoose, Stays, PassShape, RowsOf, Busy
  <2>4. PutStands(b)' /\ SweptIsClean(b)'
    BY <1>0, <1>1 DEF PassStands, PutStands, SweptIsClean, Stays, Table
  <2> QED
    BY <2>1, <2>2, <2>3, <2>4 DEF PassStands
<1>6. SettledRowsStand'
  BY <1>0, <1>1 DEF SettledRowsStand, PassStands, PutStands
<1> QED
  BY <1>4, <1>5, <1>6

LEMMA SettlesStands ==
  ASSUME WalkInvariant, NEW a \in Actors, Settles(a), ~Ends(a)
  PROVE  PassStands(a)' /\ PassStands(Other(a))' /\ SettledRowsStand'
<1> USE DEF WalkInvariant
<1>0. /\ UNCHANGED <<key, art, rows, seen, fresh, owing, kept, exposed, gone>>
      /\ PassStands(a) /\ PassShape(a) /\ OwedRows' = OwedRows
  BY SettlesDoes DEF Settles, volume, OwedRows
<1>1. /\ Same(a) /\ act'[a].buffer = act[a].buffer /\ act'[a].todo = act[a].todo
      /\ ~act[a].error /\ act'[a].table = "items"
      /\ act[a].pc = "settle" /\ act'[a].pc = "sweep"
  BY <1>0, SettlesDoes DEF PassShape
<1>2. PassStands(a)'
  <2>1. ReadIsKnown(a)'
    BY <1>0, <1>1 DEF PassStands, ReadIsKnown, Known, Busy, Same
  <2>2. PutStands(a)' /\ DoomedIsLoose(a)' /\ SweptIsClean(a)' /\ GoneIsUnmarked(a)'
    BY <1>0, <1>1 DEF PassStands, PutStands, DoomedIsLoose, SweptIsClean, GoneIsUnmarked
  <2> QED
    BY <2>1, <2>2 DEF PassStands
<1>3. PassStands(Other(a))'
  BY <1>0, SettlesDoes, TheOther, UnchangedStays, UntouchedStands
<1> QED
  BY <1>0, <1>2, <1>3 DEF SettledRowsStand

LEMMA SweepReadsStands ==
  ASSUME WalkInvariant, NEW a \in Actors, SweepReads(a)
  PROVE  PassStands(a)' /\ PassStands(Other(a))' /\ SettledRowsStand'
<1> USE DEF WalkInvariant
<1> DEFINE doomed == Unmarked(a, act[a].table)
<1>0. /\ UNCHANGED <<key, art, rows, seen, fresh, owing, kept, exposed, gone>>
      /\ PassStands(a) /\ PassShape(a) /\ OwedRows' = OwedRows
  BY DEF SweepReads, volume, ghosts, OwedRows
<1>1. /\ Same(a) /\ act[a].pc = "sweep" /\ act'[a].pc = "delete"
      /\ act'[a].doomed = doomed /\ act'[a].table = act[a].table
      /\ act'[a].buffer = {} /\ act[a].buffer = {} /\ act'[a].todo = {} /\ act[a].todo = {}
      /\ act'[a].error = act[a].error /\ ~act[a].error
  BY <1>0, SweepReadsDoes DEF PassShape
<1>2. ReadIsKnown(a)'
  BY <1>0, <1>1 DEF PassStands, ReadIsKnown, Known, Busy, Same
<1>3. DoomedIsLoose(a)'
  <2>1. ASSUME NEW r \in doomed, r \in kept PROVE r \in exposed
    <3>1. r[1] \in act[a].scope /\ seen[r] # a /\ ~(r[2] = "art" /\ r[1] \in fresh[a])
      BY <2>1 DEF Unmarked, RowsOf
    <3>2. ~Known(a, r)
      BY <1>1, <3>1 DEF Known
    <3> QED
      BY <1>0, <1>1, <2>1, <3>1, <3>2 DEF PassStands, ReadIsKnown, Busy
  <2> QED
    BY <1>0, <1>1, <2>1 DEF DoomedIsLoose
<1>4. SweptIsClean(a)'
  <2>1. ASSUME NEW r \in rows \cap gone[a] \cap Table(act[a].table) PROVE r \in doomed
    <3>1. r \in RowsOf(act[a].scope) /\ r \notin OnVolume /\ seen[r] # a
      BY <1>0 DEF VolumeIsObserved, PassStands, GoneIsUnmarked
    <3>2. ~(r[2] = "art" /\ r[1] \in fresh[a])
      <4>1. SUFFICES ASSUME r[2] = "art", r[1] \in fresh[a] PROVE FALSE
        OBVIOUS
      <4>2. r = <<r[1], "art">>
        BY <3>1, <4>1 DEF RowsOf, Rows
      <4>3. r[1] \in art
        BY <4>1 DEF VolumeIsObserved
      <4> QED
        BY <3>1, <4>2, <4>3, ArtIsOnVolume
    <3> QED
      BY <3>1, <3>2 DEF Unmarked
  <2> HIDE DEF doomed
  <2> QED
    BY <1>0, <1>1, <2>1 DEF SweptIsClean, PassStands, Table
<1>5. PutStands(a)' /\ GoneIsUnmarked(a)'
  BY <1>0, <1>1 DEF PassStands, PutStands, GoneIsUnmarked
<1>6. PassStands(Other(a))'
  BY <1>0, SweepReadsDoes, TheOther, UnchangedStays, UntouchedStands
<1> QED
  BY <1>0, <1>2, <1>3, <1>4, <1>5, <1>6 DEF PassStands, SettledRowsStand

LEMMA SweepDeletesStands ==
  ASSUME WalkInvariant, NEW a \in Actors, SweepDeletes(a)
  PROVE  PassStands(a)' /\ PassStands(Other(a))' /\ SettledRowsStand'
<1> USE DEF WalkInvariant
<1> DEFINE b == Other(a)
<1>0. /\ UNCHANGED <<key, art, seen, fresh, owing, kept, exposed, gone>>
      /\ rows' = rows \ act[a].doomed /\ OwedRows' = OwedRows /\ rows \subseteq Rows
      /\ b \in Actors /\ PassStands(a) /\ PassStands(b) /\ PassShape(a) /\ PassShape(b)
  BY TheOther DEF SweepDeletes, volume, ghosts, OwedRows, TypeOK
<1>1. /\ Same(a) /\ act'[a].buffer = act[a].buffer /\ act'[a].todo = act[a].todo
      /\ act'[a].error = act[a].error /\ act'[a].doomed = {} /\ act[a].pc = "delete"
      /\ act'[a].pc = IF act[a].table = "files" THEN "clean" ELSE "sweep"
      /\ act'[a].table = IF act[a].table = "items" THEN "links" ELSE "files"
  BY SweepDeletesDoes
<1>5. act[a].table \in {"items", "links", "files"}
  <2>1. act[a] \in Passes
    BY DEF TypeOK
  <2> QED
    BY <2>1 DEF Passes
<1>6. Stays(b) /\ act[a].pc = "delete"
  BY <1>0, SweepDeletesDoes, UnchangedStays
<1> HIDE DEF b
<1>2. PassStands(a)'
  <2>1. ReadIsKnown(a)'
    BY <1>0, <1>1 DEF PassStands, ReadIsKnown, Known, Busy, Same
  <2>2. PutStands(a)' /\ DoomedIsLoose(a)' /\ GoneIsUnmarked(a)'
    BY <1>0, <1>1 DEF PassStands, PutStands, DoomedIsLoose, GoneIsUnmarked
  <2>3. SweptIsClean(a)'
    <3>0. /\ rows \cap gone[a] \cap Table(act[a].table) \subseteq act[a].doomed \cup exposed
          /\ act[a].table # "items" => rows \cap gone[a] \cap Table("items") \subseteq exposed
          /\ act[a].table = "files" => rows \cap gone[a] \cap Table("links") \subseteq exposed
      BY <1>0, <1>1 DEF PassStands, SweptIsClean
    <3>1. CASE act[a].table = "items"
      BY <1>0, <1>1, <3>0, <3>1 DEF SweptIsClean, Table
    <3>2. CASE act[a].table = "links"
      BY <1>0, <1>1, <3>0, <3>2 DEF SweptIsClean, Table
    <3>3. CASE act[a].table = "files"
      <4>1. rows' \cap gone[a] \subseteq exposed
        BY <1>0, <3>0, <3>3, TablesCoverRows
      <4> QED
        BY <1>0, <1>1, <3>3, <4>1 DEF SweptIsClean
    <3> QED
      BY <1>5, <3>1, <3>2, <3>3
  <2> QED
    BY <2>1, <2>2, <2>3 DEF PassStands
<1>3. PassStands(b)'
  <2>1. Busy(b) => \A r \in act[a].doomed \cap act[b].buffer : r \in exposed
    <3>1. Busy(a)
      BY <1>6 DEF Busy
    <3> QED
      BY <1>0, <3>1, SharedIsExposed DEF b, PassShape, RowsOf
  <2>2. PutStands(b)'
    BY <1>0, <1>6, <2>1 DEF PassStands, PutStands, Stays, Busy
  <2>3. ReadIsKnown(b)'
    BY <1>0, <1>6 DEF PassStands, ReadIsKnown, Known, Busy, Stays, Same
  <2>4. DoomedIsLoose(b)' /\ GoneIsUnmarked(b)'
    BY <1>0, <1>6 DEF PassStands, DoomedIsLoose, GoneIsUnmarked, Stays
  <2>5. SweptIsClean(b)'
    BY <1>0, <1>6 DEF PassStands, SweptIsClean, Stays, Table
  <2> QED
    BY <2>2, <2>3, <2>4, <2>5 DEF PassStands
<1>4. SettledRowsStand'
  BY <1>0, <1>1 DEF SettledRowsStand, PassStands, DoomedIsLoose
<1> QED
  BY <1>2, <1>3, <1>4 DEF b

LEMMA BeginsStands ==
  ASSUME WalkInvariant, NEW a \in Actors, Begins(a)
  PROVE  PassStands(a)' /\ PassStands(Other(a))' /\ SettledRowsStand'
<1> USE DEF WalkInvariant
<1> DEFINE b == Other(a)
<1>0. b \in Actors /\ a # b /\ PassStands(b) /\ PassShape(b) /\ OwedRows' = OwedRows
  BY TheOther, BeginsDoes DEF OwedRows
<1>1. /\ Stays(b) /\ rows' = rows /\ fresh'[b] = fresh[b] /\ gone'[b] = gone[b]
      /\ act'[a].pc = "read" /\ act'[a].todo = act'[a].scope /\ act'[a].buffer = {}
      /\ seen' = [r \in Rows |-> IF seen[r] = a THEN "none" ELSE seen[r]]
      /\ gone'[a] \subseteq Rows /\ a # "none"
  BY BeginsDoes DEF RowsOf, NewEpoch, Actors
<1>2. PassStands(a)'
  <2>1. \A r \in Rows : seen'[r] # a
    BY <1>1
  <2>2. ReadIsKnown(a)' /\ PutStands(a)' /\ DoomedIsLoose(a)' /\ SweptIsClean(a)'
    BY <1>1 DEF ReadIsKnown, PutStands, DoomedIsLoose, SweptIsClean
  <2>3. GoneIsUnmarked(a)'
    BY <1>1, <2>1 DEF GoneIsUnmarked
  <2> QED
    BY <2>2, <2>3 DEF PassStands
<1>3. GoneIsUnmarked(b)'
  <2>1. \A r \in gone[b] : r \in Rows /\ (seen'[r] = b => seen[r] = b)
    BY <1>0, <1>1 DEF VolumeIsObserved, RowsOf, Actors
  <2> QED
    BY <1>0, <1>1, <2>1 DEF PassStands, GoneIsUnmarked, Stays
<1>4. CASE Busy(b)
  <2>1. kept' = kept /\ exposed \subseteq exposed'
    BY <1>4, BeginsDoes
  <2> HIDE DEF b
  <2>2. ReadIsKnown(b)'
    <3>1. \A r \in (kept \cup OwedRows) : Known(b, r) => Known(b, r)'
      BY <1>0, <1>1, ArtIsOnVolume DEF Known, Stays
    <3> QED
      BY <1>0, <1>1, <2>1, <3>1 DEF PassStands, ReadIsKnown, Stays, Same, Busy
  <2>3. PutStands(b)' /\ DoomedIsLoose(b)'
    BY <1>0, <1>1, <2>1 DEF PassStands, PutStands, DoomedIsLoose, Stays
  <2>4. SweptIsClean(b)'
    BY <1>0, <1>1, <2>1 DEF PassStands, SweptIsClean, Stays, Table
  <2>5. SettledRowsStand'
    BY <1>1, <2>1 DEF SettledRowsStand
  <2> QED
    BY <1>2, <1>3, <2>2, <2>3, <2>4, <2>5 DEF PassStands, b
<1>5. CASE ~Busy(b)
  <2>1. kept' \ exposed' \subseteq kept \ exposed
    BY <1>5, BeginsDoes
  <2> HIDE DEF b
  <2>2. ReadIsKnown(b)' /\ PutStands(b)' /\ DoomedIsLoose(b)' /\ SweptIsClean(b)'
    BY <1>1, <1>5 DEF ReadIsKnown, PutStands, DoomedIsLoose, SweptIsClean, Stays, Busy
  <2>3. SettledRowsStand'
    BY <1>1, <2>1 DEF SettledRowsStand
  <2> QED
    BY <1>2, <1>3, <2>2, <2>3 DEF PassStands, b
<1> QED
  BY <1>4, <1>5

LEMMA OverStands ==
  ASSUME WalkInvariant, NEW a \in Actors, Over(a)
  PROVE  PassStands(a)' /\ PassStands(Other(a))' /\ SettledRowsStand'
<1> USE DEF WalkInvariant
<1> DEFINE b == Other(a)
<1>0. /\ b \in Actors /\ a # b /\ PassStands(b) /\ PassShape(a) /\ PassShape(b)
      /\ OwedRows' = OwedRows /\ kept' = kept /\ exposed' = exposed /\ Other(b) = a
  BY TheOther, OverDoes DEF OwedRows, Other, Actors
<1>1. /\ Stays(b) /\ act'[a] = Idle /\ fresh'[b] = fresh[b] /\ gone'[b] = gone[b] /\ gone'[a] = {}
  BY OverDoes
<1>2. \/ rows' = rows
      \/ Busy(a) /\ rows \subseteq rows' /\ rows' \subseteq rows \cup act[a].buffer
  BY DEF Over
<1>3. \/ seen' = seen
      \/ /\ Busy(a)
         /\ seen' = [r \in Rows |-> IF act[a].full /\ act[b].older /\ seen[r] = b
                                    THEN "none" ELSE seen[r]]
  BY DEF Over
<1>4. PassStands(a)'
  BY <1>1 DEF PassStands, ReadIsKnown, PutStands, DoomedIsLoose, SweptIsClean, GoneIsUnmarked, Idle, Busy
<1> HIDE DEF b
<1>5. Busy(a) /\ Busy(b) => \A r \in Rows : r[1] \in act[a].scope /\ r[1] \in act[b].scope => r \in exposed
  BY <1>0, SharedIsExposed
<1>6. ReadIsKnown(b)'
  <2>1. ASSUME Busy(b), NEW r \in kept \cup OwedRows, r \notin exposed, r[1] \in act[b].scope, Known(b, r)
        PROVE  Known(b, r)'
    <3>1. r \in Rows /\ r[1] \in Titles
      BY ArtIsOnVolume DEF Rows
    <3>2. CASE seen' = seen
      BY <1>1, <2>1, <3>2 DEF Known, Stays
    <3>3. CASE Busy(a) /\ act[a].full
      BY <1>0, <1>5, <2>1, <3>1, <3>3 DEF PassShape
    <3>4. CASE ~act[a].full
      <4>1. seen'[r] = seen[r]
        BY <1>3, <3>1, <3>4
      <4> QED
        BY <1>1, <2>1, <4>1 DEF Known, Stays
    <3> QED
      BY <1>3, <3>2, <3>3, <3>4
  <2> QED
    BY <1>0, <1>1, <2>1 DEF PassStands, ReadIsKnown, Stays, Same, Busy
<1>7. GoneIsUnmarked(b)'
  <2>1. \A r \in gone[b] : r \in Rows /\ (seen'[r] = b => seen[r] = b)
    BY <1>0, <1>3 DEF VolumeIsObserved, RowsOf, Actors
  <2> QED
    BY <1>0, <1>1, <2>1 DEF PassStands, GoneIsUnmarked, Stays
<1>8. PutStands(b)' /\ DoomedIsLoose(b)'
  BY <1>0, <1>1, <1>2 DEF PassStands, PutStands, DoomedIsLoose, Stays
<1>9. SweptIsClean(b)'
  <2>1. Busy(b) => rows' \cap gone[b] \subseteq rows \cup exposed
    BY <1>0, <1>2, <1>5 DEF PassShape, VolumeIsObserved, RowsOf
  <2> QED
    BY <1>0, <1>1, <2>1 DEF PassStands, SweptIsClean, Stays, Busy, Table
<1>10. SettledRowsStand'
  BY <1>0, <1>2 DEF SettledRowsStand
<1> QED
  BY <1>4, <1>6, <1>7, <1>8, <1>9, <1>10 DEF PassStands, b

\* A change of the volume takes from what is observed and adds to no pass.
LEMMA ObservedStands ==
  ASSUME WalkInvariant, Observe, NEW a \in Actors, Stays(a), UNCHANGED <<rows, seen>>,
         \A r \in (kept' \cup OwedRows') \ exposed : Busy(a) =>
             \/ (r \in kept \cup OwedRows) /\ (Known(a, r) => Known(a, r)')
             \/ Known(a, r)'
  PROVE  PassStands(a)'
<1> USE DEF WalkInvariant, Stays, Same
<1>1. PassStands(a) /\ kept' \subseteq kept /\ gone'[a] \subseteq gone[a] /\ exposed' = exposed
  BY DEF Observe, TypeOK
<1>2. ReadIsKnown(a)'
  BY <1>1 DEF PassStands, ReadIsKnown, Busy
<1>3. PutStands(a)' /\ DoomedIsLoose(a)' /\ GoneIsUnmarked(a)'
  BY <1>1 DEF PassStands, PutStands, DoomedIsLoose, GoneIsUnmarked
<1>4. SweptIsClean(a)'
  BY <1>1 DEF PassStands, SweptIsClean, Table
<1> QED
  BY <1>2, <1>3, <1>4 DEF PassStands

LEMMA ArrivesStands ==
  ASSUME WalkInvariant, NEW t \in Titles, Arrives(t)
  PROVE  (\A a \in Actors : PassStands(a)') /\ SettledRowsStand'
<1>1. /\ UNCHANGED <<art, rows, seen, fresh, act, turn, owing>> /\ Observe
      /\ kept' \subseteq kept /\ exposed' = exposed /\ OwedRows' = OwedRows
  BY DEF Arrives, Observe, OwedRows
<1>2. \A a \in Actors : Stays(a) /\ (\A r : Known(a, r)' <=> Known(a, r))
  BY <1>1, UnchangedStays DEF Known
<1>3. \A a \in Actors : PassStands(a)'
  BY <1>1, <1>2, ObservedStands
<1> QED
  BY <1>1, <1>3 DEF WalkInvariant, SettledRowsStand

LEMMA LeavesStands ==
  ASSUME WalkInvariant, NEW t \in Titles, Leaves(t)
  PROVE  (\A a \in Actors : PassStands(a)') /\ SettledRowsStand'
<1> USE DEF WalkInvariant
<1>1. /\ UNCHANGED <<rows, seen, act, turn>> /\ Observe
      /\ fresh' = [a \in Actors |-> fresh[a] \ {t}] /\ owing' = owing \ {t}
      /\ key' = [key EXCEPT ![t] = "none"] /\ art' = art \ {t}
      /\ kept' = kept \cap OnVolume' /\ exposed' = exposed
  BY DEF Leaves, Observe
<1>2. \A a \in Actors : Stays(a)
  BY <1>1, UnchangedStays
<1>3. \A r \in kept' \cup OwedRows' : r[1] # t
  <2>1. key'[t] = "none" /\ \A u \in Titles : \A r \in Folder(u)' : r[1] = u /\ u # t
    BY <1>1 DEF Folder, TypeOK
  <2>2. \A r \in OnVolume' : r[1] # t
    BY <2>1 DEF OnVolume
  <2> QED
    BY <1>1, <2>2 DEF OwedRows
<1>4. OwedRows' \subseteq OwedRows /\ kept' \subseteq kept
  BY <1>1 DEF OwedRows
<1>5. ASSUME NEW a \in Actors, NEW r \in kept' \cup OwedRows', Known(a, r) PROVE Known(a, r)'
  BY <1>1, <1>3, <1>5 DEF Known
<1>6. \A a \in Actors : PassStands(a)'
  BY <1>1, <1>2, <1>4, <1>5, ObservedStands
<1> QED
  BY <1>1, <1>4, <1>6 DEF SettledRowsStand

LEMMA IdentifyStands ==
  ASSUME WalkInvariant, NEW t \in Titles, Identify(t)
  PROVE  (\A a \in Actors : PassStands(a)') /\ SettledRowsStand'
<1> USE DEF WalkInvariant
<1>1. /\ UNCHANGED <<art, rows, seen, fresh, turn, owing>> /\ Observe
      /\ kept' \subseteq kept /\ exposed' = exposed /\ OwedRows' = OwedRows
      /\ gone' = [a \in Actors |-> gone[a] \ OnVolume']
  BY DEF Identify, Observe, OwedRows
<1>2. PassStands("scan")'
  <2>1. "scan" \in Actors /\ Stays("scan") /\ (\A r : Known("scan", r)' <=> Known("scan", r))
    BY <1>1, IdentifyDoes, UnchangedStays DEF Known, Actors
  <2> QED
    BY <1>1, <2>1, ObservedStands
<1>3. PassStands("identity")'
  <2>1. /\ act["identity"].pc = "idle" /\ act'["identity"].pc = "asked" /\ "identity" \in Actors
    BY IdentifyDoes DEF Actors
  <2>2. gone'["identity"] = {}
    BY <1>1, <2>1 DEF VolumeIsObserved, Busy
  <2> QED
    BY <2>1, <2>2 DEF PassStands, ReadIsKnown, PutStands, DoomedIsLoose, SweptIsClean, GoneIsUnmarked, Busy
<1> QED
  BY <1>1, <1>2, <1>3 DEF SettledRowsStand, Actors

LEMMA WriteArtStands ==
  ASSUME WalkInvariant, NEW t \in Titles, WriteArt(t)
  PROVE  (\A a \in Actors : PassStands(a)') /\ SettledRowsStand'
<1> USE DEF WalkInvariant
<1>1. /\ UNCHANGED <<rows, seen, act, turn>> /\ Observe
      /\ fresh' = [a \in Actors |-> IF Busy(a) THEN fresh[a] \cup {t} ELSE {}]
      /\ owing' = owing \cup {t} /\ kept' \subseteq kept /\ exposed' = exposed
  BY DEF WriteArt, Observe
<1>2. \A a \in Actors : Stays(a)
  BY <1>1, UnchangedStays
<1>3. \A r \in OwedRows' : r \in OwedRows \/ r = <<t, "art">>
  BY <1>1 DEF OwedRows
<1>4. ASSUME NEW a \in Actors, Busy(a)
      PROVE  Known(a, <<t, "art">>)' /\ \A r : Known(a, r) => Known(a, r)'
  BY <1>1, <1>4 DEF Known
<1>5. \A a \in Actors : PassStands(a)'
  BY <1>1, <1>2, <1>3, <1>4, ObservedStands
<1> QED
  BY <1>1, <1>5 DEF SettledRowsStand

LEMMA WriteArtRowsStand ==
  ASSUME WalkInvariant, NEW t \in Titles, WriteArtRows(t)
  PROVE  (\A a \in Actors : PassStands(a)') /\ SettledRowsStand'
<1> USE DEF WalkInvariant
<1> DEFINE images == Folder(t) \ {<<t, key[t]>>, <<t, "video">>}
           beside == {b \in Actors : Busy(b) /\ t \in act[b].scope}
<1>1. /\ UNCHANGED <<key, art, seen, fresh, act, gone>> /\ t \in owing /\ owing' = owing \ {t}
      /\ rows' = rows \cup images /\ kept' = kept \cup images
      /\ exposed' = exposed \cup UNION {images \cap (Links \cup act[a].doomed) : a \in beside}
  BY DEF WriteArtRows, volume
<1>2. images \subseteq OnVolume /\ images \subseteq Rows /\ \A r \in images : r[1] = t
  BY FolderRows DEF RowsOf
<1>3. \A r \in images : r = <<t, "art">> \/ r \in Links
  BY DEF Folder, Links, Table, LinkKinds
<1>4. <<t, "art">> \in OwedRows /\ OwedRows' \subseteq OwedRows
  BY <1>1 DEF OwedRows
<1> HIDE DEF images
<1>5. ASSUME NEW a \in Actors PROVE PassStands(a)'
  <2>0. /\ PassStands(a) /\ PassShape(a) /\ exposed \subseteq exposed'
        /\ Busy(a) /\ t \in act[a].scope => images \cap (Links \cup act[a].doomed) \subseteq exposed'
    BY <1>1
  <2>1. ReadIsKnown(a)'
    <3>1. ASSUME Busy(a), NEW r \in kept' \cup OwedRows', r \notin exposed', r[1] \in act[a].scope
          PROVE  r \in (kept \cup OwedRows) \ exposed
      <4>1. r \notin exposed /\ r \in kept \cup images \cup OwedRows
        BY <1>1, <1>4, <2>0, <3>1
      <4>2. r \in images => r = <<t, "art">>
        BY <1>2, <1>3, <2>0, <3>1
      <4> QED
        BY <1>4, <4>1, <4>2
    <3>2. \A r : Known(a, r)' <=> Known(a, r)
      BY <1>1 DEF Known
    <3> QED
      BY <1>1, <2>0, <3>1, <3>2 DEF PassStands, ReadIsKnown, Busy
  <2>2. DoomedIsLoose(a)'
    BY <1>1, <1>2, <2>0 DEF PassStands, DoomedIsLoose, PassShape, RowsOf, Busy
  <2>3. PutStands(a)' /\ GoneIsUnmarked(a)'
    BY <1>1, <2>0 DEF PassStands, PutStands, GoneIsUnmarked
  <2>4. SweptIsClean(a)'
    <3>1. rows' \cap gone[a] \subseteq rows \cap gone[a] /\ act' = act /\ gone' = gone
      BY <1>1, <1>2 DEF VolumeIsObserved
    <3>2. exposed \subseteq exposed' /\ SweptIsClean(a)
      BY <2>0 DEF PassStands
    <3> QED
      BY <3>1, <3>2 DEF SweptIsClean, Table
  <2> QED
    BY <2>1, <2>2, <2>3, <2>4 DEF PassStands
<1>6. SettledRowsStand'
  BY <1>1 DEF SettledRowsStand
<1> QED
  BY <1>5, <1>6

-----------------------------------------------------------------------------
(* The theorems.                                                           *)

LEMMA InitWalk == Init => WalkInvariant
<1> SUFFICES ASSUME Init PROVE WalkInvariant
  OBVIOUS
<1> USE DEF Init
<1>1. TypeOK
  BY InitType
<1>2. \A a \in Actors : act[a] = Idle /\ fresh[a] = {} /\ gone[a] = {}
  OBVIOUS
<1>3. (\A a \in Actors : PassShape(a)) /\ OverlapIsExposed
  BY <1>2 DEF PassShape, OverlapIsExposed, Idle, Busy, Actors
<1>4. VolumeIsObserved /\ SettledRowsStand
  BY <1>2 DEF VolumeIsObserved, SettledRowsStand
<1>5. ASSUME NEW a \in Actors PROVE PassStands(a)
  BY <1>2 DEF PassStands, ReadIsKnown, PutStands, DoomedIsLoose, GoneIsUnmarked, SweptIsClean, Busy, Idle
<1> QED
  BY <1>1, <1>3, <1>4, <1>5 DEF WalkInvariant

LEMMA WalkStep == WalkInvariant /\ [Next]_vars => WalkInvariant'
<1> SUFFICES ASSUME WalkInvariant, [Next]_vars PROVE WalkInvariant'
  OBVIOUS
<1>0. TypeOK' /\ (\A a \in Actors : PassShape(a)') /\ OverlapIsExposed' /\ VolumeIsObserved'
  BY TypeStep, ShapeStep, OverlapStep, VolumeStep DEF WalkInvariant
<1>1. ASSUME NEW a \in Actors, Begins(a) \/ Over(a) \/ Walks(a)
      PROVE  PassStands(a)' /\ PassStands(Other(a))' /\ SettledRowsStand'
  BY <1>1, BeginsStands, OverStands, ReadFolderStands, ReadErrorStands, PutRowsStand, MarkSeenStands,
     SettlesStands, SweepReadsStands, SweepDeletesStands DEF Walks
<1>2. ASSUME NEW t \in Titles, Besides(t)
      PROVE  (\A a \in Actors : PassStands(a)') /\ SettledRowsStand'
  BY <1>2, ArrivesStands, LeavesStands, IdentifyStands, WriteArtStands, WriteArtRowsStand DEF Besides
<1>3. ASSUME NextJob \/ UNCHANGED vars
      PROVE  (\A a \in Actors : PassStands(a)') /\ SettledRowsStand'
  <2>1. UNCHANGED <<rows, seen, fresh, act, owing, kept, exposed, gone>>
    BY <1>3 DEF NextJob, vars, ghosts
  <2>2. \A a \in Actors : PassStands(a)'
    BY <2>1, UnchangedStays, UntouchedStands DEF WalkInvariant
  <2> QED
    BY <2>1, <2>2 DEF WalkInvariant, SettledRowsStand
<1>4. TypeOK
  BY DEF WalkInvariant
<1>5. (\A a \in Actors : PassStands(a)') /\ SettledRowsStand'
  BY <1>1, <1>2, <1>3, <1>4, StepKinds, TheOther
<1> QED
  BY <1>0, <1>5 DEF WalkInvariant

\* Every variable of the mark-and-sweep keeps its type.
THEOREM TypeCorrect == Spec => []TypeOK
BY InitType, TypeStep, PTL DEF Spec

\* What a pass reads, marks and sweeps keeps its part of the invariant at
\* every step of the walk, the rescans, the facts and the volume.
THEOREM WalkInductive == Spec => []WalkInvariant
BY InitWalk, WalkStep, PTL DEF Spec

\* Catalog.sweep takes no row that the catalog was given and whose title or
\* file is still on the volume, but for one that another actor wrote while a
\* walk or a rescan of its title ran.
THEOREM NoSettledRowIsSwept == Spec => []SettledRowsStand
<1>1. WalkInvariant => SettledRowsStand
  BY DEF WalkInvariant
<1> QED
  BY <1>1, WalkInductive, PTL

\* A full walk that swept every table left no row of what was off the volume
\* since its epoch: a removal is never missed.
THEOREM NoRemovalIsMissed == Spec => []SweepIsComplete
<1>1. WalkInvariant => SweepIsComplete
  BY DEF WalkInvariant, PassStands, SweptIsClean, SweepIsComplete
<1> QED
  BY <1>1, WalkInductive, PTL
=============================================================================
