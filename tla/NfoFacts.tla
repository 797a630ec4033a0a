------------------------------ MODULE NfoFacts ------------------------------
(***************************************************************************)
(* The .nfo file of one title, which three containers of a library Job     *)
(* edit at the same time, and a media server beside them: the probe        *)
(* (probe.go), the identity fact (identityrole.go) and the facts of the    *)
(* nfo container (nfofactsrole.go), through the lock of phasemarks.go and  *)
(* the door of volumewrite.go; the ledgers of .liken/ (likenledger.go);    *)
(* and the rows that the facts and the walk read off the folder            *)
(* (factrows.go, attempts.go), which say what a gap holds (enrich.go).     *)
(*                                                                         *)
(* The file is one value for each group of elements.  An attempt is its    *)
(* result and its age: it stands, its window lapsed, or the Library named  *)
(* a later refresh.                                                        *)
(***************************************************************************)
EXTENDS Naturals, FiniteSets

CONSTANTS
    Facts,    \* the facts that the nfo container runs
    Faults    \* bounds: how often each kind of mishap or edit may happen

NfoAssumption ==
    /\ Facts \cap {"probe", "identity", "fileinfo", "uniqueid"} = {}
    /\ Faults \subseteq [{"dies", "refreshes", "changes", "edits", "asks", "writes",
                         "ledgers", "catalog"} -> Nat]

Runs == {"probe", "identity"} \cup Facts
Containers == {"probe", "identity", "nfo"}
Container(r) == IF r \in Facts THEN "nfo" ELSE r
Group(r) == CASE r = "probe" -> "fileinfo" [] r = "identity" -> "uniqueid" [] OTHER -> r
Groups == {Group(r) : r \in Runs}

VARIABLES
    nfo,      \* the value of each group; "none" is no element of it
    lock,     \* the container that holds the lock of the file, or ""
    ledger,   \* of each fact: [wrote: {} or {value}, attempt]
    rows,     \* the title's rows
    holds,    \* what the providers answer for each fact
    proc,     \* where each container is
    job,      \* [on, walk, snap, spent]
    budget

vars == <<nfo, lock, ledger, rows, holds, proc, job, budget>>

Never == [result |-> "none", age |-> "lapsed"]
Made(result) == [result |-> result, age |-> "stands"]
Idle == [at |-> "idle", run |-> "none", doc |-> {}, answer |-> "none", result |-> "none", snap |-> {}]
NoJob == [on |-> FALSE, walk |-> "none", snap |-> {}, spent |-> FALSE]
NoRows == [held |-> FALSE, named |-> FALSE, body |-> [f \in Facts |-> "none"], streams |-> FALSE,
           attempt |-> [r \in Runs |-> Never]]

Init ==
    /\ nfo \in {n \in [Groups -> {"none", "theirs"}] : \A g \in Groups \ Facts : n[g] = "none"}
    /\ lock = ""
    /\ ledger = [r \in Runs |-> [wrote |-> {}, attempt |-> Never]]
    /\ rows = NoRows
    /\ holds = [f \in Facts |-> "ours"]
    /\ proc = [c \in Containers |-> Idle]
    /\ job = NoJob
    /\ budget \in Faults

Spend(kind) == budget[kind] > 0 /\ budget' = [budget EXCEPT ![kind] = @ - 1]
The(set) == CHOOSE x \in set : TRUE
Goes(c, at) == proc' = [proc EXCEPT ![c].at = at]
Fails(c, result) == proc' = [proc EXCEPT ![c].at = "record", ![c].result = result]

-----------------------------------------------------------------------------
(* The folder as the walk reads it, and the rows it becomes.                *)

Folder == [nfo |-> nfo, ledger |-> ledger]
Attempted(snap, r) ==
    IF snap.ledger[r].attempt = Never THEN rows.attempt[r] ELSE snap.ledger[r].attempt
RowsOf(snap) ==
    [held |-> TRUE, named |-> snap.nfo["uniqueid"] # "none",
     body |-> [f \in Facts |-> snap.nfo[f]],
     streams |-> snap.ledger["probe"].wrote # {},
     attempt |-> [r \in Runs |-> Attempted(snap, r)]]

-----------------------------------------------------------------------------
(* The gap of a fact.                                                      *)

Missing(r) ==
    CASE r = "probe" -> ~rows.streams
      [] r = "identity" -> ~rows.named
      [] OTHER -> rows.named /\ rows.body[r] = "none"
Reaches(r) == r \in Facts => rows.named
GapOnce(r) ==                \* mutant: an attempt closes its gap for good
    /\ rows.held /\ Reaches(r)
    /\ Missing(r) \/ rows.attempt[r].age = "refreshed"
    /\ rows.attempt[r].age # "stands" /\ rows.attempt[r].result # "error"
Gap(r) ==
    /\ rows.held /\ Reaches(r)
    /\ Missing(r) \/ rows.attempt[r].age = "refreshed"
    /\ rows.attempt[r].age # "stands"

-----------------------------------------------------------------------------
(* The Job and its walk.  Every container starts when the Job does.        *)

StartJob ==
    /\ ~job.on
    /\ job' = [NoJob EXCEPT !.on = TRUE]
    /\ UNCHANGED <<nfo, lock, ledger, rows, holds, proc, budget>>

WalkReads ==
    /\ job.on /\ job.walk = "none"
    /\ job' = [job EXCEPT !.walk = "read", !.snap = {Folder}]
    /\ UNCHANGED <<nfo, lock, ledger, rows, holds, proc, budget>>
WalkFlushes ==
    /\ job.on /\ job.walk = "read"
    /\ rows' = RowsOf(The(job.snap))
    /\ job' = [job EXCEPT !.walk = "done", !.snap = {}]
    /\ UNCHANGED <<nfo, lock, ledger, holds, proc, budget>>

Takes(r) == proc[Container(r)] = Idle /\ Gap(r) /\ (r \in Facts => ~job.spent)
JobEnds ==
    /\ job.on /\ job.walk = "done"
    /\ \A c \in Containers : proc[c] = Idle
    /\ ~\E r \in Runs : Takes(r)
    /\ job' = NoJob
    /\ UNCHANGED <<nfo, lock, ledger, rows, holds, proc, budget>>

\* The pod dies between two steps.  A lock goes with its process.
JobDies ==
    /\ job.on
    /\ Spend("dies")
    /\ job' = NoJob /\ proc' = [c \in Containers |-> Idle] /\ lock' = ""
    /\ UNCHANGED <<nfo, ledger, rows, holds>>

\* Bound: a window lapses, and a person names a refresh, between two Jobs, which
\* is when the next one reads it.
Aged(r, age) ==
    /\ ledger' = [ledger EXCEPT ![r].attempt.age = age]
    /\ rows' = [rows EXCEPT !.attempt[r].age = IF rows.attempt[r] = Never THEN @ ELSE age]
TimePasses(r) ==
    /\ ~job.on /\ ledger[r].attempt.age = "stands"
    /\ Aged(r, "lapsed")
    /\ UNCHANGED <<nfo, lock, holds, proc, job, budget>>
Refresh(f) ==
    /\ ~job.on /\ ledger[f].attempt \notin {Never}
    /\ Spend("refreshes")
    /\ Aged(f, "refreshed")
    /\ UNCHANGED <<nfo, lock, holds, proc, job>>

-----------------------------------------------------------------------------
(* Others: the providers, and a media server that writes the same file.    *)

AnswerChanges(f) ==
    /\ Spend("changes")
    /\ holds' = [holds EXCEPT ![f] = "newer"]
    /\ UNCHANGED <<nfo, lock, ledger, rows, proc, job>>

\* Bound: nothing orders it with an edit, and here it never lands between the read
\* and the rename of one.
OtherEdits(g) ==
    /\ Spend("edits")
    /\ \A c \in Containers : proc[c].at # "write"
    /\ \E value \in {"none", "theirs"} : nfo' = [nfo EXCEPT ![g] = value]
    /\ UNCHANGED <<lock, ledger, rows, holds, proc, job>>

-----------------------------------------------------------------------------
(* One fact's work on the title.                                           *)

\* groupHeldByAnother: the group is not the one that the ledger's hash is of.
Fought(f) == \E value \in ledger[f].wrote : nfo[f] # value
Take(r) ==
    /\ job.on /\ Takes(r)
    /\ proc' = [proc EXCEPT ![Container(r)] =
           IF r \in Facts /\ Fought(r)
           THEN [Idle EXCEPT !.at = "record", !.run = r, !.result = "fight"]
           ELSE [Idle EXCEPT !.at = "ask", !.run = r, !.doc = {nfo}]]
    /\ UNCHANGED <<nfo, lock, ledger, rows, holds, job, budget>>

\* ffprobe, the ladder, the providers.
Answer(r) == CASE r = "probe" -> "streams" [] r = "identity" -> "id" [] OTHER -> holds[r]
Ask(c) ==
    /\ proc[c].at = "ask"
    /\ proc' = [proc EXCEPT ![c].at = IF c = "probe" THEN "note" ELSE "lock",
                            ![c].answer = Answer(proc[c].run)]
    /\ UNCHANGED <<nfo, lock, ledger, rows, holds, job, budget>>
AskFails(c) ==
    /\ proc[c].at = "ask"
    /\ Spend("asks")
    /\ \E result \in {"error", "nothing"} : Fails(c, result)
    /\ UNCHANGED <<nfo, lock, ledger, rows, holds, job>>
\* Every provider of the fact spent its day: no attempt, and no other title.
DaySpent ==
    /\ proc["nfo"].at = "ask"
    /\ Spend("asks")
    /\ proc' = [proc EXCEPT !["nfo"] = Idle]
    /\ job' = [job EXCEPT !.spent = TRUE]
    /\ UNCHANGED <<nfo, lock, ledger, rows, holds>>

\* noteProbe: the record is on the volume before the edit.
NoteProbe ==
    /\ proc["probe"].at = "note"
    /\ ledger' = [ledger EXCEPT !["probe"].wrote = {proc["probe"].answer}]
    /\ Goes("probe", "lock")
    /\ UNCHANGED <<nfo, lock, rows, holds, job, budget>>

\* lockNFO, and the file again under the lock.
LockUnread(c) ==             \* mutant: the edit is of the document from before the ask
    /\ proc[c].at = "lock" /\ lock = ""
    /\ lock' = c
    /\ proc' = [proc EXCEPT ![c].at = "write"]
    /\ UNCHANGED <<nfo, ledger, rows, holds, job, budget>>
Lock(c) ==
    /\ proc[c].at = "lock" /\ lock = ""
    /\ lock' = c
    /\ proc' = [proc EXCEPT ![c].at = "write", ![c].doc = {nfo}]
    /\ UNCHANGED <<nfo, ledger, rows, holds, job, budget>>

\* The edit of one group, and the rename.  writeNFOFact keeps the lock to its end.
Edited(c) == [The(proc[c].doc) EXCEPT ![Group(proc[c].run)] = proc[c].answer]
Releases(c) == lock' = IF lock = c THEN "" ELSE lock
Write(c) ==
    /\ proc[c].at = "write"
    /\ nfo' = Edited(c)
    /\ IF c = "nfo" THEN UNCHANGED lock ELSE Releases(c)
    /\ Fails(c, "found")
    /\ UNCHANGED <<ledger, rows, holds, job, budget>>
WriteFails(c) ==
    /\ proc[c].at = "write"
    /\ Spend("writes")
    /\ IF c = "nfo" THEN UNCHANGED lock ELSE Releases(c)
    /\ Fails(c, "error")
    /\ UNCHANGED <<nfo, ledger, rows, holds, job>>

\* updateLikenLedger: the answer with its hash and the attempt are one write.
HashOfRead(c) ==             \* mutant: the hash is of the document before the edit
    {The(proc[c].doc)[Group(proc[c].run)]}
Hash(c) == {Edited(c)[Group(proc[c].run)]}
EntryAppended(c) ==          \* mutant: a title's second entry stands beside its first
    [wrote |-> IF proc[c].run \in Facts /\ proc[c].result = "found"
               THEN ledger[proc[c].run].wrote \cup Hash(c) ELSE ledger[proc[c].run].wrote,
     attempt |-> Made(proc[c].result)]
Entry(c) ==
    [wrote |-> IF proc[c].run \in Facts /\ proc[c].result = "found" THEN Hash(c)
               ELSE ledger[proc[c].run].wrote,
     attempt |-> Made(proc[c].result)]
Record(c) ==
    /\ proc[c].at = "record"
    /\ ledger' = [ledger EXCEPT ![proc[c].run] = Entry(c)]
    /\ Goes(c, "read")
    /\ UNCHANGED <<nfo, lock, rows, holds, job, budget>>
RecordFails(c) ==
    /\ proc[c].at = "record"
    /\ Spend("ledgers")
    /\ Goes(c, "read")
    /\ UNCHANGED <<nfo, lock, ledger, rows, holds, job>>

\* rowsOf, or the read of rescanFolder.
Read(c) ==
    /\ proc[c].at = "read"
    /\ proc' = [proc EXCEPT ![c].at = "rows", ![c].snap = {Folder}]
    /\ UNCHANGED <<nfo, lock, ledger, rows, holds, job, budget>>

\* writeOwnedRows and the attempt row; an identity that was found rescans.
Owned(c, snap) ==
    CASE proc[c].result # "found" -> rows
      [] c = "identity" -> RowsOf(snap)
      [] c = "probe" -> [rows EXCEPT !.streams = snap.ledger["probe"].wrote # {}]
      [] OTHER -> [rows EXCEPT !.body = RowsOf(snap).body]
WriteRows(c) ==
    /\ proc[c].at = "rows"
    /\ LET snap == The(proc[c].snap)
       IN  rows' = [Owned(c, snap) EXCEPT !.attempt[proc[c].run] = Attempted(snap, proc[c].run)]
    /\ proc' = [proc EXCEPT ![c] = Idle]
    /\ Releases(c)
    /\ UNCHANGED <<nfo, ledger, holds, job, budget>>
\* The catalog refuses the one or the other write, or both.
RowsFail(c) ==
    /\ proc[c].at = "rows"
    /\ Spend("catalog")
    /\ LET snap == The(proc[c].snap)
       IN  rows' \in {rows, Owned(c, snap),
                      [rows EXCEPT !.attempt[proc[c].run] = Attempted(snap, proc[c].run)]}
    /\ proc' = [proc EXCEPT ![c] = Idle]
    /\ Releases(c)
    /\ UNCHANGED <<nfo, ledger, holds, job>>

-----------------------------------------------------------------------------
Works(c) == Ask(c) \/ Lock(c) \/ Write(c) \/ Record(c) \/ Read(c) \/ WriteRows(c)
Mishap(c) == AskFails(c) \/ WriteFails(c) \/ RecordFails(c) \/ RowsFail(c)
Next ==
    \/ StartJob \/ WalkReads \/ WalkFlushes \/ JobEnds \/ JobDies
    \/ \E r \in Runs : TimePasses(r) \/ Take(r)
    \/ \E f \in Facts : Refresh(f) \/ AnswerChanges(f)
    \/ \E g \in Groups : OtherEdits(g)
    \/ NoteProbe \/ DaySpent
    \/ \E c \in Containers : Works(c) \/ Mishap(c)

\* Jobs come and run, and time passes between them.
Fairness ==
    /\ WF_vars(StartJob) /\ WF_vars(WalkReads \/ WalkFlushes) /\ WF_vars(JobEnds)
    /\ WF_vars(NoteProbe)
    /\ \A r \in Runs : WF_vars(Take(r)) /\ SF_vars(TimePasses(r))
    /\ \A c \in Containers : WF_vars(Works(c))

Spec == Init /\ [][Next]_vars /\ Fairness

-----------------------------------------------------------------------------
Values == {"none", "theirs", "ours", "newer", "streams", "id"}
\* Types.
TypeOK ==
    /\ nfo \in [Groups -> Values]
    /\ lock \in {""} \cup Containers
    /\ \A r \in Runs : ledger[r].wrote \subseteq Values /\ Cardinality(ledger[r].wrote) <= 1
    /\ \A c \in Containers :
           proc[c].at \in {"idle", "ask", "note", "lock", "write", "record", "read", "rows"}

\* phasemarks.go: "Two edits at once would lose one of them".  A container changes
\* the group of the fact it runs, and every other group stays as it is.
EditKeepsTheRest ==
    budget'.edits = budget.edits =>
        \A r \in Runs : nfo'[Group(r)] # nfo[Group(r)] =>
            proc[Container(r)].run = r /\ proc'[Container(r)].result = "found"

\* enrich.go: "A fight is a fact that read its element group on disk, found bytes
\* it did not write, and left them".
FightIsTrue ==
    \A f \in Facts : ledger[f].attempt.result = "fight" => nfo[f] \notin {"ours", "newer"}

\* The fact comes to be in the file, or another writer holds it, and the rows come
\* to say what the file does.
Settled ==
    /\ rows.held /\ \A f \in Facts : rows.body[f] = nfo[f]
    /\ \A f \in Facts : nfo[f] # "none" \/ ledger[f].attempt.result = "fight"
FactArrives == ~Settled ~> Settled
=============================================================================
