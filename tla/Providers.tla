----------------------------- MODULE Providers -----------------------------
(***************************************************************************)
(* A MetadataProvider and a Library that names it: the check that the pass *)
(* makes at the cadence of providercadence.go, the status that it writes   *)
(* through settleStatus (versionmemo.go), and the Job that waits for the   *)
(* verdict (providercheck.go).                                             *)
(*                                                                         *)
(* The status of a provider is its Ready reason and the generation that    *)
(* the condition observed.  A unit of time is providerDownInterval; passes *)
(* run every ten seconds, so time passes only after a pass that nothing    *)
(* disturbed.                                                              *)
(***************************************************************************)
EXTENDS Watched

CONSTANT Answers    \* the reasons that a check may earn

Key == The(Keys)
ProvidersAssumption ==
    /\ WatchedAssumption /\ Keys = {Key}
    /\ Answers \subseteq {"Reachable", "LimitReached", "NoSecret", "Refused", "Unreachable"}
    /\ Faults \subseteq [{"changes", "edits", "deletes", "creates", "fails", "reads", "restarts"} -> Nat]

VARIABLES
    account,   \* what a call would earn now
    note,      \* providerCalls: {} or {[uid, gen, age, verdict, written]}
    pass,
    job,       \* whether a Job of the Library stands
    asked,     \* history: the last call of this process, as a note
    settled    \* history: a pass ran and nothing disturbed it, in this unit of time

vars == <<watched, account, note, pass, job, asked, settled>>
provider == <<account, note, job, asked>>

Unchecked == [reason |-> "none", of |-> 0]
Created(uid) == [ver |-> 0, uid |-> uid, gen |-> 1, body |-> Unchecked]
Idle == [at |-> "idle", held |-> {}, verdict |-> "none", quiet |-> FALSE]

Init ==
    /\ Empty([k \in Keys |-> {[Created(1) EXCEPT !.ver = 1]}])
    /\ account \in Answers
    /\ note = {} /\ asked = {}
    /\ job = FALSE /\ settled = FALSE
    /\ pass = Idle

Reads == pass.at = "idle"
Goes(at) == pass' = [pass EXCEPT !.at = at]
\* The pass meets a failure, or what it reads changes under it.
Disturbed == [pass EXCEPT !.quiet = FALSE]

-----------------------------------------------------------------------------
(* Others: the account, a person, the clock.                               *)

AccountChanges ==
    /\ Spend("changes")
    /\ account' \in Answers \ {account}
    /\ UNCHANGED <<obj, copy, queue, memo, clock, last, wake, note, pass, job, asked, settled>>

Meddle(objs) ==
    /\ Changes(Key, objs)
    /\ pass' = Disturbed /\ settled' = FALSE
    /\ UNCHANGED <<copy, memo, last, wake, provider>>
PersonEdits ==
    /\ obj[Key] # {}
    /\ Spend("edits")
    /\ Meddle({[o EXCEPT !.gen = @ + 1] : o \in obj[Key]})
PersonDeletes == obj[Key] # {} /\ Spend("deletes") /\ Meddle({})
PersonCreates == obj[Key] = {} /\ Spend("creates") /\ Meddle({Created(2)})

Older(notes) == {[n EXCEPT !.age = IF @ < 2 THEN @ + 1 ELSE @] : n \in notes}
TimePasses ==
    /\ settled
    /\ note' = Older(note) /\ asked' = Older(asked)
    /\ settled' = FALSE
    /\ UNCHANGED <<watched, account, pass, job>>

JobEnds == job /\ job' = FALSE /\ UNCHANGED <<watched, account, note, pass, asked, settled>>

DeliverProvider == Deliver(Key) /\ UNCHANGED <<provider, pass, settled>>

-----------------------------------------------------------------------------
(* The pass reads the providers.                                           *)

\* What it reads is what stands, unless a change of another is not delivered.
Specs(objs) == {<<o.uid, o.gen>> : o \in objs}
Undisturbed == Specs(copy[Key].obj) = Specs(obj[Key])
Lists(held) == pass' = [Idle EXCEPT !.at = IF held = {} THEN "library" ELSE "check",
                                    !.held = held, !.quiet = Undisturbed]

\* currentList: a copy that is older than this operator's own last write is read
\* again.  No one lists an object that the store does not hold.
ReadProviders ==
    /\ Reads
    /\ wake' = FALSE
    /\ IF copy[Key].obj = {} \/ Current(Key)
       THEN Lists(copy[Key].obj) /\ UNCHANGED memo
       ELSE /\ memo' = [memo EXCEPT ![Key] = {IF obj[Key] = {} THEN 0 ELSE The(obj[Key]).ver}]
            /\ Lists(obj[Key])
    /\ UNCHANGED <<obj, copy, queue, clock, last, budget, provider, settled>>

\* currentOrCached: the copies of the store where that read fails.
ReadFails ==
    /\ Reads /\ copy[Key].obj # {} /\ ~Current(Key)
    /\ Spend("reads")
    /\ Note(Key, 0)
    /\ wake' = FALSE
    /\ pass' = [Idle EXCEPT !.at = "check", !.held = copy[Key].obj]
    /\ settled' = FALSE
    /\ UNCHANGED <<obj, copy, queue, clock, last, provider>>

-----------------------------------------------------------------------------
(* providercadence.go                                                      *)

Held == The(pass.held)
NoteByName(o) == note        \* mutant: the note of the name, whoever earned it
CallNote(o) == {n \in note : n.uid = o.uid /\ n.gen = o.gen}
Interval(verdict) == IF verdict \in {"Reachable", "LimitReached"} THEN 2 ELSE 1
DueOnce(o) == CallNote(o) = {}   \* mutant: a verdict is kept until the provider changes
Due(o) == \A n \in CallNote(o) : n.age >= Interval(n.verdict)

Noted(o, verdict) == {[uid |-> o.uid, gen |-> o.gen, age |-> 0, verdict |-> verdict, written |-> FALSE]}
WrittenNote(o) == {[n EXCEPT !.written = (@ \/ n \in CallNote(o))] : n \in note}

-----------------------------------------------------------------------------
(* reachProvider and deriveProviderStatus                                  *)

Applied(o, verdict) == [o EXCEPT !.body = [reason |-> verdict, of |-> o.gen]]
\* apply, and the write that it calls for.
Settles(o, verdict, write) ==
    /\ pass' = [pass EXCEPT !.verdict = verdict, !.held = {Applied(o, verdict)},
                            !.at = IF Applied(o, verdict) = o THEN "library" ELSE write]

\* A pass that is not due has nothing to say, or the verdict whose write failed.
NotDue ==
    /\ pass.at = "check" /\ ~Due(Held)
    /\ LET unwritten == {n \in CallNote(Held) : ~n.written}
       IN  IF unwritten = {} THEN Goes("library") /\ UNCHANGED note
           ELSE /\ Settles(Held, The(unwritten).verdict, "write")
                /\ note' = IF Applied(Held, The(unwritten).verdict) = Held THEN WrittenNote(Held) ELSE note
    /\ UNCHANGED <<watched, account, job, asked, settled>>

CallUnnoted ==               \* mutant: a verdict that is not written is not noted
    /\ pass.at = "check" /\ Due(Held)
    /\ asked' = Noted(Held, account)
    /\ Settles(Held, account, "write")
    /\ UNCHANGED <<watched, account, note, job, settled>>
\* The Secret is missing, or the provider answers: either is a verdict.
Call ==
    /\ pass.at = "check" /\ Due(Held)
    /\ asked' = Noted(Held, account)
    /\ Settles(Held, account, "write")
    /\ note' = IF Applied(Held, account) = Held
               THEN {[n EXCEPT !.written = TRUE] : n \in Noted(Held, account)}
               ELSE Noted(Held, account)
    /\ UNCHANGED <<watched, account, job, settled>>

\* The API server does not serve the Secret: no call is noted.
SecretFails ==
    /\ pass.at = "check" /\ Due(Held)
    /\ Spend("fails")
    /\ pass' = [Disturbed EXCEPT !.at = "library"]
    /\ settled' = FALSE
    /\ UNCHANGED <<obj, copy, queue, memo, clock, last, wake, provider>>

-----------------------------------------------------------------------------
(* settleStatus                                                            *)

Stores == Writes(Key, {[o EXCEPT !.body = Held.body] : o \in obj[Key]})
Taken ==
    /\ pass' = [pass EXCEPT !.at = "library", !.held = {[Held EXCEPT !.ver = clock + 1]}]
    /\ Note(Key, clock + 1)

Write ==
    /\ pass.at \in {"write", "rewrite"} /\ Holds(Key, Held.ver)
    /\ Stores /\ Taken
    /\ note' = WrittenNote(Held)
    /\ UNCHANGED <<copy, wake, budget, account, job, asked, settled>>

\* A copy that another changed since, or that is gone.  The second refusal is an
\* error: the next pass writes the noted verdict, and what is gone has no note.
Refused ==
    /\ pass.at \in {"write", "rewrite"} /\ ~Holds(Key, Held.ver)
    /\ Note(Key, 0)
    /\ Goes(IF pass.at = "write" THEN "reread" ELSE "library")
    /\ note' = IF pass.at = "rewrite" /\ obj[Key] = {} THEN {} ELSE note
    /\ UNCHANGED <<obj, copy, queue, clock, last, wake, budget, account, job, asked, settled>>

Reread ==
    /\ pass.at = "reread"
    /\ Note(Key, IF obj[Key] = {} THEN 0 ELSE The(obj[Key]).ver)
    /\ IF obj[Key] = {} THEN Goes("library") /\ note' = {}
       ELSE LET fresh == The(obj[Key])
            IN  /\ Settles(fresh, pass.verdict, "rewrite")
                /\ note' = IF Applied(fresh, pass.verdict) = fresh THEN WrittenNote(fresh) ELSE note
    /\ UNCHANGED <<obj, copy, queue, clock, last, wake, budget, account, job, asked, settled>>

\* A request fails, before it lands or after it.  The copy keeps the status that
\* was applied to it.
RequestFails ==
    /\ pass.at \in {"write", "reread", "rewrite"}
    /\ Spend("fails")
    /\ \/ pass.at # "reread" /\ Holds(Key, Held.ver) /\ Stores
       \/ UNCHANGED <<obj, queue, clock, last>>
    /\ Note(Key, 0)
    /\ pass' = [Disturbed EXCEPT !.at = "library"]
    /\ settled' = FALSE
    /\ UNCHANGED <<copy, wake, provider>>

-----------------------------------------------------------------------------
(* The Library, after the providers.                                       *)

\* everySourceChecked: a provider with no verdict holds the Jobs; a name that no
\* provider answers holds nothing.
EverySourceChecked == \A o \in pass.held : o.body.reason # "none"
StandJob ==
    /\ pass.at = "library"
    /\ job' = (job \/ EverySourceChecked)
    /\ pass' = Idle
    /\ settled' = (settled \/ pass.quiet)
    /\ UNCHANGED <<watched, account, note, asked>>

Restart ==
    /\ Spend("restarts")
    /\ Settled
    /\ note' = {} /\ asked' = {}
    /\ pass' = Idle /\ settled' = FALSE
    /\ wake' = FALSE
    /\ UNCHANGED <<obj, clock, last, account, job>>

-----------------------------------------------------------------------------
PassSteps == ReadProviders \/ NotDue \/ Call \/ Write \/ Refused \/ Reread \/ StandJob
Next ==
    \/ AccountChanges \/ PersonEdits \/ PersonDeletes \/ PersonCreates \/ TimePasses
    \/ JobEnds \/ DeliverProvider
    \/ PassSteps \/ ReadFails \/ SecretFails \/ RequestFails \/ Restart

\* The passes run, the clock runs, the watch delivers.
Fairness == WF_vars(PassSteps) /\ WF_vars(TimePasses) /\ WF_vars(DeliverProvider)
Spec == Init /\ [][Next]_vars /\ Fairness

-----------------------------------------------------------------------------
\* Types.
TypeOK ==
    /\ WatchedTypeOK /\ CopyCatchesUp
    /\ account \in Answers
    /\ Cardinality(note) <= 1 /\ \A n \in note : n.age \in 0..2 /\ n.verdict \in Answers
    /\ Cardinality(pass.held) <= 1
    /\ pass.at \in {"idle", "check", "write", "reread", "rewrite", "library"}

\* After one pass that nothing disturbed, the provider's status is the verdict of
\* the last call, which was about this very object and this very generation:
\* whatever was written before over a stale copy, lost, or earned by another
\* provider of the same name.
OnePassSettles ==
    settled /\ Reads => \A o \in obj[Key] :
        \E n \in note : n.uid = o.uid /\ n.gen = o.gen
                        /\ o.body = [reason |-> n.verdict, of |-> o.gen]

\* providercadence.go: a process asks a provider that stands again only after the
\* interval that its last verdict earned, however its writes fare.
CallsAreSpaced ==
    pass.at = "check" /\ pass'.at # "check" /\ asked' # asked /\ asked' # {}
    /\ (\E o \in obj[Key] : o.uid = Held.uid) =>
        \A n \in asked : n.uid = Held.uid /\ n.gen = Held.gen => n.age >= Interval(n.verdict)

\* What the account answers comes to be what the status says.
Shows == \A o \in obj[Key] : o.body.reason = account
VerdictComesTrue == ~Shows ~> Shows

\* providercheck.go:71: "the pass stands no Job of this Library until every verdict
\* is written".
JobWaitsForTheWrite ==
    pass.at = "library" /\ ~job /\ job' =>
        \A o \in obj[Key] : pass.held # {} /\ o.uid = Held.uid => o.body.reason # "none"
=============================================================================
