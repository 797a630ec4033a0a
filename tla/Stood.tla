------------------------------- MODULE Stood -------------------------------
(***************************************************************************)
(* One object that the pass stands by its name and writes only where it    *)
(* differs from the one it builds: a Service (service.go), the slice of    *)
(* its members (endpoints.go), the people of a namespace (screenpeople.go) *)
(* and, deleted and created where it differs, the trickplay template of a  *)
(* Library (trickplayclaim.go).  Each reads through readStood.             *)
(***************************************************************************)
EXTENDS Watched

CONSTANT Replaces    \* whether a template stands, which cannot be edited

Key == The(Keys)
StoodAssumption ==
    /\ WatchedAssumption /\ Keys = {Key}
    /\ Replaces \in BOOLEAN

VARIABLES
    facts,    \* what the members, the people or the Library call for: {} or {body}
    seen,     \* the same, in the store of their watch
    pass

vars == <<watched, facts, seen, pass>>
world == <<facts, seen>>

Idle == [at |-> "idle", wants |-> {}, live |-> 0]
New(body) == [ver |-> 0, uid |-> 0, gen |-> 0, body |-> body]
Bodies == {"one", "two"}

Init ==
    /\ Empty([k \in Keys |-> {}])
    /\ facts = {"one"} /\ seen = {"one"}
    /\ pass = [Idle EXCEPT !.at = "start"]

-----------------------------------------------------------------------------
(* Others: what the object is built from, a person who edits or deletes it. *)

FactsChange ==
    /\ Spend("facts")
    /\ \E called \in {{b} : b \in Bodies} \cup (IF Replaces THEN {{}} ELSE {}) :
           called # facts /\ facts' = called
    /\ UNCHANGED <<obj, copy, queue, memo, clock, last, wake, seen, pass>>

DeliverFacts ==
    /\ seen # facts
    /\ seen' = facts
    /\ wake' = TRUE
    /\ UNCHANGED <<obj, copy, queue, memo, clock, last, budget, facts, pass>>

DeliverObject == Deliver(Key) /\ UNCHANGED <<world, pass>>

OtherEdits ==
    /\ ~Replaces /\ obj[Key] # {}
    /\ Spend("edits")
    /\ Changes(Key, {[o EXCEPT !.body = "other"] : o \in obj[Key]})
    /\ UNCHANGED <<copy, memo, last, wake, world, pass>>

OtherDeletes ==
    /\ obj[Key] # {}
    /\ Spend("deletes")
    /\ Changes(Key, {})
    /\ UNCHANGED <<copy, memo, last, wake, world, pass>>

-----------------------------------------------------------------------------
(* The loop of operator.run: a pass starts on a wake or on the ticker, and  *)
(* takes the wake before it reads.                                          *)

Take ==
    /\ pass.at = "idle" /\ wake
    /\ wake' = FALSE
    /\ pass' = [Idle EXCEPT !.at = "start"]
    /\ UNCHANGED <<obj, copy, queue, memo, clock, last, budget, world>>

TickStarts ==
    /\ pass.at = "idle"
    /\ pass' = [Idle EXCEPT !.at = "start"]
    /\ UNCHANGED <<watched, world>>

ReadFacts ==
    /\ pass.at = "start"
    /\ pass' = [pass EXCEPT !.at = "look", !.wants = seen]
    /\ UNCHANGED <<watched, world>>

-----------------------------------------------------------------------------
(* The stand.                                                              *)

Goes(at) == pass' = IF at = "idle" THEN Idle ELSE [pass EXCEPT !.at = at]
Absent == Goes(IF pass.wants = {} THEN "idle" ELSE "create")

\* sameService, sameEndpoints, sameTemplateSpec: what the operator states.
Same(o) == pass.wants = {o.body}
Found(o) ==
    IF Same(o) THEN Goes("idle")
    ELSE pass' = [pass EXCEPT !.at = IF Replaces THEN "delete" ELSE "update", !.live = o.ver]

\* readStood, up to the request: an object that no one noted and the store does
\* not hold does not exist, and a current copy is the answer.
Unknown(k) == copy[k].obj = {} /\ memo[k] = {}
Look ==
    /\ pass.at = "look"
    /\ IF Unknown(Key) THEN Absent
       ELSE IF Current(Key) THEN Found(The(copy[Key].obj))
       ELSE Goes("get")
    /\ UNCHANGED <<watched, world>>

\* readFresh.  An object that is gone is forgotten.
Get ==
    /\ pass.at = "get"
    /\ IF obj[Key] = {} THEN Forget(Key) /\ Absent
       ELSE Note(Key, The(obj[Key]).ver) /\ Found(The(obj[Key]))
    /\ UNCHANGED <<obj, copy, queue, clock, last, wake, budget, world>>

\* A create that meets the object is success, and so is the delete of one that is
\* gone.  Neither leaves a version in the memo.
Create ==
    /\ pass.at = "create"
    /\ IF obj[Key] = {} THEN Writes(Key, {New(b) : b \in pass.wants}) /\ Note(Key, clock + 1)
       ELSE Note(Key, 0) /\ UNCHANGED <<obj, queue, clock, last>>
    /\ Goes("idle")
    /\ UNCHANGED <<copy, wake, budget, world>>

Built == {[o EXCEPT !.body = The(pass.wants)] : o \in obj[Key]}
BlindUpdate ==               \* mutant: the update states no version
    /\ pass.at = "update"
    /\ IF obj[Key] # {} THEN Writes(Key, Built) /\ Note(Key, clock + 1)
       ELSE Note(Key, 0) /\ UNCHANGED <<obj, queue, clock, last>>
    /\ Goes("idle")
    /\ UNCHANGED <<copy, wake, budget, world>>
Update ==
    /\ pass.at = "update"
    /\ IF Holds(Key, pass.live) THEN Writes(Key, Built) /\ Note(Key, clock + 1)
       ELSE Note(Key, 0) /\ UNCHANGED <<obj, queue, clock, last>>
    /\ Goes("idle")
    /\ UNCHANGED <<copy, wake, budget, world>>

Delete ==
    /\ pass.at = "delete"
    /\ IF obj[Key] = {} THEN UNCHANGED <<obj, queue, clock, last>> ELSE Writes(Key, {})
    /\ Note(Key, 0)
    /\ Absent
    /\ UNCHANGED <<copy, wake, budget, world>>

\* A request fails, before it lands or after it: the pass leaves the object to the
\* next one.
Lands ==
    CASE pass.at = "create" /\ obj[Key] = {} -> Writes(Key, {New(b) : b \in pass.wants})
      [] pass.at = "update" /\ Holds(Key, pass.live) -> Writes(Key, Built)
      [] pass.at = "delete" /\ obj[Key] # {} -> Writes(Key, {})
      [] OTHER -> UNCHANGED <<obj, queue, clock, last>>
NotNoted ==                  \* mutant: the answer that was lost is not noted
    /\ pass.at \in {"get", "create", "update", "delete"}
    /\ Spend("fails")
    /\ Lands \/ UNCHANGED <<obj, queue, clock, last>>
    /\ Goes("idle")
    /\ UNCHANGED <<copy, memo, wake, world>>
RequestFails ==
    /\ pass.at \in {"get", "create", "update", "delete"}
    /\ Spend("fails")
    /\ Lands \/ UNCHANGED <<obj, queue, clock, last>>
    /\ Note(Key, 0)
    /\ Goes("idle")
    /\ UNCHANGED <<copy, wake, world>>

Restart ==
    /\ Spend("restarts")
    /\ Settled
    /\ seen' = facts
    /\ wake' = FALSE
    /\ pass' = [Idle EXCEPT !.at = "start"]
    /\ UNCHANGED <<obj, clock, last, facts>>

-----------------------------------------------------------------------------
PassSteps == ReadFacts \/ Look \/ Get \/ Create \/ Update \/ Delete
Next ==
    \/ FactsChange \/ DeliverFacts \/ OtherEdits \/ OtherDeletes \/ DeliverObject
    \/ Take \/ TickStarts \/ PassSteps \/ RequestFails \/ Restart

\* The loop runs, and the watches deliver.
Fairness ==
    /\ WF_vars(Take) /\ WF_vars(TickStarts) /\ WF_vars(PassSteps)
    /\ WF_vars(DeliverObject) /\ WF_vars(DeliverFacts)

Spec == Init /\ [][Next]_vars /\ Fairness

-----------------------------------------------------------------------------
\* Types.
TypeOK ==
    /\ WatchedTypeOK /\ CopyCatchesUp
    /\ facts \subseteq Bodies /\ seen \subseteq Bodies
    /\ pass.at \in {"idle", "start", "look", "get", "create", "update", "delete"}

\* versionmemo.go: a pass leaves an object alone only on a copy at least as new as
\* this operator's own last write, or it would skip a write that is needed.
LeftAloneIsNew ==
    pass.at = "look" /\ pass'.at = "idle" => copy[Key].at >= last[Key]

\* No pass writes over an edit that it has not read.
NoBlindWrite ==
    pass.at = "update" /\ pass'.at = "idle" /\ last' # last => Holds(Key, pass.live)

\* The object comes to be what its facts call for.
Stands == \/ facts = {} /\ obj[Key] = {}
          \/ \E o \in obj[Key] : facts = {o.body}
StoodComesTrue == ~Stands ~> Stands
=============================================================================
