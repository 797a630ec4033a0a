------------------------------- MODULE Stand -------------------------------
(***************************************************************************)
(* How a pass stands one workload: its claims, the volumes of a per-node   *)
(* class (pernodevolume.go) and its pods (standPod of reconcile.go).  The  *)
(* pass reads pods and claims once, from the watch's store, which lags     *)
(* behind the API server (passreads.go), and its requests are one by one.  *)
(* Stores and Screens add what each kind of workload takes down.           *)
(*                                                                         *)
(* An object is a set of at most one record.  No uid has a value: a copy   *)
(* that was read holds whether its object still is the one that stands.    *)
(***************************************************************************)
EXTENDS Naturals, Sequences, FiniteSets

CONSTANTS
    Nodes,    \* the nodes of the cluster
    Copies,   \* the numbers of the pods: 0..n
    Claims,   \* the claims each pod mounts
    Faults    \* bounds: how often each kind of mishap or edit may happen

StandAssumption ==
    /\ Nodes # {}
    /\ IsFiniteSet(Copies) /\ 0 \in Copies /\ Copies = 0..(Cardinality(Copies) - 1)
    /\ Faults \subseteq
           [{"dies", "returns", "edits", "redeclares", "fails", "restarts", "moves", "races"} -> Nat]

VARIABLES
    want,     \* what is declared: [stands, tpl, copies], where a pod may run, and
              \* whether the per-node driver serves the class of the claims
    up,       \* the nodes that are ready
    pods, claims, volumes,   \* the objects of the API server
    seen,     \* the watch's store: a copy of each
    pass,     \* what the pass read at its start, and what it has left to do
    budget

vars == <<want, up, pods, claims, volumes, seen, pass, budget>>
objects == <<pods, claims, volumes>>

Idle == [todo |-> <<>>, tpl |-> "", pods |-> <<>>, claims |-> {}, stranded |-> {}]
Nothing(declared) ==
    /\ want \in declared
    /\ up = Nodes
    /\ pods = [c \in Copies |-> {}]
    /\ claims = [k \in Claims |-> {}]
    /\ volumes = [k \in Claims |-> {}]
    /\ seen = [pods |-> pods, claims |-> {}, volumes |-> volumes]
    /\ pass = Idle
    /\ budget \in Faults

PerNode == want.perNode
Spend(kind) == budget[kind] > 0 /\ budget' = [budget EXCEPT ![kind] = @ - 1]
\* What the bound "races" is about: a pass that meets the binder half-way.
Races(met) == IF met THEN Spend("races") ELSE UNCHANGED budget
Set(objs, key, field, value) ==
    [objs EXCEPT ![key] = {[o EXCEPT ![field] = value] : o \in @}]

\* What was read of an object that is gone is of another one from now on.
Aged(copies) == {[copy EXCEPT !.is = FALSE] : copy \in copies}
PodGoes(c) ==
    /\ pods' = [pods EXCEPT ![c] = {}]
    /\ seen' = [seen EXCEPT !.pods[c] = Aged(@)]

-----------------------------------------------------------------------------
(* Scheduler, kubelets, volume binder, garbage collector.                  *)

NewPod(tpl) == [node |-> {}, tpl |-> tpl, going |-> FALSE, refused |-> FALSE, orphan |-> FALSE]
Placed(c) == \E p \in pods[c] : p.node # {}
Mounts(k) == \E c \in Copies : Placed(c)

\* One copy per node, and a claim that a node holds admits that node alone.
MayRunOn(c, n) ==
    /\ n \in up \cap want.on
    /\ \A d \in Copies \ {c} : \A p \in pods[d] : p.node # {n}
    /\ \A k \in Claims : \E claim \in claims[k] :
           ~claim.going /\ IF PerNode THEN claim.bound ELSE claim.node \in {{}, {n}}

Waits(c) == \E p \in pods[c] : p.node = {} /\ ~p.going

\* A class that is not per-node binds its claim where the pod first lands.
Schedule(c) ==
    /\ Waits(c)
    /\ \E n \in Nodes :
           /\ MayRunOn(c, n)
           /\ pods' = Set(Set(pods, c, "node", {n}), c, "refused", FALSE)
           /\ claims' = IF PerNode THEN claims
                        ELSE [k \in Claims |-> {[claim EXCEPT !.bound = TRUE, !.node = {n}] :
                                                claim \in claims[k]}]
    /\ UNCHANGED <<want, up, volumes, seen, pass, budget>>

\* A pod that is going ends where its kubelet answers, or at once where it never
\* had one.
PodEnds(c) ==
    /\ \E p \in pods[c] : p.going /\ p.node \subseteq up
    /\ PodGoes(c)
    /\ pass' = IF pass.todo = <<>> THEN pass ELSE [pass EXCEPT !.pods[c] = Aged(@)]
    /\ UNCHANGED <<want, up, claims, volumes, budget>>

\* Whose uid the claimRef of the volume holds: nobody's yet, that of the claim that
\* stands, or that of one that is gone.
Holds(k, whose) == \E v \in volumes[k] : v.of = whose

\* The binder has written one of two: the uid and not the phase, or it has not
\* released the volume of a claim that is gone.
HalfWay(k) == \E v \in volumes[k] : IF v.phase = "bound" THEN v.of = "gone" ELSE v.of = "claim"

\* A claim that is going ends when no pod that has a node mounts it.
ClaimEnds(k) ==
    /\ \E claim \in claims[k] : claim.going
    /\ ~Mounts(k)
    /\ Races(PerNode /\ pass.todo # <<>> /\ Head(pass.todo) = <<"create", k>>)
    /\ claims' = [claims EXCEPT ![k] = {}]
    /\ volumes' = IF Holds(k, "claim") THEN Set(volumes, k, "of", "gone") ELSE volumes
    /\ UNCHANGED <<want, up, pods, seen, pass>>

\* The binder gives a claim the volume it names, where no uid is on it: the uid first,
\* then the phases.  It releases the volume of a claim that is gone.
MarkVolume(k) ==
    /\ claims[k] # {} /\ Holds(k, "none")
    /\ volumes' = Set(volumes, k, "of", "claim")
    /\ UNCHANGED <<want, up, pods, claims, seen, pass, budget>>

Bind(k) ==
    /\ \E claim \in claims[k] : ~claim.bound
    /\ Holds(k, "claim")
    /\ claims' = Set(claims, k, "bound", TRUE)
    /\ volumes' = Set(volumes, k, "phase", "bound")
    /\ UNCHANGED <<want, up, pods, seen, pass, budget>>

ReleaseVolume(k) ==
    /\ \E v \in volumes[k] : v.of = "gone" /\ v.phase # "released"
    /\ volumes' = Set(volumes, k, "phase", "released")
    /\ UNCHANGED <<want, up, pods, claims, seen, pass, budget>>

VolumeEnds(k) ==
    /\ \E v \in volumes[k] : v.going /\ v.phase # "bound"
    /\ volumes' = [volumes EXCEPT ![k] = {}]
    /\ seen' = [seen EXCEPT !.volumes[k] = Aged(@)]
    /\ UNCHANGED <<want, up, pods, claims, pass, budget>>

\* The garbage collector, of what an owner that is gone leaves behind.
CollectPod(c) ==
    /\ \E p \in pods[c] : p.orphan /\ ~p.going
    /\ pods' = Set(pods, c, "going", TRUE)
    /\ UNCHANGED <<want, up, claims, volumes, seen, pass, budget>>
CollectClaim(k) ==
    /\ \E claim \in claims[k] : claim.orphan /\ ~claim.going
    /\ claims' = Set(claims, k, "going", TRUE)
    /\ UNCHANGED <<want, up, pods, volumes, seen, pass, budget>>

-----------------------------------------------------------------------------
(* What befalls the cluster, and the person who edits it.                  *)

\* The node goes silent past the grace, and its pods are marked for deletion.
NodeDies(n) ==
    /\ n \in up /\ up # {n}
    /\ Spend("dies")
    /\ up' = up \ {n}
    /\ \E marked \in BOOLEAN :
           pods' = [c \in Copies |-> {[p EXCEPT !.going = @ \/ (marked /\ p.node = {n})] :
                                      p \in pods[c]}]
    /\ UNCHANGED <<want, claims, volumes, seen, pass>>

NodeReturns(n) ==
    /\ n \notin up
    /\ Spend("returns")
    /\ up' = up \cup {n}
    /\ UNCHANGED <<want, objects, seen, pass>>

\* A new template, or a new count of copies.
Edit ==
    /\ want.stands
    /\ Spend("edits")
    /\ \/ want' = [want EXCEPT !.tpl = "two"] /\ want.tpl = "one"
       \/ \E n \in 1..Cardinality(Copies) : n # want.copies /\ want' = [want EXCEPT !.copies = n]
    /\ UNCHANGED <<up, objects, seen, pass>>

\* The owner is deleted, and declared again under another uid.
Undeclare ==
    /\ want.stands
    /\ Spend("redeclares")
    /\ want' = [want EXCEPT !.stands = FALSE]
    /\ pods' = [c \in Copies |-> {[p EXCEPT !.orphan = TRUE] : p \in pods[c]}]
    /\ claims' = [k \in Claims |-> {[claim EXCEPT !.orphan = TRUE] : claim \in claims[k]}]
    /\ UNCHANGED <<up, volumes, seen, pass>>
Declare ==
    /\ ~want.stands
    /\ want' = [want EXCEPT !.stands = TRUE]
    /\ UNCHANGED <<up, objects, seen, pass, budget>>

-----------------------------------------------------------------------------
(* The watch delivers, one collection at a time.                           *)

PodCopies(c) == {[node |-> p.node, tpl |-> p.tpl, going |-> p.going,
                  refused |-> p.refused, is |-> TRUE] : p \in pods[c]}
VolumeCopies(k) == {[released |-> v.phase = "released", is |-> TRUE] : v \in volumes[k]}
Held == {k \in Claims : claims[k] # {}}
Everything == [pods |-> [c \in Copies |-> PodCopies(c)], claims |-> Held,
               volumes |-> [k \in Claims |-> VolumeCopies(k)]]

Deliver ==
    /\ \/ seen' = [seen EXCEPT !.pods = Everything.pods]
       \/ seen' = [seen EXCEPT !.claims = Held]
       \/ seen' = [seen EXCEPT !.volumes = Everything.volumes]
    /\ seen' # seen
    /\ UNCHANGED <<want, up, objects, pass, budget>>

-----------------------------------------------------------------------------
(* The pass: readPass, then its tasks in their order.                      *)

Task == Head(pass.todo)
Is(kind) == pass.todo # <<>> /\ Task[1] = kind
Of == Task[2]
Left(todo) == IF todo = <<>> THEN Idle ELSE [pass EXCEPT !.todo = todo]
Done == pass' = Left(Tail(pass.todo))
Then(kind) == [pass EXCEPT !.todo = <<<<kind, Of>>>> \o Tail(@)]

\* sweepReleasedVolumes, which every pass ends with, is left to do.
LastTask == <<<<"sweep", 0>>>>
Abandoned == pass' = Left(LastTask)

Begin(todo, template) ==
    /\ pass.todo = <<>>
    /\ pass' = [todo |-> todo \o LastTask, tpl |-> template, pods |-> seen.pods,
                claims |-> seen.claims, stranded |-> Nodes \ up]
    /\ UNCHANGED <<want, up, objects, seen, budget>>

\* standClaim: a claim that was read is left alone.
StandClaim ==
    /\ Is("claim")
    /\ IF Of \in pass.claims THEN Done
       ELSE pass' = Then(IF PerNode THEN "write" ELSE "create")
    /\ UNCHANGED <<want, up, objects, seen, budget>>

\* standPerNodeVolume: the volume is written before the claim that names it.
NewVolume == [phase |-> "available", of |-> "none", going |-> FALSE]
WriteVolume ==
    /\ Is("write")
    /\ IF volumes[Of] = {}
       THEN volumes' = [volumes EXCEPT ![Of] = {NewVolume}] /\ pass' = Then("create")
       ELSE pass' = Then("get") /\ UNCHANGED volumes
    /\ UNCHANGED <<want, up, pods, claims, seen, budget>>

\* volumeIsSpent: Released, or not Bound with a uid in its claimRef.
NeverSpent(v) == FALSE       \* mutant: the volume that stands is the right one
SpentReleased(v) == v.phase = "released"      \* mutant: the uid is not looked at
Spent(v) == v.phase = "released" \/ (v.phase # "bound" /\ v.of # "none")

GetVolume ==
    /\ Is("get")
    /\ Races(HalfWay(Of))
    /\ pass' = Then(IF volumes[Of] = {} THEN "rewrite"
                    ELSE IF \E v \in volumes[Of] : Spent(v) THEN "spend" ELSE "create")
    /\ UNCHANGED <<want, up, objects, seen>>

DeleteSpent ==
    /\ Is("spend")
    /\ volumes' = Set(volumes, Of, "going", TRUE)
    /\ pass' = Then("rewrite")
    /\ UNCHANGED <<want, up, pods, claims, seen, budget>>

\* A conflict is a volume that is still going away: the next pass goes on.
RewriteOrLeave ==            \* mutant: a conflict is success, as everywhere else
    /\ Is("rewrite")
    /\ volumes' = [volumes EXCEPT ![Of] = IF @ = {} THEN {NewVolume} ELSE @]
    /\ pass' = Then("create")
    /\ UNCHANGED <<want, up, pods, claims, seen, budget>>
RewriteVolume ==
    /\ Is("rewrite")
    /\ IF volumes[Of] = {}
       THEN volumes' = [volumes EXCEPT ![Of] = {NewVolume}] /\ pass' = Then("create")
       ELSE Abandoned /\ UNCHANGED volumes
    /\ UNCHANGED <<want, up, pods, claims, seen, budget>>

\* A claim that stands already is success.
NewClaim == [bound |-> FALSE, node |-> {}, going |-> FALSE, orphan |-> FALSE]
CreateClaim ==
    /\ Is("create")
    /\ claims' = [claims EXCEPT ![Of] = IF @ = {} THEN {NewClaim} ELSE @]
    /\ Done
    /\ UNCHANGED <<want, up, pods, volumes, seen, budget>>

\* DeletePod, by name: whatever pod has the name now.
DeletePod(c) == pods' = Set(pods, c, "going", TRUE)

\* standPod, on the pod that was read.
StandPod ==
    /\ Is("pod")
    /\ IF pass.pods[Of] = {}
       THEN pods' = [pods EXCEPT ![Of] = IF @ = {} THEN {NewPod(pass.tpl)} ELSE @]
       ELSE IF \E p \in pass.pods[Of] : ~p.going /\ p.tpl # pass.tpl
       THEN DeletePod(Of) ELSE UNCHANGED pods
    /\ Done
    /\ UNCHANGED <<want, up, claims, volumes, seen, budget>>

\* sweepReleasedVolumes: on the watch's store of this moment, by uid.
TakenByName(k) == \E v \in seen.volumes[k] : v.released    \* mutant: no uid
Taken(k) == \E v \in seen.volumes[k] : v.released /\ v.is
Sweep ==
    /\ Is("sweep")
    /\ volumes' = [k \in Claims |-> {[v EXCEPT !.going = @ \/ Taken(k)] : v \in volumes[k]}]
    /\ Done
    /\ UNCHANGED <<want, up, pods, claims, seen, budget>>

\* A request is refused: the workload is left to the next pass.
Fail ==
    /\ pass.todo # <<>> /\ Task[1] # "sweep"
    /\ Spend("fails")
    /\ Abandoned
    /\ UNCHANGED <<want, up, objects, seen>>

\* A new process has a store of its own, which starts with a list.
Restart ==
    /\ pass.todo # <<>>
    /\ Spend("restarts")
    /\ pass' = Idle
    /\ seen' = Everything
    /\ UNCHANGED <<want, up, objects>>

-----------------------------------------------------------------------------
StandSteps ==
    StandClaim \/ WriteVolume \/ GetVolume \/ DeleteSpent \/ RewriteVolume
        \/ CreateClaim \/ StandPod \/ Sweep
Controllers ==
    \/ \E c \in Copies : Schedule(c) \/ PodEnds(c) \/ CollectPod(c)
    \/ \E k \in Claims :
           ClaimEnds(k) \/ (PerNode /\ (MarkVolume(k) \/ Bind(k))) \/ ReleaseVolume(k) \/ VolumeEnds(k)
               \/ CollectClaim(k)
Mishaps == \/ \E n \in Nodes : NodeDies(n) \/ NodeReturns(n)
           \/ Edit \/ Undeclare \/ Declare \/ Fail \/ Restart

-----------------------------------------------------------------------------
\* Types.
TypeOK ==
    /\ want \in [stands : BOOLEAN, tpl : {"one", "two"}, copies : 0..Cardinality(Copies),
                 on : SUBSET Nodes, perNode : BOOLEAN]
    /\ up \subseteq Nodes /\ up # {}
    /\ \A c \in Copies : Cardinality(pods[c]) <= 1
    /\ \A k \in Claims : Cardinality(claims[k]) <= 1 /\ Cardinality(volumes[k]) <= 1
    /\ seen.claims \subseteq Claims /\ pass.claims \subseteq Claims

\* pernodevolume.go, standPerNodeVolume: a claim that stands has the volume it names,
\* from its create on: one that is not going away, and that nobody's uid or its own
\* is on.  The binder gives it no other, it waits for good on one that is gone, and
\* standClaim leaves it alone.
NamedVolumeStays ==
    PerNode => \A k \in Claims : \A claim \in claims[k] :
        \E v \in volumes[k] :
            /\ ~v.going /\ v.of # "gone"
            /\ claim.bound => v.phase = "bound"

\* pernodevolume.go, volumeIsSpent: "reports whether a volume belongs to a claim that
\* is gone": the pass takes no other.
SpentIsOfNoClaim ==
    \A k \in Claims : \A v \in volumes[k] :
        pass.todo # <<>> /\ Task[1] = "spend" /\ ~v.going =>
            \A w \in volumes'[k] : w.going => v.of = "gone"
=============================================================================
