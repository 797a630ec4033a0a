------------------------------- MODULE Stores -------------------------------
(***************************************************************************)
(* A durable store of a namespace: its copies (storereplicas.go,           *)
(* catalogpod.go, progresspod.go, reconcileCatalogs of                     *)
(* catalogreconcile.go), and the heal of a copy on a node that is gone     *)
(* (storeheal.go).                                                         *)
(***************************************************************************)
EXTENDS Stand

Rows == "rows"   \* catalogClaimFor: the one claim of a copy
StoresAssumption == StandAssumption /\ Claims = {Rows}

\* storeCopies: on a class that is not per-node one copy stands.
CopiesWanted == IF PerNode THEN want.copies ELSE 1

\* What a pod is built from: the Catalog and the images.
Template == want.tpl

\* healStrandedStoreReplicas: each copy that was read on a stranded node, in the
\* order of the list.
Stranded(c) == \E p \in seen.pods[c] : p.node # {} /\ p.node \cap up = {}
Listed(cs) == {list \in [1..Cardinality(cs) -> cs] : \A c \in cs : \E i \in DOMAIN list : list[i] = c}
Healed(list) == [i \in DOMAIN list |-> <<"heal", list[i]>>]
Tasks(kind, from, to) == [i \in 1..(to - from) |-> <<kind, from + i - 1>>]
StandTasks ==
    <<<<"claim", Rows>>>> \o Tasks("pod", 0, CopiesWanted)
        \o Tasks("retire", CopiesWanted, Cardinality(Copies))

\* reconcileCatalogs: the heal goes before the stand, and a namespace with no
\* Catalog is healed and swept as any other.
BeginPass == \E list \in Listed({c \in Copies : Stranded(c)}) :
    Begin(Healed(list) \o (IF want.stands THEN StandTasks ELSE <<>>), Template)

\* ForceDeletePod, by uid: a pod that stood again since is not taken, and its claim
\* is its own.  The pod goes at once, whatever its kubelet says.
HealByName ==                \* mutant: the delete names no uid
    /\ Is("heal")
    /\ IF pods[Of] # {}
       THEN /\ PodGoes(Of)
            /\ pass' = [pass EXCEPT !.pods[Of] = {},
                                    !.todo = <<<<"unclaim", Rows>>>> \o Tail(@)]
       ELSE Done /\ UNCHANGED <<pods, seen>>
    /\ UNCHANGED <<want, up, claims, volumes, budget>>
HealPod ==
    /\ Is("heal")
    /\ IF \E p \in pass.pods[Of] : p.is
       THEN /\ PodGoes(Of)
            /\ pass' = [pass EXCEPT !.pods[Of] = {},
                                    !.todo = <<<<"unclaim", Rows>>>> \o Tail(@)]
       ELSE Done /\ UNCHANGED <<pods, seen>>
    /\ UNCHANGED <<want, up, claims, volumes, budget>>

\* Its claim after it, on a class that pins the claim.  The pass forgets the claim
\* that it read.  A claim that a person made carries no label of the store, and is no
\* claim of this module.
HealAnyClaim ==              \* mutant: the class is not asked for
    /\ Is("unclaim")
    /\ claims' = Set(claims, Of, "going", TRUE)
    /\ pass' = [pass EXCEPT !.claims = @ \ {Of}, !.todo = Tail(@)]
    /\ UNCHANGED <<want, up, pods, volumes, seen, budget>>
HealClaim ==
    /\ Is("unclaim")
    /\ IF PerNode \/ claims[Of] = {} THEN Done /\ UNCHANGED claims
       ELSE /\ claims' = Set(claims, Of, "going", TRUE)
            /\ pass' = [pass EXCEPT !.claims = @ \ {Of}, !.todo = Tail(@)]
    /\ UNCHANGED <<want, up, pods, volumes, seen, budget>>

\* A heal that fails is over, and the rest of the pass goes on.
HealFails ==
    /\ Is("heal") \/ Is("unclaim")
    /\ Spend("fails")
    /\ Done
    /\ UNCHANGED <<want, up, objects, seen>>

\* sweepStoreReplicas: upward from the count, as far as a pod was read.
Retire ==
    /\ Is("retire")
    /\ IF pass.pods[Of] # {} THEN DeletePod(Of) /\ Done
       ELSE Abandoned /\ UNCHANGED pods
    /\ UNCHANGED <<want, up, claims, volumes, seen, budget>>

Init == Nothing([stands : {TRUE}, tpl : {"one"}, copies : {1, Cardinality(Copies)}, on : {Nodes},
                 perNode : BOOLEAN])

PassSteps == BeginPass \/ HealPod \/ HealClaim \/ Retire \/ StandSteps
Next == PassSteps \/ HealFails \/ Deliver \/ Controllers \/ Mishaps

\* The pass comes again, the watch delivers, the cluster's controllers work.
Fairness ==
    /\ WF_vars(PassSteps) /\ WF_vars(Deliver)
    /\ \A c \in Copies : /\ WF_vars(Schedule(c)) /\ WF_vars(PodEnds(c))
                         /\ WF_vars(CollectPod(c))
    /\ \A k \in Claims : /\ WF_vars(ClaimEnds(k))
                         /\ WF_vars(PerNode /\ (MarkVolume(k) \/ Bind(k)))
                         /\ WF_vars(ReleaseVolume(k)) /\ WF_vars(VolumeEnds(k))
                         /\ WF_vars(CollectClaim(k))
    /\ WF_vars(Declare)

Spec == Init /\ [][Next]_vars /\ Fairness

-----------------------------------------------------------------------------
\* storeheal.go: a forced delete takes only a pod that was on a node that was
\* silent when the pass read it, never the copy that stood again since.
HealTakesTheStranded ==
    \A c \in Copies :
        Is("heal") /\ pods[c] # {} /\ pods'[c] = {} /\ pass'.todo # pass.todo =>
            \E p \in pods[c] : p.node # {} /\ p.node \subseteq pass.stranded

\* storeheal.go: "the copies that still mount it need it": the operator takes no
\* claim that a copy on a node that answers mounts.
MountedClaimIsKept ==
    \A k \in Claims : \A claim \in claims[k] :
        claim.going /\ ~claim.orphan =>
            ~\E c \in Copies : \E p \in pods[c] : p.node # {} /\ p.node \subseteq up /\ ~p.going

\* A store whose copies are all down comes to have one that stands on a node that
\* answers.
Standing(c) == \E p \in pods[c] : ~p.going /\ p.node # {} /\ p.node \subseteq up
Down == want.stands /\ ~\E c \in Copies : Standing(c)
StoreComesBack == Down ~> ~Down
=============================================================================
