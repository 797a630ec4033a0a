------------------------------ MODULE Screens ------------------------------
(***************************************************************************)
(* The screen of one Player (screenpod.go): its pod, which the display     *)
(* claim of media-operator pins to the node of the display, its two claims *)
(* (screenclaim.go), and the recovery of a screen whose display moved.     *)
(***************************************************************************)
EXTENDS Stand

Rows == "rows"   \* screenClaimName
Art == "art"     \* screenArtClaimName

\* What the pod is built from: the Player, the Libraries, the Catalog, the images.
Template == want.tpl

\* A Player that names another controller is a want of no copies: reconcileScreens
\* deletes the pod that stands for it.
Delegated == want.stands /\ want.copies = 1

\* The scheduler has refused the pod for longer than the grace.
Refuse(c) ==
    /\ Waits(c) /\ \A p \in pods[c] : ~p.refused
    /\ \A n \in Nodes : ~MayRunOn(c, n)
    /\ pods' = Set(pods, c, "refused", TRUE)
    /\ UNCHANGED <<want, up, claims, volumes, seen, pass, budget>>

\* unschedulablePastGrace, of the pod that was read.
Unschedulable == \E p \in seen.pods[0] : p.node = {} /\ p.refused

\* reconcileScreens, with the claims in the order of screenClaims.
StandTasks == <<<<"claim", Rows>>, <<"claim", Art>>, <<"pod", 0>>>>
BeginPass ==
    Begin(IF ~want.stands THEN <<>>
          ELSE IF ~Delegated THEN IF seen.pods[0] = {} THEN <<>> ELSE <<<<"stop", 0>>>>
          ELSE (IF Unschedulable THEN <<<<"recover", 0>>>> ELSE <<>>) \o StandTasks,
          Template)

Stop ==
    /\ Is("stop")
    /\ DeletePod(Of) /\ Done
    /\ UNCHANGED <<want, up, claims, volumes, seen, budget>>

\* screenClaimIsRecoverable: Bound, and of this Player's uid.
Recoverable(k) == \E claim \in claims[k] : claim.bound /\ ~claim.orphan

\* recoverUnschedulableScreen, up to the delete of the pod, which is by name.
Recover ==
    /\ Is("recover")
    /\ IF Recoverable(Rows) /\ ~PerNode
       THEN DeletePod(0) /\ pass' = [pass EXCEPT !.todo = <<<<"rows", 0>>, <<"art", 0>>>> \o LastTask]
       ELSE Done /\ UNCHANGED pods
    /\ UNCHANGED <<want, up, claims, volumes, seen, budget>>

\* The claim the verdict was on goes by name, and the other one where it is of
\* this Player and Bound as well.  The player is left to the next pass.
RecoverRows ==
    /\ Is("rows")
    /\ claims' = Set(claims, Rows, "going", TRUE)
    /\ Done
    /\ UNCHANGED <<want, up, pods, volumes, seen, budget>>
ArtStays ==                          \* mutant: the art claim is kept
    /\ Is("art")
    /\ Done
    /\ UNCHANGED <<want, up, objects, seen, budget>>
RecoverArt ==
    /\ Is("art")
    /\ claims' = IF Recoverable(Art) THEN Set(claims, Art, "going", TRUE) ELSE claims
    /\ Done
    /\ UNCHANGED <<want, up, pods, volumes, seen, budget>>

-----------------------------------------------------------------------------
\* The display is somewhere, and moves: media-operator deletes the screen's pod.
DisplayMoves ==
    /\ want.on # {}
    /\ Spend("moves")
    /\ \E n \in Nodes : want.on # {n} /\ want' = [want EXCEPT !.on = {n}]
    /\ DeletePod(0)
    /\ UNCHANGED <<up, claims, volumes, seen, pass>>

\* The Player names another controller, or this one again.
Delegate ==
    /\ want.stands
    /\ Spend("edits")
    /\ want' = [want EXCEPT !.copies = 1 - @]
    /\ UNCHANGED <<up, objects, seen, pass>>

Init == Nothing([stands : {TRUE}, tpl : {"one"}, copies : {1}, on : {{n} : n \in Nodes},
                 perNode : BOOLEAN])

PassSteps == BeginPass \/ Stop \/ Recover \/ RecoverRows \/ RecoverArt \/ StandSteps
Next == PassSteps \/ Deliver \/ Controllers \/ Refuse(0) \/ Mishaps \/ DisplayMoves \/ Delegate

Fairness ==
    /\ WF_vars(PassSteps) /\ WF_vars(Deliver) /\ WF_vars(Declare) /\ WF_vars(Refuse(0))
    /\ \A c \in Copies : /\ WF_vars(Schedule(c))
                         /\ WF_vars(PodEnds(c)) /\ WF_vars(CollectPod(c))
    /\ \A k \in Claims : WF_vars(ClaimEnds(k)) /\ WF_vars(CollectClaim(k))

Spec == Init /\ [][Next]_vars /\ Fairness

-----------------------------------------------------------------------------
\* screenclaim.go: the recovery takes the claims of a screen that has no node,
\* and not those of one that plays.
PlayingScreenIsKept ==
    \A k \in Claims : \A claim \in claims[k] :
        claim.going /\ ~claim.orphan => ~\E p \in pods[0] : p.node # {} /\ ~p.going

\* screenclaim.go, recoverUnschedulableScreen: a screen whose display moved comes to
\* stand on the node the display is on.
Dark == Delegated /\ want.on \subseteq up /\
            ~\E p \in pods[0] : ~p.going /\ p.node = want.on
ScreenComesBack == Dark ~> ~Dark
=============================================================================
