------------------------------ MODULE Progress ------------------------------
(***************************************************************************)
(* How a Play's last position reaches the progress store, and how a Person *)
(* is forgotten.  The operator (plays.go, people.go, storemarks.go,        *)
(* playrequest.go) is the only API client; the progress role of each       *)
(* namespace (progress.go, progressstore.go) is the only writer of that    *)
(* namespace's store.  They share nothing but retained MQTT messages       *)
(* (progressbus.go) at QoS 0 (bus.go): a publish made while disconnected   *)
(* is dropped, and a session that ends loses what was in flight to it.     *)
(*                                                                         *)
(* A payload is a set of at most one value: {} is the empty payload that   *)
(* clears a retained topic, and what a topic nobody wrote holds.           *)
(***************************************************************************)
EXTENDS Naturals, Sequences, SequencesExt, FiniteSets

CONSTANTS
    Namespaces,   \* the namespaces, each with one progress role
    Plays,        \* the names the API server mints for Plays
    People,       \* the Person names
    Home,         \* the namespace of each Play
    MaxPos,       \* bound: positions a Play runs through
    Faults        \* bounds: how often each kind of fault may happen, one of them each time

ProgressAssumption ==
    /\ IsFiniteSet(Namespaces) /\ IsFiniteSet(Plays) /\ IsFiniteSet(People)
    /\ "operator" \notin Namespaces
    /\ Home \in [Plays -> Namespaces]
    /\ MaxPos \in Nat \ {0}
    /\ Faults \subseteq [{"opRestart", "opDrop", "roleDrop", "storeFails",
                          "brokerRestart", "late", "reborn"} -> Nat]

VARIABLES
    stores,     \* the namespaces with exactly one Catalog: storeNamespaces
    plays,      \* the Play objects of the API server
    people,     \* the Person objects of the API server
    rows,       \* the plays and play_people rows of the stores
    net,        \* the broker's retained messages and what is in flight
    conn,       \* who has a bus session
    published,  \* operator.published: what it last put on each topic
    recorded,   \* storeMarks.recorded: the Plays' marks on the desk
    forgotten,  \* storeMarks.forgotten: the answers on the desk
    clearing,   \* the topics a release has still to clear
    asked,      \* history: the stores that ran the forget of this Person
    budget      \* what is left of each fault's bound

vars == <<stores, plays, people, rows, net, conn, published, recorded,
          forgotten, clearing, asked, budget>>
objects == <<stores, plays, people>>
operator == <<published, recorded, forgotten, clearing>>

Operator == "operator"
Clients == Namespaces \cup {Operator}

-----------------------------------------------------------------------------
(* The topics of progressbus.go, and who subscribes to each. *)

Status(p) == <<"status", p>>
Audience(p) == <<"audience", p>>
Final(p) == <<"final", p>>
Recorded(p) == <<"recorded", p>>
Forget(a) == <<"forget", a>>
Forgotten(a, n) == <<"forgotten", a, n>>

PlayTopics == {"status", "audience", "final", "recorded"} \X Plays
Topics == PlayTopics \cup {Forget(a) : a \in People}
              \cup ({"forgotten"} \X People \X Namespaces)

\* onMessage's dispatch: progress.subscribe names a namespace's own Plays and
\* every forget; newOperator names every recorded mark and every answer.
Reads(c, t) ==
    IF c = Operator THEN t[1] \in {"recorded", "forgotten"}
    ELSE \/ t[1] \in {"status", "audience", "final"} /\ Home[t[2]] = c
         \/ t[1] = "forget"

\* The broker takes a publish: it holds the payload and passes it on to every
\* subscriber with a session.
Put(b, t, v) ==
    [kept |-> [b.kept EXCEPT ![t] = v],
     in |-> [c \in Clients |-> IF conn[c] /\ Reads(c, t)
                               THEN Append(b.in[c], <<t, v>>) ELSE b.in[c]]]

\* Bus.Publish: a client with no session drops the message.
Publish(c, b, t, v) == IF conn[c] THEN Put(b, t, v) ELSE b

\* resubscribe sends the filters in sorted order, and the broker answers each
\* with the retained messages it holds: the people branch before the plays
\* branch, and media-operator's tree last.
Retained(c) ==
    LET of(kind) == SetToSeq({t \in Topics : /\ t[1] = kind /\ Reads(c, t)
                                             /\ net.kept[t] # {}})
        all == of("forget") \o of("forgotten") \o of("audience") \o of("final")
                   \o of("recorded") \o of("status")
    IN  [i \in 1..Len(all) |-> <<all[i], net.kept[all[i]]>>]

-----------------------------------------------------------------------------
NoRow == [stands |-> FALSE, pos |-> 0, ended |-> FALSE, who |-> {}]
Unborn == [phase |-> "unborn", deleting |-> FALSE, held |-> FALSE,
           pos |-> 0, owners |-> {}]
Gone(o) == [o EXCEPT !.phase = "gone", !.deleting = TRUE, !.held = FALSE]
Nothing == [t \in Topics |-> {}]

\* Plays that were there before this operator are unborn too: a Play written by
\* hand is born with no finalizer (CreatePlay).  An object may be gone already.
Init ==
    /\ stores \in SUBSET Namespaces
    /\ plays \in [Plays -> {Unborn, Gone(Unborn)}]
    /\ people \in [People -> [life : {"alive", "gone"}, held : {FALSE}]]
    /\ rows = [p \in Plays |-> NoRow]
    /\ net = [kept |-> Nothing, in |-> [c \in Clients |-> <<>>]]
    /\ conn = [c \in Clients |-> TRUE]
    /\ published = Nothing
    /\ recorded = [p \in Plays |-> {}]
    /\ forgotten = [a \in People |-> {}]
    /\ clearing = <<>>
    /\ asked = [a \in People |-> {}]
    /\ budget \in Faults

Spend(kind) == /\ budget[kind] > 0
               /\ budget' = [budget EXCEPT ![kind] = @ - 1]

-----------------------------------------------------------------------------
(* The cluster around the operator: media-operator, people-operator, the   *)
(* garbage collector and whoever deletes an object.                        *)

Exists(p) == plays[p].phase \in {"running", "ended"}
AsDeleted(o) == IF o.held THEN [o EXCEPT !.deleting = TRUE] ELSE Gone(o)

\* An owner for every name of the request that names a Person.
Owners(names) == {a \in names : people[a].life # "gone"}

\* A Play is born: from a screen's request, with the finalizer only where the
\* namespace has a store, or by hand with no finalizer.
CreatePlay(p, names, byHand) ==
    /\ plays[p].phase = "unborn"
    /\ plays' = [plays EXCEPT ![p] =
           [phase |-> "running", deleting |-> FALSE, pos |-> 0,
            held |-> ~byHand /\ Home[p] \in stores,
            owners |-> Owners(names)]]
    /\ UNCHANGED <<stores, people, rows, net, conn, operator, asked, budget>>

\* The playback pod plays on and says where it is.  A Play that is being deleted
\* moves no further: reconcilePlay takes its status as final for that reason.
PlayOn(p) ==
    /\ plays[p].phase = "running" /\ ~plays[p].deleting /\ plays[p].pos < MaxPos
    /\ plays' = [plays EXCEPT ![p].pos = @ + 1]
    /\ net' = Put(net, Status(p), {plays[p].pos + 1})
    /\ UNCHANGED <<stores, people, rows, conn, operator, asked, budget>>

\* The pod reports for about a second past the end, and the report may be of a
\* position before the one the API server holds.
LateReport(p) ==
    /\ plays[p].deleting \/ plays[p].phase \in {"ended", "gone"}
    /\ Spend("late")
    /\ \E pos \in {plays[p].pos, plays[p].pos - 1} \cap (1..MaxPos) :
           net' = Put(net, Status(p), {pos})
    /\ UNCHANGED <<objects, rows, conn, operator, asked>>

FinishPlay(p) ==
    /\ plays[p].phase = "running" /\ ~plays[p].deleting
    /\ plays' = [plays EXCEPT ![p].phase = "ended"]
    /\ UNCHANGED <<stores, people, rows, net, conn, operator, asked, budget>>

\* A person deletes the Play, or the garbage collector does because every owner
\* is gone.  It stands until the operator lets it go.
DeletePlay(p) ==
    /\ Exists(p) /\ ~plays[p].deleting
    /\ plays' = [plays EXCEPT ![p] = AsDeleted(@)]
    /\ UNCHANGED <<stores, people, rows, net, conn, operator, asked, budget>>

DeletePerson(a) ==
    /\ people[a].life = "alive"
    /\ people' = [people EXCEPT ![a].life = IF people[a].held THEN "deleting" ELSE "gone"]
    /\ UNCHANGED <<stores, plays, rows, net, conn, operator, asked, budget>>

\* Somebody creates a Person of the same name again.
RebornPerson(a) ==
    /\ people[a].life = "gone"
    /\ Spend("reborn")
    /\ people' = [people EXCEPT ![a] = [life |-> "alive", held |-> FALSE]]
    /\ asked' = [asked EXCEPT ![a] = {}]
    /\ UNCHANGED <<stores, plays, rows, net, conn, operator>>

-----------------------------------------------------------------------------
(* The operator's pass.  Every step is made only while no release is half  *)
(* done, because one goroutine makes them all.                             *)

\* publishMark: nothing where the topic holds what this operator last put
\* there.  The memory is written whether the bus took the message or not.
PublishMark(b, t, v) == IF published[t] = v THEN b ELSE Publish(Operator, b, t, v)

\* playFinalOf and playAudienceOf, of the object as the pass read it.
Ended(p) == plays[p].phase = "ended" \/ plays[p].deleting

\* releasePlay's first half: the finalizer goes, and the topics are still to
\* clear.  Without a conflict; a pass that met one did nothing and comes again.
Release(p) ==
    /\ plays' = [plays EXCEPT ![p] =
           IF plays[p].deleting THEN Gone(@) ELSE [@ EXCEPT !.held = FALSE]]
    /\ clearing' = <<Audience(p), Final(p), Recorded(p)>>

\* The mark on the desk says the store holds the end.
AnyMarkWillDo(p) == recorded[p] # {}    \* mutant: an open mark is enough
EndIsRecorded(p) == recorded[p] = {"ended"}

\* reconcilePlay: hold, publish the audience, publish the final, release.
ReconcilePlay(p) ==
    /\ clearing = <<>> /\ Exists(p) /\ Home[p] \in stores
    /\ LET mark == IF Ended(p) THEN [published EXCEPT ![Audience(p)] = {plays[p].owners},
                                                      ![Final(p)] = {plays[p].pos}]
                   ELSE [published EXCEPT ![Audience(p)] = {plays[p].owners}]
           told == PublishMark(net, Audience(p), {plays[p].owners})
       IN  /\ published' = mark
           /\ net' = IF Ended(p) THEN PublishMark(told, Final(p), {plays[p].pos}) ELSE told
    /\ IF plays[p].deleting /\ EndIsRecorded(p)
       THEN Release(p)
       ELSE /\ plays' = [plays EXCEPT ![p].held = @ \/ ~plays[p].deleting]
            /\ UNCHANGED clearing
    /\ UNCHANGED <<stores, people, rows, conn, recorded, forgotten, asked, budget>>

\* reconcilePlays, of a namespace with no store: nobody will ever record this
\* Play, so it is let go.
ReleaseUnstored(p) ==
    /\ clearing = <<>> /\ Exists(p) /\ Home[p] \notin stores /\ plays[p].held
    /\ Release(p)
    /\ UNCHANGED <<stores, people, rows, net, conn, published, recorded,
                   forgotten, asked, budget>>

\* Every mark of a Play that is not on the list the pass read is dropped
\* (retainRecorded) and its topics are cleared.  LivePlays is that list; a pass
\* whose read of the Plays failed makes no step here, nor any of a Play.
LivePlays == {p \in Plays : Exists(p) /\ Home[p] \in stores}
RetainRecorded ==
    /\ clearing = <<>>
    /\ \E p \in {q \in Plays : recorded[q] # {}} \ LivePlays :
           /\ recorded' = [recorded EXCEPT ![p] = {}]
           /\ clearing' = <<Audience(p), Final(p), Recorded(p)>>
    /\ UNCHANGED <<objects, rows, net, conn, published, forgotten, asked, budget>>

HoldPerson(a) ==
    /\ clearing = <<>> /\ people[a].life = "alive" /\ ~people[a].held
    /\ people' = [people EXCEPT ![a].held = TRUE]
    /\ UNCHANGED <<stores, plays, rows, net, conn, operator, asked, budget>>

\* Every namespace with a store has answered.  Others may have.
SomeStoreForgot(a) == stores = {} \/ forgotten[a] # {}   \* mutant: one answer is enough
OnlyStoresForgot(a) == forgotten[a] = stores   \* mutant: no other namespace may answer
EveryStoreForgot(a) == stores \subseteq forgotten[a]

\* forgetPerson: ask, once per operator process (publishStanding), and let the
\* Person go when every namespace with a store has answered.
ForgetPerson(a) ==
    /\ clearing = <<>> /\ people[a].life = "deleting"
    /\ published' = [published EXCEPT ![Forget(a)] = {"ask"}]
    /\ net' = PublishMark(net, Forget(a), {"ask"})
    /\ IF EveryStoreForgot(a)
       THEN /\ people' = [people EXCEPT ![a] = [life |-> "gone", held |-> FALSE]]
            /\ clearing' = <<Forget(a)>> \o
                   SetToSeq({Forgotten(a, n) : n \in forgotten[a]})
       ELSE UNCHANGED <<people, clearing>>
    /\ UNCHANGED <<stores, plays, rows, conn, recorded, forgotten, asked, budget>>

\* clearTopic, one topic of a release at a time, and the desk's entry with the
\* last: a crash between two leaves the rest standing on the broker.
ClearTopic ==
    /\ clearing # <<>>
    /\ LET t == Head(clearing)
       IN  /\ published' = [published EXCEPT ![t] = {}]
           /\ net' = Publish(Operator, net, t, {})
           /\ IF Len(clearing) > 1 THEN UNCHANGED <<recorded, forgotten>>
              ELSE IF t[1] = "recorded"
              THEN recorded' = [recorded EXCEPT ![t[2]] = {}] /\ UNCHANGED forgotten
              ELSE forgotten' = [forgotten EXCEPT ![t[2]] = {}] /\ UNCHANGED recorded
    /\ clearing' = Tail(clearing)
    /\ UNCHANGED <<objects, rows, conn, asked, budget>>

\* handleBusMessage, of a recorded mark (foldMark, markRecorded) or an answer
\* (markForgotten): it runs on the bus reader's goroutine, between any two
\* steps of the pass.  An empty payload drops what the desk holds.
FoldMark ==
    /\ net.in[Operator] # <<>>
    /\ LET t == Head(net.in[Operator])[1]
           v == Head(net.in[Operator])[2]
       IN  IF t[1] = "recorded"
           THEN recorded' = [recorded EXCEPT ![t[2]] = v] /\ UNCHANGED forgotten
           ELSE /\ forgotten' = [forgotten EXCEPT ![t[2]] =
                        IF v = {} THEN @ \ {t[3]} ELSE @ \cup {t[3]}]
                /\ UNCHANGED recorded
    /\ net' = [net EXCEPT !.in[Operator] = Tail(@)]
    /\ UNCHANGED <<objects, rows, conn, published, clearing, asked, budget>>

-----------------------------------------------------------------------------
(* The progress role of a namespace: one message at a time.                *)

\* The store's statements for one message.  startPlay makes the row where there
\* is none, and the update of a position names ended = 0.
RecordAnyPosition(row, pos) ==     \* mutant: the update does not name ended = 0
    [row EXCEPT !.stands = TRUE, !.ended = FALSE, !.pos = pos]
RecordPosition(row, pos) ==
    IF row.ended THEN row ELSE [row EXCEPT !.stands = TRUE, !.pos = pos]
RecordAudience(row, who) == [row EXCEPT !.stands = TRUE, !.who = who]
RecordFinal(row, pos) == [row EXCEPT !.stands = TRUE, !.ended = TRUE, !.pos = pos]
ForgetIn(n, a) ==
    [p \in Plays |-> IF Home[p] = n THEN [rows[p] EXCEPT !.who = @ \ {a}] ELSE rows[p]]

Written(n, t, v) ==
    IF v = {} THEN rows ELSE
    CASE t[1] = "forget" -> ForgetIn(n, t[2])
      [] t[1] = "status" -> [rows EXCEPT ![t[2]] = RecordPosition(@, CHOOSE x \in v : TRUE)]
      [] t[1] = "audience" -> [rows EXCEPT ![t[2]] = RecordAudience(@, UNION v)]
      [] t[1] = "final" -> [rows EXCEPT ![t[2]] = RecordFinal(@, CHOOSE x \in v : TRUE)]

\* What the role publishes once the write is answered: the recorded mark of a
\* status that changed a row or of a final, and the answer to a forget, which
\* an empty request clears.
AnsweredAlways(n, b, t, v) ==      \* mutant: a status that wrote nothing is answered
    CASE t[1] = "forget" -> Put(b, Forgotten(t[2], n), v)
      [] t[1] = "status" /\ v # {} -> Put(b, Recorded(t[2]), {"open"})
      [] t[1] = "final" /\ v # {} -> Put(b, Recorded(t[2]), {"ended"})
      [] OTHER -> b
Answered(n, b, t, v) ==
    CASE t[1] = "forget" -> Put(b, Forgotten(t[2], n), v)
      [] t[1] = "status" /\ v # {} /\ ~rows[t[2]].ended -> Put(b, Recorded(t[2]), {"open"})
      [] t[1] = "final" /\ v # {} -> Put(b, Recorded(t[2]), {"ended"})
      [] OTHER -> b

\* onMessage: recordStatus, recordAudience, recordFinal or forget.
HandleMessage(n) ==
    /\ net.in[n] # <<>>
    /\ LET t == Head(net.in[n])[1]
           v == Head(net.in[n])[2]
       IN  /\ rows' = Written(n, t, v)
           /\ net' = Answered(n, [net EXCEPT !.in[n] = Tail(@)], t, v)
           /\ asked' = IF t[1] = "forget" /\ v # {}
                       THEN [asked EXCEPT ![t[2]] = @ \cup {n}] ELSE asked
    /\ UNCHANGED <<objects, conn, operator, budget>>

\* The agent refuses the write, or answers too late to one that landed: the
\* message is over, and nothing is published.
RefusedButAnswered(n) ==           \* mutant: the answer does not wait for the write
    /\ net.in[n] # <<>> /\ Head(net.in[n])[2] # {}
    /\ Spend("storeFails")
    /\ net' = Answered(n, [net EXCEPT !.in[n] = Tail(@)], Head(net.in[n])[1], Head(net.in[n])[2])
    /\ UNCHANGED <<objects, rows, conn, operator, asked>>
StoreRefuses(n) ==
    /\ net.in[n] # <<>> /\ Head(net.in[n])[2] # {}
    /\ Spend("storeFails")
    /\ rows' \in {rows, Written(n, Head(net.in[n])[1], Head(net.in[n])[2])}
    /\ net' = [net EXCEPT !.in[n] = Tail(@)]
    /\ UNCHANGED <<objects, conn, operator, asked>>

-----------------------------------------------------------------------------
(* The sessions.                                                           *)

Lose(c) == net' = [net EXCEPT !.in[c] = <<>>]

\* A role's session ends, with the pod or without it.  The role keeps nothing
\* in memory, so a restart is the same step.
RoleDrops(n) ==
    /\ conn[n]
    /\ Spend("roleDrop")
    /\ conn' = [conn EXCEPT ![n] = FALSE]
    /\ Lose(n)
    /\ UNCHANGED <<objects, rows, operator, asked>>

OperatorDrops ==
    /\ conn[Operator]
    /\ Spend("opDrop")
    /\ conn' = [conn EXCEPT ![Operator] = FALSE]
    /\ Lose(Operator)
    /\ UNCHANGED <<objects, rows, operator, asked>>

\* Another copy of the operator takes over, or this one starts again: what it
\* held in memory is gone, and a half-done release with it.  operator.run starts
\* the session before the first pass and does not wait for it: the session is up
\* by then, or the broker keeps it waiting and OperatorDrops follows.
OperatorRestarts ==
    /\ Spend("opRestart")
    /\ conn' = [conn EXCEPT ![Operator] = TRUE]
    /\ net' = [net EXCEPT !.in[Operator] = Retained(Operator)]
    /\ published' = Nothing
    /\ recorded' = [p \in Plays |-> {}]
    /\ forgotten' = [a \in People |-> {}]
    /\ clearing' = <<>>
    /\ UNCHANGED <<objects, rows, asked>>

\* A broker that restarts drops its retained messages and every session.
BrokerRestarts ==
    /\ Spend("brokerRestart")
    /\ net' = [kept |-> Nothing, in |-> [c \in Clients |-> <<>>]]
    /\ conn' = [c \in Clients |-> FALSE]
    /\ UNCHANGED <<objects, rows, operator, asked>>

\* runSession: a session again, and every retained message under its filters.
Connect(c) ==
    /\ ~conn[c]
    /\ conn' = [conn EXCEPT ![c] = TRUE]
    /\ net' = [net EXCEPT !.in[c] = Retained(c)]
    /\ UNCHANGED <<objects, rows, operator, asked, budget>>

-----------------------------------------------------------------------------
Cluster ==
    \/ \E p \in Plays : \/ \E names \in SUBSET People, byHand \in BOOLEAN :
                               CreatePlay(p, names, byHand)
                        \/ PlayOn(p) \/ LateReport(p) \/ FinishPlay(p) \/ DeletePlay(p)
    \/ \E a \in People : DeletePerson(a) \/ RebornPerson(a)

\* One pass: the Plays, then the people.  retainRecorded runs in the same pass.
PassStep(p) == ReconcilePlay(p) \/ ReleaseUnstored(p)
PersonStep(a) == HoldPerson(a) \/ ForgetPerson(a)

Next ==
    \/ Cluster
    \/ \E p \in Plays : PassStep(p)
    \/ RetainRecorded \/ ClearTopic \/ FoldMark
    \/ \E a \in People : PersonStep(a)
    \/ \E n \in Namespaces : HandleMessage(n) \/ StoreRefuses(n) \/ RoleDrops(n)
    \/ OperatorDrops \/ OperatorRestarts \/ BrokerRestarts
    \/ \E c \in Clients : Connect(c)

\* The pass comes back with every tick, the readers read what arrives, and a
\* client with no session dials again (Bus.Run).
Fairness ==
    /\ \A p \in Plays : WF_vars(PassStep(p))
    /\ WF_vars(RetainRecorded) /\ WF_vars(ClearTopic) /\ WF_vars(FoldMark)
    /\ \A a \in People : WF_vars(PersonStep(a))
    /\ \A n \in Namespaces : WF_vars(HandleMessage(n))
    /\ \A c \in Clients : WF_vars(Connect(c))

Spec == Init /\ [][Next]_vars /\ Fairness

-----------------------------------------------------------------------------
Payloads == [status |-> 1..MaxPos, audience |-> SUBSET People, final |-> 0..MaxPos,
             recorded |-> {"open", "ended"}, forget |-> {"ask"}, forgotten |-> {"ask"}]

\* Types: every retained message, row and object has its shape.
TypeOK ==
    /\ stores \subseteq Namespaces
    /\ plays \in [Plays -> [phase : {"unborn", "running", "ended", "gone"},
           deleting : BOOLEAN, held : BOOLEAN, pos : 0..MaxPos, owners : SUBSET People]]
    /\ people \in [People -> [life : {"alive", "deleting", "gone"}, held : BOOLEAN]]
    /\ rows \in [Plays -> [stands : BOOLEAN, pos : 0..MaxPos, ended : BOOLEAN,
                           who : SUBSET People]]
    /\ \A t \in Topics : net.kept[t] \subseteq Payloads[t[1]]
    /\ conn \in [Clients -> BOOLEAN]
    /\ recorded \in [Plays -> SUBSET {"open", "ended"}]
    /\ forgotten \in [People -> SUBSET Namespaces]

\* A Play of a namespace with a store is let go only when the store holds its
\* end: a delete never outruns the record (progressbus.go, playRecorded).  The
\* mark crosses the bus, two restarts and a desk before it is believed.
RecordBeforeRelease ==
    \A p \in Plays : plays[p].held /\ ~plays'[p].held /\ Home[p] \in stores
                        => rows[p].ended /\ rows[p].pos = plays[p].pos
ReleaseFollowsRecord == [][RecordBeforeRelease]_vars

\* A row that ended stays ended, and at the position of the final: the late
\* report of a playback pod, or a retained status that a new session delivers
\* after the final, does not reopen it (recordPosition's ended = 0).
RowStaysEnded ==
    \A p \in Plays : rows[p].ended =>
        rows'[p].ended /\ rows'[p].pos \in {rows[p].pos, plays[p].pos}
EndedStays == [][RowStaysEnded]_vars

\* No mark says more than the store holds: wherever an ended mark is, on the
\* broker, in flight or on the desk, the row ended first.
MarksAreTrue ==
    \A p \in Plays :
        (\/ net.kept[Recorded(p)] = {"ended"}
         \/ recorded[p] = {"ended"}
         \/ \E i \in DOMAIN net.in[Operator] :
                net.in[Operator][i] = <<Recorded(p), {"ended"}>>)
        => rows[p].ended

\* A Person that is let go was forgotten by every store of the cluster, each
\* since this Person was last created (people.go, forgetPerson).
ForgetBeforeRelease ==
    \A a \in People : people[a].life = "deleting" /\ people'[a].life = "gone"
                         => stores \subseteq asked[a]
ReleaseFollowsForget == [][ForgetBeforeRelease]_vars

\* A Play that is deleted goes.  Its finalizer waits for a chain of three
\* messages, any of which the restart of a role or of the operator may break.
DeletedPlayGoes ==
    \A p \in Plays : plays[p].deleting ~> plays[p].phase = "gone"

\* A Person that is deleted goes.
DeletedPersonGoes ==
    \A a \in People : people[a].life = "deleting" ~> people[a].life # "deleting"

\* "Deleting a Person deletes their progress": no row of a store names a Person
\* that was let go (people.go:3, progressbus.go's progressFinalizer).
ForgottenHasNoRow ==
    \A p \in Plays, a \in People :
        people[a].life = "gone" /\ Home[p] \in asked[a] => a \notin rows[p].who
=============================================================================
