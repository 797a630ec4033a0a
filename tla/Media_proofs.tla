---------------------------- MODULE Media_proofs ----------------------------
(***************************************************************************)
(* The media side, for every number of Plays, People, namespaces, servers  *)
(* and mishaps.  A Play is let go only when the store holds its end, and a *)
(* Person only when every store forgot it; the bridge writes to a server   *)
(* what some report said; and an outside row is the newest event that the  *)
(* store was told of.  A behaviour of the sum is one of one part: what a   *)
(* part's steps keep, the sum keeps where it is about it.                  *)
(***************************************************************************)
EXTENDS Media, SequencesExt, FiniteSetTheorems, SequenceTheorems, TLAPS

\* Which steps of the sum are a part's.
LEMMA StoreOnly ==
  /\ Init /\ OfStore => Store!Init
  /\ [Next]_vars /\ (OfStore)' => OfStore /\ [Store!Next]_(Store!vars)
<1>1. Init /\ OfStore => Store!Init
  BY DEF Init, OfStore
<1>2. ASSUME [Next]_vars, (OfStore)' PROVE OfStore /\ [Store!Next]_(Store!vars)
  <2>1. CASE UNCHANGED vars
    BY <1>2, <2>1 DEF vars, progressVars, Store!vars, OfStore
  <2>2. CASE Next
    BY <1>2, <2>2 DEF Next, OfProgress, OfBridge, OfBackfill, About, OfStore
  <2> QED
    BY <1>2, <2>1, <2>2
<1> QED
  BY <1>1, <1>2

LEMMA BridgeOnly ==
  /\ Init /\ focus = "bridge" => Bridge!Init
  /\ [Next]_vars /\ (focus = "bridge")' => focus = "bridge" /\ [Bridge!Next]_(Bridge!vars)
<1>1. Init /\ focus = "bridge" => Bridge!Init
  BY DEF Init
<1>2. ASSUME [Next]_vars, (focus = "bridge")' PROVE focus = "bridge" /\ [Bridge!Next]_(Bridge!vars)
  <2>1. CASE UNCHANGED vars
    BY <1>2, <2>1 DEF vars, jellyfinVars, Bridge!vars
  <2>2. CASE Next
    BY <1>2, <2>2 DEF Next, OfProgress, OfBridge, OfBackfill, About
  <2> QED
    BY <1>2, <2>1, <2>2
<1> QED
  BY <1>1, <1>2

LEMMA BackfillOnly ==
  /\ Init /\ focus = "backfill" => Backfill!Init
  /\ [Next]_vars /\ (focus = "backfill")' => focus = "backfill" /\ [Backfill!Next]_(Backfill!vars)
<1>1. Init /\ focus = "backfill" => Backfill!Init
  BY DEF Init
<1>2. ASSUME [Next]_vars, (focus = "backfill")' PROVE focus = "backfill" /\ [Backfill!Next]_(Backfill!vars)
  <2>1. CASE UNCHANGED vars
    BY <1>2, <2>1 DEF vars, backfillVars, Backfill!vars
  <2>2. CASE Next
    BY <1>2, <2>2 DEF Next, OfProgress, OfBridge, OfBackfill, About
  <2> QED
    BY <1>2, <2>1, <2>2
<1> QED
  BY <1>1, <1>2

-----------------------------------------------------------------------------
(* Progress.                                                               *)

PlayStates == [phase : {"unborn", "running", "ended", "gone"}, deleting : BOOLEAN,
               held : BOOLEAN, pos : 0..MaxPos, owners : SUBSET People]
PeopleStates == [life : {"alive", "deleting", "gone"}, held : BOOLEAN]
RowStates == [stands : BOOLEAN, pos : 0..MaxPos, ended : BOOLEAN, who : SUBSET People]

\* What a topic may carry: the empty payload, or one value of its kind.
PayloadsOf(t) == {{}} \cup {{x} : x \in Store!Payloads[t[1]]}
Values == UNION {PayloadsOf(t) : t \in Store!Topics}
Nets == [kept : [Store!Topics -> Values], in : [Store!Clients -> Seq(Store!Topics \X Values)]]

\* A payload that the broker holds on a topic, or that is under way to a client.
Sent(b, t, v) ==
    \/ b.kept[t] = v
    \/ \E c \in Store!Clients : \E i \in 1..Len(b.in[c]) : b.in[c][i] = <<t, v>>

\* A client is sent what it subscribes to.
Routed(b) == \A c \in Store!Clients : \A i \in 1..Len(b.in[c]) : Store!Reads(c, b.in[c][i][1])

\* The broker came from another by clients that read, sessions that ended or began,
\* and the messages of a set.
Adds(b, c, new) ==
    \A t \in Store!Topics, v \in Values : Sent(c, t, v) => Sent(b, t, v) \/ <<t, v>> \in new

\* What a message claims: a final, that the Play is over, and where; a mark, that
\* the row ended; an answer, that the store ran the forget.  A Person who is
\* created again under the same name is a new one, whom nobody forgot.
NeverReborn ==
  \A bound \in PlayFaults \cup RoughFaults \cup PersonFaults \cup RebornFaults :
      bound["reborn"] = 0
Mishaps == {"opRestart", "opDrop", "roleDrop", "storeFails", "brokerRestart", "late", "reborn"}
Claims(t, v) ==
    /\ v \in PayloadsOf(t)
    /\ t[1] = "final" /\ v # {} => Store!Ended(t[2]) /\ v = {plays[t[2]].pos}
    /\ t[1] = "recorded" /\ v = {"ended"} => rows[t[2]].ended
    /\ NeverReborn /\ t[1] = "forgotten" /\ v # {} => t[3] \in asked[t[2]]

StoreTyped ==
    /\ stores \subseteq Namespaces
    /\ plays \in [Plays -> PlayStates]
    /\ people \in [People -> PeopleStates]
    /\ rows \in [Plays -> RowStates]
    /\ net \in Nets
    /\ conn \in [Store!Clients -> BOOLEAN]
    /\ recorded \in [Plays -> SUBSET {"open", "ended"}]
    /\ forgotten \in [People -> SUBSET Namespaces]
    /\ clearing \in Seq(Store!Topics)
    /\ asked \in [People -> SUBSET Namespaces]
    /\ budget \in [Mishaps -> Nat]
    /\ NeverReborn => budget["reborn"] = 0

\* An unborn Play has run nowhere, and one that is gone was deleted.
ShapeOf(p) ==
    /\ plays[p].phase = "unborn" => ~plays[p].deleting /\ ~plays[p].held /\ plays[p].pos = 0
    /\ plays[p].phase = "gone" => plays[p].deleting

\* A row ended where its Play did.
EndIsTrue(p) == rows[p].ended => Store!Ended(p) /\ rows[p].pos = plays[p].pos

DeskIsTrue ==
    /\ \A p \in Plays : recorded[p] = {"ended"} => rows[p].ended
    /\ NeverReborn => \A a \in People : forgotten[a] \subseteq asked[a]

SentIsTrue == \A t \in Store!Topics, v \in Values : Sent(net, t, v) => Claims(t, v)

ProgressInvariant ==
    /\ StoreTyped
    /\ Routed(net)
    /\ \A p \in Plays : ShapeOf(p) /\ EndIsTrue(p)
    /\ DeskIsTrue
    /\ SentIsTrue

-----------------------------------------------------------------------------
(* The topics.                                                             *)

LEMMA TopicsOfPlays ==
  ASSUME NEW p \in Plays
  PROVE  {Store!Status(p), Store!Audience(p), Store!Final(p), Store!Recorded(p)} \subseteq Store!Topics
BY DEF Store!Topics, Store!PlayTopics, Store!Status, Store!Audience, Store!Final, Store!Recorded

LEMMA TopicsOfPeople ==
  ASSUME NEW a \in People, NEW n \in Namespaces
  PROVE  Store!Forget(a) \in Store!Topics /\ Store!Forgotten(a, n) \in Store!Topics
BY DEF Store!Topics, Store!Forget, Store!Forgotten

LEMMA ForgetIsTopic == \A a \in People : Store!Forget(a) \in Store!Topics
BY DEF Store!Topics, Store!Forget

LEMMA TopicKinds ==
  ASSUME NEW t \in Store!Topics
  PROVE  \/ t[1] \in {"status", "audience", "final", "recorded"} /\ t[2] \in Plays
                /\ t = <<t[1], t[2]>>
         \/ t[1] = "forget" /\ t[2] \in People /\ t = Store!Forget(t[2])
         \/ t[1] = "forgotten" /\ t[2] \in People /\ t[3] \in Namespaces
                /\ t = Store!Forgotten(t[2], t[3])
BY DEF Store!Topics, Store!PlayTopics, Store!Forget, Store!Forgotten

\* The payloads of each kind of topic.
LEMMA PayloadKinds ==
  ASSUME NEW t \in Store!Topics
  PROVE  /\ {} \in PayloadsOf(t) /\ PayloadsOf(t) \subseteq Values
         /\ t[1] = "status" => PayloadsOf(t) = {{}} \cup {{x} : x \in 1..MaxPos}
         /\ t[1] = "audience" => PayloadsOf(t) = {{}} \cup {{x} : x \in SUBSET People}
         /\ t[1] = "final" => PayloadsOf(t) = {{}} \cup {{x} : x \in 0..MaxPos}
         /\ t[1] = "recorded" => PayloadsOf(t) = {{}, {"open"}, {"ended"}}
         /\ t[1] = "forget" => PayloadsOf(t) = {{}, {"ask"}}
         /\ t[1] = "forgotten" => PayloadsOf(t) = {{}, {"ask"}}
<1>1. /\ Store!Payloads["status"] = 1..MaxPos /\ Store!Payloads["audience"] = SUBSET People
      /\ Store!Payloads["final"] = 0..MaxPos /\ Store!Payloads["recorded"] = {"open", "ended"}
      /\ Store!Payloads["forget"] = {"ask"} /\ Store!Payloads["forgotten"] = {"ask"}
  BY DEF Store!Payloads
<1>2. {} \in PayloadsOf(t) /\ PayloadsOf(t) \subseteq Values
  BY DEF PayloadsOf, Values
<1>3. ASSUME NEW k, t[1] = k PROVE PayloadsOf(t) = {{}} \cup {{x} : x \in Store!Payloads[k]}
  BY <1>3 DEF PayloadsOf
<1>4. {{x} : x \in {"open", "ended"}} = {{"open"}, {"ended"}}
      /\ {{x} : x \in {"ask"}} = {{"ask"}}
  OBVIOUS
<1>5. /\ t[1] = "status" => PayloadsOf(t) = {{}} \cup {{x} : x \in 1..MaxPos}
      /\ t[1] = "audience" => PayloadsOf(t) = {{}} \cup {{x} : x \in SUBSET People}
      /\ t[1] = "final" => PayloadsOf(t) = {{}} \cup {{x} : x \in 0..MaxPos}
  BY <1>1, <1>3
<1>6. /\ t[1] = "recorded" => PayloadsOf(t) = {{}} \cup {{"open"}, {"ended"}}
      /\ t[1] \in {"forget", "forgotten"} => PayloadsOf(t) = {{}} \cup {{"ask"}}
  BY <1>1, <1>3, <1>4
<1>7. {{}} \cup {{"open"}, {"ended"}} = {{}, {"open"}, {"ended"}}
      /\ {{}} \cup {{"ask"}} = {{}, {"ask"}}
  OBVIOUS
<1> QED
  BY <1>2, <1>5, <1>6, <1>7

LEMMA FiniteSides ==
  ASSUME Store!ProgressAssumption
  PROVE  IsFiniteSet(Namespaces) /\ IsFiniteSet(Plays) /\ IsFiniteSet(People)
BY DEF Store!ProgressAssumption, Store!IsFiniteSet, IsFiniteSet

LEMMA FiniteTopics ==
  ASSUME Store!ProgressAssumption
  PROVE  IsFiniteSet(Store!Topics)
<1>1. IsFiniteSet(Store!PlayTopics)
  <2>1. IsFiniteSet({"status"}) /\ IsFiniteSet({"audience"}) /\ IsFiniteSet({"final"})
        /\ IsFiniteSet({"recorded"})
    BY FS_Singleton
  <2>2. IsFiniteSet({"status", "audience"}) /\ IsFiniteSet({"final", "recorded"})
    <3>1. {"status", "audience"} = {"status"} \cup {"audience"}
          /\ {"final", "recorded"} = {"final"} \cup {"recorded"}
      OBVIOUS
    <3>2. IsFiniteSet({"status"} \cup {"audience"}) /\ IsFiniteSet({"final"} \cup {"recorded"})
      BY <2>1, FS_Union
    <3> QED
      BY <3>1, <3>2
  <2>3. IsFiniteSet({"status", "audience", "final", "recorded"})
    <3>1. {"status", "audience", "final", "recorded"}
            = {"status", "audience"} \cup {"final", "recorded"}
      OBVIOUS
    <3> QED
      BY <2>2, <3>1, FS_Union
  <2> QED
    BY <2>3, FiniteSides, FS_Product DEF Store!PlayTopics
<1>2. IsFiniteSet({Store!Forget(a) : a \in People})
  <2> DEFINE named == {Store!Forget(a) : a \in People}
             f == [a \in People |-> Store!Forget(a)]
  <2>1. f \in Surjection(People, named)
    BY DEF Surjection
  <2> QED
    BY <2>1, FiniteSides, FS_Surjection
<1>3. IsFiniteSet({"forgotten"} \X People \X Namespaces)
  <2> DEFINE named == {"forgotten"} \X People \X Namespaces
             pairs == People \X Namespaces
             f == [x \in pairs |-> <<"forgotten", x[1], x[2]>>]
  <2>1. f \in Surjection(pairs, named)
    <3>1. f \in [pairs -> named]
      OBVIOUS
    <3>2. ASSUME NEW t \in named PROVE \E x \in pairs : f[x] = t
      <4>1. <<t[2], t[3]>> \in pairs /\ t = <<"forgotten", t[2], t[3]>>
        OBVIOUS
      <4>2. f[<<t[2], t[3]>>] = t
        BY <4>1
      <4> QED
        BY <4>1, <4>2
    <3> HIDE DEF f, named, pairs
    <3> QED
      BY <3>1, <3>2 DEF Surjection
  <2>2. IsFiniteSet(pairs)
    BY FiniteSides, FS_Product
  <2> QED
    BY <2>1, <2>2, FS_Surjection
<1> QED
  BY <1>1, <1>2, <1>3, FS_Union DEF Store!Topics

\* A finite set as a sequence: of its elements, and with none of them twice.
LEMMA SetAsSequence ==
  ASSUME NEW S, IsFiniteSet(S)
  PROVE  Store!SetToSeq(S) \in Seq(S)
<1>1. Cardinality(S) \in Nat /\ ExistsBijection(1..Cardinality(S), S)
  BY FS_CardinalityType
<1>2. \E f \in [1..Cardinality(S) -> S] : IsInjective(f)
  BY <1>1 DEF ExistsBijection, Bijection, Injection
<1>3. /\ Store!Cardinality(S) = Cardinality(S)
      /\ \A f : Store!IsInjective(f) <=> IsInjective(f)
  BY DEF Store!Cardinality, Cardinality, Store!IsInjective, IsInjective
<1>4. Store!SetToSeq(S) \in [1..Cardinality(S) -> S]
  BY <1>2, <1>3 DEF Store!SetToSeq
<1> QED
  BY <1>1, <1>4

-----------------------------------------------------------------------------
(* What the broker's operations make of a net.                             *)

LEMMA AddsTwice ==
  ASSUME NEW b, NEW c, NEW d, NEW m, NEW n, Adds(b, c, m), Adds(c, d, n)
  PROVE  Adds(b, d, m \cup n)
BY DEF Adds

LEMMA AddsMore ==
  ASSUME NEW b, NEW c, NEW m, NEW n, Adds(b, c, m), m \subseteq n
  PROVE  Adds(b, c, n)
BY DEF Adds

LEMMA PutDoes ==
  ASSUME NEW b \in Nets, Routed(b), NEW t \in Store!Topics, NEW v \in Values
  PROVE  /\ Store!Put(b, t, v) \in Nets /\ Routed(Store!Put(b, t, v))
         /\ Adds(b, Store!Put(b, t, v), {<<t, v>>})
<1> DEFINE kept == [b.kept EXCEPT ![t] = v]
           into(c) == IF conn[c] /\ Store!Reads(c, t) THEN Append(b.in[c], <<t, v>>) ELSE b.in[c]
           in == [c \in Store!Clients |-> into(c)]
           put == Store!Put(b, t, v)
<1>1. put.kept = kept /\ put.in = in /\ put = [kept |-> kept, in |-> in]
  BY DEF Store!Put
<1>2. ASSUME NEW c \in Store!Clients
      PROVE  /\ into(c) \in Seq(Store!Topics \X Values)
             /\ \A i \in 1..Len(into(c)) :
                    \/ i \in 1..Len(b.in[c]) /\ into(c)[i] = b.in[c][i]
                    \/ into(c)[i] = <<t, v>> /\ Store!Reads(c, t)
  <2>1. b.in[c] \in Seq(Store!Topics \X Values) /\ <<t, v>> \in Store!Topics \X Values
    BY DEF Nets
  <2> DEFINE longer == Append(b.in[c], <<t, v>>)
  <2>2. /\ longer \in Seq(Store!Topics \X Values)
        /\ \A i \in 1..Len(longer) :
               \/ i \in 1..Len(b.in[c]) /\ longer[i] = b.in[c][i]
               \/ longer[i] = <<t, v>>
    BY <2>1
  <2>3. CASE conn[c] /\ Store!Reads(c, t)
    <3>1. into(c) = longer
      BY <2>3
    <3> HIDE DEF into, longer
    <3> QED
      BY <2>2, <2>3, <3>1
  <2>4. CASE ~(conn[c] /\ Store!Reads(c, t))
    <3>1. into(c) = b.in[c]
      BY <2>4
    <3> HIDE DEF into
    <3> QED
      BY <2>1, <3>1
  <2> QED
    BY <2>3, <2>4
<1> HIDE DEF into
<1>3. kept \in [Store!Topics -> Values] /\ in \in [Store!Clients -> Seq(Store!Topics \X Values)]
  BY <1>2 DEF Nets
<1>4. put \in Nets
  BY <1>1, <1>3 DEF Nets
<1>5. ASSUME NEW c \in Store!Clients, NEW i \in 1..Len(put.in[c])
      PROVE  \/ i \in 1..Len(b.in[c]) /\ put.in[c][i] = b.in[c][i]
             \/ put.in[c][i] = <<t, v>> /\ Store!Reads(c, t)
  BY <1>1, <1>2, <1>5
<1>6. \A u \in Store!Topics : put.kept[u] = b.kept[u] \/ (u = t /\ put.kept[u] = v)
  BY <1>1 DEF Nets
<1> HIDE DEF put, kept, in
<1>7. Routed(put)
  <2> SUFFICES ASSUME NEW c \in Store!Clients, NEW i \in 1..Len(put.in[c])
               PROVE  Store!Reads(c, put.in[c][i][1])
    BY DEF Routed
  <2>1. <<t, v>>[1] = t
    OBVIOUS
  <2> QED
    BY <1>5, <2>1 DEF Routed
<1>8. Adds(b, put, {<<t, v>>})
  <2> SUFFICES ASSUME NEW u \in Store!Topics, NEW w \in Values, Sent(put, u, w)
               PROVE  Sent(b, u, w) \/ <<u, w>> = <<t, v>>
    BY DEF Adds
  <2>1. CASE put.kept[u] = w
    BY <1>6, <2>1 DEF Sent
  <2>2. ASSUME NEW c \in Store!Clients, NEW i \in 1..Len(put.in[c]), put.in[c][i] = <<u, w>>
        PROVE  Sent(b, u, w) \/ <<u, w>> = <<t, v>>
    BY <1>5, <2>2 DEF Sent
  <2> QED
    BY <2>1, <2>2 DEF Sent
<1> QED
  BY <1>4, <1>7, <1>8 DEF put

LEMMA PublishDoes ==
  ASSUME NEW b \in Nets, Routed(b), NEW t \in Store!Topics, NEW v \in Values, NEW c
  PROVE  /\ Store!Publish(c, b, t, v) \in Nets /\ Routed(Store!Publish(c, b, t, v))
         /\ Adds(b, Store!Publish(c, b, t, v), {<<t, v>>})
<1>1. CASE conn[c]
  BY <1>1, PutDoes DEF Store!Publish
<1>2. CASE ~conn[c]
  BY <1>2 DEF Store!Publish, Adds
<1> QED
  BY <1>1, <1>2

LEMMA PublishMarkDoes ==
  ASSUME NEW b \in Nets, Routed(b), NEW t \in Store!Topics, NEW v \in Values
  PROVE  /\ Store!PublishMark(b, t, v) \in Nets /\ Routed(Store!PublishMark(b, t, v))
         /\ Adds(b, Store!PublishMark(b, t, v), {<<t, v>>})
<1>1. CASE published[t] = v
  BY <1>1 DEF Store!PublishMark, Adds
<1>2. CASE published[t] # v
  BY <1>2, PublishDoes DEF Store!PublishMark
<1> QED
  BY <1>1, <1>2

\* What is on its way to one client is replaced by something that was sent.
LEMMA InboxDoes ==
  ASSUME NEW b \in Nets, Routed(b), NEW c \in Store!Clients, NEW box \in Seq(Store!Topics \X Values),
         \A i \in 1..Len(box) : Sent(b, box[i][1], box[i][2]) /\ Store!Reads(c, box[i][1])
  PROVE  LET new == [b EXCEPT !.in[c] = box]
         IN  new \in Nets /\ Routed(new) /\ Adds(b, new, {})
<1> DEFINE in == [b.in EXCEPT ![c] = box]
           new == [b EXCEPT !.in[c] = box]
<1>1. /\ b.kept \in [Store!Topics -> Values] /\ b.in \in [Store!Clients -> Seq(Store!Topics \X Values)]
      /\ b = [kept |-> b.kept, in |-> b.in]
  BY DEF Nets
<1>2. in \in [Store!Clients -> Seq(Store!Topics \X Values)]
      /\ \A d \in Store!Clients : in[d] = IF d = c THEN box ELSE b.in[d]
  BY <1>1
<1>3. new = [b EXCEPT !.in = in]
  OBVIOUS
<1> HIDE DEF in, new
<1>4. new.kept = b.kept /\ new.in = in /\ new \in Nets
  BY <1>1, <1>2, <1>3 DEF Nets
<1>5. Routed(new)
  BY <1>2, <1>4 DEF Routed
<1>6. ASSUME NEW u \in Store!Topics, NEW w \in Values, Sent(new, u, w) PROVE Sent(b, u, w)
  <2>1. CASE new.kept[u] = w
    BY <1>4, <2>1 DEF Sent
  <2>2. ASSUME NEW d \in Store!Clients, NEW i \in 1..Len(new.in[d]), new.in[d][i] = <<u, w>>
        PROVE  Sent(b, u, w)
    <3>1. CASE d = c
      <4>1. i \in 1..Len(box) /\ box[i] = <<u, w>>
        BY <1>2, <1>4, <2>2, <3>1
      <4>2. box[i][1] = u /\ box[i][2] = w
        BY <4>1
      <4> QED
        BY <4>1, <4>2
    <3>2. CASE d # c
      <4>1. new.in[d] = b.in[d]
        BY <1>2, <1>4, <3>2
      <4> QED
        BY <2>2, <4>1 DEF Sent
    <3> QED
      BY <3>1, <3>2
  <2> QED
    BY <1>6, <2>1, <2>2 DEF Sent
<1>7. Adds(b, new, {})
  BY <1>6 DEF Adds
<1> QED
  BY <1>4, <1>5, <1>7 DEF new

\* The head of what is on its way to a client, and what a client that read it is
\* left with.
LEMMA HeadOfInbox ==
  ASSUME NEW b \in Nets, Routed(b), NEW c \in Store!Clients, b.in[c] # <<>>
  PROVE  LET message == Head(b.in[c])
             new == [b EXCEPT !.in[c] = Tail(@)]
         IN  /\ message \in Store!Topics \X Values
             /\ Sent(b, message[1], message[2]) /\ Store!Reads(c, message[1])
             /\ new \in Nets /\ Routed(new) /\ Adds(b, new, {})
<1> DEFINE box == Tail(b.in[c])
           message == Head(b.in[c])
<1>1. b.in[c] \in Seq(Store!Topics \X Values)
  BY DEF Nets
<1>2. /\ message = b.in[c][1] /\ 1 \in 1..Len(b.in[c]) /\ message \in Store!Topics \X Values
      /\ box \in Seq(Store!Topics \X Values)
      /\ \A i \in 1..Len(box) : i + 1 \in 1..Len(b.in[c]) /\ box[i] = b.in[c][i + 1]
  BY <1>1
<1>3. \A i \in 1..Len(b.in[c]) : b.in[c][i] = <<b.in[c][i][1], b.in[c][i][2]>>
  BY <1>1
<1>4. \A i \in 1..Len(b.in[c]) :
          Sent(b, b.in[c][i][1], b.in[c][i][2]) /\ Store!Reads(c, b.in[c][i][1])
  BY <1>3 DEF Sent, Routed
<1>5. \A i \in 1..Len(box) : Sent(b, box[i][1], box[i][2]) /\ Store!Reads(c, box[i][1])
  BY <1>2, <1>4
<1>6. [b EXCEPT !.in[c] = Tail(@)] = [b EXCEPT !.in[c] = box]
  OBVIOUS
<1> HIDE DEF box
<1> QED
  BY <1>2, <1>4, <1>5, <1>6, InboxDoes

LEMMA LoseDoes ==
  ASSUME net \in Nets, Routed(net), NEW c \in Store!Clients, Store!Lose(c)
  PROVE  net' \in Nets /\ Routed(net') /\ Adds(net, net', {})
<1>1. <<>> \in Seq(Store!Topics \X Values) /\ \A i \in 1..Len(<<>>) : FALSE
  OBVIOUS
<1>2. net' = [net EXCEPT !.in[c] = <<>>]
  BY DEF Store!Lose
<1> QED
  BY <1>1, <1>2, InboxDoes

\* A session that begins is sent what the broker holds, and nothing else.
LEMMA RetainedDoes ==
  ASSUME Store!ProgressAssumption, net \in Nets, Routed(net), NEW c \in Store!Clients
  PROVE  LET new == [net EXCEPT !.in[c] = Store!Retained(c)]
         IN  new \in Nets /\ Routed(new) /\ Adds(net, new, {})
<1> DEFINE named(kind) == {t \in Store!Topics : t[1] = kind /\ Store!Reads(c, t) /\ net.kept[t] # {}}
           of(kind) == Store!SetToSeq(named(kind))
           read == {t \in Store!Topics : Store!Reads(c, t)}
           all == of("forget") \o of("forgotten") \o of("audience") \o of("final")
                     \o of("recorded") \o of("status")
           box == [i \in 1..Len(all) |-> <<all[i], net.kept[all[i]]>>]
<1>1. ASSUME NEW kind PROVE of(kind) \in Seq(read)
  <2>1. named(kind) \subseteq Store!Topics /\ named(kind) \subseteq read
    OBVIOUS
  <2>2. IsFiniteSet(named(kind))
    <3> HIDE DEF named
    <3> QED
      BY <2>1, FiniteTopics, FS_Subset
  <2>3. of(kind) \in Seq(named(kind))
    <3> HIDE DEF named
    <3> QED
      BY <2>2, SetAsSequence
  <2> HIDE DEF of, named, read
  <2> QED
    BY <2>1, <2>3
<1> HIDE DEF of
<1>2. all \in Seq(read)
  <2> HIDE DEF read
  <2> QED
    BY <1>1
<1>3. Store!Retained(c) = box
  BY DEF Store!Retained, of, named
<1> HIDE DEF all
<1>4. Len(all) \in Nat /\ \A i \in 1..Len(all) : all[i] \in Store!Topics /\ Store!Reads(c, all[i])
  BY <1>2
<1>5. \A i \in 1..Len(all) : net.kept[all[i]] \in Values
  BY <1>4 DEF Nets
<1>6. box \in Seq(Store!Topics \X Values) /\ Len(box) = Len(all)
      /\ \A i \in 1..Len(box) : box[i][1] = all[i] /\ box[i][2] = net.kept[all[i]]
  BY <1>4, <1>5
<1> HIDE DEF box
<1>7. \A i \in 1..Len(box) : Sent(net, box[i][1], box[i][2]) /\ Store!Reads(c, box[i][1])
  BY <1>4, <1>6 DEF Sent
<1> QED
  BY <1>3, <1>6, <1>7, InboxDoes

-----------------------------------------------------------------------------
(* What may never be taken back: that a Play is over, that a row ended, and *)
(* that a store ran a forget.                                               *)

PlaysOnward ==
    /\ plays' \in [Plays -> PlayStates]
    /\ \A p \in Plays :
           /\ ShapeOf(p)'
           /\ Store!Ended(p) => Store!Ended(p)' /\ plays'[p].pos = plays[p].pos

RowsOnward ==
    /\ rows' \in [Plays -> RowStates]
    /\ \A p \in Plays :
           /\ rows[p].ended => rows'[p].ended /\ rows'[p].pos = rows[p].pos
           /\ rows'[p].ended => rows[p].ended \/ (Store!Ended(p) /\ rows'[p].pos = plays[p].pos)

AskedOnward ==
    /\ asked' \in [People -> SUBSET Namespaces]
    /\ NeverReborn => \A a \in People : asked[a] \subseteq asked'[a]

\* The rest of the types, of what a step leaves.
RestTyped ==
    /\ stores' \subseteq Namespaces
    /\ people' \in [People -> PeopleStates]
    /\ net' \in Nets
    /\ conn' \in [Store!Clients -> BOOLEAN]
    /\ recorded' \in [Plays -> SUBSET {"open", "ended"}]
    /\ forgotten' \in [People -> SUBSET Namespaces]
    /\ clearing' \in Seq(Store!Topics)
    /\ budget' \in [Mishaps -> Nat]
    /\ NeverReborn => budget'["reborn"] = 0

\* A claim stays true.
LEMMA ClaimsLast ==
  ASSUME NEW t \in Store!Topics, NEW v, Claims(t, v), PlaysOnward, RowsOnward, AskedOnward
  PROVE  Claims(t, v)'
<1>1. t[1] \in {"final", "recorded"} => t[2] \in Plays
  BY TopicKinds
<1>2. t[1] = "forgotten" => t[2] \in People
  BY TopicKinds
<1>3. v \in PayloadsOf(t)
  BY DEF Claims
<1>4. t[1] = "final" /\ v # {} => Store!Ended(t[2])' /\ v = {plays'[t[2]].pos}
  BY <1>1 DEF Claims, PlaysOnward
<1>5. t[1] = "recorded" /\ v = {"ended"} => rows'[t[2]].ended
  BY <1>1 DEF Claims, RowsOnward
<1>6. NeverReborn /\ t[1] = "forgotten" /\ v # {} => t[3] \in asked'[t[2]]
  BY <1>2 DEF Claims, AskedOnward
<1> QED
  BY <1>3, <1>4, <1>5, <1>6 DEF Claims

\* The desk stays true where nothing is put on it.
LEMMA DeskLasts ==
  ASSUME DeskIsTrue, RowsOnward, AskedOnward,
         \A p \in Plays : recorded'[p] \in {recorded[p], {}},
         \A a \in People : forgotten'[a] \subseteq forgotten[a]
  PROVE  DeskIsTrue'
<1>1. ASSUME NEW p \in Plays, recorded'[p] = {"ended"} PROVE rows'[p].ended
  <2>1. recorded[p] = {"ended"}
    BY <1>1
  <2> QED
    BY <2>1 DEF DeskIsTrue, RowsOnward
<1>2. ASSUME NeverReborn, NEW a \in People PROVE forgotten'[a] \subseteq asked'[a]
  BY <1>2 DEF DeskIsTrue, AskedOnward
<1> QED
  BY <1>1, <1>2 DEF DeskIsTrue

\* A step keeps the invariant when what it sends is true after it.
LEMMA StepDoes ==
  ASSUME ProgressInvariant, RestTyped, PlaysOnward, RowsOnward, AskedOnward, DeskIsTrue',
         Routed(net'), NEW new, Adds(net, net', new),
         \A t \in Store!Topics, v \in Values : <<t, v>> \in new => Claims(t, v)'
  PROVE  ProgressInvariant'
<1>1. StoreTyped'
  BY DEF RestTyped, PlaysOnward, RowsOnward, AskedOnward, StoreTyped
<1>2. ASSUME NEW p \in Plays PROVE ShapeOf(p)' /\ EndIsTrue(p)'
  BY DEF PlaysOnward, RowsOnward, ProgressInvariant, EndIsTrue
<1>3. SentIsTrue'
  <2> SUFFICES ASSUME NEW t \in Store!Topics, NEW v \in Values, Sent(net', t, v)
               PROVE  Claims(t, v)'
    BY DEF SentIsTrue, Sent
  <2>1. CASE <<t, v>> \in new
    BY <2>1
  <2>2. CASE Sent(net, t, v)
    <3>1. Claims(t, v)
      BY <2>2 DEF ProgressInvariant, SentIsTrue
    <3> QED
      BY <3>1, ClaimsLast
  <2> QED
    BY <2>1, <2>2 DEF Adds
<1> QED
  BY <1>1, <1>2, <1>3 DEF ProgressInvariant, Routed

LEMMA SamePlays ==
  ASSUME ProgressInvariant, UNCHANGED plays
  PROVE  PlaysOnward
BY DEF ProgressInvariant, StoreTyped, PlaysOnward, ShapeOf, Store!Ended

LEMMA SameRows ==
  ASSUME ProgressInvariant, UNCHANGED rows
  PROVE  RowsOnward
BY DEF ProgressInvariant, StoreTyped, RowsOnward

LEMMA SameAsked ==
  ASSUME ProgressInvariant, UNCHANGED asked
  PROVE  AskedOnward
BY DEF ProgressInvariant, StoreTyped, AskedOnward

LEMMA SameNet ==
  ASSUME ProgressInvariant, UNCHANGED net
  PROVE  net' \in Nets /\ Routed(net') /\ Adds(net, net', {})
BY DEF ProgressInvariant, StoreTyped, Adds

LEMMA SpendDoes ==
  ASSUME Store!ProgressAssumption, ProgressInvariant, NEW kind \in Mishaps, Store!Spend(kind)
  PROVE  /\ budget' \in [Mishaps -> Nat]
         /\ NeverReborn => budget'["reborn"] = 0 /\ kind # "reborn"
<1>1. /\ budget \in [Mishaps -> Nat] /\ budget[kind] > 0
      /\ budget' = [budget EXCEPT ![kind] = budget[kind] - 1]
      /\ "reborn" \in Mishaps
      /\ NeverReborn => budget["reborn"] = 0
  BY DEF ProgressInvariant, StoreTyped, Store!Spend, Mishaps
<1>2. budget' \in [Mishaps -> Nat]
  BY <1>1
<1>3. NeverReborn => kind # "reborn"
  BY <1>1
<1>4. kind # "reborn" => budget'["reborn"] = budget["reborn"]
  BY <1>1
<1> QED
  BY <1>1, <1>2, <1>3, <1>4

LEMMA FaultKinds ==
  ASSUME Store!ProgressAssumption
  PROVE  {"opRestart", "opDrop", "roleDrop", "storeFails", "brokerRestart", "late",
          "reborn"} \subseteq Mishaps
BY DEF Mishaps

\* One Play moves.
LEMMA PlayDoes ==
  ASSUME ProgressInvariant, NEW p \in Plays, NEW own \in PlayStates,
         plays' = [plays EXCEPT ![p] = own],
         own.phase = "unborn" => ~own.deleting /\ ~own.held /\ own.pos = 0,
         own.phase = "gone" => own.deleting,
         Store!Ended(p) => (own.phase = "ended" \/ own.deleting) /\ own.pos = plays[p].pos
  PROVE  PlaysOnward
<1>1. plays' \in [Plays -> PlayStates]
  BY DEF ProgressInvariant, StoreTyped
<1>2. \A q \in Plays : plays'[q] = IF q = p THEN own ELSE plays[q]
  BY DEF ProgressInvariant, StoreTyped
<1>3. ASSUME NEW q \in Plays
      PROVE  /\ ShapeOf(q)'
             /\ Store!Ended(q) => Store!Ended(q)' /\ plays'[q].pos = plays[q].pos
  <2>1. CASE q = p
    BY <1>2, <2>1 DEF ShapeOf, Store!Ended
  <2>2. CASE q # p
    BY <1>2, <2>2 DEF ProgressInvariant, ShapeOf, Store!Ended
  <2> QED
    BY <2>1, <2>2
<1> QED
  BY <1>1, <1>3 DEF PlaysOnward

-----------------------------------------------------------------------------
(* The cluster around the operator.                                        *)

\* A step that sends nothing, and leaves the stores and the desk alone.
LEMMA SaysNothing ==
  ASSUME ProgressInvariant, PlaysOnward, RestTyped,
         UNCHANGED <<rows, net, recorded, forgotten, asked>>
  PROVE  ProgressInvariant'
<1>1. RowsOnward /\ AskedOnward
  BY SameRows, SameAsked
<1>2. DeskIsTrue'
  BY <1>1, DeskLasts DEF ProgressInvariant
<1>3. Routed(net') /\ Adds(net, net', {})
  BY SameNet
<1> QED
  BY <1>1, <1>2, <1>3, StepDoes

\* A step of the pod: one message, and a Play that moves or not.
LEMMA Says ==
  ASSUME ProgressInvariant, PlaysOnward, RestTyped,
         UNCHANGED <<rows, recorded, forgotten, asked>>,
         NEW t \in Store!Topics, NEW v \in PayloadsOf(t), net' = Store!Put(net, t, v),
         t[1] \notin {"final", "recorded", "forgotten"}
  PROVE  ProgressInvariant'
<1>1. RowsOnward /\ AskedOnward
  BY SameRows, SameAsked
<1>2. DeskIsTrue'
  BY <1>1, DeskLasts DEF ProgressInvariant
<1>3. net \in Nets /\ Routed(net) /\ v \in Values
  BY PayloadKinds DEF ProgressInvariant, StoreTyped
<1>4. Routed(net') /\ Adds(net, net', {<<t, v>>})
  BY <1>3, PutDoes
<1>5. Claims(t, v)'
  BY DEF Claims
<1> QED
  BY <1>1, <1>2, <1>4, <1>5, StepDoes

LEMMA ClusterKeeps ==
  ASSUME Store!ProgressAssumption, ProgressInvariant, Store!Cluster
  PROVE  ProgressInvariant'
<1>1. StoreTyped /\ (\A p \in Plays : plays[p] \in PlayStates /\ ShapeOf(p)) /\ MaxPos \in Nat
  BY DEF ProgressInvariant, StoreTyped, Store!ProgressAssumption
<1>2. ASSUME NEW p \in Plays, NEW names \in SUBSET People, NEW byHand \in BOOLEAN,
             Store!CreatePlay(p, names, byHand)
      PROVE  ProgressInvariant'
  <2> DEFINE own == [phase |-> "running", deleting |-> FALSE, pos |-> 0,
                     held |-> ~byHand /\ Home[p] \in stores, owners |-> Store!Owners(names)]
  <2>1. (~byHand /\ Home[p] \in stores) \in BOOLEAN /\ Store!Owners(names) \in SUBSET People
        /\ 0 \in 0..MaxPos
    BY <1>1 DEF Store!Owners
  <2>2. own \in PlayStates /\ own.phase = "running"
    BY <2>1 DEF PlayStates
  <2>3. plays' = [plays EXCEPT ![p] = own] /\ ~Store!Ended(p)
    BY <1>1, <1>2 DEF Store!CreatePlay, ShapeOf, Store!Ended
  <2> HIDE DEF own
  <2>4. PlaysOnward
    BY <2>2, <2>3, PlayDoes
  <2>5. RestTyped /\ UNCHANGED <<rows, net, recorded, forgotten, asked>>
    BY <1>1, <1>2 DEF Store!CreatePlay, Store!operator, StoreTyped, RestTyped
  <2> QED
    BY <2>4, <2>5, SaysNothing
<1>3. ASSUME NEW p \in Plays, Store!PlayOn(p) PROVE ProgressInvariant'
  <2> DEFINE own == [plays[p] EXCEPT !.pos = @ + 1]
             v   == {plays[p].pos + 1}
  <2>1. plays[p].pos \in 0..MaxPos /\ plays[p].pos < MaxPos
        /\ plays[p].pos + 1 \in 1..MaxPos /\ plays[p].pos + 1 \in 0..MaxPos
    BY <1>1, <1>3 DEF Store!PlayOn, PlayStates
  <2>2. own \in PlayStates /\ own.phase = "running"
    BY <1>1, <1>3, <2>1 DEF Store!PlayOn, PlayStates
  <2>3. plays' = [plays EXCEPT ![p] = own] /\ ~Store!Ended(p)
    BY <1>1, <1>3 DEF Store!PlayOn, Store!Ended
  <2> HIDE DEF own
  <2>4. PlaysOnward
    BY <2>2, <2>3, PlayDoes
  <2>5. Store!Status(p) \in Store!Topics /\ Store!Status(p)[1] = "status"
    BY TopicsOfPlays DEF Store!Status
  <2>6. v \in PayloadsOf(Store!Status(p)) /\ v \in Values /\ net' = Store!Put(net, Store!Status(p), v)
    BY <1>3, <2>1, <2>5, PayloadKinds DEF Store!PlayOn
  <2> HIDE DEF v
  <2>7. net' \in Nets
    BY <2>5, <2>6, PutDoes DEF ProgressInvariant, StoreTyped
  <2>8. RestTyped /\ UNCHANGED <<rows, recorded, forgotten, asked>>
    BY <1>1, <1>3, <2>7 DEF Store!PlayOn, Store!operator, StoreTyped, RestTyped
  <2> QED
    BY <2>4, <2>5, <2>6, <2>8, Says
<1>4. ASSUME NEW p \in Plays, Store!LateReport(p) PROVE ProgressInvariant'
  <2>1. PICK pos \in {plays[p].pos, plays[p].pos - 1} \cap (1..MaxPos) :
            net' = Store!Put(net, Store!Status(p), {pos})
    BY <1>4 DEF Store!LateReport
  <2>2. Store!Status(p) \in Store!Topics /\ Store!Status(p)[1] = "status"
    BY TopicsOfPlays DEF Store!Status
  <2>3. {pos} \in PayloadsOf(Store!Status(p)) /\ {pos} \in Values
    BY <2>2, PayloadKinds
  <2>4. net' \in Nets
    BY <2>1, <2>2, <2>3, PutDoes DEF ProgressInvariant, StoreTyped
  <2>5. budget' \in [Mishaps -> Nat] /\ (NeverReborn => budget'["reborn"] = 0)
    BY <1>4, SpendDoes, FaultKinds DEF Store!LateReport
  <2>6. RestTyped /\ UNCHANGED <<plays, rows, recorded, forgotten, asked>>
    BY <1>1, <1>4, <2>4, <2>5 DEF Store!LateReport, Store!objects, Store!operator, StoreTyped, RestTyped
  <2> QED
    BY <2>1, <2>2, <2>3, <2>6, SamePlays, Says
<1>5. ASSUME NEW p \in Plays, Store!FinishPlay(p) PROVE ProgressInvariant'
  <2> DEFINE own == [plays[p] EXCEPT !.phase = "ended"]
  <2>1. own \in PlayStates /\ own.phase = "ended" /\ own.pos = plays[p].pos
    BY <1>1 DEF PlayStates
  <2>2. plays' = [plays EXCEPT ![p] = own]
    BY <1>1, <1>5 DEF Store!FinishPlay
  <2> HIDE DEF own
  <2>3. PlaysOnward
    BY <2>1, <2>2, PlayDoes
  <2>4. RestTyped /\ UNCHANGED <<rows, net, recorded, forgotten, asked>>
    BY <1>1, <1>5 DEF Store!FinishPlay, Store!operator, StoreTyped, RestTyped
  <2> QED
    BY <2>3, <2>4, SaysNothing
<1>6. ASSUME NEW p \in Plays, Store!DeletePlay(p) PROVE ProgressInvariant'
  <2> DEFINE own == Store!AsDeleted(plays[p])
  <2>1. /\ own \in PlayStates /\ own.deleting /\ own.pos = plays[p].pos
        /\ own.phase \in {plays[p].phase, "gone"}
    BY <1>1 DEF Store!AsDeleted, Store!Gone, PlayStates
  <2>2. plays' = [plays EXCEPT ![p] = own] /\ own.phase # "unborn"
    BY <1>1, <1>6, <2>1 DEF Store!DeletePlay, Store!Exists
  <2> HIDE DEF own
  <2>3. PlaysOnward
    BY <2>1, <2>2, PlayDoes
  <2>4. RestTyped /\ UNCHANGED <<rows, net, recorded, forgotten, asked>>
    BY <1>1, <1>6 DEF Store!DeletePlay, Store!operator, StoreTyped, RestTyped
  <2> QED
    BY <2>3, <2>4, SaysNothing
<1>7. ASSUME NEW a \in People, Store!DeletePerson(a) PROVE ProgressInvariant'
  <2>1. people' \in [People -> PeopleStates]
    BY <1>1, <1>7 DEF Store!DeletePerson, StoreTyped, PeopleStates
  <2>2. RestTyped /\ UNCHANGED <<plays, rows, net, recorded, forgotten, asked>>
    BY <1>1, <1>7, <2>1 DEF Store!DeletePerson, Store!operator, StoreTyped, RestTyped
  <2> QED
    BY <2>2, SamePlays, SaysNothing
<1>8. ASSUME NEW a \in People, Store!RebornPerson(a) PROVE ProgressInvariant'
  <2>1. budget' \in [Mishaps -> Nat] /\ ~NeverReborn
    BY <1>8, SpendDoes, FaultKinds DEF Store!RebornPerson
  <2>2. people' \in [People -> PeopleStates] /\ asked' \in [People -> SUBSET Namespaces]
    BY <1>1, <1>8 DEF Store!RebornPerson, StoreTyped, PeopleStates
  <2>3. RestTyped /\ UNCHANGED <<plays, rows, net, recorded, forgotten>>
    BY <1>1, <1>8, <2>1, <2>2 DEF Store!RebornPerson, Store!operator, StoreTyped, RestTyped
  <2>4. PlaysOnward /\ RowsOnward /\ AskedOnward
    BY <2>1, <2>2, <2>3, SamePlays, SameRows DEF AskedOnward
  <2>5. DeskIsTrue'
    BY <2>3, <2>4, DeskLasts DEF ProgressInvariant
  <2>6. Routed(net') /\ Adds(net, net', {})
    BY <2>3, SameNet
  <2> QED
    BY <2>3, <2>4, <2>5, <2>6, StepDoes
<1> QED
  BY <1>2, <1>3, <1>4, <1>5, <1>6, <1>7, <1>8 DEF Store!Cluster

-----------------------------------------------------------------------------
(* The operator.                                                           *)

\* A Play that is let go keeps its position.
LEMMA ReleasedPlay ==
  ASSUME NEW o \in PlayStates
  PROVE  LET own == IF o.deleting THEN Store!Gone(o) ELSE [o EXCEPT !.held = FALSE]
         IN  /\ own \in PlayStates /\ own.pos = o.pos /\ own.deleting = o.deleting
             /\ own.phase \in {o.phase, "gone"} /\ (own.phase = "gone" => o.deleting \/ own.phase = o.phase)
             /\ ~own.held
<1>1. CASE o.deleting
  <2>1. Store!Gone(o) \in PlayStates /\ Store!Gone(o).pos = o.pos /\ Store!Gone(o).deleting = o.deleting
        /\ Store!Gone(o).phase = "gone" /\ ~Store!Gone(o).held
    BY <1>1 DEF Store!Gone, PlayStates
  <2> QED
    BY <1>1, <2>1
<1>2. CASE ~o.deleting
  <2> DEFINE free == [o EXCEPT !.held = FALSE]
  <2>1. free \in PlayStates /\ free.pos = o.pos /\ free.deleting = o.deleting
        /\ free.phase = o.phase /\ ~free.held
    BY DEF PlayStates
  <2> HIDE DEF free
  <2> QED
    BY <1>2, <2>1 DEF free
<1> QED
  BY <1>1, <1>2

LEMMA ReleaseDoes ==
  ASSUME ProgressInvariant, NEW p \in Plays, Store!Exists(p), Store!Release(p)
  PROVE  PlaysOnward /\ clearing' \in Seq(Store!Topics)
<1> DEFINE own == IF plays[p].deleting THEN Store!Gone(plays[p]) ELSE [plays[p] EXCEPT !.held = FALSE]
<1>1. plays[p] \in PlayStates /\ ShapeOf(p)
  BY DEF ProgressInvariant, StoreTyped
<1>2. plays' = [plays EXCEPT ![p] = own]
  BY <1>1 DEF Store!Release, ProgressInvariant, StoreTyped
<1>3. /\ own \in PlayStates /\ own.pos = plays[p].pos /\ own.deleting = plays[p].deleting
      /\ own.phase \in {plays[p].phase, "gone"}
      /\ own.phase = "gone" => plays[p].deleting \/ own.phase = plays[p].phase
  BY <1>1, ReleasedPlay
<1> HIDE DEF own
<1>4. PlaysOnward
  <2>1. own.phase # "unborn" /\ (own.phase = "gone" => own.deleting)
    BY <1>3 DEF Store!Exists
  <2>2. Store!Ended(p) => own.phase = "ended" \/ own.deleting
    BY <1>3, <2>1 DEF Store!Ended
  <2> QED
    BY <1>2, <1>3, <2>1, <2>2, PlayDoes
<1>5. Store!Audience(p) \in Store!Topics /\ Store!Final(p) \in Store!Topics /\ Store!Recorded(p) \in Store!Topics
  BY TopicsOfPlays
<1> QED
  BY <1>4, <1>5 DEF Store!Release

LEMMA ReconcilePlayKeeps ==
  ASSUME Store!ProgressAssumption, ProgressInvariant, NEW p \in Plays, Store!ReconcilePlay(p)
  PROVE  ProgressInvariant'
<1>1. /\ StoreTyped /\ net \in Nets /\ Routed(net) /\ plays[p] \in PlayStates /\ Store!Exists(p)
      /\ ShapeOf(p) /\ UNCHANGED <<stores, people, rows, conn, recorded, forgotten, asked, budget>>
  BY DEF ProgressInvariant, StoreTyped, Store!ReconcilePlay
\* The Play.
<1>2. PlaysOnward /\ clearing' \in Seq(Store!Topics)
  <2>1. CASE plays[p].deleting /\ Store!EndIsRecorded(p)
    BY <1>1, <2>1, ReleaseDoes DEF Store!ReconcilePlay
  <2>2. CASE ~(plays[p].deleting /\ Store!EndIsRecorded(p))
    <3> DEFINE held == plays[p].held \/ ~plays[p].deleting
               own  == [plays[p] EXCEPT !.held = held]
    <3>1. plays' = [plays EXCEPT ![p] = own] /\ clearing' = clearing
      BY <1>1, <2>2 DEF Store!ReconcilePlay, StoreTyped
    <3>2. held \in BOOLEAN
      OBVIOUS
    <3> HIDE DEF held
    <3>3. /\ own \in PlayStates /\ own.pos = plays[p].pos /\ own.deleting = plays[p].deleting
          /\ own.phase = plays[p].phase
      BY <1>1, <3>2 DEF PlayStates
    <3> HIDE DEF own
    <3>4. own.phase # "unborn" /\ own.phase # "gone"
      BY <1>1, <3>3 DEF Store!Exists
    <3> QED
      BY <1>1, <3>1, <3>3, <3>4, PlayDoes DEF Store!Ended, StoreTyped
  <2> QED
    BY <2>1, <2>2
\* The messages.
<1> DEFINE told == Store!PublishMark(net, Store!Audience(p), {plays[p].owners})
           last == Store!PublishMark(told, Store!Final(p), {plays[p].pos})
           new  == {<<Store!Audience(p), {plays[p].owners}>>} \cup
                       (IF Store!Ended(p) THEN {<<Store!Final(p), {plays[p].pos}>>} ELSE {})
<1>3. net' = IF Store!Ended(p) THEN last ELSE told
  BY DEF Store!ReconcilePlay
<1>4. /\ Store!Audience(p) \in Store!Topics /\ Store!Audience(p)[1] = "audience"
      /\ Store!Final(p) \in Store!Topics /\ Store!Final(p)[1] = "final" /\ Store!Final(p)[2] = p
  BY TopicsOfPlays DEF Store!Audience, Store!Final
<1>5. /\ {plays[p].owners} \in PayloadsOf(Store!Audience(p))
      /\ {plays[p].pos} \in PayloadsOf(Store!Final(p))
  <2>1. plays[p].owners \in SUBSET People /\ plays[p].pos \in 0..MaxPos
    BY <1>1 DEF PlayStates
  <2>2. PayloadsOf(Store!Audience(p)) = {{}} \cup {{x} : x \in SUBSET People}
    BY <1>4, PayloadKinds
  <2>3. PayloadsOf(Store!Final(p)) = {{}} \cup {{x} : x \in 0..MaxPos}
    BY <1>4, PayloadKinds
  <2> QED
    BY <2>1, <2>2, <2>3
<1>6. {plays[p].owners} \in Values /\ {plays[p].pos} \in Values
  BY <1>4, <1>5, PayloadKinds
<1>7. told \in Nets /\ Routed(told) /\ Adds(net, told, {<<Store!Audience(p), {plays[p].owners}>>})
  BY <1>1, <1>4, <1>6, PublishMarkDoes
<1> HIDE DEF told
<1>8. /\ last \in Nets /\ Routed(last)
      /\ Adds(told, last, {<<Store!Final(p), {plays[p].pos}>>})
  BY <1>4, <1>6, <1>7, PublishMarkDoes
<1> HIDE DEF last
<1>9. net' \in Nets /\ Routed(net') /\ Adds(net, net', new)
  <2>1. CASE Store!Ended(p)
    BY <1>3, <1>7, <1>8, <2>1, AddsTwice
  <2>2. CASE ~Store!Ended(p)
    <3>1. {<<Store!Audience(p), {plays[p].owners}>>} \subseteq new
      OBVIOUS
    <3> HIDE DEF new
    <3> QED
      BY <1>3, <1>7, <2>2, <3>1, AddsMore
  <2> QED
    BY <2>1, <2>2
\* What they claim.
<1>10. ASSUME NEW t \in Store!Topics, NEW v \in Values, <<t, v>> \in new PROVE Claims(t, v)'
  <2>1. CASE t = Store!Audience(p) /\ v = {plays[p].owners}
    BY <1>4, <1>5, <2>1 DEF Claims
  <2>2. CASE t = Store!Final(p) /\ v = {plays[p].pos} /\ Store!Ended(p)
    <3>1. Store!Ended(p)' /\ plays'[p].pos = plays[p].pos
      BY <1>2, <2>2 DEF PlaysOnward
    <3> QED
      BY <1>4, <1>5, <2>2, <3>1 DEF Claims
  <2>3. \/ <<t, v>> = <<Store!Audience(p), {plays[p].owners}>>
        \/ Store!Ended(p) /\ <<t, v>> = <<Store!Final(p), {plays[p].pos}>>
    <3>1. CASE Store!Ended(p)
      BY <1>10, <3>1
    <3>2. CASE ~Store!Ended(p)
      BY <1>10, <3>2
    <3> QED
      BY <3>1, <3>2
  <2> QED
    BY <2>1, <2>2, <2>3
<1> HIDE DEF new
<1>11. RowsOnward /\ AskedOnward
  BY <1>1, SameRows, SameAsked
<1>12. DeskIsTrue'
  BY <1>1, <1>11, DeskLasts DEF ProgressInvariant
<1>13. RestTyped
  BY <1>1, <1>2, <1>9 DEF RestTyped, StoreTyped
<1> QED
  BY <1>2, <1>9, <1>10, <1>11, <1>12, <1>13, StepDoes

LEMMA ReleaseUnstoredKeeps ==
  ASSUME Store!ProgressAssumption, ProgressInvariant, NEW p \in Plays, Store!ReleaseUnstored(p)
  PROVE  ProgressInvariant'
<1>1. PlaysOnward /\ clearing' \in Seq(Store!Topics)
  BY ReleaseDoes DEF Store!ReleaseUnstored
<1>2. RestTyped
  BY <1>1 DEF Store!ReleaseUnstored, RestTyped, ProgressInvariant, StoreTyped
<1> QED
  BY <1>1, <1>2, SaysNothing DEF Store!ReleaseUnstored

LEMMA RetainRecordedKeeps ==
  ASSUME Store!ProgressAssumption, ProgressInvariant, Store!RetainRecorded
  PROVE  ProgressInvariant'
<1>1. PICK p \in Plays :
          /\ recorded' = [recorded EXCEPT ![p] = {}]
          /\ clearing' = <<Store!Audience(p), Store!Final(p), Store!Recorded(p)>>
  BY DEF Store!RetainRecorded
<1>2. /\ UNCHANGED <<stores, plays, people, rows, net, conn, forgotten, asked, budget>>
      /\ StoreTyped
  BY DEF Store!RetainRecorded, Store!objects, ProgressInvariant
<1>3. Store!Audience(p) \in Store!Topics /\ Store!Final(p) \in Store!Topics /\ Store!Recorded(p) \in Store!Topics
  BY TopicsOfPlays
<1>4. recorded' \in [Plays -> SUBSET {"open", "ended"}] /\ clearing' \in Seq(Store!Topics)
      /\ \A q \in Plays : recorded'[q] \in {recorded[q], {}}
  BY <1>1, <1>2, <1>3 DEF StoreTyped
<1>5. PlaysOnward /\ RowsOnward /\ AskedOnward /\ RestTyped
  BY <1>2, <1>4, SamePlays, SameRows, SameAsked DEF RestTyped, StoreTyped
<1>6. DeskIsTrue'
  BY <1>2, <1>4, <1>5, DeskLasts DEF ProgressInvariant
<1>7. Routed(net') /\ Adds(net, net', {})
  BY <1>2, SameNet
<1> QED
  BY <1>5, <1>6, <1>7, StepDoes

LEMMA PersonStepKeeps ==
  ASSUME Store!ProgressAssumption, ProgressInvariant, NEW a \in People, Store!PersonStep(a)
  PROVE  ProgressInvariant'
<1>1. StoreTyped /\ net \in Nets /\ Routed(net)
  BY DEF ProgressInvariant, StoreTyped
<1>2. CASE Store!HoldPerson(a)
  <2>1. people' \in [People -> PeopleStates]
    BY <1>1, <1>2 DEF Store!HoldPerson, StoreTyped, PeopleStates
  <2>2. RestTyped /\ UNCHANGED <<plays, rows, net, recorded, forgotten, asked>>
    BY <1>1, <1>2, <2>1 DEF Store!HoldPerson, Store!operator, RestTyped, StoreTyped
  <2> QED
    BY <2>2, SamePlays, SaysNothing
<1>3. CASE Store!ForgetPerson(a)
  <2>1. UNCHANGED <<stores, plays, rows, conn, recorded, forgotten, asked, budget>>
    BY <1>3 DEF Store!ForgetPerson
  <2>2. Store!Forget(a) \in Store!Topics /\ Store!Forget(a)[1] = "forget"
    BY ForgetIsTopic DEF Store!Forget
  <2>3. {"ask"} \in PayloadsOf(Store!Forget(a)) /\ {"ask"} \in Values
    BY <2>2, PayloadKinds
  <2>4. net' \in Nets /\ Routed(net') /\ Adds(net, net', {<<Store!Forget(a), {"ask"}>>})
    BY <1>1, <1>3, <2>2, <2>3, PublishMarkDoes DEF Store!ForgetPerson
  <2>5. people' \in [People -> PeopleStates] /\ clearing' \in Seq(Store!Topics)
    <3>1. CASE Store!EveryStoreForgot(a)
      <4> DEFINE named == {Store!Forgotten(a, n) : n \in forgotten[a]}
                 f == [n \in forgotten[a] |-> Store!Forgotten(a, n)]
      <4>1. f \in Surjection(forgotten[a], named)
        BY DEF Surjection
      <4>2. forgotten[a] \subseteq Namespaces
        BY <1>1 DEF StoreTyped
      <4>3. IsFiniteSet(forgotten[a])
        BY <4>2, FiniteSides, FS_Subset
      <4>4. IsFiniteSet(named) /\ named \subseteq Store!Topics
        BY <4>1, <4>2, <4>3, FS_Surjection, TopicsOfPeople
      <4>5. Store!SetToSeq(named) \in Seq(Store!Topics)
        <5> HIDE DEF named
        <5> QED
          BY <4>4, SetAsSequence
      <4>6. clearing' = <<Store!Forget(a)>> \o Store!SetToSeq(named)
            /\ people' = [people EXCEPT ![a] = [life |-> "gone", held |-> FALSE]]
        BY <1>3, <3>1 DEF Store!ForgetPerson
      <4> HIDE DEF named, f
      <4>7. clearing' \in Seq(Store!Topics)
        BY <2>2, <4>5, <4>6
      <4>8. people' \in [People -> PeopleStates]
        BY <1>1, <4>6 DEF StoreTyped, PeopleStates
      <4> QED
        BY <4>7, <4>8
    <3>2. CASE ~Store!EveryStoreForgot(a)
      BY <1>1, <1>3, <3>2 DEF Store!ForgetPerson, StoreTyped
    <3> QED
      BY <3>1, <3>2
  <2>6. RestTyped
    BY <1>1, <2>1, <2>4, <2>5 DEF RestTyped, StoreTyped
  <2>7. PlaysOnward /\ RowsOnward /\ AskedOnward
    BY <2>1, SamePlays, SameRows, SameAsked
  <2>8. DeskIsTrue'
    BY <2>1, <2>7, DeskLasts DEF ProgressInvariant
  <2>9. Claims(Store!Forget(a), {"ask"})'
    BY <2>2, <2>3 DEF Claims
  <2> QED
    BY <2>4, <2>6, <2>7, <2>8, <2>9, StepDoes
<1> QED
  BY <1>2, <1>3 DEF Store!PersonStep

LEMMA ClearTopicKeeps ==
  ASSUME Store!ProgressAssumption, ProgressInvariant, Store!ClearTopic
  PROVE  ProgressInvariant'
<1>1. /\ StoreTyped /\ net \in Nets /\ Routed(net) /\ clearing \in Seq(Store!Topics) /\ clearing # <<>>
      /\ UNCHANGED <<stores, plays, people, rows, conn, asked, budget>>
  BY DEF ProgressInvariant, StoreTyped, Store!ClearTopic, Store!objects
<1>2. Tail(clearing) \in Seq(Store!Topics) /\ clearing' = Tail(clearing)
  BY <1>1 DEF Store!ClearTopic
<1>t. PICK t \in Store!Topics : t = Head(clearing)
  BY <1>1
<1>3. net' = Store!Publish(Store!Operator, net, t, {})
  BY <1>t DEF Store!ClearTopic
<1>4. \/ UNCHANGED <<recorded, forgotten>>
      \/ recorded' = [recorded EXCEPT ![t[2]] = {}] /\ UNCHANGED forgotten
      \/ forgotten' = [forgotten EXCEPT ![t[2]] = {}] /\ UNCHANGED recorded
  BY <1>t DEF Store!ClearTopic
<1>5. {} \in PayloadsOf(t) /\ {} \in Values
  BY PayloadKinds
<1>6. net' \in Nets /\ Routed(net') /\ Adds(net, net', {<<t, {}>>})
  BY <1>1, <1>3, <1>5, PublishDoes
<1>7. /\ recorded' \in [Plays -> SUBSET {"open", "ended"}]
      /\ forgotten' \in [People -> SUBSET Namespaces]
      /\ \A q \in Plays : recorded'[q] \in {recorded[q], {}}
      /\ \A b \in People : forgotten'[b] \subseteq forgotten[b]
  BY <1>1, <1>4 DEF StoreTyped
<1>8. PlaysOnward /\ RowsOnward /\ AskedOnward /\ RestTyped
  BY <1>1, <1>2, <1>6, <1>7, SamePlays, SameRows, SameAsked DEF RestTyped, StoreTyped
<1>9. DeskIsTrue'
  BY <1>7, <1>8, DeskLasts DEF ProgressInvariant
<1>10. Claims(t, {})'
  BY <1>5 DEF Claims
<1> QED
  BY <1>6, <1>8, <1>9, <1>10, StepDoes

\* What the operator reads was true when it was sent, and still is.
LEMMA FoldMarkKeeps ==
  ASSUME Store!ProgressAssumption, ProgressInvariant, Store!FoldMark
  PROVE  ProgressInvariant'
<1> DEFINE message == Head(net.in[Store!Operator])
           t == message[1]
           v == message[2]
<1>1. /\ StoreTyped /\ net \in Nets /\ Routed(net) /\ net.in[Store!Operator] # <<>>
      /\ Store!Operator \in Store!Clients
      /\ UNCHANGED <<stores, plays, people, rows, conn, published, clearing, asked, budget>>
  BY DEF ProgressInvariant, StoreTyped, Store!FoldMark, Store!objects, Store!Clients
<1>2. /\ net' = [net EXCEPT !.in[Store!Operator] = Tail(@)]
      /\ IF t[1] = "recorded"
         THEN recorded' = [recorded EXCEPT ![t[2]] = v] /\ UNCHANGED forgotten
         ELSE /\ forgotten' = [forgotten EXCEPT ![t[2]] =
                      IF v = {} THEN @ \ {t[3]} ELSE @ \cup {t[3]}]
              /\ UNCHANGED recorded
  BY DEF Store!FoldMark
<1>3. /\ message \in Store!Topics \X Values /\ Sent(net, t, v) /\ Store!Reads(Store!Operator, t)
      /\ net' \in Nets /\ Routed(net') /\ Adds(net, net', {})
  BY <1>1, <1>2, HeadOfInbox
<1>4. t \in Store!Topics /\ v \in Values /\ t[1] \in {"recorded", "forgotten"}
  BY <1>3 DEF Store!Reads
<1>5. Claims(t, v)
  BY <1>3, <1>4 DEF ProgressInvariant, SentIsTrue
<1> HIDE DEF message, t, v
<1>6. PlaysOnward /\ RowsOnward /\ AskedOnward
  BY <1>1, SamePlays, SameRows, SameAsked
<1>7. CASE t[1] = "recorded"
  <2>1. t[2] \in Plays /\ v \in {{}, {"open"}, {"ended"}} /\ (v = {"ended"} => rows[t[2]].ended)
    BY <1>4, <1>5, <1>7, TopicKinds, PayloadKinds DEF Claims
  <2>2. recorded' = [recorded EXCEPT ![t[2]] = v] /\ UNCHANGED forgotten
    BY <1>2, <1>7
  <2>3. recorded' \in [Plays -> SUBSET {"open", "ended"}]
    BY <1>1, <2>1, <2>2 DEF StoreTyped
  <2>4. RestTyped
    BY <1>1, <1>3, <2>2, <2>3 DEF RestTyped, StoreTyped
  <2>5. DeskIsTrue'
    BY <1>1, <2>1, <2>2 DEF ProgressInvariant, DeskIsTrue, StoreTyped
  <2> QED
    BY <1>3, <1>6, <2>4, <2>5, StepDoes
<1>8. CASE t[1] = "forgotten"
  <2>1. /\ t[2] \in People /\ t[3] \in Namespaces
        /\ NeverReborn /\ v # {} => t[3] \in asked[t[2]]
    BY <1>4, <1>5, <1>8, TopicKinds DEF Claims
  <2>2. /\ UNCHANGED recorded
        /\ forgotten' = [forgotten EXCEPT ![t[2]] =
               IF v = {} THEN @ \ {t[3]} ELSE @ \cup {t[3]}]
    BY <1>2, <1>8
  <2>3. forgotten' \in [People -> SUBSET Namespaces]
    BY <1>1, <2>1, <2>2 DEF StoreTyped
  <2>4. RestTyped
    BY <1>1, <1>3, <2>2, <2>3 DEF RestTyped, StoreTyped
  <2>5. ASSUME NeverReborn, NEW a \in People PROVE forgotten'[a] \subseteq asked'[a]
    <3>1. forgotten[a] \subseteq asked[a] /\ asked' = asked
      BY <1>1, <2>5 DEF ProgressInvariant, DeskIsTrue
    <3>2. CASE a = t[2]
      <4>1. CASE v = {}
        BY <1>1, <2>1, <2>2, <3>1, <3>2, <4>1 DEF StoreTyped
      <4>2. CASE v # {}
        BY <1>1, <2>1, <2>2, <2>5, <3>1, <3>2, <4>2 DEF StoreTyped
      <4> QED
        BY <4>1, <4>2
    <3>3. CASE a # t[2]
      BY <1>1, <2>2, <3>1, <3>3 DEF StoreTyped
    <3> QED
      BY <3>2, <3>3
  <2>6. DeskIsTrue'
    BY <1>1, <2>2, <2>5 DEF ProgressInvariant, DeskIsTrue
  <2> QED
    BY <1>3, <1>6, <2>4, <2>6, StepDoes
<1> QED
  BY <1>4, <1>7, <1>8

-----------------------------------------------------------------------------
(* The progress role.                                                      *)

\* One message's statements: types kept, no row reopened, and none ended but at the
\* position of its Play's final.
LEMMA WrittenDoes ==
  ASSUME Store!ProgressAssumption, ProgressInvariant, NEW n \in Namespaces,
         NEW t \in Store!Topics, NEW v \in Values, Claims(t, v), Store!Reads(n, t)
  PROVE  LET W == Store!Written(n, t, v)
         IN  /\ W \in [Plays -> RowStates]
             /\ \A p \in Plays :
                    /\ rows[p].ended => W[p].ended /\ W[p].pos = rows[p].pos
                    /\ W[p].ended => rows[p].ended \/ (Store!Ended(p) /\ W[p].pos = plays[p].pos)
             /\ t[1] = "final" /\ v # {} => W[t[2]].ended
<1> DEFINE W == Store!Written(n, t, v)
           good(w) == /\ w \in [Plays -> RowStates]
                      /\ \A p \in Plays :
                             /\ rows[p].ended => w[p].ended /\ w[p].pos = rows[p].pos
                             /\ w[p].ended => rows[p].ended
                                    \/ (Store!Ended(p) /\ w[p].pos = plays[p].pos)
<1>1. rows \in [Plays -> RowStates] /\ \A p \in Plays : EndIsTrue(p)
  BY DEF ProgressInvariant, StoreTyped
<1>2. t[1] \in {"status", "audience", "final", "forget"}
  BY DEF Store!Reads, Store!ProgressAssumption, Store!Operator
\* One row changes.
<1>3. ASSUME NEW p \in Plays, NEW own \in RowStates,
             rows[p].ended => own.ended /\ own.pos = rows[p].pos,
             own.ended => rows[p].ended \/ (Store!Ended(p) /\ own.pos = plays[p].pos)
      PROVE  good([rows EXCEPT ![p] = own]) /\ [rows EXCEPT ![p] = own][p] = own
  BY <1>1, <1>3
<1>4. CASE v = {}
  <2>1. W = rows
    BY <1>4 DEF Store!Written
  <2> HIDE DEF W
  <2> QED
    BY <1>1, <1>4, <2>1 DEF W
<1>5. CASE v # {} /\ t[1] = "forget"
  <2> DEFINE entry(p) == IF Home[p] = n THEN [rows[p] EXCEPT !.who = @ \ {t[2]}] ELSE rows[p]
  <2>1. W = [p \in Plays |-> entry(p)]
    BY <1>5 DEF Store!Written, Store!ForgetIn
  <2>2. ASSUME NEW p \in Plays
        PROVE  entry(p) \in RowStates /\ entry(p).ended = rows[p].ended /\ entry(p).pos = rows[p].pos
    <3>1. rows[p] \in RowStates
      BY <1>1
    <3> DEFINE less == [rows[p] EXCEPT !.who = @ \ {t[2]}]
    <3>2. less \in RowStates /\ less.ended = rows[p].ended /\ less.pos = rows[p].pos
      BY <3>1 DEF RowStates
    <3>3. entry(p) = IF Home[p] = n THEN less ELSE rows[p]
      OBVIOUS
    <3> HIDE DEF less, entry
    <3> QED
      BY <3>1, <3>2, <3>3
  <2> HIDE DEF entry, W
  <2>3. \A p \in Plays : W[p] = entry(p)
    BY <2>1
  <2>4. W \in [Plays -> RowStates]
    BY <2>1, <2>2
  <2> QED
    BY <1>5, <2>2, <2>3, <2>4 DEF W
<1>6. CASE v # {} /\ t[1] = "status"
  <2>1. t[2] \in Plays /\ \E pos \in 1..MaxPos : v = {pos}
    BY <1>6, TopicKinds, PayloadKinds DEF Claims
  <2>2. PICK pos \in 1..MaxPos : v = {pos}
    BY <2>1
  <2>3. (CHOOSE x \in v : TRUE) = pos
    BY <2>2
  <2> DEFINE own == Store!RecordPosition(rows[t[2]], pos)
  <2>4. rows[t[2]] \in RowStates /\ pos \in 0..MaxPos
    BY <1>1, <2>1
  <2>5. /\ own \in RowStates /\ own.ended = rows[t[2]].ended
        /\ own.ended => own.pos = rows[t[2]].pos
    <3>1. CASE rows[t[2]].ended
      BY <2>4, <3>1 DEF Store!RecordPosition
    <3>2. CASE ~rows[t[2]].ended
      <4> DEFINE moved == [rows[t[2]] EXCEPT !.stands = TRUE, !.pos = pos]
      <4>1. moved \in RowStates /\ moved.ended = rows[t[2]].ended
        BY <2>4 DEF RowStates
      <4>2. own = moved
        BY <3>2 DEF Store!RecordPosition
      <4> HIDE DEF moved, own
      <4> QED
        BY <3>2, <4>1, <4>2
    <3> QED
      BY <3>1, <3>2
  <2>6. W = [rows EXCEPT ![t[2]] = own]
    BY <1>1, <1>6, <2>1, <2>3 DEF Store!Written
  <2> HIDE DEF own, W
  <2>7. rows[t[2]].ended => own.ended /\ own.pos = rows[t[2]].pos
    BY <2>5
  <2>8. good([rows EXCEPT ![t[2]] = own])
    BY <1>3, <2>1, <2>5, <2>7
  <2>9. good(W)
    BY <2>6, <2>8
  <2> QED
    BY <1>6, <2>9 DEF W
<1>7. CASE v # {} /\ t[1] = "audience"
  <2>1. t[2] \in Plays /\ \E who \in SUBSET People : v = {who}
    BY <1>7, TopicKinds, PayloadKinds DEF Claims
  <2>2. PICK who \in SUBSET People : v = {who}
    BY <2>1
  <2>3. UNION v = who
    BY <2>2
  <2> DEFINE own == Store!RecordAudience(rows[t[2]], who)
  <2>4. rows[t[2]] \in RowStates
    BY <1>1, <2>1
  <2>5. /\ own \in RowStates /\ own.ended = rows[t[2]].ended
        /\ own.pos = rows[t[2]].pos
    BY <2>4 DEF Store!RecordAudience, RowStates
  <2>6. W = [rows EXCEPT ![t[2]] = own]
    BY <1>1, <1>7, <2>1, <2>3 DEF Store!Written
  <2> HIDE DEF own, W
  <2>7. rows[t[2]].ended => own.ended /\ own.pos = rows[t[2]].pos
    BY <2>5
  <2>8. good([rows EXCEPT ![t[2]] = own])
    BY <1>3, <2>1, <2>5, <2>7
  <2>9. good(W)
    BY <2>6, <2>8
  <2> QED
    BY <1>7, <2>9 DEF W
<1>8. CASE v # {} /\ t[1] = "final"
  <2>1. t[2] \in Plays /\ v = {plays[t[2]].pos} /\ Store!Ended(t[2])
    BY <1>8, TopicKinds DEF Claims
  <2>2. (CHOOSE x \in v : TRUE) = plays[t[2]].pos
    BY <2>1
  <2> DEFINE own == Store!RecordFinal(rows[t[2]], plays[t[2]].pos)
  <2>3. rows[t[2]] \in RowStates /\ plays[t[2]].pos \in 0..MaxPos
    BY <1>1, <2>1 DEF ProgressInvariant, StoreTyped, PlayStates
  <2>4. own \in RowStates /\ own.ended /\ own.pos = plays[t[2]].pos
    BY <2>3 DEF Store!RecordFinal, RowStates
  <2>5. W = [rows EXCEPT ![t[2]] = own]
    BY <1>1, <1>8, <2>1, <2>2 DEF Store!Written
  <2>6. rows[t[2]].ended => own.pos = rows[t[2]].pos
    BY <1>1, <2>1, <2>4 DEF EndIsTrue
  <2> HIDE DEF own, W
  <2>7. good(W) /\ W[t[2]] = own
    BY <1>3, <2>1, <2>4, <2>5, <2>6
  <2> QED
    BY <2>4, <2>7 DEF W
<1> QED
  BY <1>2, <1>4, <1>5, <1>6, <1>7, <1>8

LEMMA HandleMessageKeeps ==
  ASSUME Store!ProgressAssumption, ProgressInvariant, NEW n \in Namespaces, Store!HandleMessage(n)
  PROVE  ProgressInvariant'
<1>1. /\ StoreTyped /\ net \in Nets /\ Routed(net) /\ net.in[n] # <<>> /\ n \in Store!Clients
      /\ UNCHANGED <<stores, plays, people, conn, published, recorded, forgotten, clearing,
                     budget>>
  BY DEF ProgressInvariant, StoreTyped, Store!HandleMessage, Store!objects, Store!operator, Store!Clients
<1> DEFINE left == [net EXCEPT !.in[n] = Tail(@)]
<1>2. /\ Head(net.in[n]) \in Store!Topics \X Values
      /\ Sent(net, Head(net.in[n])[1], Head(net.in[n])[2]) /\ Store!Reads(n, Head(net.in[n])[1])
      /\ left \in Nets /\ Routed(left) /\ Adds(net, left, {})
  BY <1>1, HeadOfInbox
<1>3. PICK t \in Store!Topics, v \in Values : t = Head(net.in[n])[1] /\ v = Head(net.in[n])[2]
  BY <1>2
<1>4. /\ rows' = Store!Written(n, t, v)
      /\ net' = Store!Answered(n, left, t, v)
      /\ asked' = IF t[1] = "forget" /\ v # {}
                  THEN [asked EXCEPT ![t[2]] = @ \cup {n}] ELSE asked
  BY <1>3 DEF Store!HandleMessage
<1> HIDE DEF left
<1>5. Store!Reads(n, t) /\ Claims(t, v)
  BY <1>2, <1>3 DEF ProgressInvariant, SentIsTrue
<1>6. t[1] \in {"status", "audience", "final", "forget"}
  BY <1>5 DEF Store!Reads, Store!ProgressAssumption, Store!Operator
<1>7. RowsOnward /\ (t[1] = "final" /\ v # {} => rows'[t[2]].ended)
  BY <1>4, <1>5, WrittenDoes DEF RowsOnward
<1>8. PlaysOnward
  BY <1>1, SamePlays
<1>9. /\ AskedOnward
      /\ t[1] = "forget" /\ v # {} => n \in asked'[t[2]]
  <2>1. t[1] = "forget" => t[2] \in People
    BY TopicKinds
  <2> QED
    BY <1>1, <1>4, <2>1 DEF AskedOnward, StoreTyped
<1>10. DeskIsTrue'
  BY <1>1, <1>7, <1>9, DeskLasts DEF ProgressInvariant
\* The answer is sent after the write, and claims no more than it wrote.
<1>11. \/ net' = left
       \/ \E u \in Store!Topics : \E w \in PayloadsOf(u) : net' = Store!Put(left, u, w) /\ Claims(u, w)'
  <2>1. CASE t[1] = "forget"
    <3>1. t[2] \in People /\ v \in {{}, {"ask"}}
      BY <1>5, <2>1, TopicKinds, PayloadKinds DEF Claims
    <3> DEFINE u == Store!Forgotten(t[2], n)
    <3>2. u \in Store!Topics /\ u[1] = "forgotten" /\ u[2] = t[2] /\ u[3] = n
      BY <3>1, TopicsOfPeople DEF Store!Forgotten
    <3>3. net' = Store!Put(left, u, v)
      BY <1>4, <2>1 DEF Store!Answered
    <3> HIDE DEF u
    <3>4. v \in PayloadsOf(u)
      BY <3>1, <3>2, PayloadKinds
    <3>5. Claims(u, v)'
      BY <1>9, <2>1, <3>2, <3>4 DEF Claims
    <3> QED
      BY <3>2, <3>3, <3>4, <3>5
  <2>2. CASE t[1] \in {"status", "final"} /\ v # {}
    <3>1. t[2] \in Plays
      BY <2>2, TopicKinds
    <3> DEFINE u == Store!Recorded(t[2])
    <3>2. u \in Store!Topics /\ u[1] = "recorded" /\ u[2] = t[2]
      BY <3>1, TopicsOfPlays DEF Store!Recorded
    <3>3. \/ t[1] = "status" /\ net' \in {left, Store!Put(left, u, {"open"})}
          \/ t[1] = "final" /\ net' = Store!Put(left, u, {"ended"})
      <4>1. CASE t[1] = "status" /\ ~rows[t[2]].ended
        BY <1>4, <2>2, <4>1 DEF Store!Answered
      <4>2. CASE t[1] = "status" /\ rows[t[2]].ended
        BY <1>4, <2>2, <4>2 DEF Store!Answered
      <4>3. CASE t[1] = "final"
        BY <1>4, <2>2, <4>3 DEF Store!Answered
      <4> QED
        BY <2>2, <4>1, <4>2, <4>3
    <3> HIDE DEF u
    <3>4. {"open"} \in PayloadsOf(u) /\ {"ended"} \in PayloadsOf(u)
      BY <3>2, PayloadKinds
    <3>5. "open" # "ended" /\ {"open"} # {"ended"}
      OBVIOUS
    <3>6. Claims(u, {"open"})'
      BY <3>2, <3>4, <3>5 DEF Claims
    <3>7. t[1] = "final" => Claims(u, {"ended"})'
      BY <1>7, <2>2, <3>2, <3>4 DEF Claims
    <3> QED
      BY <3>2, <3>3, <3>4, <3>6, <3>7
  <2>3. CASE t[1] = "audience" \/ (t[1] \in {"status", "final"} /\ v = {})
    BY <1>4, <2>3 DEF Store!Answered
  <2> QED
    BY <1>6, <2>1, <2>2, <2>3
<1>12. CASE net' = left
  <2>1. RestTyped
    BY <1>1, <1>2, <1>12 DEF RestTyped, StoreTyped
  <2> QED
    BY <1>2, <1>7, <1>8, <1>9, <1>10, <1>12, <2>1, StepDoes
<1>13. ASSUME NEW u \in Store!Topics, NEW w \in PayloadsOf(u), net' = Store!Put(left, u, w), Claims(u, w)'
       PROVE  ProgressInvariant'
  <2>1. w \in Values
    BY PayloadKinds
  <2>2. net' \in Nets /\ Routed(net') /\ Adds(left, net', {<<u, w>>})
    BY <1>2, <1>13, <2>1, PutDoes
  <2>3. Adds(net, net', {} \cup {<<u, w>>})
    BY <1>2, <2>2, AddsTwice
  <2>4. RestTyped
    BY <1>1, <2>2 DEF RestTyped, StoreTyped
  <2> QED
    BY <1>7, <1>8, <1>9, <1>10, <1>13, <2>2, <2>3, <2>4, StepDoes
<1> QED
  BY <1>11, <1>12, <1>13

\* A write that was refused, or that landed and was not answered, claims nothing.
LEMMA StoreRefusesKeeps ==
  ASSUME Store!ProgressAssumption, ProgressInvariant, NEW n \in Namespaces, Store!StoreRefuses(n)
  PROVE  ProgressInvariant'
<1>1. /\ StoreTyped /\ net \in Nets /\ Routed(net) /\ net.in[n] # <<>> /\ n \in Store!Clients
      /\ UNCHANGED <<stores, plays, people, conn, published, recorded, forgotten, clearing,
                     asked>>
      /\ net' = [net EXCEPT !.in[n] = Tail(@)]
  BY DEF ProgressInvariant, StoreTyped, Store!StoreRefuses, Store!objects, Store!operator, Store!Clients
<1>2. /\ Head(net.in[n]) \in Store!Topics \X Values
      /\ Sent(net, Head(net.in[n])[1], Head(net.in[n])[2]) /\ Store!Reads(n, Head(net.in[n])[1])
      /\ net' \in Nets /\ Routed(net') /\ Adds(net, net', {})
  BY <1>1, HeadOfInbox
<1>3. PICK t \in Store!Topics, v \in Values : t = Head(net.in[n])[1] /\ v = Head(net.in[n])[2]
  BY <1>2
<1>4. Store!Reads(n, t) /\ Claims(t, v)
  BY <1>2, <1>3 DEF ProgressInvariant, SentIsTrue
<1>5. RowsOnward
  <2>1. rows' = rows \/ rows' = Store!Written(n, t, v)
    BY <1>3 DEF Store!StoreRefuses
  <2> QED
    BY <1>4, <2>1, SameRows, WrittenDoes DEF RowsOnward
<1>6. budget' \in [Mishaps -> Nat] /\ (NeverReborn => budget'["reborn"] = 0)
  BY SpendDoes, FaultKinds DEF Store!StoreRefuses
<1>7. PlaysOnward /\ AskedOnward /\ RestTyped
  BY <1>1, <1>2, <1>6, SamePlays, SameAsked DEF RestTyped, StoreTyped
<1>8. DeskIsTrue'
  BY <1>1, <1>5, <1>7, DeskLasts DEF ProgressInvariant
<1> QED
  BY <1>2, <1>5, <1>7, <1>8, StepDoes

-----------------------------------------------------------------------------
(* The sessions.                                                           *)

\* A step that leaves all but the sessions and what the operator holds in memory.
LEMMA SessionKeeps ==
  ASSUME Store!ProgressAssumption, ProgressInvariant,
         UNCHANGED <<stores, plays, people, rows, asked>>,
         conn' \in [Store!Clients -> BOOLEAN],
         budget' = budget \/ \E kind \in {"opRestart", "opDrop", "roleDrop", "brokerRestart"} :
                                 Store!Spend(kind),
         \/ UNCHANGED <<recorded, forgotten, clearing>>
         \/ /\ recorded' = [p \in Plays |-> {}] /\ forgotten' = [a \in People |-> {}]
            /\ clearing' = <<>>,
         net' \in Nets, Routed(net'), NEW new, Adds(net, net', new),
         \A t \in Store!Topics, v \in Values : <<t, v>> \in new => v = {}
  PROVE  ProgressInvariant'
<1>1. StoreTyped
  BY DEF ProgressInvariant
<1>2. /\ recorded' \in [Plays -> SUBSET {"open", "ended"}]
      /\ forgotten' \in [People -> SUBSET Namespaces]
      /\ clearing' \in Seq(Store!Topics)
      /\ \A p \in Plays : recorded'[p] \in {recorded[p], {}}
      /\ \A a \in People : forgotten'[a] \subseteq forgotten[a]
  <2>1. CASE UNCHANGED <<recorded, forgotten, clearing>>
    BY <1>1, <2>1 DEF StoreTyped
  <2>2. CASE /\ recorded' = [p \in Plays |-> {}] /\ forgotten' = [a \in People |-> {}]
             /\ clearing' = <<>>
    <3>1. recorded' \in [Plays -> SUBSET {"open", "ended"}] /\ \A p \in Plays : recorded'[p] = {}
      BY <2>2
    <3>2. forgotten' \in [People -> SUBSET Namespaces] /\ \A a \in People : forgotten'[a] = {}
      BY <2>2
    <3>3. clearing' \in Seq(Store!Topics)
      BY <2>2
    <3> QED
      BY <3>1, <3>2, <3>3
  <2> QED
    BY <2>1, <2>2
<1>3. budget' \in [Mishaps -> Nat] /\ (NeverReborn => budget'["reborn"] = 0)
  BY <1>1, SpendDoes, FaultKinds DEF StoreTyped
<1>4. PlaysOnward /\ RowsOnward /\ AskedOnward
  BY SamePlays, SameRows, SameAsked
<1>5. RestTyped
  BY <1>1, <1>2, <1>3 DEF RestTyped, StoreTyped
<1>6. DeskIsTrue'
  BY <1>2, <1>4, DeskLasts DEF ProgressInvariant
<1>7. ASSUME NEW t \in Store!Topics, NEW v \in Values, <<t, v>> \in new PROVE Claims(t, v)'
  <2>1. v = {} /\ {} \in PayloadsOf(t)
    BY <1>7, PayloadKinds
  <2>2. {} # {"ended"}
    OBVIOUS
  <2> QED
    BY <2>1, <2>2 DEF Claims
<1> QED
  BY <1>4, <1>5, <1>6, <1>7, StepDoes

LEMMA DropsKeep ==
  ASSUME Store!ProgressAssumption, ProgressInvariant, NEW c \in Store!Clients, conn' = [conn EXCEPT ![c] = FALSE],
         Store!Lose(c), Store!Spend("roleDrop") \/ Store!Spend("opDrop"),
         UNCHANGED <<Store!objects, rows, Store!operator, asked>>
  PROVE  ProgressInvariant'
<1>1. net' \in Nets /\ Routed(net') /\ Adds(net, net', {})
  BY LoseDoes DEF ProgressInvariant, StoreTyped
<1>2. conn' \in [Store!Clients -> BOOLEAN]
  BY DEF ProgressInvariant, StoreTyped
<1> QED
  BY <1>1, <1>2, SessionKeeps DEF Store!objects, Store!operator

LEMMA OperatorRestartsKeeps ==
  ASSUME Store!ProgressAssumption, ProgressInvariant, Store!OperatorRestarts
  PROVE  ProgressInvariant'
<1>1. Store!Operator \in Store!Clients /\ net \in Nets /\ Routed(net) /\ conn \in [Store!Clients -> BOOLEAN]
  BY DEF Store!Clients, ProgressInvariant, StoreTyped
<1>2. net' \in Nets /\ Routed(net') /\ Adds(net, net', {})
  BY <1>1, RetainedDoes DEF Store!OperatorRestarts
<1>3. conn' \in [Store!Clients -> BOOLEAN]
  BY <1>1 DEF Store!OperatorRestarts
<1> QED
  BY <1>2, <1>3, SessionKeeps DEF Store!OperatorRestarts, Store!objects

LEMMA ConnectKeeps ==
  ASSUME Store!ProgressAssumption, ProgressInvariant, NEW c \in Store!Clients, Store!Connect(c)
  PROVE  ProgressInvariant'
<1>1. net \in Nets /\ Routed(net) /\ conn \in [Store!Clients -> BOOLEAN]
  BY DEF ProgressInvariant, StoreTyped
<1>2. net' \in Nets /\ Routed(net') /\ Adds(net, net', {})
  BY <1>1, RetainedDoes DEF Store!Connect
<1>3. conn' \in [Store!Clients -> BOOLEAN]
  BY <1>1 DEF Store!Connect
<1> QED
  BY <1>2, <1>3, SessionKeeps DEF Store!Connect, Store!objects, Store!operator

\* A broker with nothing to tell.
LEMMA EmptyNet ==
  LET empty == [kept |-> Store!Nothing, in |-> [c \in Store!Clients |-> <<>>]]
  IN  /\ empty \in Nets /\ Routed(empty)
      /\ \A t \in Store!Topics, v \in Values : Sent(empty, t, v) => v = {}
<1> DEFINE in == [c \in Store!Clients |-> <<>>]
           empty == [kept |-> Store!Nothing, in |-> in]
<1>1. \A t \in Store!Topics : {} \in Values
  BY PayloadKinds
<1>2. /\ Store!Nothing \in [Store!Topics -> Values] /\ \A t \in Store!Topics : Store!Nothing[t] = {}
      /\ in \in [Store!Clients -> Seq(Store!Topics \X Values)] /\ \A c \in Store!Clients : in[c] = <<>>
  BY <1>1 DEF Store!Nothing
<1> HIDE DEF in
<1>3. empty \in Nets /\ empty.kept = Store!Nothing /\ empty.in = in
  BY <1>2 DEF Nets
<1> HIDE DEF empty
<1>4. \A c \in Store!Clients : \A i \in 1..Len(empty.in[c]) : FALSE
  BY <1>2, <1>3
<1>5. Routed(empty)
  BY <1>4 DEF Routed
<1>6. \A t \in Store!Topics, v \in Values : Sent(empty, t, v) => v = {}
  BY <1>2, <1>3, <1>4 DEF Sent
<1> QED
  BY <1>3, <1>5, <1>6 DEF empty, in

LEMMA BrokerRestartsKeeps ==
  ASSUME Store!ProgressAssumption, ProgressInvariant, Store!BrokerRestarts
  PROVE  ProgressInvariant'
<1> DEFINE new == {m \in Store!Topics \X Values : m[2] = {}}
<1>1. net' \in Nets /\ Routed(net') /\ \A t \in Store!Topics, v \in Values : Sent(net', t, v) => v = {}
  BY EmptyNet DEF Store!BrokerRestarts
<1>2. Adds(net, net', new)
  BY <1>1 DEF Adds
<1>3. \A t \in Store!Topics, v \in Values : <<t, v>> \in new => v = {}
  OBVIOUS
<1>4. conn' \in [Store!Clients -> BOOLEAN]
  BY DEF Store!BrokerRestarts
<1> HIDE DEF new
<1> QED
  BY <1>1, <1>2, <1>3, <1>4, SessionKeeps DEF Store!BrokerRestarts, Store!objects, Store!operator

-----------------------------------------------------------------------------
(* The theorems.                                                           *)

LEMMA InitKeeps ==
  ASSUME Store!ProgressAssumption, Store!Init
  PROVE  ProgressInvariant
<1>1. net \in Nets /\ Routed(net) /\ \A t \in Store!Topics, v \in Values : Sent(net, t, v) => v = {}
  BY EmptyNet DEF Store!Init
<1>2. /\ Store!Unborn \in PlayStates /\ Store!NoRow \in RowStates
      /\ Store!Gone(Store!Unborn) \in PlayStates
      /\ Store!Gone(Store!Unborn).phase = "gone" /\ Store!Gone(Store!Unborn).deleting
      /\ Store!Unborn.phase = "unborn" /\ ~Store!Unborn.deleting /\ ~Store!Unborn.held
      /\ Store!Unborn.pos = 0
  <2>1. 0 \in 0..MaxPos
    BY DEF Store!ProgressAssumption
  <2> QED
    BY <2>1 DEF Store!Unborn, Store!Gone, Store!NoRow, PlayStates, RowStates
<1>3. /\ plays \in [Plays -> PlayStates] /\ \A p \in Plays : plays[p] \in {Store!Unborn, Store!Gone(Store!Unborn)}
      /\ rows \in [Plays -> RowStates] /\ \A p \in Plays : rows[p] = Store!NoRow
  BY <1>2 DEF Store!Init
<1>4. people \in [People -> PeopleStates] /\ asked \in [People -> SUBSET Namespaces]
  BY DEF Store!Init, PeopleStates
<1>5. /\ recorded \in [Plays -> SUBSET {"open", "ended"}]
      /\ \A p \in Plays : recorded[p] = {}
      /\ forgotten \in [People -> SUBSET Namespaces]
      /\ \A a \in People : forgotten[a] = {}
  BY DEF Store!Init
<1>6. stores \subseteq Namespaces /\ conn \in [Store!Clients -> BOOLEAN] /\ clearing \in Seq(Store!Topics)
  BY DEF Store!Init
<1>7. budget \in [Mishaps -> Nat] /\ (NeverReborn => budget["reborn"] = 0)
  BY DEF Store!Init, Store!ProgressAssumption, Mishaps, NeverReborn
<1>8. StoreTyped
  BY <1>1, <1>3, <1>4, <1>5, <1>6, <1>7 DEF StoreTyped
<1>9. ASSUME NEW p \in Plays PROVE ShapeOf(p) /\ EndIsTrue(p)
  BY <1>2, <1>3 DEF ShapeOf, EndIsTrue, Store!NoRow
<1>10. DeskIsTrue
  <2>1. {} # {"ended"}
    OBVIOUS
  <2> QED
    BY <1>5, <2>1 DEF DeskIsTrue
<1>11. SentIsTrue
  <2> SUFFICES ASSUME NEW t \in Store!Topics, NEW v \in Values, Sent(net, t, v)
               PROVE  Claims(t, v)
    BY DEF SentIsTrue
  <2>1. v = {} /\ {} \in PayloadsOf(t)
    BY <1>1, PayloadKinds
  <2>2. {} # {"ended"}
    OBVIOUS
  <2> QED
    BY <2>1, <2>2 DEF Claims
<1> QED
  BY <1>1, <1>8, <1>9, <1>10, <1>11 DEF ProgressInvariant

LEMMA StepKeeps ==
  ASSUME Store!ProgressAssumption, ProgressInvariant, [Store!Next]_(Store!vars)
  PROVE  ProgressInvariant'
<1>1. CASE UNCHANGED Store!vars
  BY <1>1, SamePlays, SaysNothing DEF Store!vars, RestTyped, ProgressInvariant, StoreTyped
<1>2. CASE Store!Cluster
  BY <1>2, ClusterKeeps
<1>3. ASSUME NEW p \in Plays, Store!PassStep(p) PROVE ProgressInvariant'
  BY <1>3, ReconcilePlayKeeps, ReleaseUnstoredKeeps DEF Store!PassStep
<1>4. CASE Store!RetainRecorded \/ Store!ClearTopic \/ Store!FoldMark
  BY <1>4, RetainRecordedKeeps, ClearTopicKeeps, FoldMarkKeeps
<1>5. ASSUME NEW a \in People, Store!PersonStep(a) PROVE ProgressInvariant'
  BY <1>5, PersonStepKeeps
<1>6. ASSUME NEW n \in Namespaces, Store!HandleMessage(n) \/ Store!StoreRefuses(n) PROVE ProgressInvariant'
  BY <1>6, HandleMessageKeeps, StoreRefusesKeeps
<1>7. ASSUME NEW n \in Namespaces, Store!RoleDrops(n) PROVE ProgressInvariant'
  BY <1>7, DropsKeep DEF Store!RoleDrops, Store!Clients
<1>8. CASE Store!OperatorDrops
  BY <1>8, DropsKeep DEF Store!OperatorDrops, Store!Clients
<1>9. CASE Store!OperatorRestarts \/ Store!BrokerRestarts
  BY <1>9, OperatorRestartsKeeps, BrokerRestartsKeeps
<1>10. ASSUME NEW c \in Store!Clients, Store!Connect(c) PROVE ProgressInvariant'
  BY <1>10, ConnectKeeps
<1> QED
  BY <1>1, <1>2, <1>3, <1>4, <1>5, <1>6, <1>7, <1>8, <1>9, <1>10 DEF Store!Next

\* Wherever a final, a mark or an answer is, on the broker, under way or on the desk,
\* it claims what is so: of the Play, of the store's row, of the forget that ran.
THEOREM ProgressInductive == MediaAssumption => (Spec => [](OfStore => ProgressInvariant))
<1> SUFFICES ASSUME MediaAssumption PROVE Spec => [](OfStore => ProgressInvariant)
  OBVIOUS
<1> USE DEF MediaAssumption
<1>1. Init => (OfStore => ProgressInvariant)
  BY StoreOnly, InitKeeps
<1>2. (OfStore => ProgressInvariant) /\ [Next]_vars => (OfStore => ProgressInvariant)'
  BY StoreOnly, StepKeeps
<1> QED
  BY <1>1, <1>2, PTL DEF Spec

\* Every retained message, row and object has its shape.
THEOREM StoreTypes == MediaAssumption => (Spec => [](OfStore => Store!TypeOK))
<1>1. ProgressInvariant => Store!TypeOK
  <2> SUFFICES ASSUME ProgressInvariant PROVE Store!TypeOK
    OBVIOUS
  <2>1. ASSUME NEW t \in Store!Topics PROVE net.kept[t] \subseteq Store!Payloads[t[1]]
    <3>1. net.kept[t] \in Values
      BY DEF ProgressInvariant, StoreTyped, Nets
    <3>2. net.kept[t] \in PayloadsOf(t)
      BY <3>1 DEF ProgressInvariant, SentIsTrue, Sent, Claims
    <3> QED
      BY <3>2 DEF PayloadsOf
  <2> QED
    BY <2>1 DEF ProgressInvariant, StoreTyped, Store!TypeOK, PlayStates, PeopleStates, RowStates
<1> QED
  BY <1>1, ProgressInductive, PTL

\* No mark says more than the store holds: where an ended mark is, the row ended first.
THEOREM MarksTheorem == MediaAssumption => (Spec => []MarksAreTrue)
<1>1. ProgressInvariant => Store!MarksAreTrue
  <2> SUFFICES ASSUME ProgressInvariant, NEW p \in Plays,
                      \/ net.kept[Store!Recorded(p)] = {"ended"}
                      \/ recorded[p] = {"ended"}
                      \/ \E i \in DOMAIN net.in[Store!Operator] :
                             net.in[Store!Operator][i] = <<Store!Recorded(p), {"ended"}>>
               PROVE  rows[p].ended
    BY DEF Store!MarksAreTrue
  <2>1. /\ Store!Recorded(p) \in Store!Topics /\ Store!Recorded(p)[1] = "recorded" /\ Store!Recorded(p)[2] = p
        /\ Store!Operator \in Store!Clients
    BY TopicsOfPlays DEF Store!Recorded, Store!Clients
  <2>2. {"ended"} \in PayloadsOf(Store!Recorded(p)) /\ {"ended"} \in Values
    BY <2>1, PayloadKinds
  <2>3. DOMAIN net.in[Store!Operator] = 1..Len(net.in[Store!Operator])
    BY <2>1 DEF ProgressInvariant, StoreTyped, Nets
  <2>4. recorded[p] = {"ended"} \/ Sent(net, Store!Recorded(p), {"ended"})
    BY <2>1, <2>3 DEF Sent
  <2>5. Sent(net, Store!Recorded(p), {"ended"}) => Claims(Store!Recorded(p), {"ended"})
    BY <2>1, <2>2 DEF ProgressInvariant, SentIsTrue
  <2> QED
    BY <2>1, <2>4, <2>5 DEF ProgressInvariant, DeskIsTrue, Claims
<1>2. (OfStore => ProgressInvariant) => MarksAreTrue
  BY <1>1 DEF MarksAreTrue
<1> QED
  BY <1>2, ProgressInductive, PTL

\* The role's message is true, so what it writes reopens no row.
LEMMA RolesMoveOnward ==
  ASSUME Store!ProgressAssumption, ProgressInvariant, NEW n \in Namespaces,
         Store!HandleMessage(n) \/ Store!StoreRefuses(n)
  PROVE  RowsOnward
<1>1. net \in Nets /\ Routed(net) /\ net.in[n] # <<>> /\ n \in Store!Clients
  BY DEF ProgressInvariant, StoreTyped, Store!HandleMessage, Store!StoreRefuses, Store!Clients
<1>2. /\ Head(net.in[n]) \in Store!Topics \X Values
      /\ Sent(net, Head(net.in[n])[1], Head(net.in[n])[2]) /\ Store!Reads(n, Head(net.in[n])[1])
  BY <1>1, HeadOfInbox
<1>3. PICK t \in Store!Topics, v \in Values : t = Head(net.in[n])[1] /\ v = Head(net.in[n])[2]
  BY <1>2
<1>4. Store!Reads(n, t) /\ Claims(t, v)
  BY <1>2, <1>3 DEF ProgressInvariant, SentIsTrue
<1>5. rows' = rows \/ rows' = Store!Written(n, t, v)
  BY <1>3 DEF Store!HandleMessage, Store!StoreRefuses
<1> QED
  BY <1>4, <1>5, SameRows, WrittenDoes DEF RowsOnward

LEMMA EndsStay ==
  ASSUME Store!ProgressAssumption, ProgressInvariant, Store!Next PROVE Store!RowStaysEnded
<1>1. UNCHANGED rows \/ \E n \in Namespaces : Store!HandleMessage(n) \/ Store!StoreRefuses(n)
  BY DEF Store!Next, Store!Cluster, Store!CreatePlay, Store!PlayOn, Store!LateReport, Store!FinishPlay, Store!DeletePlay, Store!DeletePerson,
         Store!RebornPerson, Store!PassStep, Store!ReconcilePlay, Store!ReleaseUnstored, Store!RetainRecorded, Store!ClearTopic,
         Store!FoldMark, Store!PersonStep, Store!HoldPerson, Store!ForgetPerson, Store!RoleDrops, Store!OperatorDrops,
         Store!OperatorRestarts, Store!BrokerRestarts, Store!Connect
<1>2. RowsOnward
  BY <1>1, SameRows, RolesMoveOnward
<1> QED
  BY <1>2 DEF RowsOnward, Store!RowStaysEnded

\* A row that ended stays ended, and at the position it ended: no late report, and no
\* retained status that a new session delivers after the final, reopens it.
THEOREM EndedTheorem ==
  MediaAssumption => (Spec => EndedStays)
<1> SUFFICES ASSUME MediaAssumption
             PROVE  Spec => EndedStays
  OBVIOUS
<1> USE DEF MediaAssumption
<1>1. (OfStore => ProgressInvariant) /\ [Next]_vars => [OfStore => Store!RowStaysEnded]_vars
  <2> SUFFICES ASSUME OfStore, ProgressInvariant, Next PROVE Store!RowStaysEnded
    OBVIOUS
  <2>1. Store!Next
    BY DEF OfStore, Next, OfProgress, OfBridge, OfBackfill, About
  <2> QED
    BY <2>1, EndsStay
<1>2. Spec => [](OfStore => ProgressInvariant)
  BY ProgressInductive
<1> QED
  BY <1>1, <1>2, PTL DEF Spec, EndedStays

\* Only the pass takes a finalizer off a Play, and only over a recorded end where the
\* namespace has a store.
LEMMA HeldUntilRecorded ==
  ASSUME ProgressInvariant, Store!Next, NEW p \in Plays, plays[p].held, Home[p] \in stores
  PROVE  plays'[p].held \/ Store!EndIsRecorded(p)
<1>1. plays \in [Plays -> PlayStates] /\ ShapeOf(p)
  BY DEF ProgressInvariant, StoreTyped
<1>2. CASE UNCHANGED plays
  BY <1>2
<1>3. ASSUME NEW q \in Plays, NEW names \in SUBSET People, NEW byHand \in BOOLEAN,
             Store!CreatePlay(q, names, byHand)
      PROVE  plays'[p].held
  <2>1. q # p
    BY <1>1, <1>3 DEF Store!CreatePlay, ShapeOf
  <2> QED
    BY <1>1, <1>3, <2>1 DEF Store!CreatePlay
<1>4. ASSUME NEW q \in Plays, Store!PlayOn(q) \/ Store!FinishPlay(q) PROVE plays'[p].held
  BY <1>1, <1>4 DEF Store!PlayOn, Store!FinishPlay, PlayStates
<1>5. ASSUME NEW q \in Plays, Store!DeletePlay(q) PROVE plays'[p].held
  <2>1. plays' = [plays EXCEPT ![q] = Store!AsDeleted(plays[q])]
    BY <1>1, <1>5 DEF Store!DeletePlay
  <2>2. CASE q # p
    BY <1>1, <2>1, <2>2
  <2>3. CASE q = p
    <3>1. Store!AsDeleted(plays[p]) = [plays[p] EXCEPT !.deleting = TRUE]
      BY DEF Store!AsDeleted
    <3>2. Store!AsDeleted(plays[p]).held
      BY <1>1, <3>1 DEF PlayStates
    <3> QED
      BY <1>1, <2>1, <2>3, <3>2
  <2> QED
    BY <2>2, <2>3
<1>6. ASSUME NEW q \in Plays, Store!Release(q) PROVE plays'[p].held \/ p = q
  BY <1>1, <1>6 DEF Store!Release
<1>7. ASSUME NEW q \in Plays, Store!ReconcilePlay(q) PROVE plays'[p].held \/ Store!EndIsRecorded(p)
  <2>1. CASE Store!Release(q) /\ Store!EndIsRecorded(q)
    BY <1>6, <2>1
  <2>2. CASE plays' = [plays EXCEPT ![q].held = @ \/ ~plays[q].deleting]
    BY <1>1, <2>2 DEF PlayStates
  <2> QED
    BY <1>7, <2>1, <2>2 DEF Store!ReconcilePlay
<1>8. ASSUME NEW q \in Plays, Store!ReleaseUnstored(q) PROVE plays'[p].held
  BY <1>6, <1>8 DEF Store!ReleaseUnstored
<1> QED
  <2>1. \/ UNCHANGED plays
        \/ \E q \in Plays : \/ \E names \in SUBSET People, byHand \in BOOLEAN :
                                   Store!CreatePlay(q, names, byHand)
                            \/ Store!PlayOn(q) \/ Store!FinishPlay(q) \/ Store!DeletePlay(q)
                            \/ Store!ReconcilePlay(q) \/ Store!ReleaseUnstored(q)
    BY DEF Store!Next, Store!Cluster, Store!LateReport, Store!DeletePerson, Store!RebornPerson, Store!PassStep, Store!RetainRecorded,
           Store!ClearTopic, Store!FoldMark, Store!PersonStep, Store!HoldPerson, Store!ForgetPerson, Store!HandleMessage,
           Store!StoreRefuses, Store!RoleDrops, Store!OperatorDrops, Store!OperatorRestarts, Store!BrokerRestarts, Store!Connect,
           Store!objects
  <2> QED
    BY <1>2, <1>3, <1>4, <1>5, <1>7, <1>8, <2>1

LEMMA RecordedFirst ==
  ASSUME ProgressInvariant, Store!Next PROVE Store!RecordBeforeRelease
<1> SUFFICES ASSUME NEW p \in Plays, plays[p].held, ~plays'[p].held, Home[p] \in stores
             PROVE  rows[p].ended /\ rows[p].pos = plays[p].pos
  BY DEF Store!RecordBeforeRelease
<1>1. recorded[p] = {"ended"}
  BY HeldUntilRecorded DEF Store!EndIsRecorded
<1> QED
  BY <1>1 DEF ProgressInvariant, DeskIsTrue, EndIsTrue

\* A delete never outruns the record: a Play of a namespace with a store is let go only
\* when the store holds its end, and the position it ended at.
THEOREM RecordTheorem ==
  MediaAssumption => (Spec => [][OfStore => Store!RecordBeforeRelease]_vars)
<1> SUFFICES ASSUME MediaAssumption
             PROVE  Spec => [][OfStore => Store!RecordBeforeRelease]_vars
  OBVIOUS
<1> USE DEF MediaAssumption
<1>1. (OfStore => ProgressInvariant) /\ [Next]_vars => [OfStore => Store!RecordBeforeRelease]_vars
  <2> SUFFICES ASSUME OfStore, ProgressInvariant, Next PROVE Store!RecordBeforeRelease
    OBVIOUS
  <2>1. Store!Next
    BY DEF OfStore, Next, OfProgress, OfBridge, OfBackfill, About
  <2> QED
    BY <2>1, RecordedFirst
<1>2. Spec => [](OfStore => ProgressInvariant)
  BY ProgressInductive
<1> QED
  BY <1>1, <1>2, PTL DEF Spec

LEMMA ForgottenFirst ==
  ASSUME NeverReborn, ProgressInvariant, Store!Next PROVE Store!ForgetBeforeRelease
<1> SUFFICES ASSUME NEW a \in People, people[a].life = "deleting", people'[a].life = "gone"
             PROVE  stores \subseteq asked[a]
  BY DEF Store!ForgetBeforeRelease
<1>1. people \in [People -> PeopleStates]
  BY DEF ProgressInvariant, StoreTyped
<1>2. \E b \in People : Store!ForgetPerson(b)
  <2>1. \/ UNCHANGED people
        \/ \E b \in People : \/ Store!DeletePerson(b) \/ Store!RebornPerson(b)
                             \/ Store!HoldPerson(b) \/ Store!ForgetPerson(b)
    BY DEF Store!Next, Store!Cluster, Store!CreatePlay, Store!PlayOn, Store!LateReport, Store!FinishPlay, Store!DeletePlay, Store!PassStep,
           Store!ReconcilePlay, Store!ReleaseUnstored, Store!RetainRecorded, Store!ClearTopic, Store!FoldMark, Store!PersonStep,
           Store!HandleMessage, Store!StoreRefuses, Store!RoleDrops, Store!OperatorDrops, Store!OperatorRestarts,
           Store!BrokerRestarts, Store!Connect, Store!objects
  <2>2. ASSUME NEW b \in People, Store!DeletePerson(b) \/ Store!HoldPerson(b) PROVE FALSE
    BY <1>1, <2>2 DEF Store!DeletePerson, Store!HoldPerson, PeopleStates
  <2>3. ASSUME NEW b \in People, Store!RebornPerson(b) PROVE FALSE
    BY <1>1, <2>3 DEF Store!RebornPerson
  <2> QED
    BY <2>1, <2>2, <2>3
<1>3. PICK b \in People : Store!ForgetPerson(b)
  BY <1>2
<1>4. b = a /\ Store!EveryStoreForgot(a)
  BY <1>1, <1>3 DEF Store!ForgetPerson
<1> QED
  BY <1>4 DEF Store!EveryStoreForgot, ProgressInvariant, DeskIsTrue

\* And a Person that is let go was forgotten by every store of the cluster, where no
\* Person is ever created again under a name that was let go.
THEOREM ReleaseTheorem ==
  MediaAssumption /\ NeverReborn => (Spec => ReleaseIsEarned)
<1> SUFFICES ASSUME MediaAssumption, NeverReborn
             PROVE  Spec => ReleaseIsEarned
  OBVIOUS
<1> USE DEF MediaAssumption
<1>1. (OfStore => ProgressInvariant) /\ [Next]_vars => [OfStore => Store!RecordBeforeRelease /\ Store!ForgetBeforeRelease]_vars
  <2> SUFFICES ASSUME OfStore, ProgressInvariant, Next PROVE Store!RecordBeforeRelease /\ Store!ForgetBeforeRelease
    OBVIOUS
  <2>1. Store!Next
    BY DEF OfStore, Next, OfProgress, OfBridge, OfBackfill, About
  <2> QED
    BY <2>1, RecordedFirst, ForgottenFirst
<1>2. Spec => [](OfStore => ProgressInvariant)
  BY ProgressInductive
<1> QED
  BY <1>1, <1>2, PTL DEF Spec, ReleaseIsEarned

-----------------------------------------------------------------------------
(* What the parts share.                                                   *)

\* One of S, or none.
AtMostOne(S) == {{}} \cup {{s} : s \in S}

LEMMA AtMostOneCounts ==
  ASSUME NEW S, NEW one \in AtMostOne(S)
  PROVE  Cardinality(one) <= 1 /\ one \subseteq S
<1>1. CASE one = {}
  BY <1>1, FS_EmptySet
<1>2. ASSUME NEW s \in S, one = {s} PROVE Cardinality(one) <= 1 /\ one \subseteq S
  BY <1>2, FS_Singleton
<1> QED
  BY <1>1, <1>2 DEF AtMostOne

-----------------------------------------------------------------------------
(* Jellyfin.  What a goroutine carries from the join to the server is the   *)
(* position of some report, and so is what the join holds once one came.   *)

Joins == [position : 0..Duration, reported : BOOLEAN, claimed : BOOLEAN,
          written : SUBSET (0..Duration)]
Copies == [at : {"idle", "write", "lookup", "build", "post", "wrote"}, copy : 0..Duration]

BridgeTyped ==
    /\ said \in {"", "audience", "final", "clear"} /\ pod \in 0..Duration
    /\ play \in {{}} \cup {{p} : p \in Joins}
    /\ thread \in [Bridge!Threads -> Copies]
    /\ index \in [holds : BOOLEAN, young : BOOLEAN] /\ hasItem \in BOOLEAN

JoinIsReported == \A p \in play : p.reported => p.position \in reports
CopyIsReported(t) == thread[t].at \in {"lookup", "build", "post", "wrote"} => thread[t].copy \in reports

BridgeInvariant ==
    /\ BridgeTyped /\ JoinIsReported /\ Bridge!WrittenWasReported
    /\ \A t \in Bridge!Threads : CopyIsReported(t)

LEMMA InitBridge ==
  ASSUME Bridge!JellyfinAssumption, Bridge!Init
  PROVE  BridgeInvariant
<1>1. Duration \in Nat
  BY DEF Bridge!JellyfinAssumption
<1>2. Bridge!Idle \in Copies /\ Bridge!Idle.at = "idle"
  BY <1>1 DEF Bridge!Idle, Copies
<1>3. BridgeTyped
  <2>1. thread \in [Bridge!Threads -> Copies]
    BY <1>2 DEF Bridge!Init
  <2>2. index \in [holds : BOOLEAN, young : BOOLEAN] /\ hasItem \in BOOLEAN
    BY DEF Bridge!Init
  <2>3. said \in {"", "audience", "final", "clear"} /\ pod \in 0..Duration
        /\ play \in {{}} \cup {{p} : p \in Joins}
    <3>1. said = "" /\ pod = 0 /\ play = {}
      BY DEF Bridge!Init
    <3>2. 0 \in 0..Duration
      BY <1>1
    <3> QED
      BY <3>1, <3>2
  <2> QED
    BY <2>1, <2>2, <2>3 DEF BridgeTyped
<1> QED
  BY <1>2, <1>3 DEF Bridge!Init, BridgeInvariant, JoinIsReported, CopyIsReported, Bridge!WrittenWasReported

\* The join of a Play is there, or is made with nothing reported.
LEMMA EntryIsReported ==
  ASSUME Bridge!JellyfinAssumption, BridgeInvariant
  PROVE  /\ Bridge!Entry \in Joins
         /\ Bridge!Entry.reported => Bridge!Entry.position \in reports
<1>1. Duration \in Nat
  BY DEF Bridge!JellyfinAssumption
<1>2. CASE play = {}
  BY <1>1, <1>2 DEF Bridge!Entry, Bridge!NoPlay, Joins
<1>3. ASSUME NEW p \in Joins, play = {p} PROVE Bridge!Entry = p
  BY <1>3 DEF Bridge!Entry
<1> QED
  BY <1>2, <1>3 DEF BridgeInvariant, BridgeTyped, JoinIsReported

\* A message that the reader folds leaves a join whose position is a report's.
LEMMA FoldKeeps ==
  ASSUME Bridge!JellyfinAssumption, BridgeInvariant, NEW p \in Joins, Bridge!Held(p),
         p.reported => p.position \in reports', reports \subseteq reports',
         UNCHANGED <<said, pod, index, hasItem, server>>,
         \/ thread' = thread
         \/ thread' = [thread EXCEPT !["reader"] = [at |-> "write", copy |-> 0]]
  PROVE  BridgeInvariant'
<1>1. Duration \in Nat /\ play' = {p}
  BY DEF Bridge!JellyfinAssumption, Bridge!Held
<1>2. thread' \in [Bridge!Threads -> Copies]
  <2>1. [at |-> "write", copy |-> 0] \in Copies
    BY <1>1 DEF Copies
  <2> QED
    BY <2>1 DEF BridgeInvariant, BridgeTyped
<1>3. BridgeTyped'
  BY <1>1, <1>2 DEF BridgeInvariant, BridgeTyped
<1>4. ASSUME NEW t \in Bridge!Threads PROVE CopyIsReported(t)'
  <2>1. thread'[t] = thread[t] \/ thread'[t] = [at |-> "write", copy |-> 0]
    BY DEF BridgeInvariant, BridgeTyped
  <2> QED
    BY <2>1 DEF BridgeInvariant, CopyIsReported
<1> QED
  BY <1>1, <1>3, <1>4 DEF BridgeInvariant, JoinIsReported, Bridge!WrittenWasReported

LEMMA ReadStatusKeeps ==
  ASSUME Bridge!JellyfinAssumption, BridgeInvariant, NEW pos \in 0..Duration, Bridge!ReadStatus(pos),
         UNCHANGED <<said, pod, thread, index, hasItem, server>>
  PROVE  BridgeInvariant'
<1> DEFINE p == [Bridge!Entry EXCEPT !.position = pos, !.reported = TRUE]
<1>1. Bridge!Held(p) /\ reports' = reports \cup {pos}
  BY DEF Bridge!ReadStatus
<1>2. p \in Joins /\ p.position = pos
  BY EntryIsReported DEF Joins
<1>3. p.position \in reports' /\ reports \subseteq reports'
  BY <1>1, <1>2
<1> HIDE DEF p
<1> QED
  BY <1>1, <1>2, <1>3, FoldKeeps

LEMMA ReadsKeep ==
  ASSUME Bridge!JellyfinAssumption, BridgeInvariant, Bridge!Read \/ Bridge!ReadLateStatus
  PROVE  BridgeInvariant'
<1>1. pod \in 0..Duration /\ Bridge!Entry \in Joins
  BY EntryIsReported DEF BridgeInvariant, BridgeTyped
<1>2. CASE Bridge!ReadNewStatus
  BY <1>1, <1>2, ReadStatusKeeps DEF Bridge!ReadNewStatus, Bridge!world
<1>3. CASE Bridge!ReadLateStatus
  BY <1>1, <1>3, ReadStatusKeeps DEF Bridge!ReadLateStatus, Bridge!world
<1>4. CASE Bridge!ReadAudience
  <2> DEFINE p == [Bridge!Entry EXCEPT !.claimed = TRUE]
  <2>1. p \in Joins /\ (p.reported => p.position \in reports)
    BY EntryIsReported DEF Joins
  <2>2. Bridge!Held(p) /\ UNCHANGED <<said, pod, thread, index, hasItem, server, reports>>
    BY <1>4 DEF Bridge!ReadAudience, Bridge!world
  <2> QED
    BY <2>1, <2>2, FoldKeeps
<1>5. CASE Bridge!ReadFinal
  <2> DEFINE p == [Bridge!Entry EXCEPT !.position = pod, !.reported = TRUE]
  <2>1. p \in Joins /\ p.position = pod
    BY <1>1 DEF Joins
  <2>2. /\ Bridge!Held(p) /\ reports' = reports \cup {pod}
        /\ thread' = [thread EXCEPT !["reader"] = [at |-> "write", copy |-> 0]]
        /\ UNCHANGED <<said, pod, index, hasItem, server>>
    BY <1>5 DEF Bridge!ReadFinal, Bridge!world
  <2>3. p.position \in reports' /\ reports \subseteq reports'
    BY <2>1, <2>2
  <2> HIDE DEF p
  <2> QED
    BY <2>1, <2>2, <2>3, FoldKeeps
<1>6. CASE Bridge!ReadClear
  <2>1. play' = {} /\ UNCHANGED <<said, pod, thread, index, hasItem, server, reports>>
    BY <1>6 DEF Bridge!ReadClear, Bridge!world
  <2> QED
    BY <2>1 DEF BridgeInvariant, BridgeTyped, JoinIsReported, CopyIsReported, Bridge!WrittenWasReported
<1> QED
  BY <1>2, <1>3, <1>4, <1>5, <1>6 DEF Bridge!Read

\* A step of a writing goroutine that carries its copy on, or drops it.
LEMMA GoesKeeps ==
  ASSUME Bridge!JellyfinAssumption, BridgeInvariant, NEW t \in Bridge!Threads,
         NEW where \in {"idle", "write", "lookup", "build", "post", "wrote"}, NEW pos \in 0..Duration,
         Bridge!Goes(t, where, pos), pos \in reports \/ where \in {"idle", "write"},
         play' \in {{}} \cup {{p} : p \in Joins},
         \A p \in play' : p.reported => p.position \in reports,
         index' \in [holds : BOOLEAN, young : BOOLEAN], server'.position \in reports,
         UNCHANGED <<said, pod, hasItem, reports>>
  PROVE  BridgeInvariant'
<1>1. [at |-> where, copy |-> pos] \in Copies
  BY DEF Copies
<1>2. thread' = [thread EXCEPT ![t] = [at |-> where, copy |-> pos]]
  BY DEF Bridge!Goes
<1>3. BridgeTyped'
  BY <1>1, <1>2 DEF BridgeInvariant, BridgeTyped
<1>4. ASSUME NEW u \in Bridge!Threads PROVE CopyIsReported(u)'
  <2>1. IF u = t THEN thread'[u] = [at |-> where, copy |-> pos] ELSE thread'[u] = thread[u]
    BY <1>2 DEF BridgeInvariant, BridgeTyped
  <2> QED
    BY <2>1 DEF BridgeInvariant, CopyIsReported
<1> QED
  BY <1>3, <1>4 DEF BridgeInvariant, JoinIsReported, Bridge!WrittenWasReported

LEMMA WritesKeep ==
  ASSUME Bridge!JellyfinAssumption, BridgeInvariant, NEW t \in Bridge!Threads, Bridge!Write(t)
  PROVE  BridgeInvariant'
<1> DEFINE copied == thread[t].copy
<1>0. Duration \in Nat /\ 0 \in 0..Duration
  BY DEF Bridge!JellyfinAssumption
<1>1. /\ 0 \in 0..Duration /\ copied \in 0..Duration
      /\ index \in [holds : BOOLEAN, young : BOOLEAN]
      /\ play \in {{}} \cup {{p} : p \in Joins}
      /\ server.position \in reports /\ \A p \in play : p.reported => p.position \in reports
      /\ thread[t].at \in {"lookup", "build", "post", "wrote"} => copied \in reports
  BY <1>0 DEF BridgeInvariant, BridgeTyped, Copies, JoinIsReported,
         CopyIsReported, Bridge!WrittenWasReported
<1>2. CASE Bridge!CopyPlay(t)
  <2>1. UNCHANGED <<said, pod, play, index, hasItem, server, reports>>
    BY <1>2 DEF Bridge!CopyPlay, Bridge!world
  <2>2. CASE Bridge!Goes(t, "idle", 0)
    BY <1>1, <2>1, <2>2, GoesKeeps
  <2>3. CASE (\E p \in play : p.claimed /\ p.reported) /\ Bridge!Goes(t, "lookup", Bridge!Entry.position)
    <3>1. PICK p \in play : p.reported
      BY <2>3
    <3>2. p \in Joins /\ play = {p} /\ Bridge!Entry = p
      BY <1>1, <3>1 DEF Bridge!Entry
    <3>3. Bridge!Entry.position \in 0..Duration /\ Bridge!Entry.position \in reports
      BY <1>1, <3>1, <3>2 DEF Joins
    <3> QED
      BY <1>1, <2>1, <2>3, <3>3, GoesKeeps
  <2> QED
    BY <1>2, <2>2, <2>3 DEF Bridge!CopyPlay
<1>3. CASE Bridge!LookUp(t)
  <2>1. /\ thread[t].at = "lookup" /\ UNCHANGED <<said, pod, play, hasItem, server, reports>>
        /\ \/ Bridge!Goes(t, "post", copied) \/ Bridge!Goes(t, "idle", 0) \/ Bridge!Goes(t, "build", copied)
        /\ index' \in [holds : BOOLEAN, young : BOOLEAN]
    BY <1>1, <1>3 DEF Bridge!LookUp, Bridge!world
  <2> QED
    BY <1>1, <2>1, GoesKeeps
<1>4. CASE Bridge!Build(t)
  <2>1. /\ thread[t].at = "build" /\ UNCHANGED <<said, pod, play, hasItem, server, reports>>
        /\ \/ Bridge!Goes(t, "post", copied) \/ Bridge!Goes(t, "idle", 0)
        /\ index' \in [holds : BOOLEAN, young : BOOLEAN]
    <3>1. hasItem \in BOOLEAN
      BY DEF BridgeInvariant, BridgeTyped
    <3> QED
      BY <1>1, <1>4, <3>1 DEF Bridge!Build, Bridge!world
  <2> QED
    BY <1>1, <2>1, GoesKeeps
<1>5. CASE Bridge!PostUserData(t)
  <2>1. /\ thread[t].at = "post" /\ UNCHANGED <<said, pod, play, index, hasItem, reports>>
        /\ Bridge!Goes(t, "wrote", copied) /\ server'.position \in {server.position, copied}
    BY <1>5 DEF Bridge!PostUserData, Bridge!world
  <2> QED
    BY <1>1, <2>1, GoesKeeps
<1>6. CASE Bridge!MarkWritten(t)
  <2>1. /\ thread[t].at = "wrote" /\ UNCHANGED <<said, pod, index, hasItem, server, reports>>
        /\ Bridge!Goes(t, "idle", 0)
        /\ play' = {[p EXCEPT !.written = {copied}] : p \in play}
    BY <1>6 DEF Bridge!MarkWritten, Bridge!world
  <2>2. CASE play = {}
    BY <1>1, <2>1, <2>2, GoesKeeps
  <2>3. ASSUME NEW p \in Joins, play = {p} PROVE BridgeInvariant'
    <3> DEFINE q == [p EXCEPT !.written = {copied}]
    <3>1. play' = {q}
      BY <2>1, <2>3
    <3>2. q \in Joins /\ q.reported = p.reported /\ q.position = p.position
      BY <1>1 DEF Joins
    <3> HIDE DEF q
    <3> QED
      BY <1>1, <2>1, <2>3, <3>1, <3>2, GoesKeeps
  <2> QED
    BY <1>1, <2>2, <2>3
<1> QED
  BY <1>2, <1>3, <1>4, <1>5, <1>6 DEF Bridge!Write

LEMMA BridgeStep ==
  ASSUME Bridge!JellyfinAssumption, BridgeInvariant, [Bridge!Next]_(Bridge!vars)
  PROVE  BridgeInvariant'
<1> USE DEF BridgeInvariant, JoinIsReported, CopyIsReported, Bridge!WrittenWasReported
<1>1. CASE Bridge!PodReports
  <2>1. Duration \in Nat /\ pod \in 0..Duration /\ pod < Duration /\ pod' = pod + 1
    BY <1>1 DEF Bridge!JellyfinAssumption, BridgeTyped, Bridge!PodReports
  <2>2. pod' \in 0..Duration
    BY <2>1
  <2> QED
    BY <1>1, <2>2 DEF Bridge!PodReports, BridgeTyped
<1>2. CASE Bridge!OperatorSays \/ Bridge!ServerGainsItem
  BY <1>2 DEF Bridge!OperatorSays, Bridge!ServerGainsItem, Bridge!world, BridgeTyped
<1>3. CASE Bridge!TickWrites
  <2>1. "tick" \in Bridge!Threads /\ 0 \in 0..Duration
    BY DEF Bridge!Threads, Bridge!JellyfinAssumption
  <2> QED
    BY <1>3, <2>1, GoesKeeps DEF Bridge!TickWrites, Bridge!world, BridgeTyped
<1>4. CASE Bridge!IndexAges
  BY <1>4 DEF Bridge!IndexAges, Bridge!world, BridgeTyped
<1>5. CASE Bridge!Restart
  <2>1. Bridge!Idle \in Copies /\ Bridge!Idle.at = "idle"
    BY DEF Bridge!Idle, Copies, Bridge!JellyfinAssumption
  <2> QED
    BY <1>5, <2>1 DEF Bridge!Restart, Bridge!world, BridgeTyped
<1>6. CASE UNCHANGED Bridge!vars
  BY <1>6 DEF Bridge!vars, Bridge!world, BridgeTyped
<1> QED
  BY <1>1, <1>2, <1>3, <1>4, <1>5, <1>6, ReadsKeep, WritesKeep DEF Bridge!Next

\* The bridge carries to the server what a report said, and nothing else.
THEOREM BridgeInductive == MediaAssumption => (Spec => [](focus = "bridge" => BridgeInvariant))
<1> SUFFICES ASSUME MediaAssumption PROVE Spec => [](focus = "bridge" => BridgeInvariant)
  OBVIOUS
<1> USE DEF MediaAssumption
<1>1. Init => (focus = "bridge" => BridgeInvariant)
  BY BridgeOnly, InitBridge
<1>2. (focus = "bridge" => BridgeInvariant) /\ [Next]_vars => (focus = "bridge" => BridgeInvariant)'
  BY BridgeOnly, BridgeStep
<1> QED
  BY <1>1, <1>2, PTL DEF Spec

\* jellyfinPlay.reported: what the server holds for a person is what it held at first, or a
\* position that some report carried.  The join never moves a resume point to a beginning
\* that nobody reported, in whatever order the two goroutines write.
THEOREM WrittenTheorem == MediaAssumption => (Spec => []WrittenWasReported)
<1>1. (focus = "bridge" => BridgeInvariant) => WrittenWasReported
  BY DEF BridgeInvariant, WrittenWasReported
<1> QED
  BY <1>1, BridgeInductive, PTL

\* Types: one join at most, and positions within the work.
THEOREM BridgeTypes == MediaAssumption => (Spec => [](focus = "bridge" => Bridge!TypeOK))
<1>1. BridgeInvariant => Bridge!TypeOK
  <2> SUFFICES ASSUME BridgeInvariant PROVE Bridge!TypeOK
    OBVIOUS
  <2>1. BridgeTyped
    BY DEF BridgeInvariant
  <2>2. Bridge!Cardinality(play) <= 1
    <3>1. Bridge!Cardinality(play) = Cardinality(play)
      BY DEF Bridge!Cardinality, Cardinality
    <3>2. play \in AtMostOne(Joins)
      BY <2>1 DEF BridgeTyped, AtMostOne
    <3> QED
      BY <3>1, <3>2, AtMostOneCounts
  <2> QED
    BY <2>1, <2>2 DEF BridgeTyped, Joins, Copies, Bridge!TypeOK
<1> QED
  BY <1>1, BridgeInductive, PTL

-----------------------------------------------------------------------------
(* JellyfinBackfill.  An outside row is the newest event the store was told *)
(* of; and what a Job says it finished, a Job read, while there is one      *)
(* server to name.                                                          *)

Events == [at : 1..MaxAt, ended : BOOLEAN]
Verdicts == {"pending", "running", "finished", "failed"}

BackfillTyped ==
    /\ spec \in AtMostOne(Servers)
    /\ status \in AtMostOne([server : Servers, backfill : Verdicts])
    /\ job \in AtMostOne([server : Servers, state : {"running", "succeeded", "gaveUp"}])
    /\ waits \in BOOLEAN /\ listening \in BOOLEAN
    /\ now \in 1..MaxAt /\ played \in 0..MaxAt
    /\ msgs \subseteq Events /\ row \in [at : 0..MaxAt, ended : BOOLEAN] /\ handled \subseteq 1..MaxAt

BackfillInvariant == BackfillTyped /\ Backfill!NewestEventWins

LEMMA InitBackfill ==
  ASSUME Backfill!BackfillAssumption, Backfill!Init
  PROVE  BackfillInvariant
<1>1. MaxAt \in Nat \ {0}
  BY DEF Backfill!BackfillAssumption
<1>2. 1 \in 1..MaxAt /\ 0 \in 0..MaxAt
  BY <1>1
<1>3. [at |-> 0, ended |-> FALSE] \in [at : 0..MaxAt, ended : BOOLEAN]
  BY <1>2
<1> QED
  BY <1>2, <1>3 DEF Backfill!Init, BackfillInvariant, BackfillTyped, AtMostOne, Backfill!NewestEventWins

\* A pass answers a status that names the server of the Catalog.
LEMMA AnswerIsTyped ==
  ASSUME BackfillTyped, spec # {}, NEW answer \in Verdicts
  PROVE  /\ Backfill!Server \in spec /\ Backfill!Server \in Servers
         /\ Backfill!Says(answer) \in AtMostOne([server : Servers, backfill : Verdicts])
<1>1. Backfill!Server \in spec
  BY DEF Backfill!Server
<1>2. Backfill!Server \in Servers
  BY <1>1 DEF BackfillTyped, AtMostOne
<1> QED
  BY <1>1, <1>2 DEF Backfill!Says, AtMostOne

LEMMA BackfillPassKeeps ==
  ASSUME Backfill!BackfillAssumption, BackfillInvariant, Backfill!Pass
  PROVE  BackfillInvariant'
<1> USE DEF Backfill!outside
<1>1. UNCHANGED <<spec, listening, now, msgs, row, played, handled>>
  BY DEF Backfill!Pass, Backfill!RetireBackfill, Backfill!ReadBackfillJob, Backfill!StandBackfill
<1>2. status' \in AtMostOne([server : Servers, backfill : Verdicts])
  <2>1. CASE Backfill!RetireBackfill
    BY <2>1 DEF Backfill!RetireBackfill, Backfill!Report, BackfillInvariant, BackfillTyped, AtMostOne
  <2>2. CASE Backfill!ReadBackfillJob \/ Backfill!StandBackfill
    <3>1. PICK answer \in Verdicts : spec # {} /\ Backfill!Report(Backfill!Says(answer))
      BY <2>2 DEF Backfill!ReadBackfillJob, Backfill!StandBackfill, Verdicts
    <3>2. Backfill!Says(answer) \in AtMostOne([server : Servers, backfill : Verdicts])
      BY <3>1, AnswerIsTyped DEF BackfillInvariant
    <3> QED
      BY <3>1, <3>2 DEF Backfill!Report, BackfillInvariant, BackfillTyped
  <2> QED
    BY <2>1, <2>2 DEF Backfill!Pass
<1>3. job' \in AtMostOne([server : Servers, state : {"running", "succeeded", "gaveUp"}]) /\ waits' \in BOOLEAN
  <2>1. CASE Backfill!RetireBackfill
    BY <2>1 DEF Backfill!RetireBackfill, AtMostOne
  <2>2. CASE Backfill!ReadBackfillJob
    BY <2>2 DEF Backfill!ReadBackfillJob, BackfillInvariant, BackfillTyped, AtMostOne
  <2>3. CASE Backfill!StandBackfill
    <3>1. Backfill!Server \in Servers
      BY <2>3, AnswerIsTyped DEF Backfill!StandBackfill, BackfillInvariant, Verdicts
    <3>2. {[server |-> Backfill!Server, state |-> "running"]}
             \in AtMostOne([server : Servers, state : {"running", "succeeded", "gaveUp"}])
      BY <3>1 DEF AtMostOne
    <3> QED
      BY <2>3, <3>2 DEF Backfill!StandBackfill, BackfillInvariant, BackfillTyped
  <2> QED
    BY <2>1, <2>2, <2>3 DEF Backfill!Pass
<1> QED
  BY <1>1, <1>2, <1>3 DEF BackfillInvariant, BackfillTyped, Backfill!NewestEventWins

LEMMA RunKeeps ==
  ASSUME Backfill!BackfillAssumption, BackfillInvariant, Backfill!RunBackfill
  PROVE  BackfillInvariant'
<1>1. UNCHANGED <<spec, status, waits, listening, now, row, played, handled>>
  BY DEF Backfill!RunBackfill
<1>2. job' \in AtMostOne([server : Servers, state : {"running", "succeeded", "gaveUp"}])
  <2>1. PICK to \in {"succeeded", "gaveUp"} : job' = {[j EXCEPT !.state = to] : j \in job}
    BY DEF Backfill!RunBackfill
  <2>2. PICK j \in [server : Servers, state : {"running", "succeeded", "gaveUp"}] : job = {j}
    BY DEF Backfill!RunBackfill, BackfillInvariant, BackfillTyped, AtMostOne
  <2>3. job' = {[j EXCEPT !.state = to]}
    BY <2>1, <2>2
  <2>4. [j EXCEPT !.state = to] \in [server : Servers, state : {"running", "succeeded", "gaveUp"}]
    BY <2>1, <2>2
  <2> QED
    BY <2>3, <2>4 DEF AtMostOne
<1>3. msgs' \subseteq Events
  <2>1. MaxAt \in Nat \ {0} /\ played \in 0..MaxAt /\ msgs \subseteq Events
    BY DEF Backfill!BackfillAssumption, BackfillInvariant, BackfillTyped
  <2>2. (IF played = 0 THEN Backfill!BackfillFloor ELSE played) \in 1..MaxAt
    BY <2>1 DEF Backfill!BackfillFloor
  <2>3. [at |-> IF played = 0 THEN Backfill!BackfillFloor ELSE played, ended |-> played # 0] \in Events
    BY <2>2 DEF Events
  <2> QED
    BY <2>1, <2>3 DEF Backfill!RunBackfill
<1> QED
  BY <1>1, <1>2, <1>3 DEF BackfillInvariant, BackfillTyped, Backfill!NewestEventWins

LEMMA OutsideKeeps ==
  ASSUME Backfill!BackfillAssumption, BackfillInvariant, NEW m \in msgs, Backfill!RecordOutside(m)
  PROVE  BackfillInvariant'
<1>1. /\ msgs' = msgs \ {m} /\ row' = (IF m.at > row.at THEN m ELSE row) /\ handled' = handled \cup {m.at}
      /\ UNCHANGED <<spec, status, job, waits, listening, now, played>>
  BY DEF Backfill!RecordOutside
<1>2. m \in Events /\ MaxAt \in Nat /\ row \in [at : 0..MaxAt, ended : BOOLEAN] /\ handled \subseteq 1..MaxAt
      /\ \A second \in handled : second <= row.at
  BY DEF BackfillInvariant, BackfillTyped, Backfill!BackfillAssumption, Backfill!NewestEventWins
<1>3. m.at \in 1..MaxAt /\ m \in [at : 0..MaxAt, ended : BOOLEAN]
  BY <1>2 DEF Events
<1>4. \A second \in handled' : second <= row'.at
  BY <1>1, <1>2, <1>3
<1>5. row' \in [at : 0..MaxAt, ended : BOOLEAN] /\ handled' \subseteq 1..MaxAt /\ msgs' \subseteq Events
  BY <1>1, <1>2, <1>3 DEF BackfillInvariant, BackfillTyped
<1> QED
  BY <1>1, <1>4, <1>5 DEF BackfillInvariant, BackfillTyped, Backfill!NewestEventWins

LEMMA BackfillStep ==
  ASSUME Backfill!BackfillAssumption, BackfillInvariant, [Backfill!Next]_(Backfill!vars)
  PROVE  BackfillInvariant'
<1> USE DEF BackfillInvariant, Backfill!NewestEventWins, Backfill!outside
<1>1. CASE Backfill!EditCatalog
  BY <1>1 DEF Backfill!EditCatalog, BackfillTyped, AtMostOne
<1>2. CASE Backfill!StoreGoes \/ Backfill!StoreComes \/ Backfill!BackoffPasses
  BY <1>2 DEF Backfill!StoreGoes, Backfill!StoreComes, Backfill!BackoffPasses, BackfillTyped
<1>3. CASE Backfill!RetireSucceeded
  BY <1>3 DEF Backfill!RetireSucceeded, BackfillTyped, AtMostOne
<1>4. ASSUME NEW ended \in BOOLEAN, Backfill!PlayOutside(ended) PROVE BackfillInvariant'
  <2>1. MaxAt \in Nat /\ now \in 1..MaxAt /\ now < MaxAt
    BY <1>4 DEF Backfill!BackfillAssumption, BackfillTyped, Backfill!PlayOutside
  <2>2. now + 1 \in 1..MaxAt /\ now + 1 \in 0..MaxAt
    BY <2>1
  <2>3. [at |-> now + 1, ended |-> ended] \in Events
    BY <2>2 DEF Events
  <2> QED
    BY <1>4, <2>2, <2>3 DEF Backfill!PlayOutside, BackfillTyped
<1>5. ASSUME NEW m \in msgs, Backfill!LoseMessage(m) PROVE BackfillInvariant'
  BY <1>5 DEF Backfill!LoseMessage, BackfillTyped
<1>6. CASE UNCHANGED Backfill!vars
  BY <1>6 DEF Backfill!vars, BackfillTyped
<1> QED
  BY <1>1, <1>2, <1>3, <1>4, <1>5, <1>6, BackfillPassKeeps, RunKeeps, OutsideKeeps DEF Backfill!Next

\* What the store was told of, and the row it keeps.
THEOREM BackfillInductive == MediaAssumption => (Spec => [](focus = "backfill" => BackfillInvariant))
<1> SUFFICES ASSUME MediaAssumption PROVE Spec => [](focus = "backfill" => BackfillInvariant)
  OBVIOUS
<1> USE DEF MediaAssumption
<1>1. Init => (focus = "backfill" => BackfillInvariant)
  BY BackfillOnly, InitBackfill
<1>2. (focus = "backfill" => BackfillInvariant) /\ [Next]_vars => (focus = "backfill" => BackfillInvariant)'
  BY BackfillOnly, BackfillStep
<1> QED
  BY <1>1, <1>2, PTL DEF Spec

\* recordOutside: an outside row is the newest event the store was told of.  A backfill
\* that arrives after a play, or two posts out of order, rewind nothing.
THEOREM NewestTheorem == MediaAssumption => (Spec => []NewestEventWins)
<1>1. (focus = "backfill" => BackfillInvariant) => NewestEventWins
  BY DEF BackfillInvariant, NewestEventWins
<1> QED
  BY <1>1, BackfillInductive, PTL

\* Types: one server, one status and one Job at most.
THEOREM BackfillTypes == MediaAssumption => (Spec => [](focus = "backfill" => Backfill!TypeOK))
<1>1. ASSUME NEW S, NEW one \in AtMostOne(S) PROVE Backfill!Cardinality(one) <= 1 /\ one \subseteq S
  <2>1. Backfill!Cardinality(one) = Cardinality(one)
    BY DEF Backfill!Cardinality, Cardinality
  <2> QED
    BY <2>1, AtMostOneCounts
<1>2. BackfillInvariant => Backfill!TypeOK
  BY <1>1 DEF BackfillInvariant, BackfillTyped, Verdicts, Backfill!TypeOK
<1> QED
  BY <1>2, BackfillInductive, PTL

\* The Catalog's server is edited only where no backfill Job stands.
QuietEdit == focus = "backfill" /\ spec' # spec => job = {}
QuietEdits == [][QuietEdit]_vars

\* A Job is of the server the Catalog names, and read it if it says it finished; what the
\* status says is finished was read.
FinishIsTrue ==
    /\ \A j \in job : spec = {j.server} /\ (j.state = "succeeded" => j.server \in ran)
    /\ Backfill!FinishedWasRead

LEMMA FinishStep ==
  ASSUME BackfillInvariant, FinishIsTrue, spec' # spec => job = {},
         [Backfill!Next]_(Backfill!vars)
  PROVE  FinishIsTrue'
<1> USE DEF FinishIsTrue, Backfill!FinishedWasRead, Backfill!outside
<1>1. BackfillTyped
  BY DEF BackfillInvariant
<1>2. CASE Backfill!Pass
  <2>1. \A j \in job' : spec' = {j.server} /\ (j.state = "succeeded" => j.server \in ran)
    <3>1. spec' = spec
      BY <1>2 DEF Backfill!Pass, Backfill!RetireBackfill, Backfill!ReadBackfillJob,
         Backfill!StandBackfill
    <3>2. CASE job' \subseteq job
      BY <3>1, <3>2
    <3>3. CASE spec # {} /\ job' = {[server |-> Backfill!Server, state |-> "running"]}
      <4>1. spec = {Backfill!Server}
        <5>1. PICK s \in Servers : spec = {s}
          BY <1>1, <3>3 DEF BackfillTyped, AtMostOne
        <5> QED
          BY <5>1 DEF Backfill!Server
      <4> QED
        BY <3>1, <3>3, <4>1
    <3> QED
      BY <1>2, <3>2, <3>3 DEF Backfill!Pass, Backfill!RetireBackfill, Backfill!ReadBackfillJob,
         Backfill!StandBackfill
  <2>2. ran' = ran
    BY <1>2 DEF Backfill!Pass, Backfill!RetireBackfill, Backfill!ReadBackfillJob, Backfill!StandBackfill
  <2>3. \A given \in status' : given.backfill = "finished" => given.server \in ran
    <3>1. CASE spec # {} /\ job # {} /\ Backfill!State = "succeeded"
      <4>1. PICK j \in job : job = {j} /\ j \in [server : Servers, state : {"running", "succeeded", "gaveUp"}]
        BY <1>1, <3>1 DEF BackfillTyped, AtMostOne
      <4>2. {x.state : x \in job} = {j.state}
        BY <4>1
      <4>3. j.state = "succeeded"
        BY <3>1, <4>2 DEF Backfill!State
      <4>4. Backfill!Server = j.server
        <5>1. spec = {j.server}
          BY <4>1
        <5> QED
          BY <5>1 DEF Backfill!Server
      <4> QED
        BY <1>2, <3>1, <4>1, <4>3, <4>4 DEF Backfill!Pass, Backfill!RetireBackfill,
           Backfill!ReadBackfillJob, Backfill!StandBackfill, Backfill!Report, Backfill!Says
    <3>2. CASE ~(spec # {} /\ job # {} /\ Backfill!State = "succeeded")
      BY <1>2, <3>2 DEF Backfill!Pass, Backfill!RetireBackfill,
         Backfill!ReadBackfillJob, Backfill!StandBackfill, Backfill!Report, Backfill!Says
    <3> QED
      BY <3>1, <3>2
  <2> QED
    BY <2>1, <2>2, <2>3
<1>3. CASE Backfill!RunBackfill
  <2>1. status' = status /\ spec' = spec /\ ran \subseteq ran'
    BY <1>3 DEF Backfill!RunBackfill
  <2>2. \A j \in job' : spec' = {j.server} /\ (j.state = "succeeded" => j.server \in ran')
    <3>1. PICK j \in job : job = {j} /\ j \in [server : Servers, state : {"running", "succeeded", "gaveUp"}]
      BY <1>1, <1>3 DEF Backfill!RunBackfill, BackfillTyped, AtMostOne
    <3>2. CASE job' = {[x EXCEPT !.state = "succeeded"] : x \in job} /\ ran' = ran \cup {x.server : x \in job}
      BY <2>1, <3>1, <3>2
    <3>3. CASE job' = {[x EXCEPT !.state = "gaveUp"] : x \in job}
      BY <2>1, <3>1, <3>3
    <3> QED
      BY <1>3, <3>2, <3>3 DEF Backfill!RunBackfill
  <2> QED
    BY <2>1, <2>2
<1>4. CASE Backfill!EditCatalog \/ Backfill!StoreGoes \/ Backfill!StoreComes \/ Backfill!BackoffPasses
           \/ Backfill!RetireSucceeded
  BY <1>4 DEF Backfill!EditCatalog, Backfill!StoreGoes, Backfill!StoreComes, Backfill!BackoffPasses,
     Backfill!RetireSucceeded
<1>5. ASSUME NEW ended \in BOOLEAN, Backfill!PlayOutside(ended) PROVE FinishIsTrue'
  BY <1>5 DEF Backfill!PlayOutside
<1>6. ASSUME NEW m \in msgs, Backfill!RecordOutside(m) \/ Backfill!LoseMessage(m) PROVE FinishIsTrue'
  BY <1>6 DEF Backfill!RecordOutside, Backfill!LoseMessage
<1>7. CASE UNCHANGED Backfill!vars
  BY <1>7 DEF Backfill!vars
<1> QED
  BY <1>2, <1>3, <1>4, <1>5, <1>6, <1>7 DEF Backfill!Next

\* backfilledFrom: a status that says finished names a server that some Job read, under any
\* number of servers that a Catalog changes between where no Job stands.  An edit beside a
\* Job breaks it.
THEOREM FinishedTheorem ==
  MediaAssumption
      => (Spec /\ QuietEdits => [](focus = "backfill" => Backfill!FinishedWasRead))
<1> SUFFICES ASSUME MediaAssumption
             PROVE  Spec /\ QuietEdits => [](focus = "backfill" => Backfill!FinishedWasRead)
  OBVIOUS
<1>1. Init => (focus = "backfill" => FinishIsTrue)
  BY BackfillOnly DEF Backfill!Init, FinishIsTrue, Backfill!FinishedWasRead
<1>2. /\ focus = "backfill" => BackfillInvariant
      /\ focus = "backfill" => FinishIsTrue
      /\ [Next]_vars /\ [QuietEdit]_vars
      => (focus = "backfill" => FinishIsTrue)'
  <2> SUFFICES ASSUME focus = "backfill" => BackfillInvariant, focus = "backfill" => FinishIsTrue,
                      [Next]_vars, [QuietEdit]_vars, (focus = "backfill")'
               PROVE  FinishIsTrue'
    OBVIOUS
  <2>1. focus = "backfill" /\ [Backfill!Next]_(Backfill!vars)
    BY BackfillOnly
  <2>2. spec' # spec => job = {}
    BY <2>1 DEF QuietEdit, vars, backfillVars
  <2> QED
    BY <2>1, <2>2, FinishStep
<1>3. FinishIsTrue => Backfill!FinishedWasRead
  BY DEF FinishIsTrue
<1> QED
  BY <1>1, <1>2, <1>3, BackfillInductive, PTL DEF Spec, QuietEdits

-----------------------------------------------------------------------------
\* Every part keeps its types, whatever the behaviour is about: the TypeOK of the run.
THEOREM TypeCorrect == MediaAssumption => (Spec => []TypeOK)
<1>1. /\ OfStore => Store!TypeOK
      /\ focus = "bridge" => Bridge!TypeOK
      /\ focus = "backfill" => Backfill!TypeOK
      => TypeOK
  BY DEF TypeOK
<1> QED
  BY <1>1, StoreTypes, BridgeTypes, BackfillTypes, PTL
=============================================================================
