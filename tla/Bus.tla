-------------------------------- MODULE Bus --------------------------------
(***************************************************************************)
(* One bus client (bus.go) of a role with a last will (progress.go, serve  *)
(* and onConnect): a session is a reader, a writer and a bounded queue     *)
(* between the publishing goroutines and the one connection.  Run replaces *)
(* a session that ended by the next.  The broker is external: it knows one *)
(* session of a client, and publishes the will of one that did not end     *)
(* with a DISCONNECT, which this client never sends.                       *)
(***************************************************************************)
EXTENDS Naturals, Sequences, FiniteSets, SequencesExt

CONSTANTS
    Filters,    \* the filters of subscribe
    Depth,      \* busQueueDepth
    Sessions,   \* bound: how many sessions the client gets
    Messages    \* bound: how many messages arrive

BusAssumption ==
    /\ IsFiniteSet(Filters)
    /\ {Depth, Sessions} \subseteq Nat \ {0} /\ Messages \in Nat

VARIABLES
    run,      \* Bus.Run and serve: "on", "told" (the stop), "ending" (stopBus), "done"
    at,       \* runSession: "down", "hello", "open", "resub", "reading", "closing"
    conn,     \* whether the TCP connection stands
    n,        \* the number of the session, or of the last one
    out,      \* Bus.out: 0 while disconnected, else the session whose queue it is
    queue,    \* the frames in the queue of the session
    filters,  \* the remembered filters
    pending,  \* resubscribe: the frames still to enqueue
    thread,   \* a goroutine in Subscribe, past the lock: a set of [filter, out]
    broker,   \* the broker's view: its session of the client, subs, the retained mark
    handling, \* whether the reader is inside the handler
    lost,     \* history: whether a frame of this session met a full queue
    messages

vars == <<run, at, conn, n, out, queue, filters, pending, thread, broker,
          handling, lost, messages>>

Sub(f) == <<"sub", f>>
Mark(v) == <<"mark", v>>

Init ==
    /\ run = "on" /\ at = "down" /\ conn = FALSE /\ n = 0 /\ out = 0
    /\ queue = <<>>
    /\ filters = {} /\ pending = <<>> /\ thread = {}
    /\ broker = [session |-> 0, subs |-> {}, mark |-> "none"]
    /\ handling = FALSE /\ lost = FALSE /\ messages = Messages

-----------------------------------------------------------------------------
(* The goroutines that publish and subscribe.                              *)

\* The queue takes a frame, or drops it where it is full.  The queue of a session
\* that ended is read by nobody, so a frame put there is gone.
Enqueue(s, frame) ==
    IF s # out THEN UNCHANGED <<queue, lost>>
    ELSE IF Len(queue) < Depth THEN queue' = Append(queue, frame) /\ UNCHANGED lost
    ELSE lost' = TRUE /\ UNCHANGED queue

\* Subscribe, under the mutex: the filter is remembered, and out is read.
Subscribe(f) ==
    /\ f \notin filters
    /\ filters' = filters \cup {f}
    /\ thread' = IF out = 0 THEN thread ELSE thread \cup {[filter |-> f, out |-> out]}
    /\ UNCHANGED <<run, at, conn, n, out, queue, pending, broker, handling, lost, messages>>

\* Its last statement, after the lock.
SubscribeSends ==
    \E t \in thread :
        /\ thread' = thread \ {t}
        /\ Enqueue(t.out, Sub(t.filter))
        /\ UNCHANGED <<run, at, conn, n, out, filters, pending, broker, handling, messages>>

\* serve: the stop publishes the role offline, where there is a session.
Told ==
    /\ run = "on"
    /\ run' = "told"
    /\ IF out = 0 THEN UNCHANGED <<queue, lost>> ELSE Enqueue(out, Mark("offline"))
    /\ UNCHANGED <<at, conn, n, out, filters, pending, thread, broker, handling, messages>>

\* stopBus, after the grace: the context ends, and with it the connection of an
\* open session (context.AfterFunc), whose will the broker publishes.
StopBus ==
    /\ run = "told"
    /\ run' = "ending"
    /\ conn' = (conn /\ at = "hello")
    /\ UNCHANGED <<at, n, out, queue, filters, pending, thread, broker, handling, lost, messages>>

-----------------------------------------------------------------------------
(* runSession.                                                             *)

\* dial and CONNECT.  The broker ends an older session of the client first.
Dial ==
    /\ run \in {"on", "told"} /\ at = "down" /\ n < Sessions
    /\ at' = "hello" /\ conn' = TRUE /\ n' = n + 1 /\ lost' = FALSE
    /\ broker' = [session |-> n + 1, subs |-> {},
                  mark |-> IF broker.session = 0 THEN broker.mark ELSE "offline"]
    /\ UNCHANGED <<run, out, queue, filters, pending, thread, handling, messages>>

\* CONNACK: publishes have a queue from here on.
Open ==
    /\ at = "hello" /\ conn
    /\ at' = "open" /\ out' = n
    /\ conn' = (run # "ending")
    /\ UNCHANGED <<run, n, queue, filters, pending, thread, broker, handling, lost, messages>>

\* No CONNACK: the handshake failed.
Refused ==
    /\ at = "hello" /\ ~conn
    /\ at' = "down"
    /\ UNCHANGED <<run, conn, n, out, queue, filters, pending, thread, broker, handling, lost, messages>>

\* resubscribe, under the mutex: the remembered filters in an order of their own.
SnapshotOnce ==                    \* mutant: only the first session subscribes
    /\ at = "open"
    /\ pending' = IF n = 1 THEN SetToSeq(filters) ELSE <<>>
    /\ at' = "resub"
    /\ UNCHANGED <<run, conn, n, out, queue, filters, thread, broker, handling, lost, messages>>
Snapshot ==
    /\ at = "open"
    /\ pending' = SetToSeq(filters)
    /\ at' = "resub"
    /\ UNCHANGED <<run, conn, n, out, queue, filters, thread, broker, handling, lost, messages>>

\* Its frames one by one, then onConnect, then the read loop.
Resubscribe ==
    /\ at = "resub"
    /\ IF pending = <<>>
       THEN /\ at' = "reading"
            /\ Enqueue(n, Mark("online"))
            /\ UNCHANGED pending
       ELSE /\ pending' = Tail(pending)
            /\ Enqueue(n, Sub(Head(pending)))
            /\ UNCHANGED at
    /\ UNCHANGED <<run, conn, n, out, filters, thread, broker, handling, messages>>

\* writeLoop: the head of the queue goes out, and the broker takes it.
WriterSends ==
    /\ at \in {"open", "resub", "reading"} /\ conn /\ queue # <<>>
    /\ queue' = Tail(queue)
    /\ LET frame == Head(queue)
       IN  broker' = IF frame[1] = "sub" THEN [broker EXCEPT !.subs = @ \cup {frame[2]}]
                     ELSE [broker EXCEPT !.mark = frame[2]]
    /\ UNCHANGED <<run, at, conn, n, out, filters, pending, thread, handling, lost, messages>>

\* readLoop hands a message to the handler, which holds up all that follow.
Deliver ==
    /\ at = "reading" /\ conn /\ ~handling /\ broker.subs # {} /\ messages > 0
    /\ messages' = messages - 1
    /\ handling' = TRUE
    /\ UNCHANGED <<run, at, conn, n, out, queue, filters, pending, thread, broker, lost>>

Handled ==
    /\ handling
    /\ handling' = FALSE
    /\ UNCHANGED <<run, at, conn, n, out, queue, filters, pending, thread, broker, lost, messages>>

\* The network or the broker ends the connection; the keepalive finds a silent
\* one.
Break ==
    /\ conn
    /\ conn' = FALSE
    /\ UNCHANGED <<run, at, n, out, queue, filters, pending, thread, broker, handling, lost, messages>>

\* The reader's read fails: it waits for the writer, and publishes have no queue.
Close ==
    /\ at = "reading" /\ ~conn /\ ~handling
    /\ at' = "closing" /\ out' = 0 /\ queue' = <<>>
    /\ UNCHANGED <<run, conn, n, filters, pending, thread, broker, handling, lost, messages>>

Closed ==
    /\ at = "closing"
    /\ at' = "down"
    /\ UNCHANGED <<run, conn, n, out, queue, filters, pending, thread, broker, handling, lost, messages>>

\* The broker notices the end of a connection, and publishes the will.
WillLost ==                        \* mutant: encodeConnect names no will
    /\ broker.session = n /\ ~conn /\ n > 0
    /\ broker' = [broker EXCEPT !.session = 0, !.subs = {}]
    /\ UNCHANGED <<run, at, conn, n, out, queue, filters, pending, thread, handling, lost, messages>>
BrokerNotices ==
    /\ broker.session = n /\ ~conn /\ n > 0
    /\ broker' = [session |-> 0, subs |-> {}, mark |-> "offline"]
    /\ UNCHANGED <<run, at, conn, n, out, queue, filters, pending, thread, handling, lost, messages>>

\* Run returns once the context ended and no session is open.
Return ==
    /\ run = "ending" /\ at = "down"
    /\ run' = "done"
    /\ UNCHANGED <<at, conn, n, out, queue, filters, pending, thread, broker, handling, lost, messages>>

Session == Open \/ Refused \/ Snapshot \/ Resubscribe \/ Close \/ Closed
Next ==
    \/ \E f \in Filters : Subscribe(f)
    \/ SubscribeSends \/ Told \/ StopBus
    \/ Dial \/ Session \/ WriterSends \/ Deliver \/ Handled
    \/ Break \/ BrokerNotices \/ Return

\* Goroutines run, a handler returns, a broker notices a lost connection.
Fairness ==
    /\ WF_vars(StopBus) /\ WF_vars(Session) /\ WF_vars(Handled)
    /\ WF_vars(BrokerNotices) /\ WF_vars(Return)

Spec == Init /\ [][Next]_vars /\ Fairness

-----------------------------------------------------------------------------
\* Types.
TypeOK ==
    /\ run \in {"on", "told", "ending", "done"}
    /\ at \in {"down", "hello", "open", "resub", "reading", "closing"}
    /\ conn \in BOOLEAN /\ n \in 0..Sessions /\ out \in 0..n
    /\ Len(queue) <= Depth
    /\ filters \subseteq Filters /\ ToSet(pending) \subseteq Filters
    /\ broker.session \in {0, n} /\ broker.subs \subseteq filters

\* Every remembered filter reaches the broker of the session that is open, once
\* its queue is drained, whatever the order of a Subscribe and of a reconnect;
\* and the retained mark is online while nobody stopped it, for the will of an
\* older session does not overwrite it.  A full queue drops a frame until the next
\* session.
Drained == at = "reading" /\ conn /\ queue = <<>> /\ thread = {} /\ ~lost
SessionIsWhole ==
    Drained => broker.subs = filters /\ (run = "on" => broker.mark = "online")

\* A stop ends the client, and the role is offline for good: stepDown waits for
\* this before it releases the Lease.
Stopped == run = "done" /\ (n > 0 => broker.mark = "offline")
StopEnds == run = "told" ~> Stopped
=============================================================================
