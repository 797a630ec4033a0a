------------------------------ MODULE Watched ------------------------------
(***************************************************************************)
(* An object of the API server, the copy of it in the store of a watch     *)
(* (watch.go, objectcache.go) and the memo of what this operator wrote or  *)
(* read (versionmemo.go), with the wake that ends the wait between two     *)
(* passes (operator.run of operatorprocess.go).  Stood and Providers add    *)
(* what a pass does with the object.                                       *)
(*                                                                         *)
(* An object is a set of at most one record.  A watch delivers every       *)
(* change, in the order of the API server, some time after it.             *)
(***************************************************************************)
EXTENDS Naturals, Sequences, FiniteSets

CONSTANTS
    Keys,     \* the objects
    Rule,     \* which change of each wakes the pass: edited, addedOrRemoved, readChanged
    Faults    \* bounds: how often each kind of mishap or edit may happen

WatchedAssumption ==
    /\ Rule \in [Keys -> {"edited", "addedOrRemoved", "readChanged"}]
    /\ \A bound \in Faults : \A kind \in DOMAIN bound : bound[kind] \in Nat

VARIABLES
    obj,      \* the API server's object: [ver, uid, gen, body]
    copy,     \* the store's: [at, obj], of the change numbered at
    queue,    \* the changes the watch did not deliver yet
    memo,     \* versionMemo.seen: {} is no record, {0} the empty version
    clock,    \* the number of the last change; a resourceVersion is a number
    last,     \* history: the number of this operator's last write of each
    wake,     \* the wake channel, which buffers one
    budget

watched == <<obj, copy, queue, memo, clock, last, wake, budget>>

Spend(kind) == budget[kind] > 0 /\ budget' = [budget EXCEPT ![kind] = @ - 1]

Empty(objects) ==
    /\ obj = objects
    /\ copy = [k \in Keys |-> [at |-> 1, obj |-> objects[k]]]
    /\ queue = [k \in Keys |-> <<>>]
    /\ memo = [k \in Keys |-> {}]
    /\ clock = 1
    /\ last = [k \in Keys |-> 0]
    /\ wake = FALSE
    /\ budget \in Faults

-----------------------------------------------------------------------------
(* The API server.                                                         *)

\* A change gets the next number, which is the version of the object it leaves.
Version(o) == [o EXCEPT !.ver = clock + 1]
Changes(k, objs) ==
    LET left == {Version(o) : o \in objs}
    IN  /\ obj' = [obj EXCEPT ![k] = left]
        /\ queue' = [queue EXCEPT ![k] = Append(@, [at |-> clock + 1, obj |-> left])]
        /\ clock' = clock + 1
\* The same, by this operator.
Writes(k, objs) == Changes(k, objs) /\ last' = [last EXCEPT ![k] = clock + 1]

\* A write that states a version other than the object's meets a conflict.
Holds(k, version) == \E o \in obj[k] : o.ver = version

-----------------------------------------------------------------------------
(* The watch.                                                              *)

The(objs) == CHOOSE o \in objs : TRUE

\* added, removed and updated, with the rule of the collection.
Wakes(k, was, now) ==
    \/ (was = {}) # (now = {})
    \/ /\ was # {} /\ now # {}
       /\ \/ Rule[k] = "edited" /\ (The(was).uid # The(now).uid \/ The(was).gen # The(now).gen)
          \/ Rule[k] = "readChanged" /\ The(was).body # The(now).body

NeverWakes(k) ==             \* mutant: the watch only fills the store
    /\ queue[k] # <<>>
    /\ copy' = [copy EXCEPT ![k] = Head(queue[k])]
    /\ queue' = [queue EXCEPT ![k] = Tail(@)]
    /\ UNCHANGED <<obj, memo, clock, last, wake, budget>>
Deliver(k) ==
    /\ queue[k] # <<>>
    /\ copy' = [copy EXCEPT ![k] = Head(queue[k])]
    /\ queue' = [queue EXCEPT ![k] = Tail(@)]
    /\ wake' = (wake \/ Wakes(k, copy[k].obj, Head(queue[k]).obj))
    /\ UNCHANGED <<obj, memo, clock, last, budget>>

-----------------------------------------------------------------------------
(* The memo.                                                               *)

AnyCopy(k) == copy[k].obj # {}   \* mutant: no memo, the store's copy is current
Current(k) == \E o \in copy[k].obj : memo[k] \in {{}, {o.ver}}

\* versionMemo.send: the version of the answer, or the empty one.
NoteBeside(k, version) ==    \* mutant: the version stands beside the one before
    memo' = [memo EXCEPT ![k] = @ \cup {version}]
Note(k, version) == memo' = [memo EXCEPT ![k] = {version}]
Forget(k) == memo' = [memo EXCEPT ![k] = {}]

\* A new process: startWatches and settle, with a memo of its own.
Settled ==
    /\ copy' = [k \in Keys |-> [at |-> clock, obj |-> obj[k]]]
    /\ queue' = [k \in Keys |-> <<>>]
    /\ memo' = [k \in Keys |-> {}]

-----------------------------------------------------------------------------
\* Types.
WatchedTypeOK ==
    /\ DOMAIN obj = Keys /\ DOMAIN copy = Keys
    /\ \A k \in Keys :
           /\ Cardinality(obj[k]) <= 1 /\ \A o \in obj[k] : o.ver <= clock
           /\ copy[k].at <= clock /\ last[k] <= clock
           /\ Cardinality(memo[k]) <= 1 /\ memo[k] \subseteq 0..clock
    /\ wake \in BOOLEAN

\* The store's copy of an object is the API server's once every change of it is
\* delivered.
CopyCatchesUp == \A k \in Keys : queue[k] = <<>> => copy[k].obj = obj[k]
=============================================================================
