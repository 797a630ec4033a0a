-------------------------- MODULE Operator_proofs ---------------------------
(***************************************************************************)
(* The operator, for every number of processes, filters and mishaps, and   *)
(* every timing of the Lease.  No two processes act at once; a session of  *)
(* the bus hears every filter; a pass leaves an object alone, or writes    *)
(* over it, only on what it read; a provider is called as its cadence      *)
(* says, and one undisturbed pass settles its status.  A behaviour of the  *)
(* sum is one of one part: what a part's steps keep, the sum keeps where   *)
(* it is about it.                                                         *)
(***************************************************************************)
EXTENDS Operator, SequencesExt, FiniteSetTheorems, SequenceTheorems, TLAPS

\* Which behaviours are about a process, about an object and about a provider.
OfALeader == focus \in {"leader", "late"}
OfAnObject == focus \in {"object", "waked"}
OfAProvider == focus \in {"provider", "unread"}

LEMMA LeaderOnly ==
  /\ Init /\ OfALeader => Leader!Init
  /\ [Next]_vars /\ (OfALeader)' => OfALeader /\ [Leader!Next]_(Leader!vars)
<1>1. Init /\ OfALeader => Leader!Init
  BY DEF Init, OfALeader
<1>2. ASSUME [Next]_vars, (OfALeader)' PROVE OfALeader /\ [Leader!Next]_(Leader!vars)
  <2>1. CASE UNCHANGED vars
    BY <1>2, <2>1 DEF vars, OfALeader, leaderVars, Leader!vars
  <2>2. CASE Next
    BY <1>2, <2>2 DEF Next, OfLeader, OfBus, OfObject, OfProvider, About, OfALeader
  <2> QED
    BY <1>2, <2>1, <2>2
<1> QED
  BY <1>1, <1>2

LEMMA ClientOnly ==
  /\ Init /\ focus = "bus" => Client!Init
  /\ [Next]_vars /\ (focus = "bus")' => focus = "bus" /\ [Client!Next]_(Client!vars)
<1>1. Init /\ focus = "bus" => Client!Init
  BY DEF Init
<1>2. ASSUME [Next]_vars, (focus = "bus")' PROVE focus = "bus" /\ [Client!Next]_(Client!vars)
  <2>1. CASE UNCHANGED vars
    BY <1>2, <2>1 DEF vars, busVars, Client!vars
  <2>2. CASE Next
    BY <1>2, <2>2 DEF Next, OfLeader, OfBus, OfObject, OfProvider, About
  <2> QED
    BY <1>2, <2>1, <2>2
<1> QED
  BY <1>1, <1>2

LEMMA ObjectOnly ==
  /\ Init /\ OfAnObject => Object!Init
  /\ [Next]_vars /\ (OfAnObject)' => OfAnObject /\ [Object!Next]_(Object!vars)
<1>1. Init /\ OfAnObject => Object!Init
  BY DEF Init, OfAnObject
<1>2. ASSUME [Next]_vars, (OfAnObject)' PROVE OfAnObject /\ [Object!Next]_(Object!vars)
  <2>1. CASE UNCHANGED vars
    BY <1>2, <2>1 DEF vars, OfAnObject, watchVars, Object!vars, Object!watched
  <2>2. CASE Next
    BY <1>2, <2>2 DEF Next, OfLeader, OfBus, OfObject, OfProvider, About, OfAnObject
  <2> QED
    BY <1>2, <2>1, <2>2
<1> QED
  BY <1>1, <1>2

LEMMA ProviderOnly ==
  /\ Init /\ OfAProvider => Provider!Init
  /\ [Next]_vars /\ (OfAProvider)' => OfAProvider /\ [Provider!Next]_(Provider!vars)
<1>1. Init /\ OfAProvider => Provider!Init
  BY DEF Init, OfAProvider
<1>2. ASSUME [Next]_vars, (OfAProvider)' PROVE OfAProvider /\ [Provider!Next]_(Provider!vars)
  <2>1. CASE UNCHANGED vars
    BY <1>2, <2>1 DEF vars, OfAProvider, watchVars, checkVars, Provider!vars, Provider!watched
  <2>2. CASE Next
    BY <1>2, <2>2 DEF Next, OfLeader, OfBus, OfObject, OfProvider, About, OfAProvider
  <2> QED
    BY <1>2, <2>1, <2>2
<1> QED
  BY <1>1, <1>2

-----------------------------------------------------------------------------
(* What the parts share.                                                   *)

\* One of S, or none.
AtMostOne(S) == {{}} \cup {{s} : s \in S}

LEMMA AtMostOneCounts ==
  ASSUME NEW S, NEW one \in AtMostOne(S)
  PROVE  Cardinality(one) <= 1 /\ one \subseteq S
<1>1. CASE one = {}
  BY <1>1, FS_EmptySet
<1>2. ASSUME NEW s \in S, one = {s} PROVE Cardinality(one) <= 1 /\ one \subseteq S
  BY <1>2, FS_Singleton
<1> QED
  BY <1>1, <1>2 DEF AtMostOne

-----------------------------------------------------------------------------

Ats == {"unborn", "waiting", "leading", "losing", "quieting", "releasing", "clearing",
        "gone"}
Reads == {"none", "fresh", "stale"}
States == [at : Ats, age : 0..Leader!ExitBy, seen : 0..Duration, read : Reads, tries : 0..Tries,
           clean : BOOLEAN]

\* The Lease names nobody, or one process.
OneHolder == holder = {} \/ \E p \in Procs : holder = {p}

LeaseTyped == OneHolder /\ proc \in [Procs -> States] /\ flight \in [Procs -> Reads]

\* A write that the Lease would take is its holder's: a renewal under way, or the
\* write of a release.
FreshIsTheHolders(p) ==
    /\ flight[p] = "fresh" => holder = {p}
    /\ Leader!Releasing(p) /\ proc[p].read = "fresh" => holder = {p}

\* What makes the read of a process that steps down stale, while the Lease still
\* names it, is its own last renewal: clearIfHeld meets that conflict once.
ConflictsOnce(p) ==
    holder = {p} =>
        /\ Leader!Releasing(p) /\ proc[p].read = "stale" => flight[p] # "fresh"
        /\ proc[p].at = "clearing" /\ proc[p].tries < Tries =>
               flight[p] # "fresh" /\ proc[p].read # "stale"

TriesAreWhole(p) == proc[p].at = "releasing" => proc[p].tries = Tries
CleanStepsDown(p) == proc[p].clean => proc[p].at \in {"releasing", "clearing", "gone"}
LeavesFree(p) == Tries > 1 /\ proc[p].at = "gone" /\ proc[p].clean => holder # {p}

Steps(p) ==
    /\ FreshIsTheHolders(p) /\ ConflictsOnce(p) /\ TriesAreWhole(p)
    /\ CleanStepsDown(p) /\ LeavesFree(p)
LeaseInvariant == LeaseTyped /\ \A p \in Procs : Steps(p)

\* The process that acts holds the Lease, and no waiting copy saw the Lease
\* unchanged for longer than the holder has been without a renewal.
NoLateRelease ==
    /\ budget \in [{"crash", "refused", "late", "lateRelease"} -> Nat]
    /\ budget["lateRelease"] = 0
ActorHolds(p) == Leader!Acts(p) => holder = {p}
StartsUnread(p) == proc[p].at = "unborn" => proc[p].read # "fresh"
ClocksAgree(p, q) ==
    Leader!Acts(p) /\ proc[q].at = "waiting" /\ proc[q].read = "fresh" =>
        proc[q].seen <= proc[p].age

ActInvariant ==
    /\ NoLateRelease
    /\ \A p \in Procs : ActorHolds(p) /\ StartsUnread(p)
    /\ \A p, q \in Procs : ClocksAgree(p, q)

-----------------------------------------------------------------------------
(* Types, and what the helpers return.                                     *)

LEMMA Timings ==
  ASSUME Leader!LeadershipAssumption
  PROVE  /\ Duration \in Nat /\ Tries \in Nat /\ Leader!GiveUpAt \in Nat /\ Leader!ExitBy \in Nat
         /\ Duration > 0 /\ Tries > 0 /\ Leader!GiveUpAt <= Leader!ExitBy
         /\ 0 \in 0..Duration /\ 0 \in 0..Leader!ExitBy
BY DEF Leader!LeadershipAssumption, Leader!GiveUpAt, Leader!ExitBy

\* The type invariant that the runs check follows.
LEMMA LeaseIsTyped == LeaseTyped => Leader!TypeOK
<1> SUFFICES ASSUME LeaseTyped PROVE Leader!TypeOK
  OBVIOUS
<1>1. CASE holder = {}
  <2>1. Leader!Cardinality({}) = 0
    BY FS_EmptySet DEF Leader!Cardinality, Cardinality
  <2> QED
    BY <1>1, <2>1 DEF Leader!TypeOK, LeaseTyped, States, Ats, Reads
<1>2. ASSUME NEW p \in Procs, holder = {p} PROVE Leader!TypeOK
  <2>1. Leader!Cardinality({p}) = 1
    BY FS_Singleton DEF Leader!Cardinality, Cardinality
  <2> QED
    BY <1>2, <2>1 DEF Leader!TypeOK, LeaseTyped, States, Ats, Reads
<1> QED
  BY <1>1, <1>2 DEF LeaseTyped, OneHolder

LEMMA UnbornFields ==
  ASSUME Leader!LeadershipAssumption
  PROVE  /\ Leader!Unborn \in States
         /\ Leader!Unborn.at = "unborn" /\ Leader!Unborn.age = 0 /\ Leader!Unborn.seen = 0
         /\ Leader!Unborn.read = "none" /\ Leader!Unborn.tries = Tries /\ Leader!Unborn.clean = FALSE
BY Timings DEF Leader!Unborn, States, Ats, Reads

\* Of a process that is gone, how it went is kept and nothing else.
LEMMA GoneFields ==
  ASSUME Leader!LeadershipAssumption, NEW clean \in BOOLEAN
  PROVE  /\ Leader!Gone(clean) \in States
         /\ Leader!Gone(clean).at = "gone" /\ Leader!Gone(clean).clean = clean
         /\ Leader!Gone(clean).read = "none"
BY UnbornFields DEF Leader!Gone, States, Ats

\* A process that goes on keeps its clocks, its read and its tries.
LEMMA AtFields ==
  ASSUME Leader!LeadershipAssumption, NEW state \in States, NEW to \in Ats
  PROVE  /\ Leader!At(state, to) \in States
         /\ Leader!At(state, to).at = to /\ Leader!At(state, to).clean = state.clean
         /\ to = "gone" => Leader!At(state, to).read = "none"
         /\ to # "gone" => /\ Leader!At(state, to).read = state.read
                           /\ Leader!At(state, to).age = state.age
                           /\ Leader!At(state, to).seen = state.seen
                           /\ Leader!At(state, to).tries = state.tries
<1>1. CASE to = "gone"
  <2>1. state.clean \in BOOLEAN
    BY DEF States
  <2> QED
    BY <1>1, <2>1, GoneFields DEF Leader!At
<1>2. CASE to # "gone"
  BY <1>2 DEF Leader!At, States, Ats, Reads
<1> QED
  BY <1>1, <1>2

\* Every process but the writer keeps all but the version it read.
LEMMA OvertakenFields ==
  ASSUME LeaseTyped, NEW p \in Procs, NEW own \in States, proc' = Leader!Overtaken(p, own)
  PROVE  /\ proc' \in [Procs -> States]
         /\ proc'[p] = own
         /\ \A q \in Procs \ {p} :
                /\ proc'[q].at = proc[q].at /\ proc'[q].age = proc[q].age
                /\ proc'[q].tries = proc[q].tries /\ proc'[q].clean = proc[q].clean
                /\ proc'[q].read # "fresh"
<1> DEFINE other(q) == [proc[q] EXCEPT !.read = Leader!Old(@)]
<1>1. ASSUME NEW q \in Procs
      PROVE  /\ other(q) \in States
             /\ other(q).at = proc[q].at /\ other(q).age = proc[q].age
             /\ other(q).tries = proc[q].tries /\ other(q).clean = proc[q].clean
             /\ other(q).read # "fresh"
  <2>1. proc[q] \in States
    BY DEF LeaseTyped
  <2>2. Leader!Old(proc[q].read) \in Reads /\ Leader!Old(proc[q].read) # "fresh"
    BY DEF Leader!Old, Reads
  <2> QED
    BY <2>1, <2>2 DEF States
<1>2. proc' = [q \in Procs |-> IF q = p THEN own ELSE other(q)]
  BY DEF Leader!Overtaken
<1> HIDE DEF other
<1> QED
  BY <1>1, <1>2

\* No renewal under way carries the Lease's version after a write of it.
LEMMA StaleFields ==
  ASSUME LeaseTyped
  PROVE  Leader!Stale \in [Procs -> Reads] /\ \A q \in Procs : Leader!Stale[q] # "fresh"
BY DEF Leader!Stale, Leader!Old, Reads

-----------------------------------------------------------------------------
(* The two kinds of steps of one process: it leaves the Lease as it is, or *)
(* writes it.                                                              *)

LEMMA Leaves ==
  ASSUME LeaseInvariant, NEW p \in Procs, NEW own \in States,
         proc' = [proc EXCEPT ![p] = own], holder' = holder,
         flight' \in [Procs -> Reads], \A q \in Procs \ {p} : flight'[q] = flight[q],
         Steps(p)'
  PROVE  LeaseInvariant'
<1>1. proc' \in [Procs -> States] /\ \A q \in Procs \ {p} : proc'[q] = proc[q]
  BY DEF LeaseInvariant, LeaseTyped
<1>2. LeaseTyped'
  BY <1>1 DEF LeaseInvariant, LeaseTyped, OneHolder
<1>3. ASSUME NEW q \in Procs PROVE Steps(q)'
  <2>1. CASE q = p
    BY <2>1
  <2>2. CASE q # p
    <3>1. proc'[q] = proc[q] /\ flight'[q] = flight[q]
      BY <1>1, <2>2
    <3> QED
      BY <3>1 DEF LeaseInvariant, Steps, FreshIsTheHolders, ConflictsOnce,
                  TriesAreWhole, CleanStepsDown, LeavesFree, Leader!Releasing
  <2> QED
    BY <2>1, <2>2
<1> QED
  BY <1>2, <1>3 DEF LeaseInvariant

\* A write meets no fresh read of another process, and leaves the Lease to the
\* writer or to nobody.
LEMMA Writes ==
  ASSUME LeaseInvariant, NEW p \in Procs, NEW own \in States,
         proc' = Leader!Overtaken(p, own), holder' \in {{}, {p}},
         flight' \in [Procs -> Reads], \A q \in Procs : flight'[q] # "fresh",
         Steps(p)'
  PROVE  LeaseInvariant'
<1> DEFINE others ==
      \A q \in Procs \ {p} :
          /\ proc'[q].at = proc[q].at /\ proc'[q].tries = proc[q].tries
          /\ proc'[q].clean = proc[q].clean
          /\ proc'[q].read # "fresh"
<1>1. proc' \in [Procs -> States] /\ others
  BY OvertakenFields DEF LeaseInvariant
<1>2. LeaseTyped'
  BY <1>1 DEF LeaseTyped, OneHolder
<1>3. ASSUME NEW q \in Procs PROVE Steps(q)'
  <2>1. CASE q = p
    BY <2>1
  <2>2. CASE q # p
    <3>1. holder' # {q}
      BY <2>2
    <3>2. /\ proc'[q].at = proc[q].at /\ proc'[q].tries = proc[q].tries
          /\ proc'[q].clean = proc[q].clean
          /\ proc'[q].read # "fresh" /\ flight'[q] # "fresh"
      BY <1>1, <2>2
    <3> QED
      BY <3>1, <3>2 DEF LeaseInvariant, Steps, FreshIsTheHolders, ConflictsOnce,
                        TriesAreWhole, CleanStepsDown, LeavesFree, Leader!Releasing
  <2> QED
    BY <2>1, <2>2
<1> QED
  BY <1>2, <1>3 DEF LeaseInvariant

\* A process goes on to the next thing and writes nothing.
LEMMA GoesOn ==
  ASSUME Leader!LeadershipAssumption, LeaseInvariant, NEW p \in Procs,
         NEW state \in States, NEW to \in Ats,
         proc' = [proc EXCEPT ![p] = Leader!At(state, to)], UNCHANGED <<holder, flight>>,
         to # "releasing", to = "clearing" => state.read = "none",
         to = "clearing" /\ holder = {p} /\ state.tries < Tries => flight[p] # "fresh",
         state.clean => to \in {"clearing", "gone"},
         Tries > 1 /\ to = "gone" /\ state.clean => holder # {p}
  PROVE  LeaseInvariant'
<1> DEFINE own == Leader!At(state, to)
<1>1. /\ own \in States /\ own.at = to /\ own.clean = state.clean
      /\ to # "gone" => own.read = state.read /\ own.tries = state.tries
  BY AtFields
<1>2. proc' = [proc EXCEPT ![p] = own]
  OBVIOUS
<1> HIDE DEF own
<1>3. proc'[p] = own
  BY <1>2 DEF LeaseInvariant, LeaseTyped
<1>4. Steps(p)'
  BY <1>1, <1>3 DEF LeaseInvariant, Steps, FreshIsTheHolders, ConflictsOnce,
                    TriesAreWhole, CleanStepsDown, LeavesFree, Leader!Releasing
<1>5. flight' \in [Procs -> Reads] /\ \A q \in Procs \ {p} : flight'[q] = flight[q]
  BY DEF LeaseInvariant, LeaseTyped
<1> QED
  BY <1>1, <1>2, <1>4, <1>5, Leaves

-----------------------------------------------------------------------------
(* The invariant of the Lease, action by action.                           *)

LEMMA InitLease == Leader!LeadershipAssumption /\ Leader!Init => LeaseInvariant
<1> SUFFICES ASSUME Leader!LeadershipAssumption, Leader!Init PROVE LeaseInvariant
  OBVIOUS
<1>1. \A p \in Procs : proc[p] = Leader!Unborn /\ flight[p] = "none"
  BY DEF Leader!Init
<1>2. LeaseTyped
  BY UnbornFields DEF Leader!Init, LeaseTyped, OneHolder, Reads
<1> QED
  BY <1>1, <1>2, UnbornFields
     DEF LeaseInvariant, Steps, FreshIsTheHolders, ConflictsOnce, TriesAreWhole,
         CleanStepsDown, LeavesFree, Leader!Releasing

LEMMA WaitsLease ==
  ASSUME Leader!LeadershipAssumption, LeaseInvariant, NEW p \in Procs, Leader!Waits(p)
  PROVE  LeaseInvariant'
<1>1. /\ proc[p] \in States /\ proc \in [Procs -> States]
      /\ flight \in [Procs -> Reads] /\ Steps(p)
  BY DEF LeaseInvariant, LeaseTyped
<1>2. CASE Leader!Start(p)
  <2>1. proc' = [proc EXCEPT ![p] = Leader!At(proc[p], "waiting")] /\ ~proc[p].clean
    BY <1>1, <1>2 DEF Leader!Start, Leader!Goes, Steps, CleanStepsDown
  <2> QED
    BY <1>1, <1>2, <2>1, GoesOn DEF Leader!Start, Ats
<1>3. CASE Leader!Look(p)
  <2> DEFINE own == [proc[p] EXCEPT !.read = "fresh", !.seen = 0]
  <2>1. own \in States /\ own.at = "waiting" /\ own.clean = proc[p].clean
    BY <1>1, <1>3, Timings DEF Leader!Look, States, Reads
  <2>2. proc' = [proc EXCEPT ![p] = own] /\ proc'[p] = own
    BY <1>1, <1>3 DEF Leader!Look
  <2> HIDE DEF own
  <2>3. Steps(p)'
    BY <1>1, <1>3, <2>1, <2>2 DEF Leader!Look, Steps, FreshIsTheHolders, ConflictsOnce,
         TriesAreWhole, CleanStepsDown, LeavesFree, Leader!Releasing
  <2> QED
    BY <1>1, <1>3, <2>1, <2>2, <2>3, Leaves DEF Leader!Look
<1>4. CASE Leader!Take(p)
  <2> DEFINE own == [proc[p] EXCEPT !.at = "leading", !.seen = 0, !.read = "none"]
  <2>1. own \in States /\ own.at = "leading" /\ own.clean = proc[p].clean
    BY <1>1, Timings DEF States, Reads, Ats
  <2>2. proc' = Leader!Overtaken(p, own) /\ holder' = {p} /\ flight' = Leader!Stale
    BY <1>4 DEF Leader!Take
  <2> HIDE DEF own
  <2>3. proc'[p] = own
    BY <2>2 DEF Leader!Overtaken
  <2>4. flight' \in [Procs -> Reads] /\ \A q \in Procs : flight'[q] # "fresh"
    BY <2>2, StaleFields DEF LeaseInvariant
  <2>5. Steps(p)'
    BY <1>1, <1>4, <2>1, <2>3, <2>4 DEF Leader!Take, Steps, FreshIsTheHolders, ConflictsOnce,
         TriesAreWhole, CleanStepsDown, LeavesFree, Leader!Releasing
  <2> QED
    BY <2>1, <2>2, <2>4, <2>5, Writes
<1>5. CASE Leader!StopWaiting(p)
  <2>1. proc' = [proc EXCEPT ![p] = Leader!At(proc[p], "gone")] /\ ~proc[p].clean
    BY <1>1, <1>5 DEF Leader!StopWaiting, Leader!Goes, Steps, CleanStepsDown
  <2> QED
    BY <1>1, <1>5, <2>1, GoesOn DEF Leader!StopWaiting, Ats
<1> QED
  BY <1>2, <1>3, <1>4, <1>5 DEF Leader!Waits

LEMMA LeadsLease ==
  ASSUME Leader!LeadershipAssumption, LeaseInvariant, NEW p \in Procs, Leader!Leads(p)
  PROVE  LeaseInvariant'
<1>1. /\ proc[p] \in States /\ proc \in [Procs -> States]
      /\ flight \in [Procs -> Reads] /\ Steps(p)
  BY DEF LeaseInvariant, LeaseTyped
<1>2. CASE Leader!Renew(p)
  <2> DEFINE own == [proc[p] EXCEPT !.age = 0, !.read = "none"]
  <2>1. own \in States /\ own.at = proc[p].at /\ own.clean = proc[p].clean
    BY <1>1, Timings DEF States, Reads
  <2>2. proc' = Leader!Overtaken(p, own) /\ holder' = {p} /\ flight' = Leader!Stale
    BY <1>2 DEF Leader!Renew
  <2> HIDE DEF own
  <2>3. proc'[p] = own
    BY <2>2 DEF Leader!Overtaken
  <2>4. flight' \in [Procs -> Reads] /\ \A q \in Procs : flight'[q] # "fresh"
    BY <2>2, StaleFields DEF LeaseInvariant
  <2>5. Steps(p)'
    BY <1>1, <1>2, <2>1, <2>3, <2>4 DEF Leader!Renew, Leader!Renews, Steps, FreshIsTheHolders,
         ConflictsOnce, TriesAreWhole, CleanStepsDown, LeavesFree, Leader!Releasing
  <2> QED
    BY <2>1, <2>2, <2>4, <2>5, Writes
<1>3. CASE Leader!SendRenewal(p)
  <2>1. /\ proc' = [proc EXCEPT ![p] = proc[p]] /\ proc'[p] = proc[p]
        /\ flight' \in [Procs -> Reads] /\ flight'[p] = "fresh"
        /\ \A q \in Procs \ {p} : flight'[q] = flight[q]
    BY <1>1, <1>3 DEF Leader!SendRenewal, Reads
  <2>2. Steps(p)'
    BY <1>1, <1>3, <2>1 DEF Leader!SendRenewal, Leader!Renews, Steps, FreshIsTheHolders,
         ConflictsOnce, TriesAreWhole, CleanStepsDown, LeavesFree, Leader!Releasing
  <2> QED
    BY <1>1, <1>3, <2>1, <2>2, Leaves DEF Leader!SendRenewal
<1>4. CASE Leader!LandRenewal(p) /\ flight[p] = "fresh"
  <2> DEFINE own == [proc[p] EXCEPT !.read = Leader!Old(@)]
  <2>1. /\ own \in States /\ own.at = proc[p].at /\ own.clean = proc[p].clean
        /\ own.tries = proc[p].tries /\ own.read = Leader!Old(proc[p].read)
    BY <1>1 DEF States, Reads, Leader!Old
  <2>2. proc' = Leader!Overtaken(p, own) /\ flight' = [Leader!Stale EXCEPT ![p] = "none"]
    BY <1>4 DEF Leader!LandRenewal
  <2> HIDE DEF own
  <2>3. proc'[p] = own
    BY <2>2 DEF Leader!Overtaken
  <2>4. flight' \in [Procs -> Reads] /\ \A q \in Procs : flight'[q] # "fresh"
    BY <2>2, StaleFields DEF LeaseInvariant, Reads
  <2>5. holder' = {p} /\ holder = {p}
    BY <1>1, <1>4 DEF Leader!LandRenewal, Steps, FreshIsTheHolders
  <2>6. Steps(p)'
    BY <1>1, <1>4, <2>1, <2>3, <2>4, <2>5 DEF Steps, FreshIsTheHolders,
         ConflictsOnce, TriesAreWhole, CleanStepsDown, LeavesFree, Leader!Releasing, Leader!Old
  <2> QED
    BY <2>1, <2>2, <2>4, <2>5, <2>6, Writes
<1>5. CASE Leader!LandRenewal(p) /\ flight[p] # "fresh"
  <2>1. /\ proc' = [proc EXCEPT ![p] = proc[p]] /\ proc'[p] = proc[p]
        /\ flight' \in [Procs -> Reads] /\ flight'[p] = "none"
        /\ \A q \in Procs \ {p} : flight'[q] = flight[q]
        /\ holder' = holder
    BY <1>1, <1>5 DEF Leader!LandRenewal, Reads
  <2>2. Steps(p)'
    BY <1>1, <2>1 DEF Steps, FreshIsTheHolders,
         ConflictsOnce, TriesAreWhole, CleanStepsDown, LeavesFree, Leader!Releasing
  <2> QED
    BY <1>1, <2>1, <2>2, Leaves
<1>6. CASE Leader!GiveUp(p)
  <2>1. proc' = [proc EXCEPT ![p] = Leader!At(proc[p], "losing")] /\ ~proc[p].clean
    BY <1>1, <1>6 DEF Leader!GiveUp, Leader!Goes, Steps, CleanStepsDown
  <2> QED
    BY <1>1, <1>6, <2>1, GoesOn DEF Leader!GiveUp, Ats
<1>7. CASE Leader!Lose(p)
  <2>1. ~proc[p].clean
    BY <1>1, <1>7 DEF Leader!Lose, Steps, CleanStepsDown
  <2>2. CASE Leader!Goes(p, "gone") /\ UNCHANGED <<holder, flight>>
    BY <1>1, <2>1, <2>2, GoesOn DEF Leader!Goes, Ats
  <2>3. CASE holder' = {} /\ proc' = Leader!Overtaken(p, Leader!Gone(FALSE)) /\ flight' = Leader!Stale
    <3>1. Leader!Gone(FALSE) \in States /\ Leader!Gone(FALSE).at = "gone" /\ ~Leader!Gone(FALSE).clean
      BY GoneFields
    <3>2. proc'[p] = Leader!Gone(FALSE)
      BY <2>3 DEF Leader!Overtaken
    <3>3. flight' \in [Procs -> Reads] /\ \A q \in Procs : flight'[q] # "fresh"
      BY <2>3, StaleFields DEF LeaseInvariant
    <3>4. Steps(p)'
      BY <3>1, <3>2, <3>3 DEF Steps, FreshIsTheHolders,
           ConflictsOnce, TriesAreWhole, CleanStepsDown, LeavesFree, Leader!Releasing
    <3> QED
      BY <2>3, <3>1, <3>3, <3>4, Writes
  <2> QED
    BY <1>7, <2>2, <2>3 DEF Leader!Lose
<1>8. CASE Leader!ReleaseUnanswered(p)
  <2>1. proc' = Leader!Overtaken(p, proc[p]) /\ holder' = {} /\ flight' = Leader!Stale
    BY <1>8 DEF Leader!ReleaseUnanswered
  <2>2. proc'[p] = proc[p]
    BY <2>1 DEF Leader!Overtaken
  <2>3. flight' \in [Procs -> Reads] /\ \A q \in Procs : flight'[q] # "fresh"
    BY <2>1, StaleFields DEF LeaseInvariant
  <2>4. Steps(p)'
    BY <1>1, <1>8, <2>1, <2>2, <2>3 DEF Leader!ReleaseUnanswered, Steps, FreshIsTheHolders,
         ConflictsOnce, TriesAreWhole, CleanStepsDown, LeavesFree, Leader!Releasing
  <2> QED
    BY <1>1, <2>1, <2>3, <2>4, Writes
<1> QED
  BY <1>2, <1>3, <1>4, <1>5, <1>6, <1>7, <1>8 DEF Leader!Leads

LEMMA StepsDownLease ==
  ASSUME Leader!LeadershipAssumption, LeaseInvariant, NEW p \in Procs, Leader!StepsDown(p)
  PROVE  LeaseInvariant'
<1>1. /\ proc[p] \in States /\ proc \in [Procs -> States]
      /\ flight \in [Procs -> Reads] /\ Steps(p)
  BY DEF LeaseInvariant, LeaseTyped
<1>a. {"clearing", "gone", "quieting"} \subseteq Ats
  BY DEF Ats
<1>2. CASE Leader!Stop(p)
  <2>1. proc' = [proc EXCEPT ![p] = Leader!At(proc[p], "quieting")] /\ ~proc[p].clean
    BY <1>1, <1>2 DEF Leader!Stop, Leader!Goes, Steps, CleanStepsDown
  <2> QED
    BY <1>1, <1>a, <1>2, <2>1, GoesOn DEF Leader!Stop
<1>3. CASE Leader!LeaveLease(p)
  <2>1. proc' = [proc EXCEPT ![p] = Leader!At(proc[p], "gone")] /\ ~proc[p].clean
    BY <1>1, <1>3 DEF Leader!LeaveLease, Leader!Goes, Steps, CleanStepsDown
  <2> QED
    BY <1>1, <1>a, <1>3, <2>1, GoesOn DEF Leader!LeaveLease
<1>4. CASE Leader!Quiet(p)
  <2> DEFINE own == [Leader!Unborn EXCEPT !.at = "releasing", !.clean = TRUE]
  <2>1. /\ own \in States /\ own.at = "releasing" /\ own.read = "none"
        /\ own.tries = Tries
    BY UnbornFields DEF States, Ats
  <2>2. proc' = [proc EXCEPT ![p] = own] /\ proc'[p] = own
    BY <1>1, <1>4 DEF Leader!Quiet
  <2> HIDE DEF own
  <2>3. Steps(p)'
    BY <1>1, <1>4, <2>1, <2>2 DEF Leader!Quiet, Steps, FreshIsTheHolders, ConflictsOnce,
         TriesAreWhole, CleanStepsDown, LeavesFree, Leader!Releasing
  <2> QED
    BY <1>1, <1>4, <2>1, <2>2, <2>3, Leaves DEF Leader!Quiet
<1>5. CASE Leader!ReadLease(p) /\ holder = {p}
  <2> DEFINE own == [proc[p] EXCEPT !.read = "fresh"]
  <2>1. /\ own \in States /\ own.at = proc[p].at /\ own.read = "fresh"
        /\ own.tries = proc[p].tries /\ own.clean = proc[p].clean
    BY <1>1 DEF States, Reads
  <2>2. proc' = [proc EXCEPT ![p] = own] /\ proc'[p] = own
    BY <1>1, <1>5 DEF Leader!ReadLease
  <2> HIDE DEF own
  <2>3. Steps(p)'
    BY <1>1, <1>5, <2>1, <2>2 DEF Leader!ReadLease, Steps, FreshIsTheHolders, ConflictsOnce,
         TriesAreWhole, CleanStepsDown, LeavesFree, Leader!Releasing
  <2> QED
    BY <1>1, <1>5, <2>1, <2>2, <2>3, Leaves DEF Leader!ReadLease
<1>6. CASE Leader!ReadLease(p) /\ holder # {p}
  <2>1. /\ proc' = [proc EXCEPT ![p] = Leader!At(proc[p], Leader!AfterRelease(p))]
        /\ proc[p].read = "none" /\ Leader!AfterRelease(p) \in {"clearing", "gone"}
        /\ UNCHANGED <<holder, flight>>
    BY <1>6 DEF Leader!ReadLease, Leader!Goes, Leader!AfterRelease
  <2> QED
    BY <1>1, <1>a, <1>6, <2>1, GoesOn
<1>7. CASE Leader!WriteLease(p)
  <2> DEFINE state == [proc[p] EXCEPT !.read = "none"]
             own   == Leader!At(state, Leader!AfterRelease(p))
  <2>1. /\ state \in States /\ state.read = "none" /\ state.clean = proc[p].clean
        /\ Leader!AfterRelease(p) \in {"clearing", "gone"}
    BY <1>1 DEF States, Reads, Leader!AfterRelease
  <2>2. proc' = Leader!Overtaken(p, own) /\ holder' = {} /\ flight' = Leader!Stale
    BY <1>7 DEF Leader!WriteLease
  <2> HIDE DEF state
  <2>3. own \in States /\ own.at = Leader!AfterRelease(p) /\ own.clean = state.clean
        /\ own.read = "none"
    BY <1>a, <2>1, AtFields
  <2> HIDE DEF own
  <2>4. proc'[p] = own
    BY <2>2 DEF Leader!Overtaken
  <2>5. flight' \in [Procs -> Reads] /\ \A q \in Procs : flight'[q] # "fresh"
    BY <2>2, StaleFields DEF LeaseInvariant
  <2>6. Steps(p)'
    BY <2>1, <2>2, <2>3, <2>4, <2>5 DEF Steps, FreshIsTheHolders,
         ConflictsOnce, TriesAreWhole, CleanStepsDown, LeavesFree, Leader!Releasing
  <2> QED
    BY <2>2, <2>3, <2>5, <2>6, Writes
<1>8. CASE Leader!Conflict(p)
  <2> DEFINE again == [proc[p] EXCEPT !.read = "none"]
  <2>1. /\ again \in States /\ again.at = proc[p].at /\ again.read = "none"
        /\ again.clean = proc[p].clean /\ again.tries = proc[p].tries
    BY <1>1 DEF States, Reads
  <2>2. /\ proc[p].read = "stale" /\ UNCHANGED <<holder, flight>>
        /\ proc[p].tries \in 0..Tries /\ Tries \in Nat
    BY <1>1, <1>8, Timings DEF Leader!Conflict, States
  <2>3. CASE proc[p].at = "clearing" /\ proc[p].tries > 1
    <3> DEFINE own == [again EXCEPT !.tries = @ - 1]
    <3>1. proc' = [proc EXCEPT ![p] = own]
      BY <1>8, <2>3 DEF Leader!Conflict
    <3> HIDE DEF again
    <3>2. /\ own \in States /\ own.at = proc[p].at /\ own.read = "none"
          /\ own.clean = proc[p].clean
      BY <2>1, <2>2, <2>3 DEF States
    <3> HIDE DEF own
    <3>3. proc'[p] = own
      BY <1>1, <3>1
    <3>4. Steps(p)'
      BY <1>1, <2>2, <2>3, <3>2, <3>3 DEF Steps, FreshIsTheHolders, ConflictsOnce,
           TriesAreWhole, CleanStepsDown, LeavesFree, Leader!Releasing
    <3> QED
      BY <1>1, <2>2, <3>1, <3>2, <3>4, Leaves
  <2>4. CASE ~(proc[p].at = "clearing" /\ proc[p].tries > 1)
    <3>1. proc' = [proc EXCEPT ![p] = Leader!At(again, Leader!AfterRelease(p))]
      BY <1>8, <2>4 DEF Leader!Conflict
    <3> HIDE DEF again
    <3>2. CASE proc[p].at = "releasing"
      <4>1. Leader!AfterRelease(p) = "clearing" /\ proc[p].tries = Tries
        BY <1>1, <3>2 DEF Leader!AfterRelease, Steps, TriesAreWhole
      <4>2. ~(Tries < Tries)
        BY <2>2
      <4> QED
        BY <1>a, <2>1, <2>2, <3>1, <4>1, <4>2, GoesOn
    <3>3. CASE proc[p].at = "clearing"
      <4>1. Leader!AfterRelease(p) = "gone" /\ (Tries > 1 => proc[p].tries < Tries)
        BY <2>2, <2>4, <3>3 DEF Leader!AfterRelease
      <4>2. Tries > 1 => holder # {p}
        BY <1>1, <2>2, <3>3, <4>1 DEF Steps, ConflictsOnce
      <4> QED
        BY <1>a, <2>1, <2>2, <3>1, <4>1, <4>2, GoesOn
    <3> QED
      BY <1>8, <3>2, <3>3 DEF Leader!Conflict, Leader!Releasing
  <2> QED
    BY <2>3, <2>4
<1>9. CASE Leader!Refused(p)
  <2> DEFINE state == [proc[p] EXCEPT !.clean = FALSE, !.read = "none"]
  <2>1. /\ state \in States /\ state.read = "none" /\ ~state.clean
        /\ state.tries = proc[p].tries
    BY <1>1 DEF States, Reads
  <2>2. proc' = [proc EXCEPT ![p] = Leader!At(state, Leader!AfterRelease(p))]
        /\ UNCHANGED <<holder, flight>>
    BY <1>9 DEF Leader!Refused
  <2> HIDE DEF state
  <2>3. /\ Leader!AfterRelease(p) \in {"clearing", "gone"}
        /\ Leader!AfterRelease(p) = "clearing" => proc[p].tries = Tries
    BY <1>1 DEF Leader!AfterRelease, Steps, TriesAreWhole
  <2>4. ~(Tries < Tries)
    BY Timings
  <2> QED
    BY <1>a, <2>1, <2>2, <2>3, <2>4, GoesOn
<1> QED
  BY <1>2, <1>3, <1>4, <1>5, <1>6, <1>7, <1>8, <1>9 DEF Leader!StepsDown

LEMMA CrashLease ==
  ASSUME Leader!LeadershipAssumption, LeaseInvariant, NEW p \in Procs, Leader!Crash(p)
  PROVE  LeaseInvariant'
<1>1. /\ proc[p] \in States /\ proc \in [Procs -> States]
      /\ flight \in [Procs -> Reads] /\ Steps(p)
  BY DEF LeaseInvariant, LeaseTyped
<1>2. proc' = [proc EXCEPT ![p] = Leader!Gone(FALSE)] /\ UNCHANGED <<holder, flight>>
  BY DEF Leader!Crash
<1>3. Leader!Gone(FALSE) \in States /\ Leader!Gone(FALSE).at = "gone" /\ ~Leader!Gone(FALSE).clean
  BY GoneFields
<1>4. proc'[p] = Leader!Gone(FALSE)
  BY <1>1, <1>2
<1>5. Steps(p)'
  BY <1>1, <1>2, <1>3, <1>4 DEF Steps, FreshIsTheHolders, ConflictsOnce,
       TriesAreWhole, CleanStepsDown, LeavesFree, Leader!Releasing
<1> QED
  BY <1>1, <1>2, <1>3, <1>5, Leaves

\* A tick moves the clocks and nothing else, and each within its bound.
LEMMA TickFields ==
  ASSUME Leader!LeadershipAssumption, LeaseTyped, Leader!Tick
  PROVE  /\ proc' \in [Procs -> States] /\ UNCHANGED <<holder, flight, budget>>
         /\ \A q \in Procs :
                /\ proc'[q].at = proc[q].at /\ proc'[q].read = proc[q].read
                /\ proc'[q].tries = proc[q].tries /\ proc'[q].clean = proc[q].clean
                /\ Leader!Acts(q) => proc'[q].age = proc[q].age + 1
                /\ proc'[q].seen <= proc[q].seen + 1
<1> DEFINE waited(q) == [proc[q] EXCEPT !.seen = IF @ < Duration THEN @ + 1 ELSE @]
           aged(q)   == [proc[q] EXCEPT !.age = @ + 1]
           next(q)   == IF proc[q].at = "waiting" /\ proc[q].read # "none" THEN waited(q)
                        ELSE IF proc[q].at \in {"leading", "quieting", "losing"}
                        THEN aged(q) ELSE proc[q]
<1>1. proc' = [q \in Procs |-> next(q)] /\ UNCHANGED <<holder, flight, budget>>
  BY DEF Leader!Tick
<1>2. ASSUME NEW q \in Procs
      PROVE  /\ next(q) \in States
             /\ next(q).at = proc[q].at /\ next(q).read = proc[q].read
             /\ next(q).tries = proc[q].tries /\ next(q).clean = proc[q].clean
             /\ Leader!Acts(q) => next(q).age = proc[q].age + 1
             /\ next(q).seen <= proc[q].seen + 1
  <2>1. /\ proc[q] \in States /\ proc[q].seen \in 0..Duration /\ proc[q].age \in 0..Leader!ExitBy
        /\ proc[q].seen \in Nat /\ proc[q].age \in Nat
    BY Timings DEF LeaseTyped, States
  <2>2. proc[q].seen <= proc[q].seen + 1
    BY <2>1
  <2>3. CASE proc[q].at = "waiting" /\ proc[q].read # "none"
    <3>1. /\ waited(q) \in States /\ waited(q).at = proc[q].at
          /\ waited(q).read = proc[q].read /\ waited(q).tries = proc[q].tries
          /\ waited(q).clean = proc[q].clean
          /\ waited(q).seen <= proc[q].seen + 1
      BY <2>1, Timings DEF States
    <3>2. next(q) = waited(q) /\ ~Leader!Acts(q)
      BY <2>3 DEF Leader!Acts
    <3> HIDE DEF next, waited
    <3> QED
      BY <3>1, <3>2
  <2>4. CASE proc[q].at \in {"leading", "quieting", "losing"}
    <3>1. proc[q].age < Leader!ExitBy
      BY <2>1, <2>4, Timings DEF Leader!Tick
    <3>2. /\ aged(q) \in States /\ aged(q).at = proc[q].at
          /\ aged(q).read = proc[q].read /\ aged(q).tries = proc[q].tries
          /\ aged(q).clean = proc[q].clean
          /\ aged(q).age = proc[q].age + 1 /\ aged(q).seen = proc[q].seen
      BY <2>1, <3>1, Timings DEF States
    <3>3. next(q) = aged(q)
      BY <2>4
    <3> HIDE DEF next, aged
    <3> QED
      BY <2>2, <3>2, <3>3
  <2>5. CASE /\ ~(proc[q].at = "waiting" /\ proc[q].read # "none")
             /\ proc[q].at \notin {"leading", "quieting", "losing"}
    <3>1. next(q) = proc[q] /\ ~Leader!Acts(q)
      BY <2>5 DEF Leader!Acts
    <3> HIDE DEF next
    <3> QED
      BY <2>1, <2>2, <3>1
  <2> QED
    BY <2>3, <2>4, <2>5
<1> HIDE DEF next
<1> QED
  BY <1>1, <1>2

LEMMA TickLease ==
  ASSUME Leader!LeadershipAssumption, LeaseInvariant, Leader!Tick
  PROVE  LeaseInvariant'
<1>1. /\ proc' \in [Procs -> States] /\ UNCHANGED <<holder, flight>>
      /\ \A q \in Procs :
             /\ proc'[q].at = proc[q].at /\ proc'[q].read = proc[q].read
             /\ proc'[q].tries = proc[q].tries /\ proc'[q].clean = proc[q].clean
  BY TickFields DEF LeaseInvariant
<1>2. LeaseTyped'
  BY <1>1 DEF LeaseInvariant, LeaseTyped, OneHolder
<1> QED
  BY <1>1, <1>2 DEF LeaseInvariant, Steps, FreshIsTheHolders, ConflictsOnce,
       TriesAreWhole, CleanStepsDown, LeavesFree, Leader!Releasing

LEMMA StepLease ==
  ASSUME Leader!LeadershipAssumption, LeaseInvariant, [Leader!Next]_(Leader!vars)
  PROVE  LeaseInvariant'
<1>1. CASE UNCHANGED Leader!vars
  BY <1>1 DEF Leader!vars, LeaseInvariant, LeaseTyped, OneHolder, Steps, FreshIsTheHolders,
       ConflictsOnce, TriesAreWhole, CleanStepsDown, LeavesFree, Leader!Releasing
<1>2. CASE Leader!Tick
  BY <1>2, TickLease
<1>3. ASSUME NEW p \in Procs, Leader!Waits(p) \/ Leader!Leads(p) \/ Leader!StepsDown(p) \/ Leader!Crash(p)
      PROVE  LeaseInvariant'
  BY <1>3, WaitsLease, LeadsLease, StepsDownLease, CrashLease
<1> QED
  BY <1>1, <1>2, <1>3 DEF Leader!Next

\* The Lease's own invariant: types, versions, tries, and the free Lease of a quiet
\* step-down (leader.go, release and clearIfHeld).
THEOREM LeaseInductive ==
  OperatorAssumption => (Spec => [](OfALeader => LeaseInvariant))
<1> SUFFICES ASSUME OperatorAssumption PROVE Spec => [](OfALeader => LeaseInvariant)
  OBVIOUS
<1> USE DEF OperatorAssumption
<1>1. Init => (OfALeader => LeaseInvariant)
  BY LeaderOnly, InitLease
<1>2. (OfALeader => LeaseInvariant) /\ [Next]_vars => (OfALeader => LeaseInvariant)'
  BY LeaderOnly, StepLease
<1> QED
  BY <1>1, <1>2, PTL DEF Spec

\* Every variable has its type: the Lease names one process at most, and no clock
\* runs past what ends it: Leadership!TypeOK.
THEOREM LeaderTypes == OperatorAssumption => (Spec => [](OfALeader => Leader!TypeOK))
<1>1. LeaseInvariant => Leader!TypeOK
  BY LeaseIsTyped DEF LeaseInvariant
<1> QED
  BY <1>1, LeaseInductive, PTL

-----------------------------------------------------------------------------
(* One process acts.  A release that is answered late is left out here: it *)
(* frees the Lease while its process still runs.                           *)

ActTypes(state) == state.at \in {"leading", "losing", "quieting"}

\* A step that leaves the Lease keeps the age of the one that acts, and a copy
\* that looks starts its clock at zero.
LEMMA ActLeaves ==
  ASSUME LeaseInvariant, ActInvariant, NoLateRelease', NEW p \in Procs,
         NEW own \in States, proc' = [proc EXCEPT ![p] = own], holder' = holder,
         \/ own = proc[p]
         \/ /\ own.at # "unborn"
            /\ ActTypes(own) => Leader!Acts(p) /\ own.age = proc[p].age
            /\ own.at = "waiting" /\ own.read = "fresh" => own.seen = 0
  PROVE  ActInvariant'
<1>1. proc'[p] = own /\ \A q \in Procs \ {p} : proc'[q] = proc[q]
  BY DEF LeaseInvariant, LeaseTyped
<1>2. \A q \in Procs : proc[q].age >= 0
  BY Timings DEF LeaseInvariant, LeaseTyped, States
<1>3. CASE own = proc[p]
  <2>1. \A q \in Procs : proc'[q] = proc[q]
    BY <1>1, <1>3
  <2> QED
    BY <2>1 DEF ActInvariant, ActorHolds, StartsUnread, ClocksAgree, Leader!Acts
<1>4. CASE /\ own.at # "unborn"
           /\ ActTypes(own) => Leader!Acts(p) /\ own.age = proc[p].age
           /\ own.at = "waiting" /\ own.read = "fresh" => own.seen = 0
  <2>1. ASSUME NEW q \in Procs PROVE ActorHolds(q)' /\ StartsUnread(q)'
    BY <1>1, <1>4 DEF ActInvariant, ActorHolds, StartsUnread, Leader!Acts, ActTypes
  <2>2. \A q \in Procs : Leader!Acts(q)' => Leader!Acts(q) /\ proc'[q].age = proc[q].age
    BY <1>1, <1>4 DEF Leader!Acts, ActTypes
  <2>3. ASSUME NEW q \in Procs, NEW r \in Procs PROVE ClocksAgree(q, r)'
    <3>1. CASE r = p
      BY <1>1, <1>2, <1>4, <2>2, <3>1 DEF ClocksAgree
    <3>2. CASE r # p
      BY <1>1, <2>2, <3>2 DEF ActInvariant, ClocksAgree
    <3> QED
      BY <3>1, <3>2
  <2> QED
    BY <2>1, <2>3 DEF ActInvariant
<1> QED
  BY <1>3, <1>4

\* A write of the Lease that meets no other process that acts.
LEMMA ActWrites ==
  ASSUME LeaseInvariant, ActInvariant, NoLateRelease', NEW p \in Procs,
         NEW own \in States, proc' = Leader!Overtaken(p, own),
         \A q \in Procs \ {p} : ~Leader!Acts(q),
         own.at # "unborn" \/ own.at = proc[p].at, own.read # "fresh",
         ActTypes(own) => holder' = {p}
  PROVE  ActInvariant'
<1>1. /\ proc'[p] = own
      /\ \A q \in Procs \ {p} : proc'[q].at = proc[q].at /\ proc'[q].read # "fresh"
  BY OvertakenFields DEF LeaseInvariant
<1>2. \A q \in Procs : proc'[q].read # "fresh"
  BY <1>1
<1>3. \A q \in Procs : Leader!Acts(q)' => holder' = {q}
  BY <1>1 DEF Leader!Acts, ActTypes
<1> QED
  BY <1>2, <1>3 DEF ActInvariant, ActorHolds, StartsUnread, ClocksAgree

\* The budget of a release that is answered late stays empty.
LEMMA StaysLate ==
  ASSUME NoLateRelease, UNCHANGED budget \/ Leader!Spend("late") \/ Leader!Spend("refused") \/ Leader!Spend("crash")
  PROVE  NoLateRelease'
BY DEF NoLateRelease, Leader!Spend

\* The holder alone acts.
LEMMA HolderAlone ==
  ASSUME ActInvariant, NEW p \in Procs, holder \in {{}, {p}}
  PROVE  \A q \in Procs \ {p} : ~Leader!Acts(q)
BY DEF ActInvariant, ActorHolds

LEMMA InitAct ==
  ASSUME Leader!LeadershipAssumption, Leader!Init, budget["lateRelease"] = 0
  PROVE  ActInvariant
<1>1. \A p \in Procs : proc[p] = Leader!Unborn
  BY DEF Leader!Init
<1>2. NoLateRelease
  BY DEF NoLateRelease, Leader!LeadershipAssumption, Leader!Init
<1> QED
  BY <1>1, <1>2, UnbornFields
     DEF ActInvariant, ActorHolds, StartsUnread, ClocksAgree, Leader!Acts

\* The Lease expires for a copy only when no holder acts any more: whoever acts
\* was renewed at most ExitBy ago, and the copy waited for Duration since.
LEMMA WaitsAct ==
  ASSUME Leader!LeadershipAssumption, Leader!ExitBy < Duration, LeaseInvariant, ActInvariant,
         NEW p \in Procs, Leader!Waits(p)
  PROVE  ActInvariant'
<1>1. /\ proc[p] \in States /\ proc \in [Procs -> States]
      /\ NoLateRelease /\ ActorHolds(p) /\ StartsUnread(p)
  BY DEF LeaseInvariant, LeaseTyped, ActInvariant
<1>2. NoLateRelease'
  BY <1>1, StaysLate DEF Leader!Waits, Leader!Start, Leader!Look, Leader!Take, Leader!StopWaiting
<1>3. CASE Leader!Start(p)
  <2>1. proc' = [proc EXCEPT ![p] = Leader!At(proc[p], "waiting")] /\ holder' = holder
        /\ proc[p].read # "fresh"
    BY <1>1, <1>3 DEF Leader!Start, Leader!Goes, StartsUnread
  <2>2. Leader!At(proc[p], "waiting") \in States /\ Leader!At(proc[p], "waiting").at = "waiting"
        /\ Leader!At(proc[p], "waiting").read = proc[p].read
    BY <1>1, AtFields DEF Ats
  <2> QED
    BY <1>2, <2>1, <2>2, ActLeaves DEF ActTypes
<1>4. CASE Leader!Look(p)
  <2> DEFINE own == [proc[p] EXCEPT !.read = "fresh", !.seen = 0]
  <2>1. own \in States /\ own.at = "waiting" /\ own.seen = 0
    BY <1>1, <1>4, Timings DEF Leader!Look, States, Reads
  <2>2. proc' = [proc EXCEPT ![p] = own] /\ holder' = holder
    BY <1>1, <1>4 DEF Leader!Look
  <2> HIDE DEF own
  <2> QED
    BY <1>2, <2>1, <2>2, ActLeaves DEF ActTypes
<1>5. CASE Leader!Take(p)
  <2> DEFINE own == [proc[p] EXCEPT !.at = "leading", !.seen = 0, !.read = "none"]
  <2>1. own \in States /\ own.at = "leading" /\ own.read = "none"
    BY <1>1, Timings DEF States, Reads, Ats
  <2>2. proc' = Leader!Overtaken(p, own) /\ holder' = {p}
    BY <1>5 DEF Leader!Take
  <2> HIDE DEF own
  <2>3. ASSUME NEW q \in Procs \ {p} PROVE ~Leader!Acts(q)
    <3>1. CASE holder = {}
      BY <3>1, HolderAlone
    <3>2. CASE proc[p].seen = Duration
      <4>1. Leader!Acts(q) => proc[p].seen <= proc[q].age
        BY <1>5 DEF Leader!Take, ActInvariant, ClocksAgree
      <4>2. proc[q].age \in 0..Leader!ExitBy
        BY DEF LeaseInvariant, LeaseTyped, States
      <4> QED
        BY <3>2, <4>1, <4>2, Timings
    <3> QED
      BY <1>5, <3>1, <3>2 DEF Leader!Take, Leader!MayTake
  <2> QED
    BY <1>2, <2>1, <2>2, <2>3, ActWrites
<1>6. CASE Leader!StopWaiting(p)
  <2>1. proc' = [proc EXCEPT ![p] = Leader!At(proc[p], "gone")] /\ holder' = holder
    BY <1>6 DEF Leader!StopWaiting, Leader!Goes
  <2>2. Leader!At(proc[p], "gone") \in States /\ Leader!At(proc[p], "gone").at = "gone"
    BY <1>1, AtFields DEF Ats
  <2> QED
    BY <1>2, <2>1, <2>2, ActLeaves DEF ActTypes
<1> QED
  BY <1>3, <1>4, <1>5, <1>6 DEF Leader!Waits

LEMMA LeadsAct ==
  ASSUME Leader!LeadershipAssumption, LeaseInvariant, ActInvariant, NEW p \in Procs, Leader!Leads(p)
  PROVE  ActInvariant'
<1>1. /\ proc[p] \in States /\ proc \in [Procs -> States] /\ Steps(p)
      /\ NoLateRelease /\ ActorHolds(p)
  BY DEF LeaseInvariant, LeaseTyped, ActInvariant
<1>2. ~Leader!ReleaseUnanswered(p)
  BY <1>1 DEF Leader!ReleaseUnanswered, Leader!Spend, NoLateRelease
<1>3. NoLateRelease'
  BY <1>1, <1>2, StaysLate DEF Leader!Leads, Leader!Renew, Leader!SendRenewal, Leader!LandRenewal, Leader!GiveUp, Leader!Lose
<1>4. CASE Leader!Renew(p)
  <2> DEFINE own == [proc[p] EXCEPT !.age = 0, !.read = "none"]
  <2>1. own \in States /\ own.at = proc[p].at /\ own.read = "none"
    BY <1>1, Timings DEF States, Reads
  <2>2. proc' = Leader!Overtaken(p, own) /\ holder' = {p} /\ holder = {p}
    BY <1>4 DEF Leader!Renew
  <2> HIDE DEF own
  <2> QED
    BY <1>3, <2>1, <2>2, HolderAlone, ActWrites
<1>5. CASE Leader!SendRenewal(p)
  <2>1. proc' = [proc EXCEPT ![p] = proc[p]] /\ holder' = holder
    BY <1>1, <1>5 DEF Leader!SendRenewal
  <2> QED
    BY <1>1, <1>3, <2>1, ActLeaves
<1>6. CASE Leader!LandRenewal(p) /\ flight[p] = "fresh"
  <2> DEFINE own == [proc[p] EXCEPT !.read = Leader!Old(@)]
  <2>1. own \in States /\ own.at = proc[p].at /\ own.read # "fresh"
    BY <1>1 DEF States, Reads, Leader!Old
  <2>2. proc' = Leader!Overtaken(p, own) /\ holder' = {p} /\ holder = {p}
    BY <1>1, <1>6 DEF Leader!LandRenewal, Steps, FreshIsTheHolders
  <2> HIDE DEF own
  <2> QED
    BY <1>3, <2>1, <2>2, HolderAlone, ActWrites
<1>7. CASE Leader!LandRenewal(p) /\ flight[p] # "fresh"
  <2>1. proc' = [proc EXCEPT ![p] = proc[p]] /\ holder' = holder
    BY <1>1, <1>7 DEF Leader!LandRenewal
  <2> QED
    BY <1>1, <1>3, <2>1, ActLeaves
<1>8. CASE Leader!GiveUp(p)
  <2>1. proc' = [proc EXCEPT ![p] = Leader!At(proc[p], "losing")] /\ holder' = holder /\ Leader!Acts(p)
    BY <1>8 DEF Leader!GiveUp, Leader!Goes, Leader!Acts
  <2>2. Leader!At(proc[p], "losing") \in States /\ Leader!At(proc[p], "losing").at = "losing"
        /\ Leader!At(proc[p], "losing").age = proc[p].age
    BY <1>1, AtFields DEF Ats
  <2> QED
    BY <1>3, <2>1, <2>2, ActLeaves
<1>9. CASE Leader!Lose(p)
  <2>1. CASE Leader!Goes(p, "gone") /\ UNCHANGED <<holder, flight>>
    <3>1. Leader!At(proc[p], "gone") \in States /\ Leader!At(proc[p], "gone").at = "gone"
      BY <1>1, AtFields DEF Ats
    <3> QED
      BY <1>3, <2>1, <3>1, ActLeaves DEF Leader!Goes, ActTypes
  <2>2. CASE holder = {p} /\ holder' = {} /\ proc' = Leader!Overtaken(p, Leader!Gone(FALSE))
    <3>1. Leader!Gone(FALSE) \in States /\ Leader!Gone(FALSE).at = "gone" /\ Leader!Gone(FALSE).read = "none"
      BY GoneFields
    <3> QED
      BY <1>3, <2>2, <3>1, HolderAlone, ActWrites DEF ActTypes
  <2> QED
    BY <1>9, <2>1, <2>2 DEF Leader!Lose
<1> QED
  BY <1>2, <1>4, <1>5, <1>6, <1>7, <1>8, <1>9 DEF Leader!Leads

LEMMA StepsDownAct ==
  ASSUME Leader!LeadershipAssumption, LeaseInvariant, ActInvariant, NEW p \in Procs, Leader!StepsDown(p)
  PROVE  ActInvariant'
<1>1. /\ proc[p] \in States /\ proc \in [Procs -> States] /\ Steps(p)
      /\ NoLateRelease /\ ActorHolds(p)
  BY DEF LeaseInvariant, LeaseTyped, ActInvariant
<1>2. NoLateRelease'
  BY <1>1, StaysLate DEF Leader!StepsDown, Leader!Stop, Leader!LeaveLease, Leader!Quiet, Leader!ReadLease, Leader!WriteLease,
                         Leader!Conflict, Leader!Refused
<1>3. Leader!AfterRelease(p) \in {"clearing", "gone"} /\ {"clearing", "gone", "quieting"} \subseteq Ats
  BY DEF Leader!AfterRelease, Ats
\* A process on its way out neither acts nor waits.
<1>4. ASSUME NEW own \in States, proc' = [proc EXCEPT ![p] = own], holder' = holder,
             own.at \in {"releasing", "clearing", "gone"}
      PROVE  ActInvariant'
  BY <1>2, <1>4, ActLeaves DEF ActTypes
<1>5. CASE Leader!Stop(p)
  <2>1. proc' = [proc EXCEPT ![p] = Leader!At(proc[p], "quieting")] /\ holder' = holder /\ Leader!Acts(p)
    BY <1>5 DEF Leader!Stop, Leader!Goes, Leader!Acts
  <2>2. Leader!At(proc[p], "quieting") \in States /\ Leader!At(proc[p], "quieting").at = "quieting"
        /\ Leader!At(proc[p], "quieting").age = proc[p].age
    BY <1>1, <1>3, AtFields
  <2> QED
    BY <1>2, <2>1, <2>2, ActLeaves
<1>6. CASE Leader!LeaveLease(p)
  <2>1. proc' = [proc EXCEPT ![p] = Leader!At(proc[p], "gone")] /\ holder' = holder
    BY <1>6 DEF Leader!LeaveLease, Leader!Goes
  <2> QED
    BY <1>1, <1>3, <1>4, <2>1, AtFields
<1>7. CASE Leader!Quiet(p)
  <2> DEFINE own == [Leader!Unborn EXCEPT !.at = "releasing", !.clean = TRUE]
  <2>1. own \in States /\ own.at = "releasing"
    BY UnbornFields DEF States, Ats
  <2>2. proc' = [proc EXCEPT ![p] = own] /\ holder' = holder
    BY <1>7 DEF Leader!Quiet
  <2> HIDE DEF own
  <2> QED
    BY <1>4, <2>1, <2>2
<1>8. CASE Leader!ReadLease(p) /\ holder = {p}
  <2> DEFINE own == [proc[p] EXCEPT !.read = "fresh"]
  <2>1. own \in States /\ own.at \in {"releasing", "clearing"}
    BY <1>1, <1>8 DEF States, Reads, Leader!ReadLease, Leader!Releasing
  <2>2. proc' = [proc EXCEPT ![p] = own] /\ holder' = holder
    BY <1>1, <1>8 DEF Leader!ReadLease
  <2> HIDE DEF own
  <2> QED
    BY <1>4, <2>1, <2>2
<1>9. CASE Leader!ReadLease(p) /\ holder # {p}
  <2>1. proc' = [proc EXCEPT ![p] = Leader!At(proc[p], Leader!AfterRelease(p))] /\ holder' = holder
    BY <1>9 DEF Leader!ReadLease, Leader!Goes
  <2> QED
    BY <1>1, <1>3, <1>4, <2>1, AtFields
<1>10. CASE Leader!WriteLease(p)
  <2> DEFINE state == [proc[p] EXCEPT !.read = "none"]
             own   == Leader!At(state, Leader!AfterRelease(p))
  <2>1. state \in States /\ state.read = "none"
    BY <1>1 DEF States, Reads
  <2>2. proc' = Leader!Overtaken(p, own) /\ holder = {p}
    BY <1>1, <1>10 DEF Leader!WriteLease, Steps, FreshIsTheHolders
  <2> HIDE DEF state
  <2>3. own \in States /\ own.at \in {"clearing", "gone"} /\ own.read # "fresh"
    BY <1>3, <2>1, AtFields
  <2> HIDE DEF own
  <2> QED
    BY <1>2, <2>2, <2>3, HolderAlone, ActWrites DEF ActTypes
<1>11. CASE Leader!Conflict(p)
  <2> DEFINE again == [proc[p] EXCEPT !.read = "none"]
  <2>1. again \in States /\ again.at = proc[p].at /\ again.tries = proc[p].tries
    BY <1>1 DEF States, Reads
  <2>2. holder' = holder
    BY <1>11 DEF Leader!Conflict
  <2>3. CASE proc[p].at = "clearing" /\ proc[p].tries > 1
    <3> DEFINE own == [again EXCEPT !.tries = @ - 1]
    <3>1. proc' = [proc EXCEPT ![p] = own]
      BY <1>11, <2>3 DEF Leader!Conflict
    <3> HIDE DEF again
    <3>2. proc[p].tries \in 0..Tries /\ Tries \in Nat
      BY <1>1, Timings DEF States
    <3>3. own \in States /\ own.at = "clearing"
      BY <2>1, <2>3, <3>2 DEF States
    <3> HIDE DEF own
    <3> QED
      BY <1>4, <2>2, <3>1, <3>3
  <2>4. CASE ~(proc[p].at = "clearing" /\ proc[p].tries > 1)
    <3>1. proc' = [proc EXCEPT ![p] = Leader!At(again, Leader!AfterRelease(p))]
      BY <1>11, <2>4 DEF Leader!Conflict
    <3> HIDE DEF again
    <3> QED
      BY <1>3, <1>4, <2>1, <2>2, <3>1, AtFields
  <2> QED
    BY <2>3, <2>4
<1>12. CASE Leader!Refused(p)
  <2> DEFINE state == [proc[p] EXCEPT !.clean = FALSE, !.read = "none"]
  <2>1. state \in States
    BY <1>1 DEF States, Reads
  <2>2. proc' = [proc EXCEPT ![p] = Leader!At(state, Leader!AfterRelease(p))] /\ holder' = holder
    BY <1>12 DEF Leader!Refused
  <2> HIDE DEF state
  <2> QED
    BY <1>3, <1>4, <2>1, <2>2, AtFields
<1> QED
  BY <1>5, <1>6, <1>7, <1>8, <1>9, <1>10, <1>11, <1>12 DEF Leader!StepsDown

LEMMA CrashAct ==
  ASSUME Leader!LeadershipAssumption, LeaseInvariant, ActInvariant, NEW p \in Procs, Leader!Crash(p)
  PROVE  ActInvariant'
<1>1. proc' = [proc EXCEPT ![p] = Leader!Gone(FALSE)] /\ holder' = holder
  BY DEF Leader!Crash
<1>2. Leader!Gone(FALSE) \in States /\ Leader!Gone(FALSE).at = "gone"
  BY GoneFields
<1>3. NoLateRelease'
  BY StaysLate DEF Leader!Crash, ActInvariant
<1> QED
  BY <1>1, <1>2, <1>3, ActLeaves DEF ActTypes

\* The clocks of the one that acts and of the copies that wait go on together.
LEMMA TickAct ==
  ASSUME Leader!LeadershipAssumption, LeaseInvariant, ActInvariant, Leader!Tick
  PROVE  ActInvariant'
<1>1. /\ UNCHANGED <<holder, budget>>
      /\ \A q \in Procs :
             /\ proc'[q].at = proc[q].at /\ proc'[q].read = proc[q].read
             /\ Leader!Acts(q) => proc'[q].age = proc[q].age + 1
             /\ proc'[q].seen <= proc[q].seen + 1
  BY TickFields DEF LeaseInvariant
<1>2. \A q \in Procs : Leader!Acts(q)' <=> Leader!Acts(q)
  BY <1>1 DEF Leader!Acts
<1>3. proc' \in [Procs -> States] /\ proc \in [Procs -> States]
  BY TickFields DEF LeaseInvariant, LeaseTyped
<1>4. ASSUME NEW p \in Procs, NEW q \in Procs PROVE ClocksAgree(p, q)'
  <2>1. /\ proc[q].seen \in Nat /\ proc'[q].seen \in Nat
        /\ proc[p].age \in Nat /\ proc'[p].age \in Nat
    BY <1>3, Timings DEF States
  <2>2. SUFFICES ASSUME Leader!Acts(p), proc[q].at = "waiting", proc[q].read = "fresh"
                 PROVE  proc'[q].seen <= proc'[p].age
    BY <1>1, <1>2 DEF ClocksAgree
  <2>3. proc[q].seen <= proc[p].age
    BY <2>2 DEF ActInvariant, ClocksAgree
  <2>4. proc'[p].age = proc[p].age + 1 /\ proc'[q].seen <= proc[q].seen + 1
    BY <1>1, <2>2
  <2> QED
    BY <2>1, <2>3, <2>4
<1>5. NoLateRelease'
  BY <1>1 DEF ActInvariant, NoLateRelease
<1>6. ASSUME NEW p \in Procs PROVE ActorHolds(p)' /\ StartsUnread(p)'
  BY <1>1, <1>2 DEF ActInvariant, ActorHolds, StartsUnread
<1> QED
  BY <1>4, <1>5, <1>6 DEF ActInvariant

LEMMA StepAct ==
  ASSUME Leader!LeadershipAssumption, Leader!ExitBy < Duration, LeaseInvariant, ActInvariant,
         [Leader!Next]_(Leader!vars)
  PROVE  ActInvariant'
<1>1. CASE UNCHANGED Leader!vars
  BY <1>1 DEF Leader!vars, ActInvariant, NoLateRelease, ActorHolds, StartsUnread, ClocksAgree, Leader!Acts
<1>2. CASE Leader!Tick
  BY <1>2, TickAct
<1>3. ASSUME NEW p \in Procs, Leader!Waits(p) \/ Leader!Leads(p) \/ Leader!StepsDown(p) \/ Leader!Crash(p)
      PROVE  ActInvariant'
  BY <1>3, WaitsAct, LeadsAct, StepsDownAct, CrashAct
<1> QED
  BY <1>1, <1>2, <1>3 DEF Leader!Next

LEMMA OnlyOneActs == LeaseInvariant /\ ActInvariant => Leader!OneActs
<1> SUFFICES ASSUME LeaseInvariant, ActInvariant PROVE Leader!OneActs
  OBVIOUS
<1> DEFINE acting == {p \in Procs : Leader!Acts(p)}
<1>1. acting \subseteq holder
  BY DEF ActInvariant, ActorHolds
<1>2. acting = {} \/ \E p \in Procs : acting = {p}
  BY <1>1 DEF LeaseInvariant, LeaseTyped, OneHolder
<1>3. Cardinality({}) = 0 /\ \A p \in Procs : Cardinality({p}) = 1
  BY FS_EmptySet, FS_Singleton
<1>4. Cardinality(acting) \in {0, 1}
  BY <1>2, <1>3
<1>5. Leader!Cardinality(acting) = Cardinality(acting)
  BY DEF Leader!Cardinality, Cardinality
<1> HIDE DEF acting
<1>6. Leader!Cardinality(acting) <= 1
  BY <1>4, <1>5
<1> QED
  BY <1>6 DEF acting, Leader!OneActs

\* Two processes never act at once: no pass, no watch and no bus session of one
\* operator beside those of another.  leader.go's timing is what it rests on: a
\* duration longer than the renewal deadline, the retry period before it and the
\* release after it.  And a process that stepped down quietly, and whose requests were
\* answered, leaves no Lease that names it: clearIfHeld, with at least two tries,
\* outlives the one renewal that may land behind client-go's release.
THEOREM OneActsTheorem ==
  /\ OperatorAssumption
  /\ Leader!ExitBy < Duration /\ Tries > 1
  /\ \A bound \in LeaderFaults : bound["lateRelease"] = 0
  => (Spec => []OneActs)
<1> SUFFICES ASSUME OperatorAssumption, Leader!ExitBy < Duration, Tries > 1,
                    \A bound \in LeaderFaults : bound["lateRelease"] = 0
             PROVE  Spec => []OneActs
  OBVIOUS
<1> USE DEF OperatorAssumption
<1>1. Init => (focus = "leader" => ActInvariant)
  <2> SUFFICES ASSUME Init, focus = "leader" PROVE ActInvariant
    OBVIOUS
  <2>1. Leader!Init /\ budget \in LeaderFaults
    BY DEF Init
  <2> QED
    BY <2>1, InitAct
<1>2. /\ OfALeader => LeaseInvariant
      /\ focus = "leader" => ActInvariant
      /\ [Next]_vars
      => (focus = "leader" => ActInvariant)'
  <2> SUFFICES ASSUME OfALeader => LeaseInvariant, focus = "leader" => ActInvariant,
                      [Next]_vars, focus' = "leader"
               PROVE  ActInvariant'
    OBVIOUS
  <2>1. [Leader!Next]_(Leader!vars)
    BY LeaderOnly DEF OfALeader
  <2>2. focus = "leader"
    BY DEF Next, vars, OfLeader, OfBus, OfObject, OfProvider, About
  <2> QED
    BY <2>1, <2>2, StepAct DEF OfALeader
<1>3. (OfALeader => LeaseInvariant) /\ (focus = "leader" => ActInvariant) => OneActs
  BY OnlyOneActs DEF OneActs, OfALeader, LeaseInvariant, Steps, LeavesFree, Leader!SteppedDownIsFree
<1>4. Spec => [](OfALeader => LeaseInvariant)
  BY LeaseInductive
<1> QED
  BY <1>1, <1>2, <1>3, <1>4, PTL DEF Spec

-----------------------------------------------------------------------------

Frames == {Client!Sub(f) : f \in Filters} \cup {Client!Mark("online"), Client!Mark("offline")}

BusTyped ==
    /\ run \in {"on", "told", "ending", "done"}
    /\ at \in {"down", "hello", "open", "resub", "reading", "closing"}
    /\ conn \in BOOLEAN /\ lost \in BOOLEAN
    /\ n \in 0..Sessions
    /\ queue \in Seq(Frames) /\ Len(queue) <= Depth
    /\ filters \subseteq Filters
    /\ pending \in Seq(Filters)
    /\ thread \subseteq [filter : Filters, out : 1..n]
    /\ broker \in [session : {0, n}, subs : SUBSET Filters, mark : {"none", "online", "offline"}]

\* There is a queue from the CONNACK to the end of the read loop, and it is that of
\* the newest session.
OneQueue ==
    /\ at # "down" => n > 0
    /\ at \in {"open", "resub", "reading"} => out = n
    /\ at \notin {"open", "resub", "reading"} => out = 0 /\ queue = <<>>

\* A filter is remembered before it is sent anywhere.
Remembered ==
    /\ \A f \in Filters : Client!Sub(f) \in ToSet(queue) => f \in filters
    /\ ToSet(pending) \subseteq filters
    /\ \A t \in thread : t.filter \in filters
    /\ broker.subs \subseteq filters

\* The broker has the filter, or something that will send it to this session does.
OnItsWay(f) ==
    \/ f \in broker.subs
    \/ Client!Sub(f) \in ToSet(queue)
    \/ [filter |-> f, out |-> n] \in thread
    \/ at = "resub" /\ f \in ToSet(pending)

FiltersComeThrough ==
    at \in {"resub", "reading"} /\ conn /\ ~lost => \A f \in filters : OnItsWay(f)

\* Until the stop nothing but the mark of a role that is there is sent.
MarkComesThrough ==
    run = "on" =>
        /\ Client!Mark("offline") \notin ToSet(queue)
        /\ at = "reading" /\ conn /\ ~lost =>
               broker.mark = "online" \/ Client!Mark("online") \in ToSet(queue)

BusInvariant ==
    BusTyped /\ OneQueue /\ Remembered /\ FiltersComeThrough /\ MarkComesThrough

-----------------------------------------------------------------------------
(* Sequences by what is in them.                                           *)

LEMMA InEmpty == ToSet(<<>>) = {}
BY DEF ToSet

LEMMA InAppend ==
  ASSUME NEW S, NEW s \in Seq(S), NEW e \in S
  PROVE  /\ Append(s, e) \in Seq(S) /\ Len(Append(s, e)) = Len(s) + 1
         /\ ToSet(Append(s, e)) = ToSet(s) \cup {e}
<1> DEFINE longer == Append(s, e)
<1>1. /\ longer \in Seq(S) /\ Len(longer) = Len(s) + 1 /\ Len(s) \in Nat
      /\ longer[Len(s) + 1] = e /\ \A i \in 1..Len(s) : longer[i] = s[i]
      /\ DOMAIN longer = 1..Len(longer) /\ DOMAIN s = 1..Len(s)
  OBVIOUS
<1> HIDE DEF longer
<1>2. ToSet(longer) \subseteq ToSet(s) \cup {e}
  BY <1>1 DEF ToSet
<1>3. ToSet(s) \cup {e} \subseteq ToSet(longer)
  BY <1>1 DEF ToSet
<1> QED
  BY <1>1, <1>2, <1>3 DEF longer

LEMMA InTail ==
  ASSUME NEW S, NEW s \in Seq(S), s # <<>>
  PROVE  /\ Tail(s) \in Seq(S) /\ Len(Tail(s)) = Len(s) - 1
         /\ Head(s) \in S /\ ToSet(s) = ToSet(Tail(s)) \cup {Head(s)}
<1> DEFINE rest == Tail(s)
<1>1. /\ rest \in Seq(S) /\ Len(rest) = Len(s) - 1 /\ Len(s) \in Nat \ {0}
      /\ Head(s) = s[1] /\ s[1] \in S
      /\ \A i \in 1..Len(s) - 1 : rest[i] = s[i + 1]
      /\ DOMAIN rest = 1..Len(s) - 1 /\ DOMAIN s = 1..Len(s)
  OBVIOUS
<1> HIDE DEF rest
<1>2. ToSet(rest) \cup {Head(s)} \subseteq ToSet(s)
  <2>1. 1 \in 1..Len(s) /\ \A i \in 1..Len(s) - 1 : i + 1 \in 1..Len(s)
    BY <1>1
  <2>2. \A i \in 1..Len(s) - 1 : rest[i] \in ToSet(s)
    BY <1>1, <2>1 DEF ToSet
  <2>3. Head(s) \in ToSet(s)
    BY <1>1, <2>1 DEF ToSet
  <2> QED
    BY <1>1, <2>2, <2>3 DEF ToSet
<1>3. ASSUME NEW i \in 1..Len(s) PROVE s[i] \in ToSet(rest) \cup {Head(s)}
  <2>1. CASE i = 1
    BY <1>1, <2>1
  <2>2. CASE i # 1
    <3>1. i - 1 \in 1..Len(s) - 1 /\ rest[i - 1] = s[i]
      BY <1>1, <2>2
    <3> QED
      BY <1>1, <3>1 DEF ToSet
  <2> QED
    BY <2>1, <2>2
<1>4. ToSet(s) \subseteq ToSet(rest) \cup {Head(s)}
  BY <1>1, <1>3 DEF ToSet
<1> QED
  BY <1>1, <1>2, <1>4 DEF rest

\* A finite set as a sequence leaves no element out.
LEMMA InSetToSeq ==
  ASSUME NEW S, IsFiniteSet(S)
  PROVE  Client!SetToSeq(S) \in Seq(S) /\ ToSet(Client!SetToSeq(S)) = S
<1> DEFINE size == Cardinality(S)
           s == Client!SetToSeq(S)
<1>1. size \in Nat /\ ExistsBijection(1..size, S)
  BY FS_CardinalityType
<1>2. \E f \in [1..size -> S] : IsInjective(f)
  BY <1>1 DEF ExistsBijection, Bijection, Injection
<1>3. s \in [1..size -> S] /\ IsInjective(s)
  <2>1. Client!Cardinality(S) = size
    BY DEF Client!Cardinality, Cardinality
  <2>2. \E f \in [1..Client!Cardinality(S) -> S] : Client!IsInjective(f)
    BY <1>2, <2>1 DEF IsInjective, Client!IsInjective
  <2>3. s \in [1..Client!Cardinality(S) -> S] /\ Client!IsInjective(s)
    BY <2>2 DEF Client!SetToSeq
  <2> QED
    BY <2>1, <2>3 DEF IsInjective, Client!IsInjective
<1>4. s \in Injection(1..size, S)
  BY <1>3 DEF Injection
<1>5. Cardinality(1..size) = Cardinality(S)
  BY <1>1, FS_Interval
<1> HIDE DEF s
<1>6. s \in Surjection(1..size, S)
  BY <1>4, <1>5, FS_Injection
<1>7. \A x \in S : \E i \in 1..size : s[i] = x
  BY <1>6 DEF Surjection
<1>8. s \in Seq(S) /\ DOMAIN s = 1..size
  BY <1>1, <1>3
<1> QED
  BY <1>3, <1>7, <1>8 DEF s, ToSet

-----------------------------------------------------------------------------
(* The queue.                                                              *)

LEMMA FrameKinds ==
  /\ \A f \in Filters : Client!Sub(f) \in Frames /\ Client!Sub(f)[1] = "sub" /\ Client!Sub(f)[2] = f
  /\ \A v \in {"online", "offline"} :
         Client!Mark(v) \in Frames /\ Client!Mark(v)[1] = "mark" /\ Client!Mark(v)[2] = v
  /\ \A frame \in Frames :
         \/ \E f \in Filters : frame = Client!Sub(f)
         \/ frame \in {Client!Mark("online"), Client!Mark("offline")}
  /\ \A f \in Filters, v \in {"online", "offline"} : Client!Sub(f) # Client!Mark(v)
  /\ \A f, g \in Filters : Client!Sub(f) = Client!Sub(g) => f = g
  /\ Client!Mark("online") # Client!Mark("offline")
BY DEF Frames, Client!Sub, Client!Mark

\* A frame goes into the queue of its session, is dropped and counted, or goes to a
\* session that is over.
LEMMA EnqueueDoes ==
  ASSUME Client!BusAssumption, BusTyped, NEW s, NEW frame \in Frames, Client!Enqueue(s, frame)
  PROVE  /\ queue' \in Seq(Frames) /\ Len(queue') <= Depth /\ lost' \in BOOLEAN
         /\ lost => lost'
         /\ ToSet(queue') \in {ToSet(queue), ToSet(queue) \cup {frame}}
         /\ s = out /\ ~lost' => frame \in ToSet(queue')
         /\ s # out => queue' = queue
<1>1. CASE s # out
  BY <1>1 DEF Client!Enqueue, BusTyped
<1>2. CASE s = out /\ Len(queue) < Depth
  <2>1. queue' = Append(queue, frame) /\ lost' = lost
    BY <1>2 DEF Client!Enqueue
  <2>2. /\ queue' \in Seq(Frames) /\ Len(queue') = Len(queue) + 1
        /\ ToSet(queue') = ToSet(queue) \cup {frame}
    BY <2>1, InAppend DEF BusTyped
  <2>3. Len(queue') <= Depth
    BY <1>2, <2>2 DEF BusTyped, Client!BusAssumption
  <2> QED
    BY <1>2, <2>1, <2>2, <2>3 DEF BusTyped
<1>3. CASE s = out /\ ~(Len(queue) < Depth)
  BY <1>3 DEF Client!Enqueue, BusTyped
<1> QED
  BY <1>1, <1>2, <1>3

-----------------------------------------------------------------------------
(* The steps.                                                              *)

LEMMA InitBus ==
  ASSUME Client!BusAssumption, Client!Init
  PROVE  BusInvariant
<1>1. /\ queue = <<>> /\ pending = <<>> /\ thread = {} /\ n = 0
      /\ broker = [session |-> 0, subs |-> {}, mark |-> "none"]
  BY DEF Client!Init
<1>2. /\ queue \in Seq(Frames) /\ Len(queue) <= Depth /\ pending \in Seq(Filters)
      /\ n \in 0..Sessions
  BY <1>1 DEF Client!BusAssumption
<1>3. thread \subseteq [filter : Filters, out : 1..n]
      /\ broker \in [session : {0, n}, subs : SUBSET Filters, mark : {"none", "online", "offline"}]
  BY <1>1
<1>4. BusTyped
  BY <1>2, <1>3 DEF Client!Init, BusTyped
<1> QED
  BY <1>1, <1>4, InEmpty DEF Client!Init, BusInvariant, OneQueue, Remembered, FiltersComeThrough,
                       MarkComesThrough

LEMMA SubscribeKeeps ==
  ASSUME Client!BusAssumption, BusInvariant, NEW f \in Filters, Client!Subscribe(f)
  PROVE  BusInvariant'
<1>1. /\ UNCHANGED <<run, at, conn, n, out, queue, pending, broker, lost>>
      /\ filters' = filters \cup {f}
      /\ thread' = IF out = 0 THEN thread ELSE thread \cup {[filter |-> f, out |-> out]}
  BY DEF Client!Subscribe
<1>2. out # 0 => out = n /\ n \in 1..n
  BY DEF BusInvariant, BusTyped, OneQueue
<1>3. BusTyped'
  BY <1>1, <1>2 DEF BusInvariant, BusTyped
<1>4. OneQueue' /\ MarkComesThrough'
  BY <1>1 DEF BusInvariant, OneQueue, MarkComesThrough
<1>5. Remembered'
  BY <1>1 DEF BusInvariant, Remembered
<1>6. FiltersComeThrough'
  <2> SUFFICES ASSUME at \in {"resub", "reading"}, conn, ~lost, NEW g \in filters'
               PROVE  OnItsWay(g)'
    BY <1>1 DEF FiltersComeThrough
  <2>1. out = n /\ out # 0
    BY DEF BusInvariant, OneQueue, BusTyped
  <2>2. CASE g = f
    BY <1>1, <2>1, <2>2 DEF OnItsWay
  <2>3. CASE g \in filters
    <3>1. OnItsWay(g)
      BY <2>3 DEF BusInvariant, FiltersComeThrough
    <3> QED
      BY <1>1, <3>1 DEF OnItsWay
  <2> QED
    BY <1>1, <2>2, <2>3
<1> QED
  BY <1>3, <1>4, <1>5, <1>6 DEF BusInvariant

LEMMA SubscribeSendsKeeps ==
  ASSUME Client!BusAssumption, BusInvariant, Client!SubscribeSends
  PROVE  BusInvariant'
<1>1. PICK t \in thread : /\ thread' = thread \ {t}
                          /\ Client!Enqueue(t.out, Client!Sub(t.filter))
                          /\ UNCHANGED <<run, at, conn, n, out, filters, pending, broker>>
  BY DEF Client!SubscribeSends
<1>2. /\ t \in [filter : Filters, out : 1..n] /\ t = [filter |-> t.filter, out |-> t.out]
      /\ t.filter \in Filters /\ t.out \in 1..n /\ t.filter \in filters
  BY DEF BusInvariant, BusTyped, Remembered
<1>3. Client!Sub(t.filter) \in Frames
  BY <1>2, FrameKinds
<1>4. /\ queue' \in Seq(Frames) /\ Len(queue') <= Depth /\ lost' \in BOOLEAN
      /\ lost => lost'
      /\ ToSet(queue') \in {ToSet(queue), ToSet(queue) \cup {Client!Sub(t.filter)}}
      /\ t.out = out /\ ~lost' => Client!Sub(t.filter) \in ToSet(queue')
      /\ t.out # out => queue' = queue
  BY <1>1, <1>3, EnqueueDoes DEF BusInvariant
<1>5. BusTyped'
  BY <1>1, <1>4 DEF BusInvariant, BusTyped
<1>6. OneQueue'
  <2>1. out = 0 => t.out # out
    BY <1>2 DEF BusInvariant, BusTyped
  <2> QED
    BY <1>1, <1>4, <2>1 DEF BusInvariant, OneQueue
<1>7. Remembered'
  BY <1>1, <1>2, <1>4, FrameKinds DEF BusInvariant, Remembered
<1>8. FiltersComeThrough'
  <2> SUFFICES ASSUME at \in {"resub", "reading"}, conn, ~lost', NEW g \in filters
               PROVE  OnItsWay(g)'
    BY <1>1 DEF FiltersComeThrough
  <2>1. OnItsWay(g) /\ out = n
    BY <1>4 DEF BusInvariant, FiltersComeThrough, OneQueue
  <2>2. CASE [filter |-> g, out |-> n] = t
    <3>1. t.filter = g /\ t.out = out
      BY <2>1, <2>2
    <3> QED
      BY <1>4, <3>1 DEF OnItsWay
  <2>3. CASE [filter |-> g, out |-> n] # t
    <3>1. ToSet(queue) \subseteq ToSet(queue')
      BY <1>4
    <3> QED
      BY <1>1, <2>1, <2>3, <3>1 DEF OnItsWay
  <2> QED
    BY <2>2, <2>3
<1>9. MarkComesThrough'
  <2>1. Client!Sub(t.filter) # Client!Mark("offline")
    BY <1>2, FrameKinds
  <2>2. ToSet(queue) \subseteq ToSet(queue') /\ ToSet(queue') \subseteq ToSet(queue) \cup {Client!Sub(t.filter)}
    BY <1>4
  <2> QED
    BY <1>1, <1>4, <2>1, <2>2 DEF BusInvariant, MarkComesThrough
<1> QED
  BY <1>5, <1>6, <1>7, <1>8, <1>9 DEF BusInvariant

LEMMA ToldKeeps ==
  ASSUME Client!BusAssumption, BusInvariant, Client!Told
  PROVE  BusInvariant'
<1>1. /\ run' = "told"
      /\ UNCHANGED <<at, conn, n, out, filters, pending, thread, broker>>
  BY DEF Client!Told
<1>2. /\ queue' \in Seq(Frames) /\ Len(queue') <= Depth /\ lost' \in BOOLEAN
      /\ lost => lost'
      /\ ToSet(queue') \in {ToSet(queue), ToSet(queue) \cup {Client!Mark("offline")}}
      /\ out = 0 => queue' = queue
  <2>1. CASE out = 0
    BY <2>1 DEF Client!Told, BusInvariant, BusTyped
  <2>2. CASE out # 0
    <3>1. Client!Enqueue(out, Client!Mark("offline")) /\ Client!Mark("offline") \in Frames
      BY <2>2, FrameKinds DEF Client!Told
    <3> QED
      BY <2>2, <3>1, EnqueueDoes DEF BusInvariant
  <2> QED
    BY <2>1, <2>2
<1>3. BusTyped'
  BY <1>1, <1>2 DEF BusInvariant, BusTyped
<1>4. OneQueue'
  BY <1>1, <1>2 DEF BusInvariant, OneQueue
<1>5. Remembered'
  BY <1>1, <1>2, FrameKinds DEF BusInvariant, Remembered
<1>6. FiltersComeThrough'
  <2>1. ToSet(queue) \subseteq ToSet(queue')
    BY <1>2
  <2> QED
    BY <1>1, <1>2, <2>1 DEF BusInvariant, FiltersComeThrough, OnItsWay
<1>7. MarkComesThrough'
  BY <1>1 DEF MarkComesThrough
<1> QED
  BY <1>3, <1>4, <1>5, <1>6, <1>7 DEF BusInvariant

\* A new session has no queue yet, and its broker no filter.
LEMMA DialKeeps ==
  ASSUME Client!BusAssumption, BusInvariant, Client!Dial
  PROVE  BusInvariant'
<1>1. /\ at = "down" /\ n < Sessions /\ at' = "hello" /\ conn' = TRUE /\ n' = n + 1 /\ lost' = FALSE
      /\ broker' = [session |-> n + 1, subs |-> {},
                    mark |-> IF broker.session = 0 THEN broker.mark ELSE "offline"]
      /\ UNCHANGED <<run, out, queue, filters, pending, thread>>
  BY DEF Client!Dial
<1>2. n \in Nat /\ n + 1 \in 0..Sessions /\ 1..n \subseteq 1..n + 1
  BY <1>1 DEF BusInvariant, BusTyped, Client!BusAssumption
<1>3. thread \subseteq [filter : Filters, out : 1..n + 1]
  BY <1>2 DEF BusInvariant, BusTyped
<1>4. broker' \in [session : {0, n'}, subs : SUBSET Filters, mark : {"none", "online", "offline"}]
  BY <1>1 DEF BusInvariant, BusTyped
<1>5. BusTyped'
  BY <1>1, <1>2, <1>3, <1>4 DEF BusInvariant, BusTyped
<1>6. OneQueue' /\ Remembered'
  <2>1. n' > 0 /\ out' = 0 /\ queue' = <<>> /\ broker'.subs = {}
    BY <1>1, <1>2 DEF BusInvariant, OneQueue
  <2>2. OneQueue'
    BY <1>1, <2>1 DEF OneQueue
  <2>3. Remembered'
    BY <1>1, <2>1 DEF BusInvariant, Remembered
  <2> QED
    BY <2>2, <2>3
<1>7. FiltersComeThrough'
  BY <1>1 DEF FiltersComeThrough
<1>8. MarkComesThrough'
  BY <1>1 DEF BusInvariant, MarkComesThrough
<1> QED
  BY <1>5, <1>6, <1>7, <1>8 DEF BusInvariant

\* From its CONNACK a session has the queue; nothing was put there before.
LEMMA OpenKeeps ==
  ASSUME Client!BusAssumption, BusInvariant, Client!Open
  PROVE  BusInvariant'
<1>1. /\ at = "hello" /\ at' = "open" /\ out' = n /\ conn' = (run # "ending")
      /\ UNCHANGED <<run, n, queue, filters, pending, thread, broker, lost>>
  BY DEF Client!Open
<1>2. BusTyped'
  <2>1. conn' \in BOOLEAN
    BY <1>1
  <2>2. /\ at' \in {"down", "hello", "open", "resub", "reading", "closing"}
        /\ UNCHANGED <<run, n, queue, filters, pending, thread, broker, lost>>
    BY <1>1
  <2> HIDE <1>1
  <2> QED
    BY <2>1, <2>2 DEF BusInvariant, BusTyped
<1>3. OneQueue'
  BY <1>1 DEF BusInvariant, OneQueue
<1>4. Remembered' /\ FiltersComeThrough' /\ MarkComesThrough'
  BY <1>1 DEF BusInvariant, Remembered, FiltersComeThrough, MarkComesThrough
<1> QED
  BY <1>2, <1>3, <1>4 DEF BusInvariant

LEMMA HelloRefusedKeeps ==
  ASSUME Client!BusAssumption, BusInvariant, Client!Refused
  PROVE  BusInvariant'
<1>1. /\ at = "hello" /\ at' = "down"
      /\ UNCHANGED <<run, conn, n, out, queue, filters, pending, thread, broker, lost>>
  BY DEF Client!Refused
<1> QED
  BY <1>1 DEF BusInvariant, BusTyped, OneQueue, Remembered, FiltersComeThrough, MarkComesThrough,
             OnItsWay

\* What is remembered at the snapshot is sent because of it, what is remembered
\* later because of its own Subscribe.
LEMMA SnapshotKeeps ==
  ASSUME Client!BusAssumption, BusInvariant, Client!Snapshot
  PROVE  BusInvariant'
<1>1. /\ at = "open" /\ at' = "resub" /\ pending' = Client!SetToSeq(filters)
      /\ UNCHANGED <<run, conn, n, out, queue, filters, thread, broker, lost>>
  BY DEF Client!Snapshot
<1>2. IsFiniteSet(filters)
  <2>1. IsFiniteSet(Filters)
    BY DEF Client!BusAssumption, Client!IsFiniteSet, IsFiniteSet
  <2> QED
    BY <2>1, FS_Subset DEF BusInvariant, BusTyped
<1>3. pending' \in Seq(filters) /\ ToSet(pending') = filters
  BY <1>1, <1>2, InSetToSeq
<1>4. pending' \in Seq(Filters)
  BY <1>3 DEF BusInvariant, BusTyped
<1>5. BusTyped'
  BY <1>1, <1>4 DEF BusInvariant, BusTyped
<1>6. OneQueue'
  BY <1>1 DEF BusInvariant, OneQueue
<1>7. Remembered'
  BY <1>1, <1>3 DEF BusInvariant, Remembered
<1>8. FiltersComeThrough'
  BY <1>1, <1>3 DEF FiltersComeThrough, OnItsWay
<1>9. MarkComesThrough'
  BY <1>1 DEF BusInvariant, MarkComesThrough
<1> QED
  BY <1>5, <1>6, <1>7, <1>8, <1>9 DEF BusInvariant

\* The mark goes out once the filters have.
LEMMA ResubscribedKeeps ==
  ASSUME Client!BusAssumption, BusInvariant, Client!Resubscribe, pending = <<>>
  PROVE  BusInvariant'
<1>1. /\ at = "resub" /\ at' = "reading" /\ Client!Enqueue(n, Client!Mark("online")) /\ pending' = pending
      /\ UNCHANGED <<run, conn, n, out, filters, thread, broker>>
  BY DEF Client!Resubscribe
<1>2. Client!Mark("online") \in Frames /\ out = n
  BY <1>1, FrameKinds DEF BusInvariant, OneQueue
<1>3. /\ queue' \in Seq(Frames) /\ Len(queue') <= Depth /\ lost' \in BOOLEAN
      /\ lost => lost'
      /\ ToSet(queue') \in {ToSet(queue), ToSet(queue) \cup {Client!Mark("online")}}
      /\ ~lost' => Client!Mark("online") \in ToSet(queue')
  BY <1>1, <1>2, EnqueueDoes DEF BusInvariant
<1>4. BusTyped'
  BY <1>1, <1>3 DEF BusInvariant, BusTyped
<1>5. OneQueue'
  BY <1>1 DEF BusInvariant, OneQueue
<1>6. Remembered'
  BY <1>1, <1>3, FrameKinds DEF BusInvariant, Remembered
<1>7. FiltersComeThrough'
  <2>1. ToSet(queue) \subseteq ToSet(queue') /\ ToSet(pending) = {}
    BY <1>3, InEmpty
  <2> QED
    BY <1>1, <1>3, <2>1 DEF BusInvariant, FiltersComeThrough, OnItsWay
<1>8. MarkComesThrough'
  BY <1>1, <1>3, FrameKinds DEF BusInvariant, MarkComesThrough
<1> QED
  BY <1>4, <1>5, <1>6, <1>7, <1>8 DEF BusInvariant

LEMMA ResubscribeKeeps ==
  ASSUME Client!BusAssumption, BusInvariant, Client!Resubscribe, pending # <<>>
  PROVE  BusInvariant'
<1>1. /\ at = "resub" /\ at' = at /\ Client!Enqueue(n, Client!Sub(Head(pending))) /\ pending' = Tail(pending)
      /\ UNCHANGED <<run, conn, n, out, filters, thread, broker>>
  BY DEF Client!Resubscribe
<1>2. pending \in Seq(Filters)
  BY DEF BusInvariant, BusTyped
<1>3. /\ Tail(pending) \in Seq(Filters) /\ Head(pending) \in Filters
      /\ ToSet(pending) = ToSet(Tail(pending)) \cup {Head(pending)}
  BY <1>2, InTail
<1>4. Client!Sub(Head(pending)) \in Frames /\ out = n /\ Head(pending) \in filters
  BY <1>1, <1>3, FrameKinds DEF BusInvariant, OneQueue, Remembered
<1>5. /\ queue' \in Seq(Frames) /\ Len(queue') <= Depth /\ lost' \in BOOLEAN
      /\ lost => lost'
      /\ ToSet(queue') \in {ToSet(queue), ToSet(queue) \cup {Client!Sub(Head(pending))}}
      /\ ~lost' => Client!Sub(Head(pending)) \in ToSet(queue')
  BY <1>1, <1>4, EnqueueDoes DEF BusInvariant
<1>6. BusTyped'
  BY <1>1, <1>3, <1>5 DEF BusInvariant, BusTyped
<1>7. OneQueue'
  BY <1>1 DEF BusInvariant, OneQueue
<1>8. Remembered'
  BY <1>1, <1>3, <1>4, <1>5, FrameKinds DEF BusInvariant, Remembered
<1>9. FiltersComeThrough'
  <2> SUFFICES ASSUME conn, ~lost', NEW g \in filters
               PROVE  OnItsWay(g)'
    BY <1>1 DEF FiltersComeThrough
  <2>1. OnItsWay(g) /\ ToSet(queue) \subseteq ToSet(queue')
    BY <1>1, <1>5 DEF BusInvariant, FiltersComeThrough
  <2>2. CASE g = Head(pending)
    BY <1>5, <2>2 DEF OnItsWay
  <2>3. CASE g # Head(pending)
    BY <1>1, <1>3, <2>1, <2>3 DEF OnItsWay
  <2> QED
    BY <2>2, <2>3
<1>10. MarkComesThrough'
  <2>1. Client!Sub(Head(pending)) # Client!Mark("offline")
    BY <1>3, FrameKinds
  <2> QED
    BY <1>1, <1>5, <2>1 DEF BusInvariant, MarkComesThrough
<1> QED
  BY <1>6, <1>7, <1>8, <1>9, <1>10 DEF BusInvariant

\* A frame that leaves the queue is a filter or a mark that the broker has.
LEMMA WriterSendsKeeps ==
  ASSUME Client!BusAssumption, BusInvariant, Client!WriterSends
  PROVE  BusInvariant'
<1>1. /\ at \in {"open", "resub", "reading"} /\ conn /\ queue # <<>> /\ queue' = Tail(queue)
      /\ broker' = IF Head(queue)[1] = "sub"
                   THEN [broker EXCEPT !.subs = @ \cup {Head(queue)[2]}]
                   ELSE [broker EXCEPT !.mark = Head(queue)[2]]
      /\ UNCHANGED <<run, at, conn, n, out, filters, pending, thread, lost>>
  BY DEF Client!WriterSends
<1>2. /\ queue' \in Seq(Frames) /\ Len(queue') = Len(queue) - 1 /\ Head(queue) \in Frames
      /\ ToSet(queue) = ToSet(queue') \cup {Head(queue)}
  BY <1>1, InTail DEF BusInvariant, BusTyped
<1>3. Len(queue') <= Depth
  BY <1>2 DEF BusInvariant, BusTyped, Client!BusAssumption
<1>4. OneQueue'
  BY <1>1 DEF BusInvariant, OneQueue
<1>5. CASE \E f \in Filters : Head(queue) = Client!Sub(f)
  <2>1. PICK f \in Filters : Head(queue) = Client!Sub(f)
    BY <1>5
  <2>2. Head(queue)[1] = "sub" /\ Head(queue)[2] = f
    BY <2>1, FrameKinds
  <2>3. broker' = [broker EXCEPT !.subs = @ \cup {f}]
    BY <1>1, <2>2
  <2>4. /\ broker'.subs = broker.subs \cup {f} /\ broker'.mark = broker.mark
        /\ broker' \in [session : {0, n}, subs : SUBSET Filters, mark : {"none", "online", "offline"}]
        /\ f \in filters
    BY <1>2, <2>1, <2>3 DEF BusInvariant, BusTyped, Remembered
  <2>5. BusTyped'
    BY <1>1, <1>2, <1>3, <2>4 DEF BusInvariant, BusTyped
  <2>6. Remembered'
    BY <1>1, <1>2, <2>4 DEF BusInvariant, Remembered
  <2>7. FiltersComeThrough'
    <3> SUFFICES ASSUME at \in {"resub", "reading"}, ~lost, NEW g \in filters
                 PROVE  OnItsWay(g)'
      BY <1>1 DEF FiltersComeThrough
    <3>1. OnItsWay(g) /\ g \in Filters
      BY <1>1 DEF BusInvariant, FiltersComeThrough, BusTyped
    <3>2. Client!Sub(g) = Head(queue) => g = f
      BY <2>1, <3>1, FrameKinds
    <3> QED
      BY <1>1, <1>2, <2>4, <3>1, <3>2 DEF OnItsWay
  <2>8. MarkComesThrough'
    <3>1. Client!Mark("online") # Head(queue)
      BY <2>1, FrameKinds
    <3> QED
      BY <1>1, <1>2, <2>4, <3>1 DEF BusInvariant, MarkComesThrough
  <2> QED
    BY <1>4, <2>5, <2>6, <2>7, <2>8 DEF BusInvariant
<1>6. CASE Head(queue) \in {Client!Mark("online"), Client!Mark("offline")}
  <2>1. PICK v \in {"online", "offline"} : Head(queue) = Client!Mark(v)
    BY <1>6
  <2>2. Head(queue)[1] = "mark" /\ Head(queue)[2] = v
    BY <2>1, FrameKinds
  <2>3. broker' = [broker EXCEPT !.mark = v]
    BY <1>1, <2>2
  <2>4. /\ broker'.subs = broker.subs /\ broker'.mark = v
        /\ broker' \in [session : {0, n}, subs : SUBSET Filters, mark : {"none", "online", "offline"}]
    BY <2>3 DEF BusInvariant, BusTyped
  <2>5. BusTyped'
    BY <1>1, <1>2, <1>3, <2>4 DEF BusInvariant, BusTyped
  <2>6. Remembered'
    BY <1>1, <1>2, <2>4 DEF BusInvariant, Remembered
  <2>7. FiltersComeThrough'
    <3> SUFFICES ASSUME at \in {"resub", "reading"}, ~lost, NEW g \in filters
                 PROVE  OnItsWay(g)'
      BY <1>1 DEF FiltersComeThrough
    <3>1. OnItsWay(g) /\ g \in Filters
      BY <1>1 DEF BusInvariant, FiltersComeThrough, BusTyped
    <3>2. Client!Sub(g) # Head(queue)
      BY <2>1, <3>1, FrameKinds
    <3> QED
      BY <1>1, <1>2, <2>4, <3>1, <3>2 DEF OnItsWay
  <2>8. MarkComesThrough'
    <3>1. run = "on" => v = "online"
      BY <1>2, <2>1 DEF BusInvariant, MarkComesThrough
    <3> QED
      BY <1>1, <1>2, <2>4, <3>1 DEF BusInvariant, MarkComesThrough
  <2> QED
    BY <1>4, <2>5, <2>6, <2>7, <2>8 DEF BusInvariant
<1> QED
  BY <1>2, <1>5, <1>6, FrameKinds

\* The steps that leave the session's bookkeeping alone, or only lose its connection.
LEMMA QuietKeeps ==
  ASSUME Client!BusAssumption, BusInvariant,
         \/ Client!Deliver \/ Client!Handled \/ Client!Break \/ Client!StopBus \/ Client!Return
         \/ UNCHANGED Client!vars
  PROVE  BusInvariant'
<1>1. /\ UNCHANGED <<at, n, out, queue, filters, pending, thread, broker, lost>>
      /\ run' \in {run, "ending", "done"} /\ (conn' => conn) /\ conn' \in BOOLEAN
  <2>1. conn \in BOOLEAN
    BY DEF BusInvariant, BusTyped
  <2>2. CASE Client!StopBus
    <3>1. conn' = (conn /\ at = "hello") /\ run' = "ending"
          /\ UNCHANGED <<at, n, out, queue, filters, pending, thread, broker, lost>>
      BY <2>2 DEF Client!StopBus
    <3> QED
      BY <2>1, <3>1
  <2>3. CASE Client!Deliver \/ Client!Handled \/ UNCHANGED Client!vars
    BY <2>1, <2>3 DEF Client!Deliver, Client!Handled, Client!vars
  <2>4. CASE Client!Break
    BY <2>4 DEF Client!Break
  <2>5. CASE Client!Return
    <3>1. conn' = conn /\ run' = "done"
          /\ UNCHANGED <<at, n, out, queue, filters, pending, thread, broker, lost>>
      BY <2>5 DEF Client!Return
    <3> QED
      BY <2>1, <3>1
  <2> QED
    BY <2>2, <2>3, <2>4, <2>5
<1>2. run' \in {"on", "told", "ending", "done"}
  BY <1>1 DEF BusInvariant, BusTyped
<1>3. BusTyped'
  <2>1. /\ UNCHANGED <<at, n, out, queue, filters, pending, thread, broker, lost>>
        /\ conn' \in BOOLEAN
    BY <1>1
  <2> HIDE <1>1
  <2> QED
    BY <1>2, <2>1 DEF BusInvariant, BusTyped
<1>4. OneQueue' /\ Remembered'
  BY <1>1 DEF BusInvariant, OneQueue, Remembered
<1>5. FiltersComeThrough'
  BY <1>1 DEF BusInvariant, FiltersComeThrough, OnItsWay
<1>6. MarkComesThrough'
  BY <1>1 DEF BusInvariant, MarkComesThrough
<1> QED
  BY <1>3, <1>4, <1>5, <1>6 DEF BusInvariant

LEMMA CloseKeeps ==
  ASSUME Client!BusAssumption, BusInvariant, Client!Close
  PROVE  BusInvariant'
<1>1. /\ at = "reading" /\ at' = "closing" /\ out' = 0 /\ queue' = <<>>
      /\ UNCHANGED <<run, conn, n, filters, pending, thread, broker, lost>>
  BY DEF Client!Close
<1>2. queue' \in Seq(Frames) /\ Len(queue') <= Depth /\ ToSet(queue') = {}
  BY <1>1, InEmpty DEF Client!BusAssumption
<1>3. BusTyped'
  BY <1>1, <1>2 DEF BusInvariant, BusTyped
<1>4. OneQueue' /\ Remembered' /\ FiltersComeThrough' /\ MarkComesThrough'
  BY <1>1, <1>2 DEF BusInvariant, OneQueue, Remembered, FiltersComeThrough, MarkComesThrough
<1> QED
  BY <1>3, <1>4 DEF BusInvariant

LEMMA ClosedKeeps ==
  ASSUME Client!BusAssumption, BusInvariant, Client!Closed
  PROVE  BusInvariant'
<1>1. /\ at = "closing" /\ at' = "down"
      /\ UNCHANGED <<run, conn, n, out, queue, filters, pending, thread, broker, lost>>
  BY DEF Client!Closed
<1> QED
  BY <1>1 DEF BusInvariant, BusTyped, OneQueue, Remembered, FiltersComeThrough, MarkComesThrough

\* A broker that forgets a session does so after its connection.
LEMMA BrokerNoticesKeeps ==
  ASSUME Client!BusAssumption, BusInvariant, Client!BrokerNotices
  PROVE  BusInvariant'
<1>1. /\ ~conn /\ broker' = [session |-> 0, subs |-> {}, mark |-> "offline"]
      /\ UNCHANGED <<run, at, conn, n, out, queue, filters, pending, thread, lost>>
  BY DEF Client!BrokerNotices
<1>2. broker' \in [session : {0, n}, subs : SUBSET Filters, mark : {"none", "online", "offline"}]
  BY <1>1
<1>3. BusTyped'
  BY <1>1, <1>2 DEF BusInvariant, BusTyped
<1>4. OneQueue' /\ Remembered' /\ FiltersComeThrough' /\ MarkComesThrough'
  BY <1>1 DEF BusInvariant, OneQueue, Remembered, FiltersComeThrough, MarkComesThrough
<1> QED
  BY <1>3, <1>4 DEF BusInvariant

-----------------------------------------------------------------------------
(* The theorems.                                                           *)

LEMMA BusStep ==
  ASSUME Client!BusAssumption, BusInvariant, [Client!Next]_(Client!vars)
  PROVE  BusInvariant'
<1>1. CASE Client!Next
  <2>1. CASE \E f \in Filters : Client!Subscribe(f)
    BY <2>1, SubscribeKeeps
  <2>2. CASE Client!SubscribeSends \/ Client!Told \/ Client!Dial
    BY <2>2, SubscribeSendsKeeps, ToldKeeps, DialKeeps
  <2>3. CASE Client!Open \/ Client!Refused \/ Client!Snapshot \/ Client!Close \/ Client!Closed
    BY <2>3, OpenKeeps, HelloRefusedKeeps, SnapshotKeeps, CloseKeeps, ClosedKeeps
  <2>4. CASE Client!Resubscribe
    BY <2>4, ResubscribedKeeps, ResubscribeKeeps
  <2>5. CASE Client!WriterSends \/ Client!BrokerNotices
    BY <2>5, WriterSendsKeeps, BrokerNoticesKeeps
  <2>6. CASE Client!StopBus \/ Client!Deliver \/ Client!Handled \/ Client!Break \/ Client!Return
    BY <2>6, QuietKeeps
  <2> QED
    BY <1>1, <2>1, <2>2, <2>3, <2>4, <2>5, <2>6 DEF Client!Next, Client!Session
<1>2. CASE UNCHANGED Client!vars
  BY <1>2, QuietKeeps
<1> QED
  BY <1>1, <1>2

\* What a session still owes its broker is in the queue of that session, in the list
\* that it re-subscribes, or in a goroutine that reads the queue of this session;
\* whatever the order of Subscribe, reconnect, drop and stop (Subscribe and runSession
\* in bus.go).
THEOREM BusInductive ==
  OperatorAssumption => (Spec => [](focus = "bus" => BusInvariant))
<1> SUFFICES ASSUME OperatorAssumption PROVE Spec => [](focus = "bus" => BusInvariant)
  OBVIOUS
<1> USE DEF OperatorAssumption
<1>1. Init => (focus = "bus" => BusInvariant)
  BY ClientOnly, InitBus
<1>2. (focus = "bus" => BusInvariant) /\ [Next]_vars => (focus = "bus" => BusInvariant)'
  BY ClientOnly, BusStep
<1> QED
  BY <1>1, <1>2, PTL DEF Spec

\* The state of the client keeps its types: its queue is never deeper than
\* busQueueDepth, and the broker never hears of a filter that is not remembered:
\* Bus!TypeOK.
THEOREM BusTypes == OperatorAssumption => (Spec => [](focus = "bus" => Client!TypeOK))
<1>1. BusInvariant => Client!TypeOK
  <2> SUFFICES ASSUME BusInvariant PROVE Client!TypeOK
    OBVIOUS
  <2>1. out \in 0..n
    BY DEF BusInvariant, BusTyped, OneQueue
  <2>2. ToSet(pending) \subseteq Filters
    BY DEF BusInvariant, BusTyped, Remembered
  <2>3. Client!ToSet(pending) = ToSet(pending)
    BY DEF Client!ToSet, ToSet
  <2>4. Client!ToSet(pending) \subseteq Filters
    BY <2>2, <2>3
  <2> QED
    BY <2>1, <2>4 DEF BusInvariant, BusTyped, Remembered, Client!TypeOK
<1> QED
  BY <1>1, BusInductive, PTL

\* SessionIsWhole: once an open session has drained its queue, its broker has every
\* remembered filter, and the role is online unless it was told to stop.
THEOREM SessionsAreWhole == OperatorAssumption => (Spec => []SessionIsWhole)
<1>1. BusInvariant => Client!SessionIsWhole
  <2> SUFFICES ASSUME BusInvariant, Client!Drained
               PROVE  broker.subs = filters /\ (run = "on" => broker.mark = "online")
    BY DEF Client!SessionIsWhole
  <2>1. at = "reading" /\ conn /\ ToSet(queue) = {} /\ thread = {} /\ ~lost
    BY InEmpty DEF Client!Drained
  <2>2. filters \subseteq broker.subs
    BY <2>1 DEF BusInvariant, FiltersComeThrough, OnItsWay
  <2> QED
    BY <2>1, <2>2 DEF BusInvariant, Remembered, MarkComesThrough
<1>2. (focus = "bus" => BusInvariant) => SessionIsWhole
  BY <1>1 DEF SessionIsWhole
<1> QED
  BY <1>2, BusInductive, PTL

-----------------------------------------------------------------------------
(* Watched.  The store holds a change of the API server, the changes after *)
(* it are under way in their order, and the last of them is how the object *)
(* stands now.                                                             *)

Watch == INSTANCE Watched WITH Rule <- [k \in Keys |-> "edited"], Faults <- {}

\* What the watch does in either part, whichever change wakes the pass, and how it starts.
Delivered(k) ==
    /\ queue[k] # <<>>
    /\ copy' = [copy EXCEPT ![k] = Head(queue[k])]
    /\ queue' = [queue EXCEPT ![k] = Tail(@)]
    /\ wake' \in BOOLEAN
    /\ UNCHANGED <<obj, memo, clock, last, budget>>
StartsAs(objects) ==
    /\ obj = objects
    /\ copy = [k \in Keys |-> [at |-> 1, obj |-> objects[k]]]
    /\ queue = [k \in Keys |-> <<>>] /\ memo = [k \in Keys |-> {}]
    /\ clock = 1 /\ last = [k \in Keys |-> 0] /\ wake = FALSE

\* What a change leaves: the object as one of Things, or none.
ChangesOf(Things) == [at : Nat, obj : AtMostOne(Things)]

WatchTyped(Things) ==
    /\ obj \in [Keys -> AtMostOne(Things)] /\ copy \in [Keys -> ChangesOf(Things)]
    /\ queue \in [Keys -> Seq(ChangesOf(Things))] /\ memo \in [Keys -> AtMostOne(Nat)]
    /\ clock \in Nat /\ last \in [Keys -> Nat] /\ wake \in BOOLEAN

\* A change gives the object that it leaves its own number, or the object stood before.
Numbered(objs, number) == \A o \in objs : o.ver \in 1..number
LastStands(k) ==
    /\ queue[k] = <<>> => obj[k] = copy[k].obj
    /\ queue[k] # <<>> => obj[k] = queue[k][Len(queue[k])].obj
InOrder(k) ==
    /\ \A i \in 1..Len(queue[k]) :
           /\ copy[k].at < queue[k][i].at /\ queue[k][i].at <= clock
           /\ Numbered(queue[k][i].obj, queue[k][i].at)
    /\ \A i, j \in 1..Len(queue[k]) : i < j => queue[k][i].at < queue[k][j].at
    /\ copy[k].at <= clock /\ Numbered(copy[k].obj, copy[k].at) /\ Numbered(obj[k], clock)
    /\ last[k] <= clock /\ memo[k] \subseteq 0..clock
    /\ LastStands(k)

WatchInvariant(Things) == WatchTyped(Things) /\ \A k \in Keys : InOrder(k)

\* A record with a version, which a change renumbers and which stays one of Things.
Versioned(Things) ==
    \A o \in Things : o.ver \in Nat /\ \A number \in Nat :
        [o EXCEPT !.ver = number] \in Things /\ [o EXCEPT !.ver = number].ver = number

LEMMA WatchOf ==
  ASSUME NEW Things, WatchInvariant(Things), NEW k \in Keys
  PROVE  /\ InOrder(k) /\ clock \in Nat /\ last[k] \in Nat /\ copy[k].at \in Nat
         /\ copy[k].obj \in AtMostOne(Things) /\ obj[k] \in AtMostOne(Things)
         /\ queue[k] \in Seq(ChangesOf(Things)) /\ Len(queue[k]) \in Nat
         /\ \A i \in 1..Len(queue[k]) : queue[k][i] \in ChangesOf(Things) /\ queue[k][i].at \in Nat
<1>1. /\ InOrder(k) /\ clock \in Nat /\ last[k] \in Nat
      /\ copy[k] \in ChangesOf(Things) /\ obj[k] \in AtMostOne(Things)
      /\ queue[k] \in Seq(ChangesOf(Things))
  BY DEF WatchInvariant, WatchTyped
<1>2. Len(queue[k]) \in Nat /\ \A i \in 1..Len(queue[k]) : queue[k][i] \in ChangesOf(Things)
  BY <1>1
<1>3. \A c \in ChangesOf(Things) : c.at \in Nat /\ c.obj \in AtMostOne(Things)
  BY DEF ChangesOf
<1> QED
  BY <1>1, <1>2, <1>3

\* A change that lands: it is the last of the queue, with the next number.
LEMMA ChangeKeeps ==
  ASSUME NEW Things, Versioned(Things), WatchInvariant(Things), NEW k \in Keys,
         NEW objs \in AtMostOne(Things), Watch!Changes(k, objs), copy' = copy, wake' \in BOOLEAN,
         memo' \in [Keys -> AtMostOne(Nat)], last' \in [Keys -> Nat],
         \A j \in Keys : memo'[j] \subseteq 0..clock + 1 /\ last'[j] <= clock + 1
  PROVE  /\ WatchInvariant(Things)'
         /\ clock' = clock + 1
         /\ \A o \in obj'[k] : o.ver = clock + 1
<1> DEFINE left == {Watch!Version(o) : o \in objs}
           change == [at |-> clock + 1, obj |-> left]
<1>1. /\ obj' = [obj EXCEPT ![k] = left]
      /\ queue' = [queue EXCEPT ![k] = Append(@, change)]
      /\ clock' = clock + 1
  BY DEF Watch!Changes
<1>2. left \in AtMostOne(Things) /\ (\A o \in left : o.ver = clock + 1) /\ clock \in Nat
  <2>1. clock \in Nat
    BY DEF WatchInvariant, WatchTyped
  <2>2. CASE objs = {}
    BY <2>1, <2>2 DEF AtMostOne
  <2>3. ASSUME NEW o \in Things, objs = {o}
        PROVE  left \in AtMostOne(Things) /\ \A x \in left : x.ver = clock + 1
    <3>1. left = {Watch!Version(o)}
      BY <2>3
    <3>2. Watch!Version(o) \in Things /\ Watch!Version(o).ver = clock + 1
      BY <2>1 DEF Watch!Version, Versioned
    <3> QED
      BY <3>1, <3>2 DEF AtMostOne
  <2> QED
    BY <2>1, <2>2, <2>3 DEF AtMostOne
<1> HIDE DEF left
<1>3. change \in ChangesOf(Things) /\ change.at = clock + 1 /\ change.obj = left /\ Numbered(left, clock + 1)
  BY <1>2 DEF ChangesOf, Numbered
<1> HIDE DEF change
<1>4. WatchTyped(Things)'
  <2>1. obj' \in [Keys -> AtMostOne(Things)]
    BY <1>1, <1>2 DEF WatchInvariant, WatchTyped
  <2>2. queue' \in [Keys -> Seq(ChangesOf(Things))]
    <3>1. queue[k] \in Seq(ChangesOf(Things))
      BY DEF WatchInvariant, WatchTyped
    <3>2. Append(queue[k], change) \in Seq(ChangesOf(Things))
      BY <1>3, <3>1
    <3> QED
      BY <1>1, <3>2 DEF WatchInvariant, WatchTyped
  <2> QED
    BY <1>1, <1>2, <2>1, <2>2 DEF WatchInvariant, WatchTyped
<1>5. ASSUME NEW j \in Keys PROVE InOrder(j)'
  <2>1. /\ InOrder(j) /\ queue[j] \in Seq(ChangesOf(Things)) /\ copy[j].at \in Nat
        /\ \A i \in 1..Len(queue[j]) : queue[j][i].at \in Nat
    BY WatchOf
  <2>2. Numbered(copy[j].obj, copy[j].at) /\ copy[j].at <= clock' /\ last'[j] <= clock'
        /\ memo'[j] \subseteq 0..clock'
    BY <1>1, <1>2, <2>1 DEF InOrder
  <2>3. CASE j # k
    <3>1. queue'[j] = queue[j] /\ obj'[j] = obj[j]
      BY <1>1, <2>3 DEF WatchInvariant, WatchTyped
    <3>2. \A i \in 1..Len(queue[j]) : queue[j][i].at <= clock'
      BY <1>1, <1>2, <2>1 DEF InOrder
    <3>3. Numbered(obj[j], clock')
      BY <1>1, <1>2, <2>1 DEF InOrder, Numbered
    <3> QED
      BY <2>1, <2>2, <3>1, <3>2, <3>3 DEF InOrder, LastStands
  <2>4. CASE j = k
    <3> DEFINE q == queue[k]
               r == queue'[k]
    <3>1. r = Append(q, change) /\ obj'[k] = left
      BY <1>1, <2>4 DEF WatchInvariant, WatchTyped
    <3>2. Len(r) = Len(q) + 1 /\ r[Len(q) + 1] = change /\ (\A i \in 1..Len(q) : r[i] = q[i]) /\ Len(q) \in Nat
      BY <2>1, <2>4, <3>1
    <3>3. ASSUME NEW i \in 1..Len(r)
          PROVE  copy[k].at < r[i].at /\ r[i].at <= clock' /\ Numbered(r[i].obj, r[i].at)
      <4>1. CASE i \in 1..Len(q)
        <5>1. r[i] = q[i] /\ q[i].at \in Nat
          BY <2>1, <2>4, <3>2, <4>1
        <5>2. copy[k].at < q[i].at /\ q[i].at <= clock /\ Numbered(q[i].obj, q[i].at)
          BY <2>1, <2>4, <4>1 DEF InOrder
        <5> QED
          BY <1>1, <1>2, <5>1, <5>2
      <4>2. CASE i = Len(q) + 1
        BY <1>1, <1>2, <1>3, <2>1, <2>4, <3>2, <4>2 DEF InOrder
      <4> QED
        BY <3>2, <4>1, <4>2
    <3>4. ASSUME NEW i \in 1..Len(r), NEW m \in 1..Len(r), i < m PROVE r[i].at < r[m].at
      <4>1. i \in 1..Len(q) /\ r[i] = q[i]
        BY <3>2, <3>4
      <4>2. CASE m \in 1..Len(q)
        BY <2>1, <2>4, <3>2, <3>4, <4>1, <4>2 DEF InOrder
      <4>3. CASE m = Len(q) + 1
        BY <1>2, <1>3, <2>1, <2>4, <3>2, <4>1, <4>3 DEF InOrder
      <4> QED
        BY <3>2, <4>2, <4>3
    <3>5. r # <<>> /\ r[Len(r)].obj = left
      BY <1>3, <3>2
    <3>6. Numbered(left, clock') /\ copy'[k] = copy[k]
      BY <1>1, <1>3
    <3> HIDE DEF q, r
    <3>7. /\ \A i \in 1..Len(queue'[k]) :
                copy'[k].at < queue'[k][i].at /\ queue'[k][i].at <= clock' /\ Numbered(queue'[k][i].obj, queue'[k][i].at)
          /\ \A i, m \in 1..Len(queue'[k]) : i < m => queue'[k][i].at < queue'[k][m].at
          /\ queue'[k] # <<>> /\ queue'[k][Len(queue'[k])].obj = left
      BY <3>3, <3>4, <3>5, <3>6 DEF r
    <3> QED
      BY <2>2, <2>4, <3>1, <3>6, <3>7 DEF InOrder, LastStands
  <2> QED
    BY <2>3, <2>4
<1>6. obj'[k] = left
  BY <1>1 DEF WatchInvariant, WatchTyped
<1> QED
  BY <1>1, <1>2, <1>4, <1>5, <1>6 DEF WatchInvariant

LEMMA DeliverKeeps ==
  ASSUME NEW Things, WatchInvariant(Things), NEW k \in Keys, Delivered(k)
  PROVE  WatchInvariant(Things)' /\ copy[k].at <= copy'[k].at
<1> DEFINE q == queue[k]
           r == queue'[k]
<1>1. /\ q # <<>> /\ copy' = [copy EXCEPT ![k] = Head(queue[k])]
      /\ queue' = [queue EXCEPT ![k] = Tail(@)]
      /\ UNCHANGED <<obj, memo, clock, last>> /\ wake' \in BOOLEAN
  BY DEF Delivered, WatchInvariant, WatchTyped
<1>2. /\ q \in Seq(ChangesOf(Things)) /\ InOrder(k) /\ clock \in Nat /\ copy[k].at \in Nat
      /\ \A i \in 1..Len(q) : q[i].at \in Nat
  BY WatchOf
<1>3. /\ Len(q) \in Nat \ {0} /\ r = Tail(q) /\ Len(r) = Len(q) - 1 /\ r \in Seq(ChangesOf(Things))
      /\ \A i \in 1..Len(r) : r[i] = q[i + 1]
      /\ copy'[k] = q[1] /\ q[1] \in ChangesOf(Things)
  BY <1>1, <1>2 DEF WatchInvariant, WatchTyped
<1>4. WatchTyped(Things)'
  BY <1>1, <1>2, <1>3 DEF WatchInvariant, WatchTyped
<1>5. InOrder(k)'
  <2>1. \A i \in 1..Len(r) : i + 1 \in 1..Len(q) /\ 1 < i + 1 /\ 1 \in 1..Len(q)
    BY <1>3
  <2>2. \A i \in 1..Len(r) : q[1].at < r[i].at /\ r[i].at <= clock /\ Numbered(r[i].obj, r[i].at)
    <3> SUFFICES ASSUME NEW i \in 1..Len(r)
                 PROVE  q[1].at < r[i].at /\ r[i].at <= clock /\ Numbered(r[i].obj, r[i].at)
      OBVIOUS
    <3>1. r[i] = q[i + 1] /\ i + 1 \in 1..Len(q) /\ 1 \in 1..Len(q) /\ 1 < i + 1
      BY <1>3, <2>1
    <3> HIDE DEF r
    <3> QED
      BY <1>2, <3>1 DEF InOrder
  <2>3. \A i, j \in 1..Len(r) : i < j => r[i].at < r[j].at
    <3> SUFFICES ASSUME NEW i \in 1..Len(r), NEW j \in 1..Len(r), i < j PROVE r[i].at < r[j].at
      OBVIOUS
    <3>1. r[i] = q[i + 1] /\ r[j] = q[j + 1] /\ i + 1 \in 1..Len(q) /\ j + 1 \in 1..Len(q) /\ i + 1 < j + 1
      BY <1>3, <2>1
    <3> HIDE DEF r
    <3> QED
      BY <1>2, <3>1 DEF InOrder
  <2>4. 1 \in 1..Len(q) /\ q[1].at <= clock /\ Numbered(q[1].obj, q[1].at)
    BY <1>2, <1>3 DEF InOrder
  <2>5. (r = <<>> => obj[k] = q[1].obj) /\ (r # <<>> => obj[k] = r[Len(r)].obj)
    <3>1. obj[k] = q[Len(q)].obj
      <4>1. LastStands(k)
        BY <1>2 DEF InOrder
      <4>2. queue[k] # <<>>
        BY <1>1
      <4> QED
        BY <4>1, <4>2 DEF LastStands
    <3>2. CASE r = <<>>
      <4>1. Len(r) = 0
        BY <3>2
      <4>2. Len(q) = 1
        BY <1>3, <4>1
      <4> QED
        BY <3>1, <3>2, <4>2
    <3>3. CASE r # <<>>
      <4>1. Len(r) \in 1..Len(r) /\ Len(r) + 1 = Len(q)
        BY <1>3, <3>3
      <4> QED
        BY <1>3, <3>1, <3>3, <4>1
    <3> QED
      BY <3>2, <3>3
  <2> QED
    BY <1>1, <1>2, <1>3, <2>2, <2>3, <2>4, <2>5 DEF InOrder, LastStands
<1>6. ASSUME NEW j \in Keys, j # k PROVE InOrder(j)'
  <2>1. queue'[j] = queue[j] /\ copy'[j] = copy[j] /\ InOrder(j)
    BY <1>1, <1>6 DEF WatchInvariant, WatchTyped
  <2> QED
    BY <1>1, <2>1 DEF InOrder, LastStands
<1>7. copy[k].at <= copy'[k].at
  BY <1>2, <1>3 DEF InOrder
<1> QED
  BY <1>4, <1>5, <1>6, <1>7 DEF WatchInvariant

\* A new process lists what stands, at the number of the last change.
LEMMA SettledKeeps ==
  ASSUME NEW Things, WatchInvariant(Things), Watch!Settled, UNCHANGED <<obj, clock, last>>, wake' = FALSE
  PROVE  WatchInvariant(Things)'
<1>1. \A k \in Keys : copy'[k] = [at |-> clock, obj |-> obj[k]] /\ queue'[k] = <<>> /\ memo'[k] = {}
  BY DEF Watch!Settled
<1>2. WatchTyped(Things)'
  <2>1. clock \in Nat /\ \A k \in Keys : obj[k] \in AtMostOne(Things)
    BY DEF WatchInvariant, WatchTyped
  <2>2. copy' \in [Keys -> ChangesOf(Things)]
    BY <2>1 DEF Watch!Settled, ChangesOf
  <2>3. queue' \in [Keys -> Seq(ChangesOf(Things))] /\ memo' \in [Keys -> AtMostOne(Nat)]
    BY DEF Watch!Settled, AtMostOne
  <2> QED
    BY <2>2, <2>3 DEF WatchInvariant, WatchTyped
<1>3. ASSUME NEW k \in Keys PROVE InOrder(k)'
  <2>1. Numbered(obj[k], clock) /\ last[k] <= clock /\ clock \in Nat /\ clock <= clock
    <3>1. InOrder(k) /\ clock \in Nat
      BY WatchOf
    <3> QED
      BY <3>1 DEF InOrder
  <2>2. queue'[k] = <<>> /\ copy'[k].at = clock /\ copy'[k].obj = obj[k] /\ memo'[k] = {}
    <3>1. queue'[k] = <<>>
      BY <1>1
    <3>2. copy'[k].at = clock /\ copy'[k].obj = obj[k]
      <4>1. copy'[k] = [at |-> clock, obj |-> obj[k]]
        BY <1>1
      <4> QED
        BY <4>1
    <3>3. memo'[k] = {}
      BY <1>1
    <3> QED
      BY <3>1, <3>2, <3>3
  <2>3. 1..Len(queue'[k]) = {}
    <3>1. Len(<<>>) = 0
      OBVIOUS
    <3> QED
      BY <2>2, <3>1
  <2> QED
    BY <2>1, <2>2, <2>3 DEF InOrder, LastStands
<1> QED
  BY <1>2, <1>3 DEF WatchInvariant

\* The memo alone changes.
LEMMA MemoKeeps ==
  ASSUME NEW Things, WatchInvariant(Things), memo' \in [Keys -> AtMostOne(Nat)],
         \A k \in Keys : memo'[k] \subseteq 0..clock,
         UNCHANGED <<obj, copy, queue, clock, last>>, wake' \in BOOLEAN
  PROVE  WatchInvariant(Things)'
BY DEF WatchInvariant, WatchTyped, InOrder, LastStands

LEMMA EmptyIsInOrder ==
  ASSUME NEW Things, NEW objects \in [Keys -> AtMostOne(Things)], StartsAs(objects),
         \A k \in Keys : Numbered(objects[k], 1)
  PROVE  WatchInvariant(Things)
<1>1. /\ obj = objects /\ clock = 1 /\ wake = FALSE
      /\ \A k \in Keys : /\ copy[k] = [at |-> 1, obj |-> objects[k]] /\ queue[k] = <<>> /\ memo[k] = {}
                         /\ last[k] = 0
  BY DEF StartsAs
<1>2. WatchTyped(Things)
  <2>1. \A k \in Keys : [at |-> 1, obj |-> objects[k]] \in ChangesOf(Things)
    BY DEF ChangesOf
  <2>2. copy \in [Keys -> ChangesOf(Things)]
    BY <2>1 DEF StartsAs
  <2>3. queue \in [Keys -> Seq(ChangesOf(Things))] /\ memo \in [Keys -> AtMostOne(Nat)] /\ last \in [Keys -> Nat]
    BY DEF StartsAs, AtMostOne
  <2> QED
    BY <1>1, <2>2, <2>3 DEF WatchTyped
<1>3. ASSUME NEW k \in Keys PROVE InOrder(k)
  <2>1. queue[k] = <<>> /\ copy[k].at = 1 /\ copy[k].obj = objects[k] /\ memo[k] = {} /\ last[k] = 0
    <3>1. queue[k] = <<>>
      BY <1>1
    <3>2. copy[k].at = 1 /\ copy[k].obj = objects[k]
      <4>1. copy[k] = [at |-> 1, obj |-> objects[k]]
        BY <1>1
      <4> QED
        BY <4>1
    <3>3. memo[k] = {}
      BY <1>1
    <3>4. last[k] = 0
      BY <1>1
    <3> QED
      BY <3>1, <3>2, <3>3, <3>4
  <2>2. 1..Len(queue[k]) = {}
    <3>1. Len(<<>>) = 0
      OBVIOUS
    <3> QED
      BY <2>1, <3>1
  <2>3. Numbered(obj[k], clock) /\ Numbered(copy[k].obj, copy[k].at) /\ LastStands(k)
    BY <1>1, <2>1 DEF LastStands
  <2>4. last[k] <= clock /\ copy[k].at <= clock /\ memo[k] \subseteq 0..clock
    BY <1>1, <2>1
  <2> QED
    BY <2>2, <2>3, <2>4 DEF InOrder
<1> QED
  BY <1>2, <1>3 DEF WatchInvariant

-----------------------------------------------------------------------------
(* Stood.  The memo holds what this operator wrote last, or what it read    *)
(* after it, or a version that no object has; where it holds nothing, the   *)
(* copy is as new as the last write, or the pass is on its way to create.   *)

StoodThings == [ver : Nat, uid : Nat, gen : Nat, body : Object!Bodies \cup {"other"}]
StoodPasses ==
    [at : {"idle", "start", "look", "get", "create", "update", "delete"},
     wants : AtMostOne(Object!Bodies), live : Nat]

StoodPass ==
    /\ {facts, seen} \subseteq AtMostOne(Object!Bodies) /\ pass \in StoodPasses
    /\ facts # {} /\ seen # {} /\ pass.at # "delete"
    /\ pass.at \notin {"idle", "start"} => pass.wants # {}

MemoIsNew ==
    /\ \A o \in obj[Object!Key] : last[Object!Key] <= o.ver
    /\ \A version \in memo[Object!Key] : version = 0 \/ last[Object!Key] <= version
    /\ memo[Object!Key] = {} => last[Object!Key] <= copy[Object!Key].at \/ pass.at = "create"

StoodInvariant == WatchInvariant(StoodThings) /\ StoodPass /\ MemoIsNew

LEMMA StoodIsVersioned == Versioned(StoodThings)
BY DEF Versioned, StoodThings

\* The watch of an object that the pass stands is a watch.
LEMMA StoodIsWatched ==
  /\ \A k, objs : Object!Changes(k, objs) <=> Watch!Changes(k, objs)
  /\ \A k : Object!Deliver(k) => Delivered(k)
  /\ Object!Settled <=> Watch!Settled
  /\ \A objects : Object!Empty(objects) => StartsAs(objects)
<1>1. \A k, objs : Object!Changes(k, objs) <=> Watch!Changes(k, objs)
  BY DEF Object!Changes, Object!Version, Watch!Changes, Watch!Version
<1>2. \A k : Object!Deliver(k) => Delivered(k)
  BY DEF Object!Deliver, Delivered
<1>3. Object!Settled <=> Watch!Settled
  BY DEF Object!Settled, Watch!Settled
<1>4. \A objects : Object!Empty(objects) => StartsAs(objects)
  BY DEF Object!Empty, StartsAs
<1> QED
  BY <1>1, <1>2, <1>3, <1>4

LEMMA StoodFacts ==
  ASSUME Object!StoodAssumption, StoodInvariant
  PROVE  /\ Object!Key \in Keys /\ Keys = {Object!Key}
         /\ InOrder(Object!Key) /\ clock \in Nat /\ last[Object!Key] \in Nat /\ copy[Object!Key].at \in Nat
         /\ obj[Object!Key] \in AtMostOne(StoodThings) /\ copy[Object!Key].obj \in AtMostOne(StoodThings)
         /\ \A o \in obj[Object!Key] : o \in StoodThings /\ o.ver \in 1..clock
         /\ memo \in [Keys -> AtMostOne(Nat)] /\ last \in [Keys -> Nat] /\ wake \in BOOLEAN
         /\ memo[Object!Key] \subseteq 0..clock /\ last[Object!Key] <= clock
<1>1. Object!Key \in Keys /\ Keys = {Object!Key}
  BY DEF Object!StoodAssumption
<1>2. WatchInvariant(StoodThings)
  BY DEF StoodInvariant
<1>3. /\ InOrder(Object!Key) /\ clock \in Nat /\ last[Object!Key] \in Nat /\ copy[Object!Key].at \in Nat
      /\ obj[Object!Key] \in AtMostOne(StoodThings) /\ copy[Object!Key].obj \in AtMostOne(StoodThings)
  BY <1>1, <1>2, WatchOf
<1>4. \A o \in obj[Object!Key] : o \in StoodThings
  BY <1>3 DEF AtMostOne
<1>5. \A o \in obj[Object!Key] : o.ver \in 1..clock
  BY <1>3 DEF InOrder, Numbered
<1>6. memo \in [Keys -> AtMostOne(Nat)] /\ last \in [Keys -> Nat] /\ wake \in BOOLEAN
  BY <1>2 DEF WatchInvariant, WatchTyped
<1>7. memo[Object!Key] \subseteq 0..clock /\ last[Object!Key] <= clock
  BY <1>3 DEF InOrder
<1> QED
  BY <1>1, <1>3, <1>4, <1>5, <1>6, <1>7

LEMMA InitStood ==
  ASSUME Object!StoodAssumption, Object!Init
  PROVE  StoodInvariant
<1> DEFINE nothing == [k \in Keys |-> {}]
<1>1. Object!Key \in Keys
  BY DEF Object!StoodAssumption
<1>2. StartsAs(nothing)
  BY StoodIsWatched DEF Object!Init
<1>3. nothing \in [Keys -> AtMostOne(StoodThings)] /\ \A k \in Keys : Numbered(nothing[k], 1)
  BY DEF AtMostOne, Numbered
<1>4. WatchInvariant(StoodThings)
  BY <1>2, <1>3, EmptyIsInOrder
<1>5. StoodPass
  <2>1. {"one"} \in AtMostOne(Object!Bodies) /\ {} \in AtMostOne(Object!Bodies)
    BY DEF AtMostOne, Object!Bodies
  <2>2. pass = [at |-> "start", wants |-> {}, live |-> 0]
    BY DEF Object!Init, Object!Idle
  <2>3. pass \in StoodPasses /\ pass.at = "start"
    BY <2>1, <2>2 DEF StoodPasses
  <2> QED
    BY <2>1, <2>3 DEF Object!Init, StoodPass
<1>6. MemoIsNew
  <2>1. obj[Object!Key] = {}
    BY <1>1, <1>2 DEF StartsAs
  <2>2. memo[Object!Key] = {}
    BY <1>1, <1>2 DEF StartsAs
  <2>3. last[Object!Key] = 0
    BY <1>1, <1>2 DEF StartsAs
  <2>4. copy[Object!Key] = [at |-> 1, obj |-> {}]
    BY <1>1, <1>2 DEF StartsAs
  <2>5. copy[Object!Key].at = 1
    BY <2>4
  <2> QED
    BY <2>1, <2>2, <2>3, <2>5 DEF MemoIsNew
<1> QED
  BY <1>4, <1>5, <1>6 DEF StoodInvariant

\* A pass moves on, and keeps what it wants.
LEMMA GoesIsTyped ==
  ASSUME StoodPass, NEW where \in {"idle", "get", "create"}, Object!Goes(where),
         pass.at \notin {"idle", "start"}, UNCHANGED <<facts, seen>>
  PROVE  StoodPass' /\ pass'.at = where
<1>1. {} \in AtMostOne(Object!Bodies)
  BY DEF AtMostOne
<1>2. CASE where = "idle"
  <2>1. pass' = [at |-> "idle", wants |-> {}, live |-> 0]
    BY <1>2 DEF Object!Goes, Object!Idle
  <2>2. pass' \in StoodPasses /\ pass'.at = "idle"
    BY <1>1, <2>1 DEF StoodPasses
  <2> QED
    BY <1>2, <2>2 DEF StoodPass
<1>3. CASE where # "idle"
  <2>1. pass' = [pass EXCEPT !.at = where]
    BY <1>3 DEF Object!Goes
  <2>2. pass' \in StoodPasses /\ pass'.at = where /\ pass'.wants = pass.wants
    BY <2>1 DEF StoodPass, StoodPasses
  <2> QED
    BY <2>2 DEF StoodPass
<1> QED
  BY <1>2, <1>3

\* What a write of this operator leaves: a memo that it noted, and no object older
\* than the write.
LEMMA StoodWriteKeeps ==
  ASSUME Object!StoodAssumption, StoodInvariant, NEW objs \in AtMostOne(StoodThings),
         NEW version \in {0, clock + 1}, Object!Writes(Object!Key, objs), Object!Note(Object!Key, version),
         UNCHANGED <<copy, wake>>
  PROVE  WatchInvariant(StoodThings)' /\ MemoIsNew'
<1>1. /\ Watch!Changes(Object!Key, objs) /\ last' = [last EXCEPT ![Object!Key] = clock + 1]
      /\ memo' = [memo EXCEPT ![Object!Key] = {version}]
  BY StoodIsWatched DEF Object!Writes, Object!Note
<1>2. /\ clock \in Nat /\ version \in Nat /\ last' \in [Keys -> Nat] /\ memo' \in [Keys -> AtMostOne(Nat)]
      /\ last'[Object!Key] = clock + 1 /\ memo'[Object!Key] = {version}
      /\ \A j \in Keys : memo'[j] \subseteq 0..clock + 1 /\ last'[j] <= clock + 1
      /\ wake' \in BOOLEAN /\ Object!Key \in Keys
  <2>1. clock \in Nat /\ version \in Nat /\ version <= clock + 1 /\ wake' \in BOOLEAN
        /\ Keys = {Object!Key} /\ Object!Key \in Keys
    BY StoodFacts
  <2>2. {version} \in AtMostOne(Nat) /\ {version} \subseteq 0..clock + 1
    BY <2>1 DEF AtMostOne
  <2>3. last' \in [Keys -> Nat] /\ last'[Object!Key] = clock + 1
    BY <1>1, <2>1, StoodFacts
  <2>4. memo' \in [Keys -> AtMostOne(Nat)] /\ memo'[Object!Key] = {version}
    BY <1>1, <2>1, <2>2, StoodFacts
  <2> QED
    BY <2>1, <2>2, <2>3, <2>4
<1>3. /\ WatchInvariant(StoodThings)'
      /\ \A o \in obj'[Object!Key] : o.ver = clock + 1
  BY <1>1, <1>2, StoodIsVersioned, ChangeKeeps DEF StoodInvariant
<1>4. MemoIsNew'
  <2>1. memo'[Object!Key] # {} /\ \A noted \in memo'[Object!Key] : noted = 0 \/ clock + 1 <= noted
    BY <1>2
  <2>2. \A o \in obj'[Object!Key] : clock + 1 <= o.ver
    BY <1>2, <1>3
  <2> QED
    BY <1>2, <2>1, <2>2 DEF MemoIsNew
<1> QED
  BY <1>3, <1>4

\* A pass that notes a version without a write notes none, or the object's.
LEMMA NoteKeeps ==
  ASSUME Object!StoodAssumption, StoodInvariant,
         NEW version, version = 0 \/ (\E o \in obj[Object!Key] : version = o.ver),
         Object!Note(Object!Key, version), UNCHANGED <<obj, copy, queue, clock, last, wake>>
  PROVE  WatchInvariant(StoodThings)' /\ MemoIsNew'
<1>1. version \in 0..clock /\ version \in Nat
  BY StoodFacts
<1>2. {version} \in AtMostOne(Nat) /\ {version} \subseteq 0..clock
  BY <1>1 DEF AtMostOne
<1>3. memo' \in [Keys -> AtMostOne(Nat)] /\ memo'[Object!Key] = {version}
      /\ \A k \in Keys : memo'[k] \subseteq 0..clock
  BY <1>2, StoodFacts DEF Object!Note
<1>4. WatchInvariant(StoodThings)'
  <2>1. wake' \in BOOLEAN
    BY StoodFacts
  <2> QED
    BY <1>3, <2>1, MemoKeeps DEF StoodInvariant
<1>5. MemoIsNew'
  BY <1>3 DEF StoodInvariant, MemoIsNew
<1> QED
  BY <1>4, <1>5

\* A change by another leaves an object newer than every write of this operator.
LEMMA OthersKeep ==
  ASSUME Object!StoodAssumption, StoodInvariant, NEW objs \in AtMostOne(StoodThings),
         Object!Changes(Object!Key, objs), UNCHANGED <<copy, memo, last, wake, facts, seen, pass>>
  PROVE  StoodInvariant'
<1>1. /\ clock \in Nat /\ Keys = {Object!Key} /\ Object!Key \in Keys /\ wake' \in BOOLEAN
      /\ memo' \in [Keys -> AtMostOne(Nat)] /\ last' \in [Keys -> Nat]
      /\ last[Object!Key] \in Nat /\ last[Object!Key] <= clock
      /\ \A j \in Keys : memo'[j] \subseteq 0..clock + 1 /\ last'[j] <= clock + 1
  <2>1. memo[Object!Key] \subseteq 0..clock /\ 0..clock \subseteq 0..clock + 1
    BY StoodFacts
  <2>2. last[Object!Key] <= clock + 1
    BY StoodFacts
  <2> QED
    BY <2>1, <2>2, StoodFacts
<1>2. /\ WatchInvariant(StoodThings)'
      /\ \A o \in obj'[Object!Key] : o.ver = clock + 1
  BY <1>1, StoodIsWatched, StoodIsVersioned, ChangeKeeps DEF StoodInvariant
<1>3. MemoIsNew'
  <2>1. \A o \in obj'[Object!Key] : last[Object!Key] <= o.ver
    BY <1>1, <1>2
  <2> QED
    BY <2>1 DEF StoodInvariant, MemoIsNew
<1>4. StoodPass'
  BY DEF StoodInvariant, StoodPass
<1> QED
  BY <1>2, <1>3, <1>4 DEF StoodInvariant

LEMMA PassMoves ==
  ASSUME Object!StoodAssumption, StoodInvariant,
         Object!Take \/ Object!TickStarts \/ Object!ReadFacts
  PROVE  StoodInvariant'
<1>1. WatchInvariant(StoodThings)'
  <2>1. UNCHANGED <<obj, copy, queue, memo, clock, last>> /\ wake' \in BOOLEAN
    BY StoodFacts DEF Object!Take, Object!TickStarts, Object!ReadFacts, Object!world, Object!watched
  <2>2. memo' \in [Keys -> AtMostOne(Nat)] /\ \A k \in Keys : memo'[k] \subseteq 0..clock
    BY <2>1, StoodFacts
  <2> QED
    BY <2>1, <2>2, MemoKeeps DEF StoodInvariant
<1>2. MemoIsNew'
  BY DEF StoodInvariant, MemoIsNew, Object!Take, Object!TickStarts, Object!ReadFacts, Object!world, Object!watched
<1>3. StoodPass'
  <2>1. CASE Object!ReadFacts
    <3>1. pass' = [pass EXCEPT !.at = "look", !.wants = seen] /\ UNCHANGED <<facts, seen>>
      BY <2>1 DEF Object!ReadFacts, Object!world
    <3>2. pass \in StoodPasses /\ seen \in AtMostOne(Object!Bodies)
      BY DEF StoodInvariant, StoodPass
    <3>3. pass' \in StoodPasses /\ pass'.at = "look" /\ pass'.wants = seen
      BY <3>1, <3>2 DEF StoodPasses
    <3> QED
      BY <3>1, <3>3 DEF StoodInvariant, StoodPass
  <2>2. CASE Object!Take \/ Object!TickStarts
    <3>1. pass' = [at |-> "start", wants |-> {}, live |-> 0] /\ UNCHANGED <<facts, seen>>
      BY <2>2 DEF Object!Take, Object!TickStarts, Object!world, Object!Idle
    <3>2. {} \in AtMostOne(Object!Bodies)
      BY DEF AtMostOne
    <3>3. pass' \in StoodPasses /\ pass'.at = "start"
      BY <3>1, <3>2 DEF StoodPasses
    <3> QED
      BY <3>1, <3>3 DEF StoodInvariant, StoodPass
  <2> QED
    BY <2>1, <2>2
<1> QED
  BY <1>1, <1>2, <1>3 DEF StoodInvariant

\* What a pass found differs from what it builds, or the pass is done with it.
LEMMA FoundIsTyped ==
  ASSUME StoodPass, NEW o \in StoodThings, Object!Found(o), pass.at \in {"look", "get"},
         UNCHANGED <<facts, seen>>
  PROVE  StoodPass' /\ pass'.at \in {"idle", "update"}
<1>1. CASE Object!Same(o)
  BY <1>1, GoesIsTyped DEF Object!Found
<1>2. CASE ~Object!Same(o)
  <2>1. pass' = [pass EXCEPT !.at = "update", !.live = o.ver]
    BY <1>2 DEF Object!Found
  <2>2. o.ver \in Nat /\ pass \in StoodPasses
    BY DEF StoodThings, StoodPass
  <2>3. pass' \in StoodPasses /\ pass'.at = "update" /\ pass'.wants = pass.wants
    BY <2>1, <2>2 DEF StoodPasses
  <2> QED
    BY <2>3 DEF StoodPass
<1> QED
  BY <1>1, <1>2

LEMMA AbsentIsTyped ==
  ASSUME StoodPass, Object!Absent, pass.at \in {"look", "get", "delete"}, UNCHANGED <<facts, seen>>
  PROVE  StoodPass' /\ pass'.at = "create"
<1>1. PICK where \in {"idle", "create"} : where = (IF pass.wants = {} THEN "idle" ELSE "create")
  OBVIOUS
<1>2. Object!Goes(where)
  BY <1>1 DEF Object!Absent
<1>3. StoodPass' /\ pass'.at = where
  BY <1>2, GoesIsTyped
<1>4. pass.wants # {}
  BY DEF StoodPass
<1> QED
  BY <1>1, <1>3, <1>4

LEMMA TheOne ==
  ASSUME NEW S, NEW objs \in AtMostOne(S), objs # {}
  PROVE  Object!The(objs) \in objs /\ Object!The(objs) \in S
BY DEF AtMostOne, Object!The

LEMMA LookKeeps ==
  ASSUME Object!StoodAssumption, StoodInvariant, Object!Look
  PROVE  StoodInvariant'
<1>1. pass.at = "look" /\ UNCHANGED <<obj, copy, queue, memo, clock, last, wake, facts, seen>>
  BY DEF Object!Look, Object!watched, Object!world
<1>2. StoodPass
  BY DEF StoodInvariant
<1>3. StoodPass'
  <2>1. CASE Object!Absent
    BY <1>1, <1>2, <2>1, AbsentIsTyped
  <2>2. CASE Object!Current(Object!Key) /\ Object!Found(Object!The(copy[Object!Key].obj))
    <3>1. copy[Object!Key].obj # {}
      BY <2>2 DEF Object!Current
    <3>2. Object!The(copy[Object!Key].obj) \in StoodThings
      BY <3>1, StoodFacts, TheOne
    <3> QED
      BY <1>1, <1>2, <2>2, <3>2, FoundIsTyped
  <2>3. CASE Object!Goes("get")
    BY <1>1, <1>2, <2>3, GoesIsTyped
  <2> QED
    BY <2>1, <2>2, <2>3 DEF Object!Look
<1>4. MemoIsNew'
  BY <1>1 DEF StoodInvariant, MemoIsNew
<1>5. WatchInvariant(StoodThings)'
  <2>1. wake' \in BOOLEAN /\ memo' \in [Keys -> AtMostOne(Nat)] /\ \A k \in Keys : memo'[k] \subseteq 0..clock
    BY <1>1, StoodFacts
  <2> QED
    BY <1>1, <2>1, MemoKeeps DEF StoodInvariant
<1> QED
  BY <1>3, <1>4, <1>5 DEF StoodInvariant

LEMMA GetKeeps ==
  ASSUME Object!StoodAssumption, StoodInvariant, Object!Get
  PROVE  StoodInvariant'
<1>1. pass.at = "get" /\ UNCHANGED <<obj, copy, queue, clock, last, wake, facts, seen>>
  BY DEF Object!Get, Object!world
<1>2. StoodPass
  BY DEF StoodInvariant
<1>3. CASE obj[Object!Key] = {}
  <2>1. Object!Forget(Object!Key) /\ Object!Absent
    BY <1>3 DEF Object!Get
  <2>2. memo' = [memo EXCEPT ![Object!Key] = {}]
    BY <2>1 DEF Object!Forget
  <2>3. StoodPass' /\ pass'.at = "create"
    BY <1>1, <1>2, <2>1, AbsentIsTyped
  <2>4. memo' \in [Keys -> AtMostOne(Nat)] /\ memo'[Object!Key] = {} /\ wake' \in BOOLEAN
        /\ \A k \in Keys : memo'[k] \subseteq 0..clock
    <3>1. {} \in AtMostOne(Nat)
      BY DEF AtMostOne
    <3> QED
      BY <1>1, <2>2, <3>1, StoodFacts
  <2>5. WatchInvariant(StoodThings)'
    BY <1>1, <2>4, MemoKeeps DEF StoodInvariant
  <2>6. MemoIsNew'
    BY <1>1, <2>3, <2>4 DEF StoodInvariant, MemoIsNew
  <2> QED
    BY <2>3, <2>5, <2>6 DEF StoodInvariant
<1>4. CASE obj[Object!Key] # {}
  <2> DEFINE o == Object!The(obj[Object!Key])
  <2>1. Object!Note(Object!Key, o.ver) /\ Object!Found(o)
    BY <1>4 DEF Object!Get
  <2>2. o \in obj[Object!Key] /\ o \in StoodThings
    BY <1>4, StoodFacts, TheOne
  <2> HIDE DEF o
  <2>3. WatchInvariant(StoodThings)' /\ MemoIsNew'
    BY <1>1, <2>1, <2>2, NoteKeeps
  <2>4. StoodPass'
    BY <1>1, <1>2, <2>1, <2>2, FoundIsTyped
  <2> QED
    BY <2>3, <2>4 DEF StoodInvariant
<1> QED
  BY <1>3, <1>4

\* What the pass builds is one object at most.
LEMMA BuiltIsTyped ==
  ASSUME Object!StoodAssumption, StoodInvariant
  PROVE  /\ {Object!New(b) : b \in pass.wants} \in AtMostOne(StoodThings)
         /\ pass.at = "update" => Object!Built \in AtMostOne(StoodThings)
         /\ {} \in AtMostOne(StoodThings)
<1>1. pass.wants \in AtMostOne(Object!Bodies)
  BY DEF StoodInvariant, StoodPass, StoodPasses
<1>2. \A b \in Object!Bodies : Object!New(b) \in StoodThings
  BY DEF Object!New, StoodThings
<1>3. {Object!New(b) : b \in pass.wants} \in AtMostOne(StoodThings)
  <2>1. CASE pass.wants = {}
    BY <2>1 DEF AtMostOne
  <2>2. ASSUME NEW b \in Object!Bodies, pass.wants = {b}
        PROVE  {Object!New(x) : x \in pass.wants} \in AtMostOne(StoodThings)
    <3>1. {Object!New(x) : x \in pass.wants} = {Object!New(b)}
      BY <2>2
    <3> QED
      BY <1>2, <3>1 DEF AtMostOne
  <2> QED
    BY <1>1, <2>1, <2>2 DEF AtMostOne
<1>4. ASSUME pass.at = "update" PROVE Object!Built \in AtMostOne(StoodThings)
  <2>1. pass.wants # {}
    BY <1>4 DEF StoodInvariant, StoodPass
  <2>2. Object!The(pass.wants) \in Object!Bodies
    BY <1>1, <2>1, TheOne
  <2>3. \A o \in StoodThings : [o EXCEPT !.body = Object!The(pass.wants)] \in StoodThings
    BY <2>2 DEF StoodThings
  <2>4. obj[Object!Key] \in AtMostOne(StoodThings)
    BY StoodFacts
  <2>5. CASE obj[Object!Key] = {}
    BY <2>5 DEF Object!Built, AtMostOne
  <2>6. ASSUME NEW o \in StoodThings, obj[Object!Key] = {o} PROVE Object!Built \in AtMostOne(StoodThings)
    <3>1. Object!Built = {[o EXCEPT !.body = Object!The(pass.wants)]}
      BY <2>6 DEF Object!Built
    <3> QED
      BY <2>3, <3>1 DEF AtMostOne
  <2> QED
    BY <2>4, <2>5, <2>6 DEF AtMostOne
<1>5. {} \in AtMostOne(StoodThings)
  BY DEF AtMostOne
<1> QED
  BY <1>3, <1>4, <1>5

LEMMA WritesStand ==
  ASSUME Object!StoodAssumption, StoodInvariant, Object!Create \/ Object!Update \/ Object!Delete
  PROVE  StoodInvariant'
<1>1. pass.at \in {"create", "update", "delete"} /\ UNCHANGED <<copy, wake, facts, seen>>
  BY DEF Object!Create, Object!Update, Object!Delete, Object!world
<1>2. StoodPass
  BY DEF StoodInvariant
<1>3. StoodPass'
  <2>1. CASE Object!Goes("idle")
    BY <1>1, <1>2, <2>1, GoesIsTyped
  <2>2. CASE pass.at = "delete" /\ Object!Absent
    BY <1>1, <1>2, <2>2, AbsentIsTyped
  <2> QED
    BY <2>1, <2>2 DEF Object!Create, Object!Update, Object!Delete
<1>4. WatchInvariant(StoodThings)' /\ MemoIsNew'
  <2>1. ASSUME NEW objs \in AtMostOne(StoodThings), NEW version \in {0, clock + 1},
               Object!Writes(Object!Key, objs), Object!Note(Object!Key, version)
        PROVE  WatchInvariant(StoodThings)' /\ MemoIsNew'
    BY <1>1, <2>1, StoodWriteKeeps
  <2>2. CASE Object!Note(Object!Key, 0) /\ UNCHANGED <<obj, queue, clock, last>>
    BY <1>1, <2>2, NoteKeeps
  <2>3. CASE Object!Create
    BY <2>1, <2>2, <2>3, BuiltIsTyped DEF Object!Create
  <2>4. CASE Object!Update
    BY <2>1, <2>2, <2>4, BuiltIsTyped DEF Object!Update
  <2>5. CASE Object!Delete
    BY <2>1, <2>2, <2>5, BuiltIsTyped DEF Object!Delete
  <2> QED
    BY <2>3, <2>4, <2>5
<1> QED
  BY <1>3, <1>4 DEF StoodInvariant

LEMMA FailsKeeps ==
  ASSUME Object!StoodAssumption, StoodInvariant, Object!RequestFails
  PROVE  StoodInvariant'
<1>1. /\ pass.at \in {"get", "create", "update", "delete"} /\ UNCHANGED <<copy, wake, facts, seen>>
      /\ Object!Note(Object!Key, 0) /\ Object!Goes("idle")
      /\ Object!Lands \/ UNCHANGED <<obj, queue, clock, last>>
  BY DEF Object!RequestFails, Object!world
<1>2. StoodPass'
  BY <1>1, GoesIsTyped DEF StoodInvariant
<1>3. CASE UNCHANGED <<obj, queue, clock, last>>
  <2>1. WatchInvariant(StoodThings)' /\ MemoIsNew'
    BY <1>1, <1>3, NoteKeeps
  <2> QED
    BY <1>2, <2>1 DEF StoodInvariant
<1>4. ASSUME NEW objs \in AtMostOne(StoodThings), Object!Writes(Object!Key, objs) PROVE StoodInvariant'
  <2>1. WatchInvariant(StoodThings)' /\ MemoIsNew'
    BY <1>1, <1>4, StoodWriteKeeps
  <2> QED
    BY <1>2, <2>1 DEF StoodInvariant
<1>5. CASE Object!Lands
  <2>1. CASE pass.at = "create" /\ obj[Object!Key] = {}
    BY <1>4, <1>5, <2>1, BuiltIsTyped DEF Object!Lands
  <2>2. CASE pass.at = "update" /\ Object!Holds(Object!Key, pass.live)
    BY <1>4, <1>5, <2>2, BuiltIsTyped DEF Object!Lands
  <2>3. CASE pass.at = "delete" /\ obj[Object!Key] # {}
    BY <1>4, <1>5, <2>3, BuiltIsTyped DEF Object!Lands
  <2> QED
    BY <1>3, <1>5, <2>1, <2>2, <2>3 DEF Object!Lands
<1> QED
  BY <1>1, <1>3, <1>5

LEMMA OutsideKeeps ==
  ASSUME Object!StoodAssumption, StoodInvariant,
         Object!FactsChange \/ Object!DeliverFacts \/ Object!OtherEdits \/ Object!OtherDeletes
           \/ Object!DeliverObject
  PROVE  StoodInvariant'
<1>1. CASE Object!FactsChange \/ Object!DeliverFacts
  <2>1. UNCHANGED <<obj, copy, queue, memo, clock, last, pass>> /\ wake' \in BOOLEAN
    BY <1>1, StoodFacts DEF Object!FactsChange, Object!DeliverFacts
  <2>2. memo' \in [Keys -> AtMostOne(Nat)] /\ \A k \in Keys : memo'[k] \subseteq 0..clock
    BY <2>1, StoodFacts
  <2>3. WatchInvariant(StoodThings)'
    BY <2>1, <2>2, MemoKeeps DEF StoodInvariant
  <2>4. MemoIsNew'
    BY <2>1 DEF StoodInvariant, MemoIsNew
  <2>5. {facts', seen'} \subseteq AtMostOne(Object!Bodies) /\ facts' # {} /\ seen' # {}
    <3>1. CASE Object!FactsChange
      <4>1. PICK called \in {{b} : b \in Object!Bodies} : facts' = called
        BY <3>1 DEF Object!FactsChange
      <4>2. seen' = seen
        BY <3>1 DEF Object!FactsChange
      <4>3. called \in AtMostOne(Object!Bodies) /\ called # {}
        BY <4>1 DEF AtMostOne
      <4> QED
        BY <4>1, <4>2, <4>3 DEF StoodInvariant, StoodPass
    <3>2. CASE Object!DeliverFacts
      BY <3>2 DEF Object!DeliverFacts, StoodInvariant, StoodPass
    <3> QED
      BY <1>1, <3>1, <3>2
  <2>6. StoodPass'
    BY <2>1, <2>5 DEF StoodInvariant, StoodPass
  <2> QED
    BY <2>3, <2>4, <2>6 DEF StoodInvariant
<1>2. CASE Object!OtherEdits
  <2> DEFINE objs == {[o EXCEPT !.body = "other"] : o \in obj[Object!Key]}
  <2>1. objs \in AtMostOne(StoodThings)
    <3>1. PICK o \in StoodThings : obj[Object!Key] = {o}
      BY <1>2, StoodFacts DEF Object!OtherEdits, AtMostOne
    <3>2. objs = {[o EXCEPT !.body = "other"]}
      BY <3>1
    <3>3. [o EXCEPT !.body = "other"] \in StoodThings
      BY DEF StoodThings
    <3> QED
      BY <3>2, <3>3 DEF AtMostOne
  <2>2. Object!Changes(Object!Key, objs) /\ UNCHANGED <<copy, memo, last, wake, facts, seen, pass>>
    BY <1>2 DEF Object!OtherEdits, Object!world
  <2> HIDE DEF objs
  <2> QED
    BY <2>1, <2>2, OthersKeep
<1>3. CASE Object!OtherDeletes
  BY <1>3, BuiltIsTyped, OthersKeep DEF Object!OtherDeletes, Object!world
<1>4. CASE Object!DeliverObject
  <2>1. Delivered(Object!Key) /\ UNCHANGED <<facts, seen, pass>>
    BY <1>4, StoodIsWatched DEF Object!DeliverObject, Object!world
  <2>2. Object!Key \in Keys /\ WatchInvariant(StoodThings)
    BY StoodFacts DEF StoodInvariant
  <2>3. WatchInvariant(StoodThings)' /\ copy[Object!Key].at <= copy'[Object!Key].at
    BY <2>1, <2>2, DeliverKeeps
  <2>4. UNCHANGED <<obj, memo, last>>
    BY <2>1 DEF Delivered
  <2>5. copy'[Object!Key].at \in Nat
    <3>1. copy'[Object!Key] \in ChangesOf(StoodThings)
      BY <2>2, <2>3 DEF WatchInvariant, WatchTyped
    <3> QED
      BY <3>1 DEF ChangesOf
  <2>6. MemoIsNew'
    BY <2>1, <2>3, <2>4, <2>5, StoodFacts DEF StoodInvariant, MemoIsNew
  <2>7. StoodPass'
    BY <2>1 DEF StoodInvariant, StoodPass
  <2> QED
    BY <2>3, <2>6, <2>7 DEF StoodInvariant
<1> QED
  BY <1>1, <1>2, <1>3, <1>4

LEMMA StoodRestart ==
  ASSUME Object!StoodAssumption, StoodInvariant, Object!Restart
  PROVE  StoodInvariant'
<1>1. /\ Watch!Settled /\ UNCHANGED <<obj, clock, last, facts>> /\ wake' = FALSE /\ seen' = facts
      /\ pass' = [at |-> "start", wants |-> {}, live |-> 0]
  BY StoodIsWatched DEF Object!Restart, Object!Idle
<1>2. WatchInvariant(StoodThings)'
  BY <1>1, SettledKeeps DEF StoodInvariant
<1>3. StoodPass'
  <2>1. {} \in AtMostOne(Object!Bodies)
    BY DEF AtMostOne
  <2>2. pass' \in StoodPasses /\ pass'.at = "start"
    BY <1>1, <2>1 DEF StoodPasses
  <2> QED
    BY <1>1, <2>2 DEF StoodInvariant, StoodPass
<1>4. MemoIsNew'
  <2>1. Object!Key \in Keys /\ last[Object!Key] <= clock
    BY StoodFacts
  <2>2. copy'[Object!Key] = [at |-> clock, obj |-> obj[Object!Key]]
    BY <1>1, <2>1 DEF Watch!Settled
  <2>3. copy'[Object!Key].at = clock
    BY <2>2
  <2>4. memo'[Object!Key] = {}
    BY <1>1, <2>1 DEF Watch!Settled
  <2> QED
    BY <1>1, <2>1, <2>3, <2>4 DEF StoodInvariant, MemoIsNew
<1> QED
  BY <1>2, <1>3, <1>4 DEF StoodInvariant

LEMMA StoodStep ==
  ASSUME Object!StoodAssumption, StoodInvariant, [Object!Next]_(Object!vars)
  PROVE  StoodInvariant'
<1>1. CASE UNCHANGED Object!vars
  BY <1>1 DEF Object!vars, Object!watched, StoodInvariant, StoodPass, MemoIsNew,
     WatchInvariant, WatchTyped, InOrder, LastStands
<1> QED
  BY <1>1, PassMoves, LookKeeps, GetKeeps, WritesStand, FailsKeeps, OutsideKeeps, StoodRestart
     DEF Object!Next, Object!PassSteps

\* The memo, the copies and the pass keep to their invariant.
THEOREM StoodInductive ==
  OperatorAssumption => (Spec => [](OfAnObject => StoodInvariant))
<1> SUFFICES ASSUME OperatorAssumption PROVE Spec => [](OfAnObject => StoodInvariant)
  OBVIOUS
<1> USE DEF OperatorAssumption
<1>1. Init => (OfAnObject => StoodInvariant)
  BY ObjectOnly, InitStood
<1>2. (OfAnObject => StoodInvariant) /\ [Next]_vars => (OfAnObject => StoodInvariant)'
  BY ObjectOnly, StoodStep
<1> QED
  BY <1>1, <1>2, PTL DEF Spec

LEMMA ReadFirst ==
  ASSUME Object!StoodAssumption, StoodInvariant, Object!Next
  PROVE  Object!LeftAloneIsNew /\ Object!NoBlindWrite
<1>1. Object!LeftAloneIsNew
  <2> SUFFICES ASSUME pass.at = "look", pass'.at = "idle" PROVE last[Object!Key] <= copy[Object!Key].at
    BY StoodFacts DEF Object!LeftAloneIsNew
  <2>1. Object!Look
    <3>1. Object!Restart => pass'.at = "start"
      BY DEF Object!Restart, Object!Idle
    <3>2. pass' = pass => FALSE
      OBVIOUS
    <3> QED
      BY <3>1, <3>2 DEF Object!Next, Object!PassSteps, Object!FactsChange, Object!DeliverFacts,
         Object!OtherEdits, Object!OtherDeletes, Object!DeliverObject, Object!Take, Object!TickStarts,
         Object!ReadFacts, Object!Get, Object!Create, Object!Update, Object!Delete,
         Object!RequestFails, Object!world
  <2>2. CASE memo[Object!Key] = {}
    BY <2>2 DEF StoodInvariant, MemoIsNew
  <2>3. CASE memo[Object!Key] # {}
    <3>1. Object!Goes("get") => pass'.at = "get"
      BY DEF Object!Goes, StoodInvariant, StoodPass, StoodPasses
    <3>2. Object!Current(Object!Key)
      BY <2>1, <2>3, <3>1 DEF Object!Look, Object!Unknown
    <3>3. PICK o \in copy[Object!Key].obj : memo[Object!Key] = {o.ver}
      BY <2>3, <3>2 DEF Object!Current
    <3>4. o.ver \in 1..copy[Object!Key].at /\ copy[Object!Key].at \in Nat /\ last[Object!Key] \in Nat
      BY StoodFacts DEF InOrder, Numbered
    <3>5. o.ver = 0 \/ last[Object!Key] <= o.ver
      BY <3>3 DEF StoodInvariant, MemoIsNew
    <3> QED
      BY <3>4, <3>5
  <2> QED
    BY <2>2, <2>3
<1>2. Object!NoBlindWrite
  <2> SUFFICES ASSUME pass.at = "update", pass'.at = "idle", last' # last
               PROVE  Object!Holds(Object!Key, pass.live)
    BY DEF Object!NoBlindWrite
  <2>1. Object!Update \/ Object!RequestFails
    <3>1. Object!Restart => last' = last
      BY DEF Object!Restart
    <3>2. pass' = pass => FALSE
      OBVIOUS
    <3> QED
      BY <3>1, <3>2 DEF Object!Next, Object!PassSteps, Object!FactsChange, Object!DeliverFacts,
         Object!OtherEdits, Object!OtherDeletes, Object!DeliverObject, Object!Take, Object!TickStarts,
         Object!ReadFacts, Object!Look, Object!Get, Object!Create, Object!Delete, Object!world
  <2>2. CASE Object!Update
    BY <2>2 DEF Object!Update
  <2>3. CASE Object!RequestFails
    BY <2>3 DEF Object!RequestFails, Object!Lands
  <2> QED
    BY <2>1, <2>2, <2>3
<1> QED
  BY <1>1, <1>2

\* versionmemo.go: a pass leaves an object alone only on a copy at least as new as this
\* operator's own last write, and writes over no edit that it has not read.  The object is
\* one that an update changes; a template, which is deleted and created, is not covered.
THEOREM StoodTheorem == OperatorAssumption => (Spec => StandsOnWhatItRead)
<1> SUFFICES ASSUME OperatorAssumption PROVE Spec => StandsOnWhatItRead
  OBVIOUS
<1>1. Spec => [](OfAnObject => StoodInvariant)
  BY StoodInductive
<1>2. (OfAnObject => StoodInvariant) /\ [Next]_vars
      => [/\ focus = "object" => Object!LeftAloneIsNew /\ Object!NoBlindWrite
          /\ focus = "waked" => Object!LeftAloneIsNew /\ Object!NoBlindWrite]_vars
  <2> SUFFICES ASSUME OfAnObject, StoodInvariant, Next
               PROVE  Object!LeftAloneIsNew /\ Object!NoBlindWrite
    BY DEF OfAnObject
  <2>1. Object!Next
    BY DEF OfAnObject, Next, OfLeader, OfBus, OfObject, OfProvider, About
  <2> QED
    BY <2>1, ReadFirst DEF OperatorAssumption
<1> QED
  BY <1>1, <1>2, PTL DEF Spec, StandsOnWhatItRead

\* Types, and the copy that catches up with the object once every change is delivered:
\* Stood!TypeOK.
THEOREM StoodTypes == OperatorAssumption => (Spec => [](OfAnObject => Object!TypeOK))
<1> SUFFICES ASSUME OperatorAssumption
             PROVE  Spec => [](OfAnObject => Object!TypeOK)
  OBVIOUS
<1> USE DEF OperatorAssumption
<1>1. ASSUME StoodInvariant PROVE Object!TypeOK
  <2>1. Keys = {Object!Key} /\ WatchTyped(StoodThings) /\ StoodPass
    BY <1>1 DEF Object!StoodAssumption, StoodInvariant, WatchInvariant
  <2>2. ASSUME NEW S, NEW one \in AtMostOne(S) PROVE Object!Cardinality(one) <= 1 /\ one \subseteq S
    <3>1. Object!Cardinality(one) = Cardinality(one)
      BY DEF Object!Cardinality, Cardinality
    <3> QED
      BY <3>1, AtMostOneCounts
  <2>3. DOMAIN obj = Keys /\ DOMAIN copy = Keys /\ wake \in BOOLEAN
    BY <2>1 DEF WatchTyped
  <2>4. Object!Cardinality(obj[Object!Key]) <= 1
    BY <1>1, <2>2, StoodFacts
  <2>5. Object!Cardinality(memo[Object!Key]) <= 1
    <3>1. memo[Object!Key] \in AtMostOne(Nat)
      BY <1>1, StoodFacts
    <3> QED
      BY <2>2, <3>1
  <2>6. \A o \in obj[Object!Key] : o.ver <= clock
    BY <1>1, StoodFacts
  <2>7. copy[Object!Key].at <= clock /\ last[Object!Key] <= clock /\ memo[Object!Key] \subseteq 0..clock
        /\ LastStands(Object!Key)
    <3>1. InOrder(Object!Key)
      BY <1>1, StoodFacts
    <3> QED
      BY <3>1 DEF InOrder
  <2>8. Object!WatchedTypeOK /\ Object!CopyCatchesUp
    BY <2>1, <2>3, <2>4, <2>5, <2>6, <2>7 DEF Object!WatchedTypeOK, Object!CopyCatchesUp, LastStands
  <2>9. facts \subseteq Object!Bodies /\ seen \subseteq Object!Bodies
        /\ pass.at \in {"idle", "start", "look", "get", "create", "update", "delete"}
    BY <2>1, <2>2 DEF StoodPass, StoodPasses
  <2> QED
    BY <2>8, <2>9 DEF Object!TypeOK
<1> QED
  BY <1>1, StoodInductive, PTL

-----------------------------------------------------------------------------
(* Providers.  The note of a call is what was asked last, or is gone with   *)
(* the provider; and what a pass holds of a provider is the provider as it  *)
(* stands, or of a generation before.                                       *)

Troubles == {"changes", "edits", "deletes", "creates", "fails", "reads", "restarts"}
\* A creation gives the one uid that is not the first, so a second would give it again.
CreatedOnce == \A bound \in ProviderFaults \cup UnreadFaults : bound.creates <= 1
EveryReadLands == \A bound \in ProviderFaults : bound.reads = 0

ThingsOf(uids) ==
    [ver : Nat, uid : uids, gen : Nat, body : [reason : Answers \cup {"none"}, of : Nat]]
Notes == [uid : {1, 2}, gen : Nat, age : 0..2, verdict : Answers, written : BOOLEAN]
Checks ==
    [at : {"idle", "check", "write", "reread", "rewrite", "library"},
     held : AtMostOne(ThingsOf({1, 2})), verdict : Answers \cup {"none"}, quiet : BOOLEAN]

ProviderTyped ==
    /\ account \in Answers /\ note \in AtMostOne(Notes) /\ asked \in AtMostOne(Notes)
    /\ pass \in Checks /\ job \in BOOLEAN /\ settled \in BOOLEAN
    /\ budget \in [Troubles -> Nat] /\ budget.creates <= 1
    /\ pass.at \in {"check", "write", "reread", "rewrite"} => pass.held # {}
    /\ pass.at \in {"write", "reread", "rewrite"} => pass.verdict \in Answers

\* Until it is created again, the one provider there ever was is the first.
FirstAtWork == (\A o \in pass.held : o.uid = 1) /\ \A x \in note \cup asked : x.uid = 1
OnlyTheFirst == budget.creates > 0 => WatchInvariant(ThingsOf({1})) /\ FirstAtWork

SameCall(x, y) == x.uid = y.uid /\ x.gen = y.gen /\ x.age = y.age /\ x.verdict = y.verdict
AskedIsNoted ==
    \A x \in asked :
        \/ \E y \in note : SameCall(x, y)
        \/ note = {} /\ \A o \in obj[Provider!Key] : o.uid # x.uid

ProviderInvariant ==
    /\ WatchInvariant(ThingsOf({1, 2})) /\ ProviderTyped /\ OnlyTheFirst
    /\ AskedIsNoted

\* A provider as the watch delivers it, or as it stands.
Sighted(o) ==
    \/ o \in copy[Provider!Key].obj \/ o \in obj[Provider!Key]
    \/ \E i \in 1..Len(queue[Provider!Key]) : o \in queue[Provider!Key][i].obj
SameSpec(x, y) == x.uid = y.uid /\ x.gen = y.gen
Passed(x, y) == x.uid = y.uid => x.gen <= y.gen
IsOf(objs, o) == \E x \in objs : SameSpec(x, o)

SightedIsPassed ==
    \A o \in obj[Provider!Key] : \A x : Sighted(x) =>
        /\ Passed(x, o)
        /\ x.ver = o.ver => x = o
        /\ SameSpec(x, o) /\ last[Provider!Key] <= x.ver => x = o
SpecsComeLast ==
    \A o \in obj[Provider!Key] :
        /\ IsOf(copy[Provider!Key].obj, o) =>
               \A i \in 1..Len(queue[Provider!Key]) : IsOf(queue[Provider!Key][i].obj, o)
        /\ \A i, j \in 1..Len(queue[Provider!Key]) :
               i < j /\ IsOf(queue[Provider!Key][i].obj, o) => IsOf(queue[Provider!Key][j].obj, o)
MemoIsLast ==
    /\ \A o \in obj[Provider!Key] : last[Provider!Key] <= o.ver
    /\ \A v \in memo[Provider!Key] : v = 0 \/ last[Provider!Key] <= v
    /\ memo[Provider!Key] = {} => \A x : Sighted(x) => last[Provider!Key] <= x.ver

Matches(o) == \E x \in note : SameSpec(x, o) /\ o.body = [reason |-> x.verdict, of |-> o.gen]
HeldIsPassed ==
    /\ \A h \in pass.held : h.ver <= clock
    /\ \A o \in obj[Provider!Key], h \in pass.held :
           /\ Passed(h, o)
           /\ h.ver = o.ver => SameSpec(h, o)
           /\ pass.at = "check" /\ SameSpec(h, o) => h = o
NoteIsTrue ==
    /\ \A x \in note, o \in obj[Provider!Key] :
           Passed(x, o) /\ (x.written /\ SameSpec(x, o) => Matches(o))
    /\ pass.at \in {"write", "reread", "rewrite"} => \A x \in note : x.verdict = pass.verdict
    /\ pass.at \in {"write", "rewrite"} =>
           \A h \in pass.held : h.body = [reason |-> pass.verdict, of |-> h.gen]
\* A pass that nothing disturbed.
Quietly ==
    \A o \in obj[Provider!Key] :
        /\ settled \/ pass.quiet => IsOf(copy[Provider!Key].obj, o)
        /\ settled /\ pass.at # "idle" => pass.quiet
        /\ settled /\ pass.at = "idle" => Matches(o)
        /\ pass.quiet =>
               /\ pass.at \in {"check", "write", "library"}
               /\ pass.at = "check" => pass.held = {o}
               /\ pass.at = "write" => \A h \in pass.held : h.ver = o.ver /\ \E x \in note : SameSpec(x, o)
               /\ pass.at = "library" => Matches(o)

WatchIsNew == SightedIsPassed /\ SpecsComeLast /\ MemoIsLast
PassIsTrue == HeldIsPassed /\ NoteIsTrue /\ Quietly
SettleInvariant == budget.reads = 0 /\ WatchIsNew /\ PassIsTrue

-----------------------------------------------------------------------------
(* What a step does to the watch of the provider.                          *)

\* It notes the version that it read or none; or another changes the provider; or the
\* write of the pass lands; or the watch delivers; or a new process lists.
Stays ==
    /\ UNCHANGED <<obj, copy, queue, clock, last>> /\ wake' \in BOOLEAN
    /\ \/ memo' = memo
       \/ \E v : /\ v = 0 \/ \E o \in obj[Provider!Key] : v = o.ver
                 /\ memo' = [memo EXCEPT ![Provider!Key] = {v}]
Lands(objs) == Watch!Changes(Provider!Key, objs) /\ UNCHANGED <<copy, wake>>
Another(objs) == Lands(objs) /\ UNCHANGED <<memo, last>>
Written(body) == {[o EXCEPT !.body = body] : o \in obj[Provider!Key]}
Own(body, v) ==
    /\ Lands(Written(body)) /\ v \in {0, clock + 1}
    /\ last' = [last EXCEPT ![Provider!Key] = clock + 1]
    /\ memo' = [memo EXCEPT ![Provider!Key] = {v}]
Delivers == Delivered(Provider!Key)
Begins == Watch!Settled /\ UNCHANGED <<obj, clock, last>> /\ wake' = FALSE

LEMMA ProviderIsWatched ==
  /\ \A k, objs : Provider!Changes(k, objs) <=> Watch!Changes(k, objs)
  /\ \A k : Provider!Deliver(k) => Delivered(k)
  /\ Provider!Settled <=> Watch!Settled
  /\ \A objects : Provider!Empty(objects) => StartsAs(objects)
<1>1. \A k, objs : Provider!Changes(k, objs) <=> Watch!Changes(k, objs)
  BY DEF Provider!Changes, Provider!Version, Watch!Changes, Watch!Version
<1>2. \A k : Provider!Deliver(k) => Delivered(k)
  BY DEF Provider!Deliver, Delivered
<1>3. Provider!Settled <=> Watch!Settled
  BY DEF Provider!Settled, Watch!Settled
<1>4. \A objects : Provider!Empty(objects) => StartsAs(objects)
  BY DEF Provider!Empty, StartsAs
<1> QED
  BY <1>1, <1>2, <1>3, <1>4

LEMMA ThingsAreVersioned ==
  ASSUME NEW uids
  PROVE  Versioned(ThingsOf(uids))
BY DEF Versioned, ThingsOf

LEMMA ProviderFacts ==
  ASSUME Provider!ProvidersAssumption, NEW uids, WatchInvariant(ThingsOf(uids))
  PROVE  /\ Provider!Key \in Keys /\ Keys = {Provider!Key}
         /\ InOrder(Provider!Key) /\ clock \in Nat /\ last[Provider!Key] \in Nat
         /\ obj[Provider!Key] \in AtMostOne(ThingsOf(uids))
         /\ copy[Provider!Key].obj \in AtMostOne(ThingsOf(uids))
         /\ \A i \in 1..Len(queue[Provider!Key]) : queue[Provider!Key][i].obj \in AtMostOne(ThingsOf(uids))
         /\ Len(queue[Provider!Key]) \in Nat
         /\ memo \in [Keys -> AtMostOne(Nat)] /\ last \in [Keys -> Nat] /\ wake \in BOOLEAN
         /\ memo[Provider!Key] \subseteq 0..clock /\ last[Provider!Key] <= clock
<1>1. Provider!Key \in Keys /\ Keys = {Provider!Key}
  BY DEF Provider!ProvidersAssumption
<1>2. /\ InOrder(Provider!Key) /\ clock \in Nat /\ last[Provider!Key] \in Nat
      /\ obj[Provider!Key] \in AtMostOne(ThingsOf(uids))
      /\ copy[Provider!Key].obj \in AtMostOne(ThingsOf(uids))
      /\ Len(queue[Provider!Key]) \in Nat
      /\ \A i \in 1..Len(queue[Provider!Key]) : queue[Provider!Key][i] \in ChangesOf(ThingsOf(uids))
  BY <1>1, WatchOf
<1>3. \A i \in 1..Len(queue[Provider!Key]) : queue[Provider!Key][i].obj \in AtMostOne(ThingsOf(uids))
  BY <1>2 DEF ChangesOf
<1>4. memo \in [Keys -> AtMostOne(Nat)] /\ last \in [Keys -> Nat] /\ wake \in BOOLEAN
  BY DEF WatchInvariant, WatchTyped
<1>5. memo[Provider!Key] \subseteq 0..clock /\ last[Provider!Key] <= clock
  BY <1>2 DEF InOrder
<1> QED
  BY <1>1, <1>2, <1>3, <1>4, <1>5

\* Whatever the watch delivers is a provider, with a version that there was.
LEMMA SightedIsNumbered ==
  ASSUME Provider!ProvidersAssumption, NEW uids, WatchInvariant(ThingsOf(uids)), NEW x, Sighted(x)
  PROVE  x \in ThingsOf(uids) /\ x.ver \in 1..clock
<1>1. InOrder(Provider!Key) /\ clock \in Nat /\ copy[Provider!Key].at \in Nat /\ Provider!Key \in Keys
  BY ProviderFacts, WatchOf
<1>2. CASE x \in copy[Provider!Key].obj
  BY <1>1, <1>2, ProviderFacts DEF AtMostOne, InOrder, Numbered
<1>3. CASE x \in obj[Provider!Key]
  BY <1>1, <1>3, ProviderFacts DEF AtMostOne, InOrder, Numbered
<1>4. ASSUME NEW i \in 1..Len(queue[Provider!Key]), x \in queue[Provider!Key][i].obj
      PROVE  x \in ThingsOf(uids) /\ x.ver \in 1..clock
  <2>1. queue[Provider!Key][i].at \in Nat
    BY <1>1, <1>4, WatchOf
  <2>2. queue[Provider!Key][i].at <= clock /\ Numbered(queue[Provider!Key][i].obj, queue[Provider!Key][i].at)
    BY <1>1, <1>4 DEF InOrder
  <2>3. queue[Provider!Key][i].obj \in AtMostOne(ThingsOf(uids))
    BY <1>4, ProviderFacts
  <2> QED
    BY <1>1, <1>4, <2>1, <2>2, <2>3 DEF AtMostOne, Numbered
<1> QED
  BY <1>2, <1>3, <1>4 DEF Sighted

LEMMA StaysKeeps ==
  ASSUME Provider!ProvidersAssumption, NEW uids, WatchInvariant(ThingsOf(uids)), Stays
  PROVE  WatchInvariant(ThingsOf(uids))'
<1>1. ASSUME NEW v, v = 0 \/ (\E o \in obj[Provider!Key] : v = o.ver),
             memo' = [memo EXCEPT ![Provider!Key] = {v}]
      PROVE  memo' \in [Keys -> AtMostOne(Nat)] /\ \A k \in Keys : memo'[k] \subseteq 0..clock
  <2>1. \A o \in obj[Provider!Key] : o.ver \in 1..clock
    BY ProviderFacts DEF InOrder, Numbered
  <2>2. v \in Nat /\ {v} \subseteq 0..clock /\ {v} \in AtMostOne(Nat)
    BY <1>1, <2>1, ProviderFacts DEF AtMostOne
  <2> QED
    BY <1>1, <2>2, ProviderFacts
<1>2. memo' \in [Keys -> AtMostOne(Nat)] /\ \A k \in Keys : memo'[k] \subseteq 0..clock
  <2>1. CASE memo' = memo
    BY <2>1, ProviderFacts
  <2> QED
    BY <1>1, <2>1 DEF Stays
<1> QED
  BY <1>2, MemoKeeps DEF Stays

LEMMA AnotherKeeps ==
  ASSUME Provider!ProvidersAssumption, NEW uids, WatchInvariant(ThingsOf(uids)),
         NEW objs \in AtMostOne(ThingsOf(uids)), Another(objs)
  PROVE  /\ WatchInvariant(ThingsOf(uids))'
         /\ clock' = clock + 1 /\ \A o \in obj'[Provider!Key] : o.ver = clock + 1
<1>1. /\ memo' \in [Keys -> AtMostOne(Nat)] /\ last' \in [Keys -> Nat] /\ wake' \in BOOLEAN
      /\ Watch!Changes(Provider!Key, objs) /\ copy' = copy /\ Provider!Key \in Keys
  BY ProviderFacts DEF Another, Lands
<1>2. \A j \in Keys : memo'[j] \subseteq 0..clock + 1 /\ last'[j] <= clock + 1
  <2>1. memo[Provider!Key] \subseteq 0..clock /\ 0..clock \subseteq 0..clock + 1 /\ last[Provider!Key] <= clock + 1
    BY ProviderFacts
  <2> QED
    BY <2>1, ProviderFacts DEF Another
<1> QED
  BY <1>1, <1>2, ThingsAreVersioned, ChangeKeeps

LEMMA OwnKeeps ==
  ASSUME Provider!ProvidersAssumption, NEW uids, WatchInvariant(ThingsOf(uids)),
         NEW body \in [reason : Answers \cup {"none"}, of : Nat], NEW v, Own(body, v)
  PROVE  /\ WatchInvariant(ThingsOf(uids))'
         /\ clock' = clock + 1 /\ \A o \in obj'[Provider!Key] : o.ver = clock + 1
<1>1. clock \in Nat /\ v \in Nat /\ v <= clock + 1 /\ Keys = {Provider!Key} /\ Provider!Key \in Keys
  BY ProviderFacts DEF Own
<1>2. {v} \in AtMostOne(Nat) /\ {v} \subseteq 0..clock + 1
  BY <1>1 DEF AtMostOne
<1>3. /\ memo' \in [Keys -> AtMostOne(Nat)] /\ last' \in [Keys -> Nat]
      /\ \A j \in Keys : memo'[j] \subseteq 0..clock + 1 /\ last'[j] <= clock + 1
  <2>1. last' \in [Keys -> Nat] /\ last'[Provider!Key] = clock + 1
    <3>1. last' = [last EXCEPT ![Provider!Key] = clock + 1]
      BY DEF Own
    <3>2. last \in [Keys -> Nat]
      BY ProviderFacts
    <3>3. clock + 1 \in Nat
      BY <1>1
    <3> QED
      BY <1>1, <3>1, <3>2, <3>3
  <2>2. memo' \in [Keys -> AtMostOne(Nat)] /\ memo'[Provider!Key] = {v}
    BY <1>1, <1>2, ProviderFacts DEF Own
  <2> QED
    BY <1>1, <1>2, <2>1, <2>2
<1>4. Written(body) \in AtMostOne(ThingsOf(uids))
  <2>1. CASE obj[Provider!Key] = {}
    BY <2>1 DEF Written, AtMostOne
  <2>2. ASSUME NEW o \in ThingsOf(uids), obj[Provider!Key] = {o}
        PROVE  Written(body) \in AtMostOne(ThingsOf(uids))
    <3>1. Written(body) = {[o EXCEPT !.body = body]}
      BY <2>2 DEF Written
    <3>2. [o EXCEPT !.body = body] \in ThingsOf(uids)
      BY DEF ThingsOf
    <3> QED
      BY <3>1, <3>2 DEF AtMostOne
  <2> QED
    BY <2>1, <2>2, ProviderFacts DEF AtMostOne
<1>5. Watch!Changes(Provider!Key, Written(body)) /\ copy' = copy /\ wake' \in BOOLEAN
  BY ProviderFacts DEF Own, Lands
<1> QED
  BY <1>1, <1>3, <1>4, <1>5, ThingsAreVersioned, ChangeKeeps

LEMMA DeliversOrBeginsKeeps ==
  ASSUME Provider!ProvidersAssumption, NEW uids, WatchInvariant(ThingsOf(uids)), Delivers \/ Begins
  PROVE  WatchInvariant(ThingsOf(uids))'
BY ProviderFacts, DeliverKeeps, SettledKeeps DEF Delivers, Begins

-----------------------------------------------------------------------------
(* What is newest stays so.                                                *)

\* What a step leaves to be sighted was sighted before, or is what stands now.
LEMMA SightedAfter ==
  ASSUME Provider!ProvidersAssumption, NEW uids, WatchInvariant(ThingsOf(uids))
  PROVE  /\ Stays => \A x : Sighted(x)' => Sighted(x)
         /\ Delivers => \A x : Sighted(x)' => Sighted(x)
         /\ Begins => \A x : Sighted(x)' => x \in obj[Provider!Key]
         /\ \A objs : Lands(objs) => \A x : Sighted(x)' => Sighted(x) \/ x \in obj'[Provider!Key]
<1> DEFINE q == queue[Provider!Key]
           r == queue'[Provider!Key]
<1>1. /\ Provider!Key \in Keys /\ q \in Seq(ChangesOf(ThingsOf(uids))) /\ Len(q) \in Nat
      /\ DOMAIN obj = Keys /\ DOMAIN copy = Keys /\ DOMAIN queue = Keys
  BY ProviderFacts, WatchOf DEF WatchInvariant, WatchTyped
<1>2. Stays => \A x : Sighted(x)' => Sighted(x)
  BY DEF Stays, Sighted
<1>3. ASSUME Delivers, NEW x, Sighted(x)' PROVE Sighted(x)
  <2>1. /\ q # <<>> /\ copy'[Provider!Key] = Head(q) /\ r = Tail(q) /\ obj' = obj
    BY <1>1, <1>3 DEF Delivers, Delivered
  <2>2. /\ Len(q) \in Nat \ {0} /\ copy'[Provider!Key] = q[1] /\ Len(r) = Len(q) - 1
        /\ \A i \in 1..Len(r) : r[i] = q[i + 1]
    BY <1>1, <2>1
  <2> HIDE DEF q, r
  <2>3. CASE x \in copy'[Provider!Key].obj
    <3>1. 1 \in 1..Len(q) /\ x \in q[1].obj
      BY <2>2, <2>3
    <3> QED
      BY <3>1 DEF Sighted, q
  <2>4. CASE x \in obj'[Provider!Key]
    BY <2>1, <2>4 DEF Sighted
  <2>5. ASSUME NEW i \in 1..Len(r), x \in r[i].obj PROVE Sighted(x)
    <3>1. i + 1 \in 1..Len(q) /\ x \in q[i + 1].obj
      BY <2>2, <2>5
    <3> QED
      BY <3>1 DEF Sighted, q
  <2> QED
    BY <1>3, <2>3, <2>4, <2>5 DEF Sighted, r
<1>4. ASSUME Begins, NEW x, Sighted(x)' PROVE x \in obj[Provider!Key]
  <2>1. copy'[Provider!Key] = [at |-> clock, obj |-> obj[Provider!Key]] /\ r = <<>> /\ obj' = obj
    BY <1>1, <1>4 DEF Begins, Watch!Settled
  <2>2. copy'[Provider!Key].obj = obj[Provider!Key]
    BY <2>1
  <2>3. Len(r) = 0
    BY <2>1
  <2> QED
    BY <1>4, <2>1, <2>2, <2>3 DEF Sighted
<1>5. ASSUME NEW objs, Lands(objs), NEW x, Sighted(x)' PROVE Sighted(x) \/ x \in obj'[Provider!Key]
  <2>1. PICK change : /\ r = Append(q, change) /\ change.obj = obj'[Provider!Key] /\ copy' = copy
    <3> DEFINE left == {Watch!Version(o) : o \in objs}
               change == [at |-> clock + 1, obj |-> left]
    <3>1. r = Append(q, change) /\ obj'[Provider!Key] = left /\ copy' = copy
      BY <1>1, <1>5 DEF Lands, Watch!Changes
    <3>2. change.obj = left
      OBVIOUS
    <3> QED
      BY <3>1, <3>2
  <2>2. Len(r) = Len(q) + 1 /\ r[Len(q) + 1] = change /\ \A i \in 1..Len(q) : r[i] = q[i]
    BY <1>1, <2>1
  <2> HIDE DEF q, r
  <2>3. CASE x \in copy'[Provider!Key].obj
    BY <2>1, <2>3 DEF Sighted
  <2>4. ASSUME NEW i \in 1..Len(r), x \in r[i].obj PROVE Sighted(x) \/ x \in obj'[Provider!Key]
    <3>1. CASE i \in 1..Len(q)
      BY <2>2, <2>4, <3>1 DEF Sighted, q
    <3>2. CASE i = Len(q) + 1
      BY <2>1, <2>2, <2>4, <3>2
    <3> QED
      BY <1>1, <2>2, <3>1, <3>2 DEF q
  <2> QED
    BY <1>5, <2>3, <2>4 DEF Sighted, r
<1> QED
  BY <1>2, <1>3, <1>4, <1>5

\* The queue after a change: the changes before it, and what stands now.
LEMMA QueueAfter ==
  ASSUME Provider!ProvidersAssumption, NEW uids, WatchInvariant(ThingsOf(uids)), NEW objs, Lands(objs)
  PROVE  /\ copy' = copy /\ Len(queue'[Provider!Key]) = Len(queue[Provider!Key]) + 1
         /\ \A i \in 1..Len(queue[Provider!Key]) : queue'[Provider!Key][i] = queue[Provider!Key][i]
         /\ queue'[Provider!Key][Len(queue[Provider!Key]) + 1].obj = obj'[Provider!Key]
         /\ obj'[Provider!Key] = {Watch!Version(o) : o \in objs}
<1> DEFINE q == queue[Provider!Key]
           r == queue'[Provider!Key]
           left == {Watch!Version(o) : o \in objs}
           change == [at |-> clock + 1, obj |-> left]
<1>1. /\ Provider!Key \in Keys /\ q \in Seq(ChangesOf(ThingsOf(uids))) /\ Len(q) \in Nat
      /\ DOMAIN obj = Keys /\ DOMAIN queue = Keys
  BY ProviderFacts, WatchOf DEF WatchInvariant, WatchTyped
<1>2. r = Append(q, change) /\ obj'[Provider!Key] = left /\ copy' = copy
  BY <1>1 DEF Lands, Watch!Changes
<1>3. change.obj = left
  OBVIOUS
<1> HIDE DEF change
<1>4. Len(r) = Len(q) + 1 /\ r[Len(q) + 1] = change /\ \A i \in 1..Len(q) : r[i] = q[i]
  BY <1>1, <1>2
<1> QED
  BY <1>2, <1>3, <1>4

\* A step that leaves the provider as it stands.
LEMMA NewestStays ==
  ASSUME Provider!ProvidersAssumption, NEW uids, WatchInvariant(ThingsOf(uids)), WatchIsNew,
         Stays \/ Delivers \/ Begins
  PROVE  WatchIsNew'
<1>1. /\ obj' = obj /\ last' = last /\ \A x : Sighted(x)' => Sighted(x)
  <2>1. obj' = obj /\ last' = last
    BY DEF Stays, Delivers, Begins, Delivered
  <2>2. \A x \in obj[Provider!Key] : Sighted(x)
    BY DEF Sighted
  <2> QED
    BY <2>1, <2>2, SightedAfter
<1>2. SightedIsPassed'
  BY <1>1 DEF WatchIsNew, SightedIsPassed
<1>3. MemoIsLast'
  <2>1. CASE Stays
    BY <1>1, <2>1, ProviderFacts DEF WatchIsNew, MemoIsLast, Stays
  <2>2. CASE Delivers
    <3>1. memo' = memo
      BY <2>2 DEF Delivers, Delivered
    <3> QED
      BY <1>1, <3>1 DEF WatchIsNew, MemoIsLast
  <2>3. CASE Begins
    <3>1. memo'[Provider!Key] = {} /\ \A x : Sighted(x)' => x \in obj[Provider!Key]
      BY <2>3, SightedAfter, ProviderFacts DEF Begins, Watch!Settled
    <3> QED
      BY <1>1, <3>1 DEF WatchIsNew, MemoIsLast
  <2> QED
    BY <2>1, <2>2, <2>3
<1>4. SpecsComeLast'
  <2>1. CASE Stays
    BY <2>1 DEF WatchIsNew, SpecsComeLast, Stays, IsOf, SameSpec
  <2>2. CASE Begins
    <3>1. queue'[Provider!Key] = <<>>
      BY <2>2, ProviderFacts DEF Begins, Watch!Settled
    <3>2. Len(queue'[Provider!Key]) = 0
      BY <3>1
    <3> QED
      BY <3>2 DEF SpecsComeLast
  <2>3. CASE Delivers
    <3> DEFINE q == queue[Provider!Key]
               r == queue'[Provider!Key]
    <3>1. /\ Provider!Key \in Keys /\ q \in Seq(ChangesOf(ThingsOf(uids))) /\ Len(q) \in Nat
          /\ DOMAIN copy = Keys /\ DOMAIN queue = Keys
      BY ProviderFacts, WatchOf DEF WatchInvariant, WatchTyped
    <3>2. q # <<>> /\ copy'[Provider!Key] = Head(q) /\ r = Tail(q)
      BY <2>3, <3>1 DEF Delivers, Delivered
    <3>3. /\ Len(q) \in Nat \ {0} /\ copy'[Provider!Key] = q[1] /\ Len(r) = Len(q) - 1
          /\ \A i \in 1..Len(r) : r[i] = q[i + 1]
      BY <3>1, <3>2
    <3>4. \A i \in 1..Len(r) : i + 1 \in 1..Len(q) /\ 1 \in 1..Len(q) /\ 1 < i + 1
      BY <3>3
    <3>5. ASSUME NEW o \in obj[Provider!Key]
          PROVE  /\ IsOf(q[1].obj, o) => \A i \in 1..Len(r) : IsOf(r[i].obj, o)
                 /\ \A i, j \in 1..Len(r) : i < j /\ IsOf(r[i].obj, o) => IsOf(r[j].obj, o)
      <4>1. \A i, j \in 1..Len(q) : i < j /\ IsOf(q[i].obj, o) => IsOf(q[j].obj, o)
        BY <3>5 DEF WatchIsNew, SpecsComeLast
      <4> HIDE DEF q, r
      <4>2. IsOf(q[1].obj, o) => \A i \in 1..Len(r) : IsOf(r[i].obj, o)
        BY <3>3, <3>4, <4>1
      <4>3. ASSUME NEW i \in 1..Len(r), NEW j \in 1..Len(r), i < j, IsOf(r[i].obj, o) PROVE IsOf(r[j].obj, o)
        <5>1. r[i] = q[i + 1] /\ r[j] = q[j + 1] /\ i + 1 \in 1..Len(q) /\ j + 1 \in 1..Len(q) /\ i + 1 < j + 1
          BY <3>3, <3>4, <4>3
        <5> QED
          BY <4>1, <4>3, <5>1
      <4> QED
        BY <4>2, <4>3
    <3> HIDE DEF q
    <3> QED
      BY <1>1, <3>3, <3>5 DEF SpecsComeLast, IsOf, SameSpec
  <2> QED
    BY <2>1, <2>2, <2>3
<1> QED
  BY <1>2, <1>3, <1>4 DEF WatchIsNew

\* A change, by another or by the pass: what was sighted before is older than what stands.
LEMMA NewestLands ==
  ASSUME Provider!ProvidersAssumption, NEW uids, WatchInvariant(ThingsOf(uids)), WatchIsNew,
         NEW objs, Lands(objs), clock' = clock + 1, obj'[Provider!Key] \in AtMostOne(ThingsOf(uids)),
         \A o \in obj'[Provider!Key] : o.ver = clock + 1,
         \/ /\ last' = last /\ memo' = memo
            /\ \A o \in obj'[Provider!Key] : \A x : Sighted(x) => Passed(x, o) /\ ~SameSpec(x, o)
         \/ /\ last'[Provider!Key] = clock + 1
            /\ \E v \in {0, clock + 1} : memo'[Provider!Key] = {v}
            /\ \A o \in obj'[Provider!Key] : \E c \in obj[Provider!Key] : SameSpec(c, o)
  PROVE  WatchIsNew'
<1> DEFINE other == \A o \in obj'[Provider!Key] : \A x : Sighted(x) => Passed(x, o) /\ ~SameSpec(x, o)
           own == \A o \in obj'[Provider!Key] : \E c \in obj[Provider!Key] : SameSpec(c, o)
<1>1. /\ clock \in Nat /\ last[Provider!Key] \in Nat /\ last[Provider!Key] <= clock
      /\ obj[Provider!Key] \in AtMostOne(ThingsOf(uids))
      /\ \A o \in ThingsOf(uids) : o.gen \in Nat /\ o.uid \in uids /\ o.ver \in Nat
  BY ProviderFacts DEF ThingsOf
<1>2. ASSUME NEW x, Sighted(x) PROVE x \in ThingsOf(uids) /\ x.ver \in 1..clock
  BY <1>2, SightedIsNumbered
<1>3. ASSUME NEW o \in obj'[Provider!Key], NEW x, Sighted(x)
      PROVE  Passed(x, o) /\ x.ver # o.ver /\ x.ver < clock + 1
  <2>1. x.ver \in 1..clock /\ o.ver = clock + 1
    BY <1>2, <1>3
  <2>2. Passed(x, o)
    <3>1. CASE own
      <4>1. PICK c \in obj[Provider!Key] : SameSpec(c, o)
        BY <3>1
      <4>2. Passed(x, c)
        BY <1>3 DEF WatchIsNew, SightedIsPassed
      <4> QED
        BY <4>1, <4>2 DEF Passed, SameSpec
    <3>2. CASE other
      BY <1>3, <3>2
    <3> QED
      BY <3>1, <3>2
  <2> QED
    BY <1>1, <2>1, <2>2
<1>4. \A x, y \in obj'[Provider!Key] : x = y
  BY DEF AtMostOne
<1>5. \A o \in obj'[Provider!Key] : o \in ThingsOf(uids) /\ Passed(o, o)
  BY <1>1 DEF AtMostOne, Passed
<1>6. \A x : Sighted(x)' => Sighted(x) \/ x \in obj'[Provider!Key]
  BY SightedAfter
<1>7. SightedIsPassed'
  <2> SUFFICES ASSUME NEW o \in obj'[Provider!Key], NEW x, Sighted(x)'
               PROVE  /\ Passed(x, o) /\ (x.ver = o.ver => x = o)
                      /\ SameSpec(x, o) /\ last'[Provider!Key] <= x.ver => x = o
    BY DEF SightedIsPassed, Passed, SameSpec
  <2>1. CASE x \in obj'[Provider!Key]
    BY <1>4, <1>5, <2>1
  <2>2. CASE Sighted(x)
    <3>1. Passed(x, o) /\ x.ver # o.ver /\ x.ver < clock + 1 /\ x.ver \in 1..clock
      BY <1>2, <1>3, <2>2
    <3>2. CASE other
      BY <2>2, <3>1, <3>2
    <3>3. CASE last'[Provider!Key] = clock + 1
      BY <1>1, <3>1, <3>3
    <3> QED
      BY <3>2, <3>3
  <2> QED
    BY <1>6, <2>1, <2>2
<1>8. MemoIsLast'
  <2>1. CASE last' = last /\ memo' = memo
    <3>1. \A o \in obj'[Provider!Key] : last[Provider!Key] <= o.ver
      BY <1>1
    <3> QED
      BY <1>6, <2>1, <3>1 DEF WatchIsNew, MemoIsLast
  <2>2. CASE last'[Provider!Key] = clock + 1 /\ \E v \in {0, clock + 1} : memo'[Provider!Key] = {v}
    BY <1>1, <2>2 DEF MemoIsLast
  <2> QED
    BY <2>1, <2>2
<1>9. SpecsComeLast'
  <2> DEFINE q == queue[Provider!Key]
             r == queue'[Provider!Key]
  <2>1. /\ copy' = copy /\ Len(r) = Len(q) + 1 /\ Len(q) \in Nat
        /\ \A i \in 1..Len(q) : r[i] = q[i]
        /\ r[Len(q) + 1].obj = obj'[Provider!Key]
    BY QueueAfter, ProviderFacts
  <2>2. \A x \in copy[Provider!Key].obj : Sighted(x)
    BY DEF Sighted
  <2>3. \A i \in 1..Len(q) : \A x \in q[i].obj : Sighted(x)
    BY DEF Sighted
  <2> HIDE DEF q, r
  <2>4. ASSUME NEW o \in obj'[Provider!Key]
        PROVE  /\ IsOf(copy[Provider!Key].obj, o) => \A i \in 1..Len(r) : IsOf(r[i].obj, o)
               /\ \A i, j \in 1..Len(r) : i < j /\ IsOf(r[i].obj, o) => IsOf(r[j].obj, o)
    <3>1. IsOf(r[Len(q) + 1].obj, o)
      BY <2>1, <2>4 DEF IsOf, SameSpec
    <3>2. CASE other
      <4>1. ~IsOf(copy[Provider!Key].obj, o) /\ \A i \in 1..Len(q) : ~IsOf(r[i].obj, o)
        BY <2>1, <2>2, <2>3, <2>4, <3>2 DEF IsOf
      <4>2. \A i \in 1..Len(r) : i \in 1..Len(q) \/ i = Len(q) + 1
        BY <2>1
      <4> QED
        BY <2>1, <4>1, <4>2
    <3>3. CASE own
      <4>1. PICK c \in obj[Provider!Key] : SameSpec(c, o)
        BY <2>4, <3>3
      <4>2. \A things : IsOf(things, c) <=> IsOf(things, o)
        BY <4>1 DEF IsOf, SameSpec
      <4>3. /\ IsOf(copy[Provider!Key].obj, o) => \A i \in 1..Len(q) : IsOf(q[i].obj, o)
            /\ \A i, j \in 1..Len(q) : i < j /\ IsOf(q[i].obj, o) => IsOf(q[j].obj, o)
        BY <4>1, <4>2 DEF WatchIsNew, SpecsComeLast, q
      <4>4. \A i \in 1..Len(r) : i \in 1..Len(q) \/ i = Len(q) + 1
        BY <2>1
      <4>5. ASSUME NEW i \in 1..Len(r), NEW j \in 1..Len(r), i < j, IsOf(r[i].obj, o) PROVE IsOf(r[j].obj, o)
        <5>1. i \in 1..Len(q)
          BY <2>1, <4>5
        <5> QED
          BY <2>1, <3>1, <4>3, <4>4, <4>5, <5>1
      <4>6. IsOf(copy[Provider!Key].obj, o) => \A i \in 1..Len(r) : IsOf(r[i].obj, o)
        BY <2>1, <3>1, <4>3, <4>4
      <4> QED
        BY <4>5, <4>6
    <3> QED
      BY <3>2, <3>3
  <2>5. copy'[Provider!Key].obj = copy[Provider!Key].obj
    BY <2>1
  <2> QED
    BY <2>4, <2>5 DEF SpecsComeLast, r, IsOf, SameSpec
<1> QED
  BY <1>7, <1>8, <1>9 DEF WatchIsNew

-----------------------------------------------------------------------------
(* Each step is one of these, and the watch stays what it is.              *)

\* The pass holds one provider, or none.
LEMMA HeldIsTyped ==
  ASSUME ProviderTyped, pass.held # {}
  PROVE  pass.held = {Provider!Held} /\ Provider!Held \in ThingsOf({1, 2})
BY DEF ProviderTyped, Checks, AtMostOne, Provider!Held, Provider!The

LEMMA TheProvider ==
  ASSUME NEW S, NEW objs \in AtMostOne(S), objs # {}
  PROVE  Provider!The(objs) \in S /\ objs = {Provider!The(objs)}
BY DEF AtMostOne, Provider!The

LEMMA TroubleIsSpent ==
  ASSUME ProviderTyped, NEW kind \in Troubles, Provider!Spend(kind)
  PROVE  /\ budget' \in [Troubles -> Nat] /\ budget[kind] > 0 /\ budget'[kind] = budget[kind] - 1
         /\ budget'.creates <= budget.creates /\ budget'.reads <= budget.reads
<1>1. budget \in [Troubles -> Nat] /\ budget[kind] > 0 /\ budget' = [budget EXCEPT ![kind] = budget[kind] - 1]
  BY DEF Provider!Spend, ProviderTyped
<1>2. /\ budget[kind] - 1 \in Nat /\ budget'[kind] = budget[kind] - 1
      /\ \A other \in Troubles : other # kind => budget'[other] = budget[other]
  BY <1>1
<1>3. "creates" \in Troubles /\ "reads" \in Troubles /\ budget.creates \in Nat /\ budget.reads \in Nat
  BY <1>1 DEF Troubles
<1>4. budget'.creates <= budget.creates /\ budget'.reads <= budget.reads
  BY <1>1, <1>2, <1>3
<1> QED
  BY <1>1, <1>2, <1>4

LEMMA StaysIs ==
  ASSUME Provider!ProvidersAssumption, ProviderInvariant,
         \/ Provider!AccountChanges \/ Provider!TimePasses \/ Provider!JobEnds
         \/ Provider!NotDue \/ Provider!Call \/ Provider!SecretFails \/ Provider!StandJob
         \/ Provider!ReadProviders \/ Provider!ReadFails \/ Provider!Refused \/ Provider!Reread
  PROVE  Stays /\ obj' = obj
<1>1. wake \in BOOLEAN /\ obj[Provider!Key] \in AtMostOne(ThingsOf({1, 2}))
  BY ProviderFacts DEF ProviderInvariant
<1>2. CASE \/ Provider!AccountChanges \/ Provider!TimePasses \/ Provider!JobEnds
           \/ Provider!NotDue \/ Provider!Call \/ Provider!SecretFails \/ Provider!StandJob
  BY <1>1, <1>2 DEF Stays, Provider!AccountChanges, Provider!TimePasses, Provider!JobEnds,
     Provider!NotDue, Provider!Call, Provider!SecretFails, Provider!StandJob, Provider!watched
<1>3. CASE Provider!ReadFails \/ Provider!Refused
  BY <1>1, <1>3 DEF Stays, Provider!ReadFails, Provider!Refused, Provider!Note
<1>4. \A o \in {Provider!The(obj[Provider!Key])} : obj[Provider!Key] # {} => o \in obj[Provider!Key]
  BY <1>1, TheProvider
<1>5. CASE Provider!ReadProviders \/ Provider!Reread
  <2>1. UNCHANGED <<obj, copy, queue, clock, last>> /\ wake' \in BOOLEAN
    BY <1>1, <1>5 DEF Provider!ReadProviders, Provider!Reread
  <2>2. \/ memo' = memo
        \/ memo' = [memo EXCEPT ![Provider!Key] =
               {IF obj[Provider!Key] = {} THEN 0 ELSE Provider!The(obj[Provider!Key]).ver}]
    BY <1>5 DEF Provider!ReadProviders, Provider!Reread, Provider!Note
  <2>3. CASE obj[Provider!Key] = {}
    BY <2>1, <2>2, <2>3 DEF Stays
  <2>4. CASE obj[Provider!Key] # {}
    BY <1>4, <2>1, <2>2, <2>4 DEF Stays
  <2> QED
    BY <2>1, <2>3, <2>4
<1> QED
  BY <1>2, <1>3, <1>5

LEMMA WriteIs ==
  ASSUME Provider!ProvidersAssumption, ProviderInvariant, Provider!Write \/ Provider!RequestFails
  PROVE  /\ pass.held = {Provider!Held} /\ Provider!Held \in ThingsOf({1, 2})
         /\ Provider!Held.body \in [reason : Answers \cup {"none"}, of : Nat]
         /\ Provider!Write => Own(Provider!Held.body, clock + 1)
         /\ Provider!RequestFails =>
                \/ Stays /\ obj' = obj
                \/ /\ Own(Provider!Held.body, 0) /\ pass.at # "reread"
                   /\ \E o \in obj[Provider!Key] : o.ver = Provider!Held.ver
<1>1. pass.held # {}
  BY DEF ProviderInvariant, ProviderTyped, Provider!Write, Provider!RequestFails
<1>2. pass.held = {Provider!Held} /\ Provider!Held \in ThingsOf({1, 2})
  BY <1>1, HeldIsTyped DEF ProviderInvariant
<1>3. Provider!Held.body \in [reason : Answers \cup {"none"}, of : Nat]
  BY <1>2 DEF ThingsOf
<1>4. Provider!Stores => /\ Watch!Changes(Provider!Key, Written(Provider!Held.body))
                         /\ last' = [last EXCEPT ![Provider!Key] = clock + 1]
  BY ProviderIsWatched DEF Provider!Stores, Provider!Writes, Written
<1>5. Provider!Write => Own(Provider!Held.body, clock + 1)
  BY <1>4 DEF Provider!Write, Provider!Taken, Provider!Note, Own, Lands
<1>6. ASSUME Provider!RequestFails
      PROVE  \/ Stays /\ obj' = obj
             \/ /\ Own(Provider!Held.body, 0) /\ pass.at # "reread"
                /\ \E o \in obj[Provider!Key] : o.ver = Provider!Held.ver
  <2>1. memo' = [memo EXCEPT ![Provider!Key] = {0}] /\ UNCHANGED <<copy, wake>> /\ wake \in BOOLEAN
    BY <1>6, ProviderFacts DEF Provider!RequestFails, Provider!Note, ProviderInvariant
  <2>2. CASE UNCHANGED <<obj, queue, clock, last>>
    BY <2>1, <2>2 DEF Stays
  <2>3. CASE pass.at # "reread" /\ Provider!Holds(Provider!Key, Provider!Held.ver) /\ Provider!Stores
    BY <1>4, <2>1, <2>3 DEF Own, Lands, Provider!Holds
  <2> QED
    BY <1>6, <2>2, <2>3 DEF Provider!RequestFails
<1> QED
  BY <1>2, <1>3, <1>5, <1>6

\* What a person does: an edit gives the next generation, a creation the other uid.
Edits == {[o EXCEPT !.gen = o.gen + 1] : o \in obj[Provider!Key]}
LEMMA MeddleIs ==
  ASSUME Provider!ProvidersAssumption, ProviderInvariant,
         Provider!PersonEdits \/ Provider!PersonDeletes \/ Provider!PersonCreates
  PROVE  /\ pass' = Provider!Disturbed /\ settled' = FALSE /\ UNCHANGED <<account, note, job, asked>>
         /\ budget' \in [Troubles -> Nat] /\ budget'.creates <= budget.creates /\ budget'.reads <= budget.reads
         /\ \/ Another(Edits)
            \/ Another({})
            \/ /\ Another({Provider!Created(2)}) /\ obj[Provider!Key] = {}
               /\ budget.creates > 0 /\ budget'.creates = 0
<1>1. ASSUME NEW objs, Provider!Meddle(objs)
      PROVE  /\ pass' = Provider!Disturbed /\ settled' = FALSE /\ UNCHANGED <<account, note, job, asked>>
             /\ Another(objs)
  BY <1>1, ProviderIsWatched DEF Provider!Meddle, Provider!provider, Another, Lands
<1>2. CASE Provider!PersonEdits
  <2>1. Provider!Meddle(Edits) /\ Provider!Spend("edits") /\ "edits" \in Troubles
    BY <1>2 DEF Provider!PersonEdits, Edits, Troubles
  <2> QED
    BY <1>1, <2>1, TroubleIsSpent DEF ProviderInvariant
<1>3. CASE Provider!PersonDeletes
  <2>1. Provider!Meddle({}) /\ Provider!Spend("deletes") /\ "deletes" \in Troubles
    BY <1>3 DEF Provider!PersonDeletes, Troubles
  <2> QED
    BY <1>1, <2>1, TroubleIsSpent DEF ProviderInvariant
<1>4. CASE Provider!PersonCreates
  <2>1. /\ Provider!Meddle({Provider!Created(2)}) /\ Provider!Spend("creates") /\ "creates" \in Troubles
        /\ obj[Provider!Key] = {}
    BY <1>4 DEF Provider!PersonCreates, Troubles
  <2>2. /\ budget' \in [Troubles -> Nat] /\ budget.creates > 0 /\ budget'.creates = budget.creates - 1
        /\ budget'.creates <= budget.creates /\ budget'.reads <= budget.reads
    BY <2>1, TroubleIsSpent DEF ProviderInvariant
  <2>3. budget.creates \in Nat /\ budget.creates <= 1
    BY <2>1 DEF ProviderInvariant, ProviderTyped
  <2>4. budget'.creates = 0
    BY <2>2, <2>3
  <2> QED
    BY <1>1, <2>1, <2>2, <2>4
<1> QED
  BY <1>2, <1>3, <1>4

LEMMA EditsAre ==
  ASSUME Provider!ProvidersAssumption, NEW uids, WatchInvariant(ThingsOf(uids))
  PROVE  Edits \in AtMostOne(ThingsOf(uids))
<1>1. CASE obj[Provider!Key] = {}
  BY <1>1 DEF Edits, AtMostOne
<1>2. ASSUME NEW o \in ThingsOf(uids), obj[Provider!Key] = {o} PROVE Edits \in AtMostOne(ThingsOf(uids))
  <2>1. Edits = {[o EXCEPT !.gen = o.gen + 1]}
    BY <1>2 DEF Edits
  <2>2. [o EXCEPT !.gen = o.gen + 1] \in ThingsOf(uids)
    BY DEF ThingsOf
  <2> QED
    BY <2>1, <2>2 DEF AtMostOne
<1> QED
  BY <1>1, <1>2, ProviderFacts DEF AtMostOne

LEMMA CreatedIs ==
  /\ Provider!Created(2) \in ThingsOf({1, 2}) /\ {Provider!Created(2)} \in AtMostOne(ThingsOf({1, 2}))
  /\ Provider!Created(2).uid = 2 /\ Provider!Created(2).gen = 1
BY DEF Provider!Created, Provider!Unchecked, ThingsOf, AtMostOne

\* The step of the watch, whoever the providers are.
LEMMA WatchStep ==
  ASSUME Provider!ProvidersAssumption, ProviderInvariant, [Provider!Next]_(Provider!vars),
         NEW uids, WatchInvariant(ThingsOf(uids)), Provider!PersonCreates => uids = {1, 2}
  PROVE  WatchInvariant(ThingsOf(uids))'
<1>1. CASE UNCHANGED Provider!vars
  BY <1>1 DEF Provider!vars, Provider!watched, WatchInvariant, WatchTyped, InOrder, LastStands
<1>2. CASE \/ Provider!AccountChanges \/ Provider!TimePasses \/ Provider!JobEnds
           \/ Provider!NotDue \/ Provider!Call \/ Provider!SecretFails \/ Provider!StandJob
           \/ Provider!ReadProviders \/ Provider!ReadFails \/ Provider!Refused \/ Provider!Reread
  BY <1>2, StaysIs, StaysKeeps
<1>3. CASE Provider!Write \/ Provider!RequestFails
  <2>1. Provider!Held.body \in [reason : Answers \cup {"none"}, of : Nat]
    BY <1>3, WriteIs
  <2>2. Stays \/ \E v : Own(Provider!Held.body, v)
    BY <1>3, WriteIs
  <2> QED
    BY <2>1, <2>2, StaysKeeps, OwnKeeps
<1>4. CASE Provider!DeliverProvider \/ Provider!Restart
  <2>1. Delivers \/ Begins
    BY <1>4, ProviderIsWatched DEF Provider!DeliverProvider, Provider!Restart, Delivers, Begins
  <2> QED
    BY <2>1, DeliversOrBeginsKeeps
<1>5. CASE Provider!PersonEdits \/ Provider!PersonDeletes
  <2>1. Another(Edits) \/ Another({})
    <3>1. ASSUME NEW objs, Provider!Meddle(objs) PROVE Another(objs)
      BY <3>1, ProviderIsWatched DEF Provider!Meddle, Provider!provider, Another, Lands
    <3> QED
      BY <1>5, <3>1 DEF Provider!PersonEdits, Provider!PersonDeletes, Edits
  <2>2. {} \in AtMostOne(ThingsOf(uids))
    BY DEF AtMostOne
  <2> QED
    BY <2>1, <2>2, EditsAre, AnotherKeeps
<1>6. CASE Provider!PersonCreates
  <2>1. Another({Provider!Created(2)}) /\ uids = {1, 2}
    BY <1>6, ProviderIsWatched DEF Provider!PersonCreates, Provider!Meddle, Provider!provider, Another, Lands
  <2> QED
    BY <2>1, CreatedIs, AnotherKeeps
<1> QED
  BY <1>1, <1>2, <1>3, <1>4, <1>5, <1>6 DEF Provider!Next, Provider!PassSteps

-----------------------------------------------------------------------------
(* The pass and its notes.                                                 *)

CheckKept == ProviderTyped /\ (budget.creates > 0 => FirstAtWork) /\ AskedIsNoted
Spent == budget' \in [Troubles -> Nat] /\ budget'.creates <= budget.creates /\ budget'.reads <= budget.reads

LEMMA SpentOrNot ==
  ASSUME ProviderTyped, budget' = budget \/ \E kind \in Troubles : Provider!Spend(kind)
  PROVE  Spent /\ (budget'.creates > 0 => budget.creates > 0) /\ (budget.reads = 0 => budget'.reads = 0)
         /\ budget'.creates <= 1
<1>1. budget \in [Troubles -> Nat] /\ budget.creates <= 1
  BY DEF ProviderTyped
<1>2. "creates" \in Troubles /\ "reads" \in Troubles /\ budget.creates \in Nat /\ budget.reads \in Nat
  BY <1>1 DEF Troubles
<1>3. Spent
  <2>1. CASE budget' = budget
    BY <1>1, <1>2, <2>1 DEF Spent
  <2>2. CASE \E kind \in Troubles : Provider!Spend(kind)
    BY <2>2, TroubleIsSpent DEF Spent
  <2> QED
    BY <2>1, <2>2
<1>4. budget'.creates \in Nat /\ budget'.reads \in Nat
  BY <1>2, <1>3 DEF Spent
<1> QED
  BY <1>1, <1>2, <1>3, <1>4 DEF Spent

LEMMA HoldingThings ==
  ASSUME Provider!ProvidersAssumption, ProviderInvariant
  PROVE  /\ CheckKept /\ obj[Provider!Key] \in AtMostOne(ThingsOf({1, 2}))
         /\ copy[Provider!Key].obj \in AtMostOne(ThingsOf({1, 2}))
         /\ budget.creates > 0 => /\ \A o \in obj[Provider!Key] : o.uid = 1
                                  /\ \A o \in copy[Provider!Key].obj : o.uid = 1
                                  /\ \A x : Sighted(x) => x.uid = 1
<1>1. CheckKept
  BY DEF ProviderInvariant, CheckKept, OnlyTheFirst
<1>2. obj[Provider!Key] \in AtMostOne(ThingsOf({1, 2})) /\ copy[Provider!Key].obj \in AtMostOne(ThingsOf({1, 2}))
  BY ProviderFacts DEF ProviderInvariant
<1>3. ASSUME budget.creates > 0, NEW x, Sighted(x) PROVE x.uid = 1
  <2>1. x \in ThingsOf({1})
    BY <1>3, SightedIsNumbered DEF ProviderInvariant, OnlyTheFirst
  <2> QED
    BY <2>1 DEF ThingsOf
<1>4. (\A o \in obj[Provider!Key] : Sighted(o)) /\ (\A o \in copy[Provider!Key].obj : Sighted(o))
  BY DEF Sighted
<1> QED
  BY <1>1, <1>2, <1>3, <1>4

\* The parts of a pass that the steps give it.
LEMMA PassIsTyped ==
  ASSUME ProviderTyped
  PROVE  /\ Provider!Idle \in Checks /\ Provider!Idle.at = "idle" /\ Provider!Idle.held = {}
         /\ Provider!Idle.quiet = FALSE
         /\ Provider!Disturbed \in Checks /\ Provider!Disturbed.at = pass.at /\ Provider!Disturbed.held = pass.held
         /\ Provider!Disturbed.verdict = pass.verdict /\ Provider!Disturbed.quiet = FALSE
BY DEF ProviderTyped, Provider!Idle, Provider!Disturbed, Checks, AtMostOne

LEMMA GoesIs ==
  ASSUME ProviderTyped, NEW to \in {"reread", "library"}, Provider!Goes(to)
  PROVE  /\ pass' \in Checks /\ pass'.at = to /\ pass'.held = pass.held /\ pass'.verdict = pass.verdict
         /\ pass'.quiet = pass.quiet
BY DEF ProviderTyped, Provider!Goes, Checks

LEMMA SettlesIs ==
  ASSUME ProviderTyped, NEW o \in ThingsOf({1, 2}), NEW verdict \in Answers, NEW write \in {"write", "rewrite"},
         Provider!Settles(o, verdict, write)
  PROVE  /\ pass' \in Checks /\ pass'.held = {Provider!Applied(o, verdict)} /\ pass'.verdict = verdict
         /\ pass'.quiet = pass.quiet
         /\ pass'.at = IF Provider!Applied(o, verdict) = o THEN "library" ELSE write
         /\ Provider!Applied(o, verdict) \in ThingsOf({1, 2})
         /\ Provider!Applied(o, verdict).ver = o.ver /\ Provider!Applied(o, verdict).uid = o.uid
         /\ Provider!Applied(o, verdict).gen = o.gen
         /\ Provider!Applied(o, verdict).body = [reason |-> verdict, of |-> o.gen]
<1> DEFINE new == Provider!Applied(o, verdict)
<1>1. /\ new \in ThingsOf({1, 2}) /\ new.ver = o.ver /\ new.uid = o.uid /\ new.gen = o.gen
      /\ new.body = [reason |-> verdict, of |-> o.gen]
  BY DEF Provider!Applied, ThingsOf
<1> HIDE DEF new
<1>2. pass' = [pass EXCEPT !.verdict = verdict, !.held = {new}, !.at = IF new = o THEN "library" ELSE write]
  BY DEF Provider!Settles, new
<1>3. {new} \in AtMostOne(ThingsOf({1, 2}))
  BY <1>1 DEF AtMostOne
<1>4. /\ pass' \in Checks /\ pass'.held = {new} /\ pass'.verdict = verdict /\ pass'.quiet = pass.quiet
      /\ pass'.at = IF new = o THEN "library" ELSE write
  BY <1>2, <1>3 DEF ProviderTyped, Checks
<1> QED
  BY <1>1, <1>4 DEF new

\* The notes of a call: of the one before it, older by a unit, and with its write made.
LEMMA NotedIs ==
  ASSUME NEW o \in ThingsOf({1, 2}), NEW verdict \in Answers
  PROVE  /\ Provider!Noted(o, verdict) =
                {[uid |-> o.uid, gen |-> o.gen, age |-> 0, verdict |-> verdict, written |-> FALSE]}
         /\ Provider!Noted(o, verdict) \in AtMostOne(Notes)
         /\ {[x EXCEPT !.written = TRUE] : x \in Provider!Noted(o, verdict)} =
                {[uid |-> o.uid, gen |-> o.gen, age |-> 0, verdict |-> verdict, written |-> TRUE]}
         /\ {[uid |-> o.uid, gen |-> o.gen, age |-> 0, verdict |-> verdict, written |-> TRUE]} \in AtMostOne(Notes)
<1> DEFINE fresh == [uid |-> o.uid, gen |-> o.gen, age |-> 0, verdict |-> verdict, written |-> FALSE]
           noted == [uid |-> o.uid, gen |-> o.gen, age |-> 0, verdict |-> verdict, written |-> TRUE]
<1>1. fresh \in Notes /\ noted \in Notes
  BY DEF Notes, ThingsOf
<1>2. Provider!Noted(o, verdict) = {fresh}
  BY DEF Provider!Noted
<1>3. [fresh EXCEPT !.written = TRUE] = noted
  <2>1. ASSUME NEW x \in Notes, NEW y \in Notes, x.uid = y.uid, x.gen = y.gen, x.age = y.age,
               x.verdict = y.verdict, x.written = y.written
        PROVE  x = y
    BY <2>1 DEF Notes
  <2>2. [fresh EXCEPT !.written = TRUE] \in Notes
    BY <1>1 DEF Notes
  <2> QED
    BY <1>1, <2>1, <2>2
<1>4. {[x EXCEPT !.written = TRUE] : x \in {fresh}} = {[fresh EXCEPT !.written = TRUE]}
  OBVIOUS
<1>5. {fresh} \in AtMostOne(Notes) /\ {noted} \in AtMostOne(Notes)
  BY <1>1 DEF AtMostOne
<1> HIDE DEF fresh, noted
<1>6. {[x EXCEPT !.written = TRUE] : x \in Provider!Noted(o, verdict)} = {noted}
  BY <1>2, <1>3, <1>4
<1> QED
  BY <1>2, <1>5, <1>6 DEF fresh, noted

LEMMA WrittenNoteIs ==
  ASSUME ProviderTyped, NEW o
  PROVE  /\ Provider!WrittenNote(o) \in AtMostOne(Notes)
         /\ \A x \in Provider!WrittenNote(o) : \E y \in note :
                /\ SameCall(x, y) /\ (x.written <=> y.written \/ SameSpec(y, o))
         /\ \A y \in note : \E x \in Provider!WrittenNote(o) : SameCall(x, y)
         /\ note = {} => Provider!WrittenNote(o) = {}
<1>1. CASE note = {}
  BY <1>1 DEF Provider!WrittenNote, AtMostOne
<1>2. ASSUME NEW y \in Notes, note = {y}
      PROVE  /\ Provider!WrittenNote(o) \in AtMostOne(Notes)
             /\ \A x \in Provider!WrittenNote(o) : SameCall(x, y) /\ (x.written <=> y.written \/ SameSpec(y, o))
             /\ \E x \in Provider!WrittenNote(o) : SameCall(x, y)
  <2> DEFINE x == [y EXCEPT !.written = (y.written \/ y \in Provider!CallNote(o))]
  <2>1. Provider!WrittenNote(o) = {x}
    BY <1>2 DEF Provider!WrittenNote
  <2>2. y \in Provider!CallNote(o) <=> SameSpec(y, o)
    BY <1>2 DEF Provider!CallNote, SameSpec
  <2>3. x \in Notes /\ SameCall(x, y)
    BY DEF Notes, SameCall
  <2>4. x.written = (y.written \/ y \in Provider!CallNote(o))
    BY DEF Notes
  <2>5. x.written <=> y.written \/ SameSpec(y, o)
    BY <2>2, <2>4
  <2> HIDE DEF x
  <2> QED
    BY <2>1, <2>3, <2>5 DEF AtMostOne
<1> QED
  BY <1>1, <1>2 DEF ProviderTyped, AtMostOne

OneOlder(y) == [y EXCEPT !.age = IF @ < 2 THEN @ + 1 ELSE @]
LEMMA OlderIs ==
  ASSUME NEW notes \in AtMostOne(Notes)
  PROVE  /\ Provider!Older(notes) \in AtMostOne(Notes)
         /\ Provider!Older(notes) = {OneOlder(y) : y \in notes}
         /\ \A y \in notes : /\ OneOlder(y).uid = y.uid /\ OneOlder(y).gen = y.gen
                             /\ OneOlder(y).verdict = y.verdict /\ OneOlder(y).written = y.written
                             /\ OneOlder(y).age = IF y.age < 2 THEN y.age + 1 ELSE y.age
<1>1. Provider!Older(notes) = {OneOlder(y) : y \in notes}
  BY DEF Provider!Older, OneOlder
<1>2. ASSUME NEW y \in Notes
      PROVE  /\ OneOlder(y) \in Notes
             /\ OneOlder(y).uid = y.uid /\ OneOlder(y).gen = y.gen
             /\ OneOlder(y).verdict = y.verdict /\ OneOlder(y).written = y.written
             /\ OneOlder(y).age = IF y.age < 2 THEN y.age + 1 ELSE y.age
  <2> DEFINE age == IF y.age < 2 THEN y.age + 1 ELSE y.age
             x == [y EXCEPT !.age = age]
  <2>1. age \in 0..2
    BY DEF Notes
  <2>2. OneOlder(y) = x
    BY DEF OneOlder
  <2> HIDE DEF age
  <2>3. x \in Notes /\ x.uid = y.uid /\ x.gen = y.gen /\ x.verdict = y.verdict /\ x.written = y.written
        /\ x.age = age
    BY <2>1 DEF Notes
  <2> HIDE DEF x
  <2>4. /\ OneOlder(y) \in Notes
        /\ OneOlder(y).uid = y.uid /\ OneOlder(y).gen = y.gen
        /\ OneOlder(y).verdict = y.verdict /\ OneOlder(y).written = y.written
        /\ OneOlder(y).age = age
    BY <2>2, <2>3
  <2> QED
    BY <2>4 DEF age
<1>3. {OneOlder(y) : y \in notes} \in AtMostOne(Notes)
  <2>1. CASE notes = {}
    BY <2>1 DEF AtMostOne
  <2>2. ASSUME NEW y \in Notes, notes = {y} PROVE {OneOlder(z) : z \in notes} = {OneOlder(y)}
    BY <2>2
  <2> QED
    BY <1>2, <2>1, <2>2 DEF AtMostOne
<1> QED
  BY <1>1, <1>2, <1>3 DEF AtMostOne

\* What stands after a change.
LEMMA ObjAfter ==
  ASSUME Provider!ProvidersAssumption, ProviderInvariant
  PROVE  /\ Another(Edits) => \A o \in obj'[Provider!Key] : \E c \in obj[Provider!Key] :
                o.uid = c.uid /\ o.gen = c.gen + 1
         /\ Another({}) => obj'[Provider!Key] = {}
         /\ Another({Provider!Created(2)}) => \A o \in obj'[Provider!Key] : o.uid = 2
         /\ \A body, v : Own(body, v) => \A o \in obj'[Provider!Key] : \E c \in obj[Provider!Key] :
                SameSpec(c, o) /\ o.body = body
<1>1. \A c \in obj[Provider!Key] : c \in ThingsOf({1, 2})
  BY HoldingThings DEF AtMostOne
<1>2. ASSUME NEW objs, Lands(objs) PROVE obj'[Provider!Key] = {Watch!Version(o) : o \in objs}
  BY <1>2, QueueAfter DEF ProviderInvariant
<1>3. ASSUME Another(Edits), NEW o \in obj'[Provider!Key]
      PROVE  \E c \in obj[Provider!Key] : o.uid = c.uid /\ o.gen = c.gen + 1
  <2>1. PICK e \in Edits : o = Watch!Version(e)
    BY <1>2, <1>3 DEF Another
  <2>2. PICK c \in obj[Provider!Key] : e = [c EXCEPT !.gen = c.gen + 1]
    BY <2>1 DEF Edits
  <2>3. c \in ThingsOf({1, 2})
    BY <1>1
  <2>4. e.uid = c.uid /\ e.gen = c.gen + 1 /\ e \in ThingsOf({1, 2})
    BY <2>2, <2>3 DEF ThingsOf
  <2>5. o.uid = e.uid /\ o.gen = e.gen
    BY <2>1, <2>4 DEF ThingsOf, Watch!Version
  <2> QED
    BY <2>4, <2>5
<1>4. Another({}) => obj'[Provider!Key] = {}
  BY <1>2 DEF Another
<1>5. ASSUME Another({Provider!Created(2)}), NEW o \in obj'[Provider!Key] PROVE o.uid = 2
  <2>1. o = Watch!Version(Provider!Created(2))
    BY <1>2, <1>5 DEF Another
  <2> QED
    BY <2>1 DEF Watch!Version, Provider!Created
<1>6. ASSUME NEW body, NEW v, Own(body, v), NEW o \in obj'[Provider!Key]
      PROVE  \E c \in obj[Provider!Key] : SameSpec(c, o) /\ o.body = body
  <2>1. PICK e \in Written(body) : o = Watch!Version(e)
    BY <1>2, <1>6 DEF Own
  <2>2. PICK c \in obj[Provider!Key] : e = [c EXCEPT !.body = body]
    BY <2>1 DEF Written
  <2>3. o = [[c EXCEPT !.body = body] EXCEPT !.ver = clock + 1] /\ c \in ThingsOf({1, 2})
    BY <1>1, <2>1, <2>2 DEF Watch!Version
  <2>4. o.uid = c.uid /\ o.gen = c.gen /\ o.body = body
    BY <2>3 DEF ThingsOf
  <2> QED
    BY <2>4 DEF SameSpec
<1> QED
  BY <1>3, <1>4, <1>5, <1>6

LEMMA BesideKeeps ==
  ASSUME Provider!ProvidersAssumption, ProviderInvariant,
         Provider!AccountChanges \/ Provider!JobEnds \/ Provider!DeliverProvider
  PROVE  CheckKept' /\ Spent /\ UNCHANGED <<obj, note, asked, pass, settled>>
<1>1. UNCHANGED <<obj, note, asked, pass, settled>>
  BY DEF Provider!AccountChanges, Provider!JobEnds, Provider!DeliverProvider, Provider!Deliver,
     Provider!watched, Provider!provider
<1>2. /\ budget' = budget \/ \E kind \in Troubles : Provider!Spend(kind)
      /\ account' \in Answers /\ job' \in BOOLEAN
  BY DEF Provider!AccountChanges, Provider!JobEnds, Provider!DeliverProvider, Provider!Deliver,
     Provider!watched, Provider!provider, Troubles, ProviderInvariant, ProviderTyped
<1>3. CheckKept
  BY HoldingThings
<1>4. Spent /\ (budget'.creates > 0 => budget.creates > 0) /\ budget'.creates <= 1
  BY <1>2, <1>3, SpentOrNot DEF CheckKept
<1>5. ProviderTyped'
  BY <1>1, <1>2, <1>3, <1>4 DEF CheckKept, ProviderTyped, Spent
<1> QED
  BY <1>1, <1>3, <1>4, <1>5 DEF CheckKept, FirstAtWork, AskedIsNoted

LEMMA MeddleKeeps ==
  ASSUME Provider!ProvidersAssumption, ProviderInvariant,
         Provider!PersonEdits \/ Provider!PersonDeletes \/ Provider!PersonCreates
  PROVE  CheckKept'
<1>1. CheckKept
  BY HoldingThings
<1>2. /\ pass' = Provider!Disturbed /\ settled' = FALSE /\ UNCHANGED <<account, note, job, asked>>
      /\ budget' \in [Troubles -> Nat] /\ budget'.creates <= budget.creates
  BY MeddleIs
<1>3. budget.creates \in Nat /\ budget.creates <= 1 /\ budget'.creates \in Nat
  BY <1>1, <1>2 DEF CheckKept, ProviderTyped, Troubles
<1>4. /\ pass' \in Checks /\ pass'.at = pass.at /\ pass'.held = pass.held /\ pass'.verdict = pass.verdict
  BY <1>1, <1>2, PassIsTyped DEF CheckKept
<1>5. ProviderTyped'
  <2>1. budget' \in [Troubles -> Nat] /\ budget'.creates <= 1
    BY <1>2, <1>3
  <2>2. /\ account' \in Answers /\ note' \in AtMostOne(Notes) /\ asked' \in AtMostOne(Notes)
        /\ job' \in BOOLEAN /\ settled' \in BOOLEAN
    BY <1>1, <1>2 DEF CheckKept, ProviderTyped
  <2>3. /\ pass'.at \in {"check", "write", "reread", "rewrite"} => pass'.held # {}
        /\ pass'.at \in {"write", "reread", "rewrite"} => pass'.verdict \in Answers
    BY <1>1, <1>4 DEF CheckKept, ProviderTyped
  <2> QED
    BY <1>4, <2>1, <2>2, <2>3 DEF ProviderTyped
<1>6. budget'.creates > 0 => FirstAtWork'
  BY <1>1, <1>2, <1>3, <1>4 DEF CheckKept, FirstAtWork
<1>7. AskedIsNoted'
  <2>1. CASE Another(Edits) \/ Another({})
    <3>1. \A o \in obj'[Provider!Key] : \E c \in obj[Provider!Key] : o.uid = c.uid
      BY <2>1, ObjAfter
    <3> QED
      BY <1>1, <1>2, <3>1 DEF CheckKept, AskedIsNoted
  <2>2. CASE Another({Provider!Created(2)}) /\ budget.creates > 0
    <3>1. (\A o \in obj'[Provider!Key] : o.uid = 2) /\ \A x \in asked : x.uid = 1
      BY <1>1, <2>2, ObjAfter DEF CheckKept, FirstAtWork
    <3> QED
      BY <1>1, <1>2, <3>1 DEF CheckKept, AskedIsNoted
  <2> QED
    BY <2>1, <2>2, MeddleIs
<1> QED
  BY <1>5, <1>6, <1>7 DEF CheckKept

LEMMA AgeKeeps ==
  ASSUME Provider!ProvidersAssumption, ProviderInvariant, Provider!TimePasses
  PROVE  CheckKept'
<1>1. CheckKept
  BY HoldingThings
<1>2. /\ note' = Provider!Older(note) /\ asked' = Provider!Older(asked) /\ settled' = FALSE
      /\ UNCHANGED <<obj, budget, account, pass, job>>
  BY DEF Provider!TimePasses, Provider!watched
<1>3. /\ note \in AtMostOne(Notes) /\ asked \in AtMostOne(Notes)
  BY <1>1 DEF CheckKept, ProviderTyped
<1>4. ProviderTyped'
  BY <1>1, <1>2, <1>3, OlderIs DEF CheckKept, ProviderTyped
<1>5. /\ note' = {OneOlder(y) : y \in note} /\ asked' = {OneOlder(y) : y \in asked}
      /\ \A y \in note \cup asked : OneOlder(y).uid = y.uid
  BY <1>2, <1>3, OlderIs
<1>6. budget'.creates > 0 => FirstAtWork'
  BY <1>1, <1>2, <1>5 DEF CheckKept, FirstAtWork
<1>7. ASSUME NEW x \in asked, NEW y \in note, SameCall(x, y) PROVE SameCall(OneOlder(x), OneOlder(y))
  BY <1>3, <1>7, OlderIs DEF SameCall
<1>8. AskedIsNoted'
  <2> SUFFICES ASSUME NEW z \in asked'
               PROVE  \/ \E y \in note' : SameCall(z, y)
                      \/ note' = {} /\ \A o \in obj[Provider!Key] : o.uid # z.uid
    BY <1>2 DEF AskedIsNoted, SameCall
  <2>1. PICK x \in asked : z = OneOlder(x)
    BY <1>5
  <2>2. CASE \E y \in note : SameCall(x, y)
    BY <1>5, <1>7, <2>1, <2>2
  <2>3. CASE note = {} /\ \A o \in obj[Provider!Key] : o.uid # x.uid
    BY <1>5, <2>1, <2>3
  <2> QED
    BY <1>1, <2>2, <2>3 DEF CheckKept, AskedIsNoted
<1> QED
  BY <1>4, <1>6, <1>8 DEF CheckKept

LEMMA ReadIs ==
  ASSUME Provider!ProvidersAssumption, ProviderInvariant, Provider!ReadProviders \/ Provider!ReadFails
  PROVE  /\ pass' \in Checks
         /\ pass'.at = IF pass'.held = {} THEN "library" ELSE "check"
         /\ pass'.held = copy[Provider!Key].obj \/ pass'.held = obj[Provider!Key]
         /\ Provider!ReadProviders =>
                /\ pass'.quiet = Provider!Undisturbed /\ budget' = budget /\ settled' = settled
                /\ pass'.held = IF copy[Provider!Key].obj = {} \/ Provider!Current(Provider!Key)
                                THEN copy[Provider!Key].obj ELSE obj[Provider!Key]
         /\ Provider!ReadFails => Provider!Spend("reads") /\ settled' = FALSE /\ pass'.quiet = FALSE
         /\ UNCHANGED <<account, note, job, asked, obj>>
<1>1. copy[Provider!Key].obj \in AtMostOne(ThingsOf({1, 2})) /\ obj[Provider!Key] \in AtMostOne(ThingsOf({1, 2}))
  BY HoldingThings
<1>2. ASSUME NEW objs \in AtMostOne(ThingsOf({1, 2})), NEW quiet \in BOOLEAN,
             pass' = [Provider!Idle EXCEPT !.at = IF objs = {} THEN "library" ELSE "check",
                                           !.held = objs, !.quiet = quiet]
      PROVE  /\ pass' \in Checks /\ pass'.held = objs /\ pass'.at = IF objs = {} THEN "library" ELSE "check"
             /\ pass'.quiet = quiet
  BY <1>2 DEF Checks, Provider!Idle
<1>3. UNCHANGED <<account, note, job, asked, obj>>
  BY DEF Provider!ReadProviders, Provider!ReadFails, Provider!provider
<1>4. CASE Provider!ReadProviders
  <2> DEFINE objs == IF copy[Provider!Key].obj = {} \/ Provider!Current(Provider!Key)
                     THEN copy[Provider!Key].obj ELSE obj[Provider!Key]
  <2>1. Provider!Lists(objs) /\ budget' = budget /\ settled' = settled
    BY <1>4 DEF Provider!ReadProviders
  <2>2. objs \in AtMostOne(ThingsOf({1, 2})) /\ Provider!Undisturbed \in BOOLEAN
    BY <1>1 DEF Provider!Undisturbed
  <2>3. objs = copy[Provider!Key].obj \/ objs = obj[Provider!Key]
    OBVIOUS
  <2> HIDE DEF objs
  <2>4. /\ pass' \in Checks /\ pass'.held = objs /\ pass'.at = IF objs = {} THEN "library" ELSE "check"
        /\ pass'.quiet = Provider!Undisturbed
    BY <1>2, <2>1, <2>2 DEF Provider!Lists
  <2>5. Provider!ReadFails => Provider!Spend("reads") /\ settled' = FALSE /\ pass'.quiet = FALSE
    <3>1. ASSUME Provider!ReadFails PROVE FALSE
      <4>1. Provider!Spend("reads") /\ "reads" \in Troubles
        BY <3>1 DEF Provider!ReadFails, Troubles
      <4>2. budget'["reads"] = budget["reads"] - 1 /\ budget["reads"] \in Nat
        BY <4>1, TroubleIsSpent DEF ProviderInvariant, ProviderTyped
      <4> QED
        BY <2>1, <4>2
    <3> QED
      BY <3>1
  <2> QED
    BY <1>3, <2>1, <2>3, <2>4, <2>5 DEF objs
<1>5. CASE Provider!ReadFails /\ ~Provider!ReadProviders
  <2> DEFINE objs == copy[Provider!Key].obj
  <2>1. /\ pass' = [Provider!Idle EXCEPT !.at = "check", !.held = objs] /\ objs # {}
        /\ Provider!Spend("reads") /\ settled' = FALSE
    BY <1>5 DEF Provider!ReadFails
  <2>2. /\ pass' \in Checks /\ pass'.held = objs /\ pass'.at = "check" /\ pass'.quiet = FALSE
    BY <1>1, <2>1 DEF Checks, Provider!Idle
  <2> QED
    BY <1>3, <1>5, <2>1, <2>2
<1> QED
  BY <1>4, <1>5

LEMMA ReadKeeps ==
  ASSUME Provider!ProvidersAssumption, ProviderInvariant, Provider!ReadProviders \/ Provider!ReadFails
  PROVE  CheckKept'
<1>1. CheckKept
  BY HoldingThings
<1>2. /\ pass' \in Checks /\ pass'.at = IF pass'.held = {} THEN "library" ELSE "check"
      /\ pass'.held = copy[Provider!Key].obj \/ pass'.held = obj[Provider!Key]
      /\ UNCHANGED <<account, note, job, asked, obj>>
  BY ReadIs
<1>3. /\ budget' = budget \/ \E kind \in Troubles : Provider!Spend(kind)
      /\ settled' \in BOOLEAN
  BY <1>1, ReadIs DEF Troubles, CheckKept, ProviderTyped
<1>4. Spent /\ (budget'.creates > 0 => budget.creates > 0) /\ budget'.creates <= 1
  BY <1>1, <1>3, SpentOrNot DEF CheckKept
<1>5. ProviderTyped'
  BY <1>1, <1>2, <1>3, <1>4 DEF CheckKept, ProviderTyped, Spent
<1>6. budget'.creates > 0 => FirstAtWork'
  BY <1>1, <1>2, <1>4, HoldingThings DEF CheckKept, FirstAtWork
<1>7. AskedIsNoted'
  BY <1>1, <1>2 DEF CheckKept, AskedIsNoted
<1> QED
  BY <1>5, <1>6, <1>7 DEF CheckKept

\* What the check of a provider leaves: a call of it, or the verdict of the note.
LEMMA CheckIs ==
  ASSUME Provider!ProvidersAssumption, ProviderInvariant, Provider!NotDue \/ Provider!Call
  PROVE  LET h == Provider!Held IN
         /\ pass.at = "check" /\ pass.held = {h} /\ h \in ThingsOf({1, 2})
         /\ UNCHANGED <<obj, account, job, settled, budget>>
         /\ Provider!Call =>
                /\ Provider!Due(h) /\ asked' = Provider!Noted(h, account) /\ account \in Answers
                /\ Provider!Settles(h, account, "write")
                /\ \E y : /\ SameSpec(y, h) /\ y.verdict = account /\ note' = {y} /\ y \in Notes
                          /\ y.written = (Provider!Applied(h, account) = h)
                          /\ y.age = 0 /\ y.uid = h.uid /\ y.gen = h.gen
                          /\ \A x \in asked' : SameCall(x, y) /\ x \in Notes
                /\ asked' \in AtMostOne(Notes)
         /\ Provider!NotDue =>
                /\ asked' = asked
                /\ \E y \in note : /\ SameSpec(y, h) /\ note = {y} /\ y.verdict \in Answers
                      /\ \/ y.written /\ Provider!Goes("library") /\ note' = note
                         \/ /\ Provider!Settles(h, y.verdict, "write")
                            /\ note' = IF Provider!Applied(h, y.verdict) = h THEN Provider!WrittenNote(h) ELSE note
<1> DEFINE h == Provider!Held
<1>1. pass.at = "check" /\ UNCHANGED <<obj, account, job, settled, budget>> /\ CheckKept
  BY HoldingThings DEF Provider!NotDue, Provider!Call, Provider!watched
<1>2. pass.held = {h} /\ h \in ThingsOf({1, 2})
  BY <1>1, HeldIsTyped DEF CheckKept, ProviderTyped
<1>3. account \in Answers /\ note \in AtMostOne(Notes)
  BY <1>1 DEF CheckKept, ProviderTyped
<1>4. ASSUME Provider!Call
      PROVE  /\ Provider!Due(h) /\ asked' = Provider!Noted(h, account)
             /\ Provider!Settles(h, account, "write") /\ asked' \in AtMostOne(Notes)
             /\ \E y : /\ SameSpec(y, h) /\ y.verdict = account /\ note' = {y} /\ y \in Notes
                       /\ y.written = (Provider!Applied(h, account) = h)
                       /\ y.age = 0 /\ y.uid = h.uid /\ y.gen = h.gen
                       /\ \A x \in asked' : SameCall(x, y) /\ x \in Notes
  <2> DEFINE y(written) == [uid |-> h.uid, gen |-> h.gen, age |-> 0, verdict |-> account, written |-> written]
  <2>1. /\ Provider!Due(h) /\ asked' = Provider!Noted(h, account) /\ Provider!Settles(h, account, "write")
        /\ note' = IF Provider!Applied(h, account) = h
                   THEN {[x EXCEPT !.written = TRUE] : x \in Provider!Noted(h, account)}
                   ELSE Provider!Noted(h, account)
    BY <1>4 DEF Provider!Call
  <2>2. /\ asked' = {y(FALSE)} /\ {y(FALSE)} \in AtMostOne(Notes)
        /\ note' = {y(Provider!Applied(h, account) = h)}
    <3>1. /\ Provider!Noted(h, account) = {y(FALSE)} /\ {y(FALSE)} \in AtMostOne(Notes)
          /\ {[x EXCEPT !.written = TRUE] : x \in Provider!Noted(h, account)} = {y(TRUE)}
      BY <1>2, <1>3, NotedIs
    <3> HIDE DEF y
    <3>2. CASE Provider!Applied(h, account) = h
      <4>1. (Provider!Applied(h, account) = h) = TRUE
        BY <3>2
      <4> QED
        BY <2>1, <3>1, <3>2, <4>1
    <3>3. CASE Provider!Applied(h, account) # h
      <4>1. (Provider!Applied(h, account) = h) = FALSE
        BY <3>3
      <4> QED
        BY <2>1, <3>1, <3>3, <4>1
    <3> QED
      BY <3>2, <3>3
  <2>3. ASSUME NEW written \in BOOLEAN
        PROVE  /\ SameSpec(y(written), h) /\ y(written).verdict = account /\ y(written) \in Notes
               /\ y(written).written = written /\ y(written).age = 0 /\ y(written).uid = h.uid
               /\ y(written).gen = h.gen /\ SameCall(y(FALSE), y(written))
    BY <1>2, <1>3 DEF SameSpec, SameCall, Notes, ThingsOf
  <2>4. (Provider!Applied(h, account) = h) \in BOOLEAN
    OBVIOUS
  <2> HIDE DEF y
  <2>5. y(FALSE) \in Notes
    BY <2>3
  <2> QED
    BY <2>1, <2>2, <2>3, <2>4, <2>5
<1>5. ASSUME Provider!NotDue
      PROVE  /\ asked' = asked
             /\ \E y \in note : /\ SameSpec(y, h) /\ note = {y} /\ y.verdict \in Answers
                   /\ \/ y.written /\ Provider!Goes("library") /\ note' = note
                      \/ /\ Provider!Settles(h, y.verdict, "write")
                         /\ note' = IF Provider!Applied(h, y.verdict) = h THEN Provider!WrittenNote(h) ELSE note
  <2> DEFINE unwritten == {x \in Provider!CallNote(h) : ~x.written}
  <2>1. /\ ~Provider!Due(h) /\ asked' = asked
        /\ IF unwritten = {} THEN Provider!Goes("library") /\ note' = note
           ELSE /\ Provider!Settles(h, Provider!The(unwritten).verdict, "write")
                /\ note' = IF Provider!Applied(h, Provider!The(unwritten).verdict) = h
                           THEN Provider!WrittenNote(h) ELSE note
    BY <1>5 DEF Provider!NotDue
  <2>2. PICK y \in Provider!CallNote(h) : TRUE
    BY <2>1 DEF Provider!Due
  <2>3. y \in note /\ SameSpec(y, h) /\ note = {y} /\ y \in Notes
    BY <1>3, <2>2 DEF Provider!CallNote, SameSpec, AtMostOne
  <2>4. y.verdict \in Answers /\ y.written \in BOOLEAN
    BY <2>3 DEF Notes
  <2>5. CASE y.written
    <3>1. unwritten = {}
      BY <2>3, <2>5 DEF Provider!CallNote
    <3> QED
      BY <2>1, <2>3, <2>4, <2>5, <3>1
  <2>6. CASE ~y.written
    <3>1. unwritten = {y}
      BY <2>2, <2>3, <2>6 DEF Provider!CallNote
    <3>2. Provider!The(unwritten) = y
      BY <3>1 DEF Provider!The
    <3>3. unwritten # {}
      BY <3>1
    <3> HIDE DEF unwritten
    <3> QED
      BY <2>1, <2>3, <2>4, <3>2, <3>3
  <2> QED
    BY <2>4, <2>5, <2>6
<1> QED
  BY <1>1, <1>2, <1>3, <1>4, <1>5

\* The note stays, or its write is made; and who stands has not another uid.
LEMMA NotedStays ==
  ASSUME CheckKept, NEW o, note' = note \/ note' = Provider!WrittenNote(o), asked' = asked,
         \A c \in obj'[Provider!Key] : \E e \in obj[Provider!Key] : e.uid = c.uid
  PROVE  /\ note' \in AtMostOne(Notes) /\ AskedIsNoted'
         /\ \A x \in note' : \E y \in note : SameCall(x, y)
<1>1. note' \in AtMostOne(Notes)
  BY WrittenNoteIs DEF CheckKept, ProviderTyped
<1>2. /\ \A x \in note' : \E y \in note : SameCall(x, y)
      /\ \A y \in note : \E x \in note' : SameCall(x, y)
      /\ note = {} => note' = {}
  <2>1. CASE note' = note
    BY <2>1 DEF SameCall
  <2>2. CASE note' = Provider!WrittenNote(o)
    BY <2>2, WrittenNoteIs DEF CheckKept
  <2> QED
    BY <2>1, <2>2
<1>3. ASSUME NEW x \in asked
      PROVE  \/ \E y \in note' : SameCall(x, y)
             \/ note' = {} /\ \A c \in obj'[Provider!Key] : c.uid # x.uid
  <2>1. CASE \E y \in note : SameCall(x, y)
    BY <1>2, <2>1 DEF SameCall
  <2>2. CASE note = {} /\ \A c \in obj[Provider!Key] : c.uid # x.uid
    BY <1>2, <2>2
  <2> QED
    BY <2>1, <2>2 DEF CheckKept, AskedIsNoted
<1>4. AskedIsNoted'
  BY <1>3 DEF AskedIsNoted, SameCall
<1> QED
  BY <1>1, <1>2, <1>4

LEMMA EndsIs ==
  ASSUME ProviderTyped, pass' = [Provider!Disturbed EXCEPT !.at = "library"]
  PROVE  /\ pass' \in Checks /\ pass'.at = "library" /\ pass'.held = pass.held /\ pass'.quiet = FALSE
BY DEF ProviderTyped, Provider!Disturbed, Checks

\* A step of the pass that holds what it held, with the note that it had or its write made.
LEMMA PassKeeps ==
  ASSUME CheckKept, pass' \in Checks,
         pass'.at \in {"check", "write", "reread", "rewrite"} => pass'.held # {},
         pass'.at \in {"write", "reread", "rewrite"} => pass'.verdict \in Answers,
         \A c \in pass'.held : \E e \in pass.held \cup obj[Provider!Key] : e.uid = c.uid,
         account' \in Answers, job' \in BOOLEAN, settled' \in BOOLEAN,
         budget' = budget \/ \E kind \in Troubles : Provider!Spend(kind),
         NEW o, note' = note \/ note' = Provider!WrittenNote(o), asked' = asked,
         \A c \in obj'[Provider!Key] : \E e \in obj[Provider!Key] : e.uid = c.uid,
         budget.creates > 0 => \A e \in obj[Provider!Key] : e.uid = 1
  PROVE  CheckKept'
<1>1. /\ note' \in AtMostOne(Notes) /\ AskedIsNoted'
      /\ \A x \in note' : \E y \in note : SameCall(x, y)
  BY NotedStays
<1>2. Spent /\ (budget'.creates > 0 => budget.creates > 0) /\ budget'.creates <= 1
  BY SpentOrNot DEF CheckKept
<1>3. ProviderTyped'
  BY <1>1, <1>2 DEF CheckKept, ProviderTyped, Spent
<1>4. budget'.creates > 0 => FirstAtWork'
  <2> SUFFICES ASSUME budget'.creates > 0 PROVE FirstAtWork'
    OBVIOUS
  <2>1. FirstAtWork /\ \A e \in obj[Provider!Key] : e.uid = 1
    BY <1>2 DEF CheckKept
  <2>2. (\A c \in pass'.held : c.uid = 1) /\ \A x \in note' \cup asked' : x.uid = 1
    BY <1>1, <2>1 DEF FirstAtWork, SameCall
  <2> QED
    BY <2>2 DEF FirstAtWork
<1> QED
  BY <1>1, <1>3, <1>4 DEF CheckKept

LEMMA CallKeeps ==
  ASSUME Provider!ProvidersAssumption, ProviderInvariant, Provider!Call
  PROVE  CheckKept'
<1> DEFINE h == Provider!Held
<1>1. /\ pass.at = "check" /\ pass.held = {h} /\ h \in ThingsOf({1, 2})
      /\ UNCHANGED <<obj, account, job, settled, budget>>
      /\ account \in Answers /\ Provider!Settles(h, account, "write") /\ asked' \in AtMostOne(Notes)
  BY CheckIs
<1>2. PICK y \in Notes : note' = {y} /\ y.uid = h.uid /\ \A x \in asked' : SameCall(x, y)
  BY CheckIs
<1>3. CheckKept
  BY HoldingThings
<1> HIDE DEF h
<1>4. /\ pass' \in Checks /\ pass'.held = {Provider!Applied(h, account)} /\ pass'.verdict = account
      /\ Provider!Applied(h, account).uid = h.uid
  BY <1>1, <1>3, SettlesIs DEF CheckKept
<1>5. note' \in AtMostOne(Notes)
  BY <1>2 DEF AtMostOne
<1>6. ProviderTyped'
  BY <1>1, <1>3, <1>4, <1>5 DEF CheckKept, ProviderTyped
<1>7. AskedIsNoted'
  BY <1>2 DEF AskedIsNoted, SameCall
<1>8. budget'.creates > 0 => FirstAtWork'
  <2> SUFFICES ASSUME budget'.creates > 0 PROVE FirstAtWork'
    OBVIOUS
  <2>1. h.uid = 1
    BY <1>1, <1>3 DEF CheckKept, FirstAtWork
  <2>2. (\A c \in pass'.held : c.uid = 1) /\ \A x \in note' \cup asked' : x.uid = 1
    BY <1>2, <1>4, <2>1 DEF SameCall
  <2> QED
    BY <2>2 DEF FirstAtWork
<1> QED
  BY <1>6, <1>7, <1>8 DEF CheckKept

LEMMA NotDueKeeps ==
  ASSUME Provider!ProvidersAssumption, ProviderInvariant, Provider!NotDue
  PROVE  CheckKept'
<1> DEFINE h == Provider!Held
<1>1. /\ pass.at = "check" /\ pass.held = {h} /\ h \in ThingsOf({1, 2})
      /\ UNCHANGED <<obj, account, job, settled, budget>> /\ asked' = asked
  BY CheckIs
<1>2. PICK y \in note : /\ y.verdict \in Answers
         /\ \/ Provider!Goes("library") /\ note' = note
            \/ /\ Provider!Settles(h, y.verdict, "write")
               /\ note' = IF Provider!Applied(h, y.verdict) = h THEN Provider!WrittenNote(h) ELSE note
  BY CheckIs
<1>3. CheckKept /\ (budget.creates > 0 => \A e \in obj[Provider!Key] : e.uid = 1)
  BY HoldingThings
<1> HIDE DEF h
<1>4. /\ pass' \in Checks
      /\ pass'.at \in {"check", "write", "reread", "rewrite"} => pass'.held # {}
      /\ pass'.at \in {"write", "reread", "rewrite"} => pass'.verdict \in Answers
      /\ \A c \in pass'.held : \E e \in pass.held : e.uid = c.uid
  <2>1. CASE Provider!Goes("library")
    <3>1. pass' \in Checks /\ pass'.at = "library" /\ pass'.held = pass.held
      BY <1>3, <2>1, GoesIs DEF CheckKept
    <3> QED
      BY <1>1, <3>1
  <2>2. CASE Provider!Settles(h, y.verdict, "write")
    <3>1. /\ pass' \in Checks /\ pass'.held = {Provider!Applied(h, y.verdict)} /\ pass'.verdict = y.verdict
          /\ Provider!Applied(h, y.verdict).uid = h.uid
      BY <1>1, <1>2, <1>3, <2>2, SettlesIs DEF CheckKept
    <3> QED
      BY <1>1, <1>2, <3>1
  <2> QED
    BY <1>2, <2>1, <2>2
<1>5. account' \in Answers /\ job' \in BOOLEAN /\ settled' \in BOOLEAN
  BY <1>1, <1>3 DEF CheckKept, ProviderTyped
<1>6. note' = note \/ note' = Provider!WrittenNote(h)
  BY <1>2
<1> QED
  BY <1>1, <1>3, <1>4, <1>5, <1>6, PassKeeps

LEMMA FailKeeps ==
  ASSUME Provider!ProvidersAssumption, ProviderInvariant, Provider!SecretFails \/ Provider!RequestFails
  PROVE  CheckKept'
<1>1. CheckKept /\ (budget.creates > 0 => \A e \in obj[Provider!Key] : e.uid = 1)
  BY HoldingThings
<1>2. /\ pass' = [Provider!Disturbed EXCEPT !.at = "library"] /\ settled' = FALSE
      /\ UNCHANGED <<account, note, job, asked>> /\ Provider!Spend("fails") /\ "fails" \in Troubles
  BY DEF Provider!SecretFails, Provider!RequestFails, Provider!provider, Troubles
<1>3. pass' \in Checks /\ pass'.at = "library" /\ pass'.held = pass.held
  BY <1>1, <1>2, EndsIs DEF CheckKept
<1>4. \A c \in obj'[Provider!Key] : \E e \in obj[Provider!Key] : e.uid = c.uid
  <2>1. CASE Provider!SecretFails
    BY <2>1 DEF Provider!SecretFails
  <2>2. CASE Provider!RequestFails
    BY <2>2, WriteIs, ObjAfter DEF SameSpec
  <2> QED
    BY <2>1, <2>2
<1>5. account' \in Answers /\ job' \in BOOLEAN /\ settled' \in BOOLEAN
  BY <1>1, <1>2 DEF CheckKept, ProviderTyped
<1> QED
  BY <1>1, <1>2, <1>3, <1>4, <1>5, PassKeeps

\* What the write of the pass leaves it: what it wrote, with the version of the answer.
LEMMA TakenIs ==
  ASSUME Provider!ProvidersAssumption, ProviderInvariant, Provider!Write
  PROVE  /\ pass.at \in {"write", "rewrite"} /\ pass' \in Checks /\ pass'.at = "library"
         /\ pass'.quiet = pass.quiet /\ pass'.verdict = pass.verdict
         /\ \E c \in ThingsOf({1, 2}) : /\ pass'.held = {c} /\ c.ver = clock + 1 /\ SameSpec(c, Provider!Held)
                                        /\ c.body = Provider!Held.body
         /\ note' = Provider!WrittenNote(Provider!Held)
         /\ UNCHANGED <<budget, account, job, asked, settled>>
         /\ \E o \in obj[Provider!Key] : o.ver = Provider!Held.ver
<1> DEFINE h == Provider!Held
           c == [h EXCEPT !.ver = clock + 1]
<1>1. /\ pass.at \in {"write", "rewrite"} /\ pass' = [pass EXCEPT !.at = "library", !.held = {c}]
      /\ note' = Provider!WrittenNote(Provider!Held) /\ UNCHANGED <<budget, account, job, asked, settled>>
      /\ \E o \in obj[Provider!Key] : o.ver = h.ver
  BY DEF Provider!Write, Provider!Taken, Provider!Holds
<1>2. h \in ThingsOf({1, 2}) /\ clock \in Nat /\ ProviderTyped
  BY WriteIs, ProviderFacts DEF ProviderInvariant
<1>3. c \in ThingsOf({1, 2}) /\ c.ver = clock + 1 /\ SameSpec(c, h) /\ c.body = h.body
  BY <1>2 DEF ThingsOf, SameSpec
<1> HIDE DEF c
<1>4. {c} \in AtMostOne(ThingsOf({1, 2}))
  BY <1>3 DEF AtMostOne
<1>5. pass' \in Checks /\ pass'.at = "library" /\ pass'.held = {c} /\ pass'.quiet = pass.quiet
      /\ pass'.verdict = pass.verdict
  BY <1>1, <1>2, <1>4 DEF ProviderTyped, Checks
<1> QED
  BY <1>1, <1>3, <1>5

LEMMA WriteKeeps ==
  ASSUME Provider!ProvidersAssumption, ProviderInvariant, Provider!Write
  PROVE  CheckKept'
<1>1. CheckKept /\ (budget.creates > 0 => \A e \in obj[Provider!Key] : e.uid = 1)
  BY HoldingThings
<1>2. /\ pass' \in Checks /\ pass'.at = "library" /\ note' = Provider!WrittenNote(Provider!Held)
      /\ UNCHANGED <<budget, account, job, asked, settled>>
  BY TakenIs
<1>3. \A c \in pass'.held : \E e \in pass.held : e.uid = c.uid
  BY TakenIs, WriteIs DEF SameSpec
<1>4. \A c \in obj'[Provider!Key] : \E e \in obj[Provider!Key] : e.uid = c.uid
  BY WriteIs, ObjAfter DEF SameSpec
<1>5. account' \in Answers /\ job' \in BOOLEAN /\ settled' \in BOOLEAN
  BY <1>1, <1>2 DEF CheckKept, ProviderTyped
<1> QED
  BY <1>1, <1>2, <1>3, <1>4, <1>5, PassKeeps

LEMMA RefusedKeeps ==
  ASSUME Provider!ProvidersAssumption, ProviderInvariant, Provider!Refused
  PROVE  CheckKept'
<1>1. CheckKept /\ (budget.creates > 0 => \A e \in obj[Provider!Key] : e.uid = 1)
  BY HoldingThings
<1>2. /\ pass.at \in {"write", "rewrite"}
      /\ Provider!Goes(IF pass.at = "write" THEN "reread" ELSE "library")
      /\ (note' = note \/ (obj[Provider!Key] = {} /\ note' = {}))
      /\ UNCHANGED <<obj, budget, account, job, asked, settled>>
  BY DEF Provider!Refused
<1>3. /\ pass' \in Checks /\ pass'.held = pass.held /\ pass'.verdict = pass.verdict
      /\ pass'.at \in {"reread", "library"}
  BY <1>1, <1>2, GoesIs DEF CheckKept
<1>4. pass.held # {} /\ pass.verdict \in Answers /\ account' \in Answers /\ job' \in BOOLEAN /\ settled' \in BOOLEAN
  BY <1>1, <1>2 DEF CheckKept, ProviderTyped
<1>5. CASE note' = note
  BY <1>1, <1>2, <1>3, <1>4, <1>5, PassKeeps
<1>6. CASE obj[Provider!Key] = {} /\ note' = {}
  <2>1. note' \in AtMostOne(Notes)
    BY <1>6 DEF AtMostOne
  <2>2. ProviderTyped'
    BY <1>1, <1>2, <1>3, <1>4, <2>1 DEF CheckKept, ProviderTyped
  <2>3. AskedIsNoted'
    BY <1>2, <1>6 DEF AskedIsNoted
  <2>4. budget'.creates > 0 => FirstAtWork'
    BY <1>1, <1>2, <1>3, <1>6 DEF CheckKept, FirstAtWork
  <2> QED
    BY <2>2, <2>3, <2>4 DEF CheckKept
<1> QED
  BY <1>2, <1>5, <1>6

\* After a refusal: the provider is gone, or its verdict is applied to what stands.
LEMMA RereadIs ==
  ASSUME Provider!ProvidersAssumption, ProviderInvariant, Provider!Reread
  PROVE  /\ pass.at = "reread" /\ pass.verdict \in Answers
         /\ UNCHANGED <<obj, budget, account, job, asked, settled>>
         /\ \/ obj[Provider!Key] = {} /\ Provider!Goes("library") /\ note' = {}
            \/ \E o \in ThingsOf({1, 2}) :
                  /\ obj[Provider!Key] = {o} /\ Provider!Settles(o, pass.verdict, "rewrite")
                  /\ note' = IF Provider!Applied(o, pass.verdict) = o THEN Provider!WrittenNote(o) ELSE note
<1>1. /\ pass.at = "reread" /\ pass.verdict \in Answers /\ UNCHANGED <<obj, budget, account, job, asked, settled>>
      /\ obj[Provider!Key] \in AtMostOne(ThingsOf({1, 2}))
  BY HoldingThings DEF Provider!Reread, CheckKept, ProviderTyped
<1>2. CASE obj[Provider!Key] = {}
  BY <1>1, <1>2 DEF Provider!Reread
<1>3. CASE obj[Provider!Key] # {}
  <2> DEFINE o == Provider!The(obj[Provider!Key])
  <2>1. o \in ThingsOf({1, 2}) /\ obj[Provider!Key] = {o}
    BY <1>1, <1>3, TheProvider
  <2>2. /\ Provider!Settles(o, pass.verdict, "rewrite")
        /\ note' = IF Provider!Applied(o, pass.verdict) = o THEN Provider!WrittenNote(o) ELSE note
    BY <1>3 DEF Provider!Reread
  <2> HIDE DEF o
  <2> QED
    BY <1>1, <2>1, <2>2
<1> QED
  BY <1>2, <1>3

LEMMA RereadKeeps ==
  ASSUME Provider!ProvidersAssumption, ProviderInvariant, Provider!Reread
  PROVE  CheckKept'
<1>1. CheckKept /\ (budget.creates > 0 => \A e \in obj[Provider!Key] : e.uid = 1)
  BY HoldingThings
<1>2. pass.verdict \in Answers /\ UNCHANGED <<obj, budget, account, job, asked, settled>>
  BY RereadIs
<1>3. account' \in Answers /\ job' \in BOOLEAN /\ settled' \in BOOLEAN
  BY <1>1, <1>2 DEF CheckKept, ProviderTyped
<1>4. CASE obj[Provider!Key] = {} /\ Provider!Goes("library") /\ note' = {}
  <2>1. pass' \in Checks /\ pass'.at = "library" /\ pass'.held = pass.held
    BY <1>1, <1>4, GoesIs DEF CheckKept
  <2>2. note' \in AtMostOne(Notes)
    BY <1>4 DEF AtMostOne
  <2>3. ProviderTyped'
    BY <1>1, <1>2, <1>3, <2>1, <2>2 DEF CheckKept, ProviderTyped
  <2>4. AskedIsNoted'
    BY <1>2, <1>4 DEF AskedIsNoted
  <2>5. budget'.creates > 0 => FirstAtWork'
    BY <1>1, <1>2, <1>4, <2>1 DEF CheckKept, FirstAtWork
  <2> QED
    BY <2>3, <2>4, <2>5 DEF CheckKept
<1>5. ASSUME NEW o \in ThingsOf({1, 2}), obj[Provider!Key] = {o}, Provider!Settles(o, pass.verdict, "rewrite"),
             note' = IF Provider!Applied(o, pass.verdict) = o THEN Provider!WrittenNote(o) ELSE note
      PROVE  CheckKept'
  <2>1. /\ pass' \in Checks /\ pass'.held = {Provider!Applied(o, pass.verdict)} /\ pass'.verdict = pass.verdict
        /\ Provider!Applied(o, pass.verdict).uid = o.uid
    BY <1>1, <1>2, <1>5, SettlesIs DEF CheckKept
  <2>2. \A c \in pass'.held : \E e \in pass.held \cup obj[Provider!Key] : e.uid = c.uid
    BY <1>5, <2>1
  <2>3. pass'.held # {}
    BY <2>1
  <2>4. note' = note \/ note' = Provider!WrittenNote(o)
    BY <1>5
  <2> QED
    BY <1>1, <1>2, <1>3, <2>1, <2>2, <2>3, <2>4, PassKeeps
<1> QED
  BY <1>4, <1>5, RereadIs

LEMMA StandJobKeeps ==
  ASSUME Provider!ProvidersAssumption, ProviderInvariant, Provider!StandJob
  PROVE  CheckKept'
<1>1. CheckKept /\ (budget.creates > 0 => \A e \in obj[Provider!Key] : e.uid = 1)
  BY HoldingThings
<1>2. /\ job' = (job \/ Provider!EverySourceChecked) /\ pass' = Provider!Idle
      /\ settled' = (settled \/ pass.quiet)
      /\ UNCHANGED <<obj, budget, account, note, asked>>
  BY DEF Provider!StandJob, Provider!watched
<1>3. pass' \in Checks /\ pass'.at = "idle" /\ pass'.held = {}
  BY <1>1, <1>2, PassIsTyped DEF CheckKept
<1>4. job' \in BOOLEAN /\ settled' \in BOOLEAN /\ account' \in Answers
  BY <1>1, <1>2 DEF CheckKept, ProviderTyped, Provider!EverySourceChecked
<1> QED
  BY <1>1, <1>2, <1>3, <1>4, PassKeeps

LEMMA RestartKeeps ==
  ASSUME Provider!ProvidersAssumption, ProviderInvariant, Provider!Restart
  PROVE  CheckKept'
<1>1. CheckKept
  BY HoldingThings
<1>2. /\ Provider!Spend("restarts") /\ "restarts" \in Troubles /\ note' = {} /\ asked' = {}
      /\ pass' = Provider!Idle /\ settled' = FALSE /\ UNCHANGED <<account, job>>
  BY DEF Provider!Restart, Troubles
<1>3. pass' \in Checks /\ pass'.at = "idle" /\ pass'.held = {}
  BY <1>1, <1>2, PassIsTyped DEF CheckKept
<1>4. {} \in AtMostOne(Notes)
  BY DEF AtMostOne
<1>5. Spent /\ budget'.creates <= 1
  BY <1>1, <1>2, SpentOrNot DEF CheckKept
<1>6. ProviderTyped'
  BY <1>1, <1>2, <1>3, <1>4, <1>5 DEF CheckKept, ProviderTyped, Spent
<1>7. AskedIsNoted' /\ FirstAtWork'
  <2>1. \A x \in note' \cup asked' : x.uid = 1
    BY <1>2
  <2> QED
    BY <1>2, <1>3, <2>1 DEF AskedIsNoted, FirstAtWork
<1> QED
  BY <1>6, <1>7 DEF CheckKept

LEMMA ProviderStep ==
  ASSUME Provider!ProvidersAssumption, ProviderInvariant, [Provider!Next]_(Provider!vars)
  PROVE  ProviderInvariant'
<1>1. CheckKept'
  <2>1. CASE UNCHANGED Provider!vars
    <3>1. CheckKept /\ UNCHANGED <<obj, budget, account, note, pass, job, asked, settled>>
      BY <2>1, HoldingThings DEF Provider!vars, Provider!watched
    <3> QED
      BY <3>1 DEF CheckKept, ProviderTyped, FirstAtWork, AskedIsNoted
  <2>2. CASE Provider!Next
    BY <2>2, BesideKeeps, MeddleKeeps, AgeKeeps, ReadKeeps, CallKeeps, NotDueKeeps, FailKeeps, WriteKeeps,
       RefusedKeeps, RereadKeeps, StandJobKeeps, RestartKeeps DEF Provider!Next, Provider!PassSteps
  <2> QED
    BY <2>1, <2>2
<1>2. WatchInvariant(ThingsOf({1, 2}))'
  BY WatchStep DEF ProviderInvariant
<1>3. budget'.creates > 0 => WatchInvariant(ThingsOf({1}))'
  <2> SUFFICES ASSUME budget'.creates > 0 PROVE WatchInvariant(ThingsOf({1}))'
    OBVIOUS
  <2>1. ~Provider!PersonCreates
    <3>1. ASSUME Provider!PersonCreates PROVE FALSE
      <4>1. Provider!Spend("creates") /\ "creates" \in Troubles
        BY <3>1 DEF Provider!PersonCreates, Troubles
      <4>2. budget'.creates = budget.creates - 1 /\ budget.creates \in Nat /\ budget.creates <= 1
        BY <4>1, TroubleIsSpent DEF ProviderInvariant, ProviderTyped, Troubles
      <4> QED
        BY <4>2
    <3> QED
      BY <3>1
  <2>2. budget.creates > 0
    <3>1. CASE UNCHANGED Provider!vars
      BY <3>1 DEF Provider!vars, Provider!watched
    <3>2. CASE Provider!PersonEdits \/ Provider!PersonDeletes
      <4>1. budget' \in [Troubles -> Nat] /\ budget'.creates <= budget.creates
        BY <3>2, MeddleIs
      <4> QED
        BY <4>1 DEF ProviderInvariant, ProviderTyped, Troubles
    <3>3. CASE Provider!Next /\ ~Provider!PersonEdits /\ ~Provider!PersonDeletes
      <4>1. budget' = budget \/ \E kind \in Troubles : Provider!Spend(kind)
        BY <2>1, <3>3 DEF Provider!Next, Provider!PassSteps, Troubles, Provider!watched,
           Provider!AccountChanges, Provider!TimePasses, Provider!JobEnds, Provider!DeliverProvider,
           Provider!Deliver, Provider!ReadProviders, Provider!ReadFails, Provider!NotDue, Provider!Call,
           Provider!SecretFails, Provider!Write, Provider!RequestFails, Provider!Refused, Provider!Reread,
           Provider!StandJob, Provider!Restart
      <4> QED
        BY <4>1, SpentOrNot DEF ProviderInvariant
    <3> QED
      BY <3>1, <3>2, <3>3
  <2> QED
    BY <2>1, <2>2, WatchStep DEF ProviderInvariant, OnlyTheFirst
<1> QED
  BY <1>1, <1>2, <1>3 DEF ProviderInvariant, CheckKept, OnlyTheFirst, FirstAtWork

LEMMA InitProvider ==
  ASSUME Provider!ProvidersAssumption, CreatedOnce, Provider!Init
  PROVE  ProviderInvariant
<1> DEFINE first == [Provider!Created(1) EXCEPT !.ver = 1]
           stands == [k \in Keys |-> {first}]
<1>1. /\ StartsAs(stands) /\ account \in Answers /\ note = {} /\ asked = {} /\ job = FALSE
      /\ settled = FALSE /\ pass = Provider!Idle
  BY ProviderIsWatched DEF Provider!Init
<1>2. first \in ThingsOf({1}) /\ first \in ThingsOf({1, 2}) /\ first.ver = 1
  BY DEF Provider!Created, Provider!Unchecked, ThingsOf
<1> HIDE DEF first
<1>3. ASSUME NEW uids, first \in ThingsOf(uids) PROVE WatchInvariant(ThingsOf(uids))
  <2>1. stands \in [Keys -> AtMostOne(ThingsOf(uids))]
    BY <1>3 DEF AtMostOne
  <2>2. \A k \in Keys : Numbered(stands[k], 1)
    BY <1>2 DEF Numbered
  <2> HIDE DEF stands
  <2> QED
    BY <1>1, <2>1, <2>2, EmptyIsInOrder
<1>4. budget \in [Troubles -> Nat] /\ budget.creates <= 1
  BY DEF Provider!Init, Provider!Empty, Provider!ProvidersAssumption, Troubles, CreatedOnce
<1>5. {} \in AtMostOne(Notes)
  BY DEF AtMostOne
<1>6. Provider!Idle \in Checks /\ Provider!Idle.at = "idle" /\ Provider!Idle.held = {}
  BY DEF Provider!Idle, Checks, AtMostOne
<1>7. ProviderTyped
  BY <1>1, <1>4, <1>5, <1>6 DEF ProviderTyped
<1>8. AskedIsNoted /\ FirstAtWork
  BY <1>1, <1>6 DEF AskedIsNoted, FirstAtWork
<1> QED
  BY <1>2, <1>3, <1>7, <1>8 DEF ProviderInvariant, OnlyTheFirst

\* The note of a call is what was asked last, whatever was written, deleted or refused since.
THEOREM ProviderInductive ==
  OperatorAssumption /\ CreatedOnce => (Spec => [](OfAProvider => ProviderInvariant))
<1> SUFFICES ASSUME OperatorAssumption, CreatedOnce PROVE Spec => [](OfAProvider => ProviderInvariant)
  OBVIOUS
<1> USE DEF OperatorAssumption
<1>1. Init => (OfAProvider => ProviderInvariant)
  BY ProviderOnly, InitProvider
<1>2. (OfAProvider => ProviderInvariant) /\ [Next]_vars => (OfAProvider => ProviderInvariant)'
  BY ProviderOnly, ProviderStep
<1> QED
  BY <1>1, <1>2, PTL DEF Spec

LEMMA CallIsDue ==
  ASSUME ProviderInvariant, Provider!Next PROVE Provider!CallsAreSpaced
<1> SUFFICES ASSUME pass.at = "check", pass'.at # "check", asked' # asked, asked' # {},
                    \E o \in obj[Provider!Key] : o.uid = Provider!Held.uid,
                    NEW x \in asked, x.uid = Provider!Held.uid, x.gen = Provider!Held.gen
             PROVE  x.age >= Provider!Interval(x.verdict)
  BY DEF Provider!CallsAreSpaced
<1>1. Provider!Call
  <2>1. pass' = pass => FALSE
    OBVIOUS
  <2> QED
    BY <2>1 DEF Provider!Next, Provider!PassSteps, Provider!AccountChanges, Provider!PersonEdits,
       Provider!PersonDeletes, Provider!PersonCreates, Provider!Meddle, Provider!TimePasses,
       Provider!JobEnds, Provider!DeliverProvider, Provider!ReadProviders, Provider!ReadFails,
       Provider!NotDue, Provider!SecretFails, Provider!Write, Provider!RequestFails, Provider!Refused,
       Provider!Reread, Provider!StandJob, Provider!Restart, Provider!provider
<1>2. Provider!Due(Provider!Held)
  BY <1>1 DEF Provider!Call
<1>3. PICK y \in note : SameCall(x, y)
  BY DEF ProviderInvariant, AskedIsNoted
<1>4. y \in Provider!CallNote(Provider!Held)
  BY <1>3 DEF SameCall, Provider!CallNote
<1> QED
  BY <1>2, <1>3, <1>4 DEF Provider!Due, SameCall

\* providercadence.go: a process asks a provider that stands again only after the interval
\* that its last verdict earned, however the writes of the status fare.
THEOREM SpacedTheorem == OperatorAssumption /\ CreatedOnce => (Spec => CallsAreSpaced)
<1> SUFFICES ASSUME OperatorAssumption, CreatedOnce PROVE Spec => CallsAreSpaced
  OBVIOUS
<1>1. Spec => [](OfAProvider => ProviderInvariant)
  BY ProviderInductive
<1>2. (OfAProvider => ProviderInvariant) /\ [Next]_vars
      => [/\ focus = "provider" => Provider!CallsAreSpaced
          /\ focus = "unread" => Provider!CallsAreSpaced]_vars
  <2> SUFFICES ASSUME OfAProvider, ProviderInvariant, Next PROVE Provider!CallsAreSpaced
    BY DEF OfAProvider
  <2>1. Provider!Next
    BY DEF OfAProvider, Next, OfLeader, OfBus, OfObject, OfProvider, About
  <2> QED
    BY <2>1, CallIsDue
<1> QED
  BY <1>1, <1>2, PTL DEF Spec, CallsAreSpaced

\* Types, and the copy that catches up with the provider once every change is delivered:
\* Providers!TypeOK.
THEOREM ProviderTypes ==
  OperatorAssumption /\ CreatedOnce => (Spec => [](OfAProvider => Provider!TypeOK))
<1> SUFFICES ASSUME OperatorAssumption, CreatedOnce
             PROVE  Spec => [](OfAProvider => Provider!TypeOK)
  OBVIOUS
<1> USE DEF OperatorAssumption
<1>1. ASSUME ProviderInvariant PROVE Provider!TypeOK
  <2>1. Keys = {Provider!Key} /\ WatchTyped(ThingsOf({1, 2})) /\ ProviderTyped
    BY <1>1 DEF Provider!ProvidersAssumption, ProviderInvariant, WatchInvariant
  <2>2. ASSUME NEW S, NEW one \in AtMostOne(S) PROVE Provider!Cardinality(one) <= 1 /\ one \subseteq S
    <3>1. Provider!Cardinality(one) = Cardinality(one)
      BY DEF Provider!Cardinality, Cardinality
    <3> QED
      BY <3>1, AtMostOneCounts
  <2>3. DOMAIN obj = Keys /\ DOMAIN copy = Keys /\ wake \in BOOLEAN
    BY <2>1 DEF WatchTyped
  <2>4. /\ InOrder(Provider!Key) /\ obj[Provider!Key] \in AtMostOne(ThingsOf({1, 2}))
        /\ memo[Provider!Key] \in AtMostOne(Nat)
    <3>1. Provider!Key \in Keys /\ memo \in [Keys -> AtMostOne(Nat)]
      BY <1>1, ProviderFacts DEF ProviderInvariant
    <3> QED
      BY <1>1, <3>1, ProviderFacts DEF ProviderInvariant
  <2>5. Provider!Cardinality(obj[Provider!Key]) <= 1 /\ Provider!Cardinality(memo[Provider!Key]) <= 1
    BY <2>2, <2>4
  <2>6. /\ \A o \in obj[Provider!Key] : o.ver <= clock
        /\ copy[Provider!Key].at <= clock /\ last[Provider!Key] <= clock
        /\ memo[Provider!Key] \subseteq 0..clock /\ LastStands(Provider!Key)
    BY <2>4 DEF InOrder, Numbered
  <2>7. Provider!WatchedTypeOK /\ Provider!CopyCatchesUp
    BY <2>1, <2>3, <2>5, <2>6 DEF Provider!WatchedTypeOK, Provider!CopyCatchesUp, LastStands
  <2>8. Provider!Cardinality(note) <= 1 /\ note \subseteq Notes
    BY <2>1, <2>2 DEF ProviderTyped
  <2>9. /\ pass.held \in AtMostOne(ThingsOf({1, 2}))
        /\ pass.at \in {"idle", "check", "write", "reread", "rewrite", "library"}
    BY <2>1 DEF ProviderTyped, Checks
  <2>10. Provider!Cardinality(pass.held) <= 1
    BY <2>2, <2>9
  <2> QED
    BY <2>1, <2>7, <2>8, <2>9, <2>10 DEF Provider!TypeOK, ProviderTyped, Notes
<1> QED
  BY <1>1, ProviderInductive, PTL

-----------------------------------------------------------------------------
(* One pass settles the status.                                            *)

LEMMA TrueThings ==
  ASSUME Provider!ProvidersAssumption, ProviderInvariant
  PROVE  /\ ProviderTyped /\ clock \in Nat
         /\ \A o \in obj[Provider!Key] : o \in ThingsOf({1, 2}) /\ o.gen \in Nat /\ o.ver \in 1..clock
         /\ \A h \in pass.held : h \in ThingsOf({1, 2}) /\ h.gen \in Nat /\ h.ver \in Nat
         /\ \A x \in note : x \in Notes /\ x.gen \in Nat
         /\ \A x, y \in obj[Provider!Key] : x = y
         /\ \A x, y \in pass.held : x = y
<1>1. ProviderTyped /\ clock \in Nat /\ obj[Provider!Key] \in AtMostOne(ThingsOf({1, 2}))
  BY ProviderFacts DEF ProviderInvariant
<1>2. pass.held \in AtMostOne(ThingsOf({1, 2})) /\ note \in AtMostOne(Notes)
  BY <1>1 DEF ProviderTyped, Checks
<1>3. \A o \in obj[Provider!Key] : o.ver \in 1..clock
  <2>1. \A o \in obj[Provider!Key] : Sighted(o)
    BY DEF Sighted
  <2> QED
    BY <2>1, SightedIsNumbered DEF ProviderInvariant
<1>4. \A o \in ThingsOf({1, 2}) : o.gen \in Nat /\ o.ver \in Nat
  BY DEF ThingsOf
<1>5. \A x \in Notes : x.gen \in Nat
  BY DEF Notes
<1> QED
  BY <1>1, <1>2, <1>3, <1>4, <1>5 DEF AtMostOne

LEMMA BesideSettles ==
  ASSUME Provider!ProvidersAssumption, ProviderInvariant, SettleInvariant,
         Provider!AccountChanges \/ Provider!JobEnds \/ Provider!DeliverProvider \/ UNCHANGED Provider!vars
  PROVE  PassIsTrue'
<1>1. UNCHANGED <<obj, clock, note, pass, settled>>
  BY DEF Provider!AccountChanges, Provider!JobEnds, Provider!DeliverProvider, Provider!Deliver,
     Provider!watched, Provider!provider, Provider!vars
<1>2. ASSUME NEW o \in obj[Provider!Key], IsOf(copy[Provider!Key].obj, o)
      PROVE  IsOf(copy'[Provider!Key].obj, o)
  <2>1. CASE copy' = copy
    BY <1>2, <2>1
  <2>2. CASE Delivers
    <3> DEFINE q == queue[Provider!Key]
    <3>1. q \in Seq(ChangesOf(ThingsOf({1, 2}))) /\ Provider!Key \in Keys /\ DOMAIN copy = Keys
      BY ProviderFacts, WatchOf DEF ProviderInvariant, WatchInvariant, WatchTyped
    <3>2. q # <<>> /\ copy'[Provider!Key] = Head(q)
      BY <2>2, <3>1 DEF Delivers, Delivered
    <3>3. 1 \in 1..Len(q) /\ copy'[Provider!Key] = q[1]
      BY <3>1, <3>2
    <3>4. \A i \in 1..Len(q) : IsOf(q[i].obj, o)
      BY <1>2 DEF SettleInvariant, WatchIsNew, SpecsComeLast
    <3> QED
      BY <3>3, <3>4
  <2> QED
    BY <2>1, <2>2, ProviderIsWatched DEF Provider!AccountChanges, Provider!JobEnds,
       Provider!DeliverProvider, Delivers, Provider!watched, Provider!vars
<1>3. HeldIsPassed' /\ NoteIsTrue'
  BY <1>1 DEF SettleInvariant, PassIsTrue, HeldIsPassed, NoteIsTrue, Matches
<1>4. ASSUME NEW o \in obj[Provider!Key]
      PROVE  settled \/ pass.quiet => IsOf(copy'[Provider!Key].obj, o)
  BY <1>2 DEF SettleInvariant, PassIsTrue, Quietly
<1>5. Quietly'
  BY <1>1, <1>4 DEF SettleInvariant, PassIsTrue, Quietly, Matches, IsOf
<1> QED
  BY <1>3, <1>5 DEF PassIsTrue

\* What a person changes is new to the pass and to its note.
LEMMA MeddleSettles ==
  ASSUME Provider!ProvidersAssumption, ProviderInvariant, SettleInvariant,
         Provider!PersonEdits \/ Provider!PersonDeletes \/ Provider!PersonCreates
  PROVE  PassIsTrue' /\ WatchIsNew'
<1>1. /\ pass' = Provider!Disturbed /\ settled' = FALSE /\ UNCHANGED <<account, note, job, asked>>
      /\ \/ Another(Edits)
         \/ Another({})
         \/ Another({Provider!Created(2)}) /\ budget.creates > 0
  BY MeddleIs
<1>2. /\ pass'.at = pass.at /\ pass'.held = pass.held /\ pass'.verdict = pass.verdict /\ pass'.quiet = FALSE
  BY <1>1, PassIsTyped DEF ProviderInvariant
<1>3. PICK objs \in AtMostOne(ThingsOf({1, 2})) : Another(objs)
  <2>1. {} \in AtMostOne(ThingsOf({1, 2}))
    BY DEF AtMostOne
  <2> QED
    BY <1>1, <2>1, CreatedIs, EditsAre DEF ProviderInvariant
<1>4. /\ clock' = clock + 1 /\ (\A o \in obj'[Provider!Key] : o.ver = clock + 1)
      /\ WatchInvariant(ThingsOf({1, 2}))'
  BY <1>3, AnotherKeeps DEF ProviderInvariant
<1>5. ASSUME NEW o \in obj'[Provider!Key],
             NEW x, Sighted(x) \/ x \in pass.held \/ x \in note
      PROVE  Passed(x, o) /\ ~SameSpec(x, o)
  <2>1. CASE Another(Edits)
    <3>1. PICK c \in obj[Provider!Key] : o.uid = c.uid /\ o.gen = c.gen + 1
      BY <2>1, ObjAfter
    <3>2. c.gen \in Nat /\ (x.gen \in Nat)
      <4>1. ASSUME Sighted(x) PROVE x.gen \in Nat
        <5>1. x \in ThingsOf({1, 2})
          BY <4>1, SightedIsNumbered DEF ProviderInvariant
        <5> QED
          BY <5>1 DEF ThingsOf
      <4> QED
        BY <1>5, <4>1, TrueThings
    <3>3. Passed(x, c)
      BY <1>5 DEF SettleInvariant, PassIsTrue, WatchIsNew, SightedIsPassed, HeldIsPassed, NoteIsTrue
    <3> QED
      BY <3>1, <3>2, <3>3 DEF Passed, SameSpec
  <2>2. CASE Another({})
    BY <2>2, ObjAfter
  <2>3. CASE Another({Provider!Created(2)}) /\ budget.creates > 0
    <3>1. o.uid = 2
      BY <2>3, ObjAfter
    <3>2. x.uid = 1
      BY <1>5, <2>3, HoldingThings DEF CheckKept, FirstAtWork
    <3> QED
      BY <3>1, <3>2 DEF Passed, SameSpec
  <2> QED
    BY <1>1, <2>1, <2>2, <2>3
<1>6. WatchIsNew'
  <2>1. Lands(objs) /\ last' = last /\ memo' = memo
    BY <1>3 DEF Another
  <2>2. obj'[Provider!Key] \in AtMostOne(ThingsOf({1, 2}))
    <3>1. Provider!Key \in Keys
      BY DEF Provider!ProvidersAssumption
    <3> QED
      BY <1>4, <3>1 DEF WatchInvariant, WatchTyped
  <2>3. \A o \in obj'[Provider!Key] : \A x : Sighted(x) => Passed(x, o) /\ ~SameSpec(x, o)
    BY <1>5
  <2> QED
    BY <1>4, <2>1, <2>2, <2>3, NewestLands DEF ProviderInvariant, SettleInvariant
<1>7. HeldIsPassed'
  <2>1. \A h \in pass.held : h.ver \in Nat /\ h.ver <= clock
    BY TrueThings DEF SettleInvariant, PassIsTrue, HeldIsPassed
  <2>2. clock \in Nat
    BY TrueThings
  <2>3. \A h \in pass.held : h.ver <= clock'
    BY <1>4, <2>1, <2>2
  <2>4. \A o \in obj'[Provider!Key], h \in pass.held :
           Passed(h, o) /\ h.ver # o.ver /\ ~SameSpec(h, o)
    BY <1>4, <1>5, <2>1, <2>2
  <2> QED
    BY <1>2, <2>3, <2>4 DEF HeldIsPassed, Passed, SameSpec
<1>8. NoteIsTrue'
  <2>1. \A x \in note, o \in obj'[Provider!Key] : Passed(x, o) /\ ~SameSpec(x, o)
    BY <1>5
  <2> QED
    BY <1>1, <1>2, <2>1 DEF SettleInvariant, PassIsTrue, NoteIsTrue, Passed, SameSpec
<1>9. Quietly'
  BY <1>1, <1>2 DEF Quietly
<1> QED
  BY <1>6, <1>7, <1>8, <1>9 DEF PassIsTrue

LEMMA AgeSettles ==
  ASSUME Provider!ProvidersAssumption, ProviderInvariant, SettleInvariant, Provider!TimePasses
  PROVE  PassIsTrue'
<1>1. /\ note' = Provider!Older(note) /\ settled' = FALSE /\ UNCHANGED <<obj, copy, clock, pass>>
  BY DEF Provider!TimePasses, Provider!watched
<1>2. /\ note' = {OneOlder(y) : y \in note}
      /\ \A y \in note : /\ OneOlder(y).uid = y.uid /\ OneOlder(y).gen = y.gen
                         /\ OneOlder(y).verdict = y.verdict /\ OneOlder(y).written = y.written
  <2>1. note \in AtMostOne(Notes)
    BY DEF ProviderInvariant, ProviderTyped
  <2> QED
    BY <1>1, <2>1, OlderIs
<1>3. \A o : Matches(o) => Matches(o)'
  BY <1>2 DEF Matches, SameSpec
<1>4. HeldIsPassed'
  BY <1>1 DEF SettleInvariant, PassIsTrue, HeldIsPassed
<1>5. NoteIsTrue'
  <2>1. \A x \in note' : \E y \in note : /\ x.uid = y.uid /\ x.gen = y.gen /\ x.verdict = y.verdict
                                         /\ x.written = y.written
    BY <1>2
  <2> QED
    BY <1>1, <1>3, <2>1 DEF SettleInvariant, PassIsTrue, NoteIsTrue, Passed, SameSpec
<1>6. Quietly'
  <2>1. \A o : (\E x \in note : SameSpec(x, o)) => \E x \in note' : SameSpec(x, o)
    BY <1>2 DEF SameSpec
  <2> QED
    BY <1>1, <1>3, <2>1 DEF SettleInvariant, PassIsTrue, Quietly, IsOf, SameSpec
<1> QED
  BY <1>4, <1>5, <1>6 DEF PassIsTrue

\* A pass that reads: what it reads and nothing disturbed is what stands.
LEMMA ReadSettles ==
  ASSUME Provider!ProvidersAssumption, ProviderInvariant, SettleInvariant, Provider!ReadProviders
  PROVE  PassIsTrue'
<1> DEFINE current == copy[Provider!Key].obj = {} \/ Provider!Current(Provider!Key)
<1>1. /\ pass'.at = IF pass'.held = {} THEN "library" ELSE "check"
      /\ pass'.quiet = Provider!Undisturbed /\ settled' = settled
      /\ pass'.held = IF current THEN copy[Provider!Key].obj ELSE obj[Provider!Key]
      /\ UNCHANGED <<note, obj>>
  BY ReadIs
<1>2. pass.at = "idle" /\ UNCHANGED <<copy, clock>>
  BY DEF Provider!ReadProviders, Provider!Reads
<1>3. /\ \A x \in copy[Provider!Key].obj : Sighted(x)
      /\ \A x \in obj[Provider!Key] : Sighted(x)
      /\ copy[Provider!Key].obj \in AtMostOne(ThingsOf({1, 2}))
      /\ obj[Provider!Key] \in AtMostOne(ThingsOf({1, 2}))
  BY HoldingThings DEF Sighted
<1>4. \A h \in pass'.held : Sighted(h)
  BY <1>1, <1>3
<1>5. ASSUME NEW h \in copy[Provider!Key].obj, Provider!Current(Provider!Key),
             NEW o \in obj[Provider!Key], SameSpec(h, o)
      PROVE  h = o
  <2>1. memo[Provider!Key] = {} \/ memo[Provider!Key] = {h.ver}
    <3>1. PICK c \in copy[Provider!Key].obj : memo[Provider!Key] = {} \/ memo[Provider!Key] = {c.ver}
      BY <1>5 DEF Provider!Current
    <3>2. c = h
      BY <1>3 DEF AtMostOne
    <3> QED
      BY <3>1, <3>2
  <2>2. h.ver \in 1..clock /\ clock \in Nat
    BY <1>3, SightedIsNumbered, ProviderFacts DEF ProviderInvariant
  <2>3. last[Provider!Key] <= h.ver
    BY <1>3, <2>1, <2>2 DEF SettleInvariant, WatchIsNew, MemoIsLast
  <2> QED
    BY <1>3, <1>5, <2>3 DEF SettleInvariant, WatchIsNew, SightedIsPassed
<1>6. ASSUME NEW o \in obj[Provider!Key], NEW h \in pass'.held, SameSpec(h, o) PROVE h = o
  <2>1. CASE copy[Provider!Key].obj = {}
    BY <1>1, <1>6, <2>1
  <2>2. CASE Provider!Current(Provider!Key)
    BY <1>1, <1>5, <1>6, <2>2
  <2>3. CASE ~current
    BY <1>1, <1>3, <1>6, <2>3 DEF AtMostOne
  <2> QED
    BY <2>1, <2>2, <2>3
<1>7. HeldIsPassed'
  <2>1. \A h \in pass'.held : h.ver <= clock
    <3>1. \A h \in pass'.held : h.ver \in 1..clock
      BY <1>4, SightedIsNumbered DEF ProviderInvariant
    <3>2. clock \in Nat
      BY TrueThings
    <3> QED
      BY <3>1, <3>2
  <2>2. \A o \in obj[Provider!Key], h \in pass'.held : Passed(h, o) /\ (h.ver = o.ver => h = o)
    BY <1>4 DEF SettleInvariant, WatchIsNew, SightedIsPassed
  <2> QED
    BY <1>1, <1>2, <1>6, <2>1, <2>2 DEF HeldIsPassed, Passed, SameSpec
<1>8. NoteIsTrue'
  <2>1. pass'.at \in {"library", "check"}
    BY <1>1
  <2> QED
    BY <1>1, <2>1 DEF SettleInvariant, PassIsTrue, NoteIsTrue, Matches
<1>9. ASSUME NEW o \in obj[Provider!Key]
      PROVE  /\ Provider!Undisturbed <=> IsOf(copy[Provider!Key].obj, o)
             /\ IsOf(copy[Provider!Key].obj, o) => pass'.held = {o} /\ pass'.at = "check"
  <2>1. obj[Provider!Key] = {o}
    BY <1>3 DEF AtMostOne
  <2>2. Provider!Specs(obj[Provider!Key]) = {<<o.uid, o.gen>>}
    BY <2>1 DEF Provider!Specs
  <2>3. CASE copy[Provider!Key].obj = {}
    <3>1. Provider!Specs(copy[Provider!Key].obj) = {}
      BY <2>3 DEF Provider!Specs
    <3> QED
      BY <2>2, <2>3, <3>1 DEF Provider!Undisturbed, IsOf
  <2>4. ASSUME NEW c, copy[Provider!Key].obj = {c}
        PROVE  /\ Provider!Undisturbed <=> SameSpec(c, o)
               /\ IsOf(copy[Provider!Key].obj, o) <=> SameSpec(c, o)
               /\ SameSpec(c, o) => pass'.held = {o} /\ pass'.at = "check"
    <3>1. Provider!Specs(copy[Provider!Key].obj) = {<<c.uid, c.gen>>}
      BY <2>4 DEF Provider!Specs
    <3>2. Provider!Undisturbed <=> SameSpec(c, o)
      <4>1. <<c.uid, c.gen>> = <<o.uid, o.gen>> <=> SameSpec(c, o)
        BY DEF SameSpec
      <4>2. \A x, y : {x} = {y} <=> x = y
        OBVIOUS
      <4>3. {<<c.uid, c.gen>>} = {<<o.uid, o.gen>>} <=> <<c.uid, c.gen>> = <<o.uid, o.gen>>
        BY <4>2
      <4> QED
        BY <2>2, <3>1, <4>1, <4>3 DEF Provider!Undisturbed
    <3>3. IsOf(copy[Provider!Key].obj, o) <=> SameSpec(c, o)
      BY <2>4 DEF IsOf
    <3>4. ASSUME SameSpec(c, o) PROVE pass'.held = {o} /\ pass'.at = "check"
      <4>1. pass'.held = {o}
        BY <1>1, <1>6, <2>1, <2>4, <3>4
      <4> QED
        BY <1>1, <4>1
    <3> QED
      BY <3>2, <3>3, <3>4
  <2> QED
    BY <1>3, <2>3, <2>4 DEF AtMostOne
<1>10. Quietly'
  <2> SUFFICES ASSUME NEW o \in obj[Provider!Key]
               PROVE  /\ settled \/ pass'.quiet => IsOf(copy[Provider!Key].obj, o)
                      /\ settled => pass'.quiet
                      /\ pass'.at # "idle"
                      /\ pass'.quiet => pass'.held = {o} /\ pass'.at = "check"
    BY <1>1, <1>2 DEF Quietly, IsOf, SameSpec
  <2>1. settled => IsOf(copy[Provider!Key].obj, o)
    BY DEF SettleInvariant, PassIsTrue, Quietly
  <2> QED
    BY <1>1, <1>9, <2>1
<1> QED
  BY <1>7, <1>8, <1>10 DEF PassIsTrue

\* The verdict of the note, or of a new call, is applied to the provider that was checked.
LEMMA AppliedSettles ==
  ASSUME Provider!ProvidersAssumption, ProviderInvariant, SettleInvariant,
         pass.at = "check", NEW h, pass.held = {h}, NEW verdict \in Answers,
         Provider!Settles(h, verdict, "write"), UNCHANGED <<obj, copy, clock, settled>>,
         note' # {}, \A x \in note' : SameSpec(x, h) /\ x.verdict = verdict,
         Provider!Applied(h, verdict) # h => note' = note \/ \A x \in note' : ~x.written
  PROVE  PassIsTrue'
<1> DEFINE a == Provider!Applied(h, verdict)
<1>1. /\ ProviderTyped /\ h \in ThingsOf({1, 2}) /\ h.gen \in Nat
      /\ \A o \in obj[Provider!Key] : o.gen \in Nat
  BY TrueThings
<1>2. /\ pass'.held = {a} /\ pass'.verdict = verdict /\ pass'.quiet = pass.quiet
      /\ pass'.at = IF a = h THEN "library" ELSE "write"
      /\ a.ver = h.ver /\ a.uid = h.uid /\ a.gen = h.gen /\ a.body = [reason |-> verdict, of |-> h.gen]
  BY <1>1, SettlesIs
<1> HIDE DEF a
<1>3. /\ h.ver <= clock
      /\ \A o \in obj[Provider!Key] : /\ Passed(h, o) /\ (h.ver = o.ver => SameSpec(h, o))
                                      /\ SameSpec(h, o) => h = o
  BY DEF SettleInvariant, PassIsTrue, HeldIsPassed
<1>4. HeldIsPassed'
  BY <1>2, <1>3 DEF HeldIsPassed, Passed, SameSpec
<1>5. ASSUME NEW o \in obj[Provider!Key], a = h, SameSpec(h, o) PROVE Matches(o)'
  <2>1. PICK x \in note' : SameSpec(x, h) /\ x.verdict = verdict
    OBVIOUS
  <2>2. SameSpec(x, o) /\ o.body = [reason |-> x.verdict, of |-> o.gen]
    BY <1>2, <1>3, <1>5, <2>1
  <2> QED
    BY <2>1, <2>2 DEF Matches, SameSpec
<1>6. NoteIsTrue'
  <2>1. ASSUME NEW x \in note', NEW o \in obj[Provider!Key]
        PROVE  Passed(x, o) /\ (x.written /\ SameSpec(x, o) => Matches(o)')
    <3>1. SameSpec(x, h) /\ Passed(x, o)
      BY <1>3 DEF SameSpec, Passed
    <3>2. ASSUME x.written, SameSpec(x, o) PROVE Matches(o)'
      <4>1. SameSpec(h, o)
        BY <3>1, <3>2 DEF SameSpec
      <4>2. CASE a = h
        BY <1>5, <4>1, <4>2
      <4>3. CASE note' = note
        BY <3>2, <4>3 DEF SettleInvariant, PassIsTrue, NoteIsTrue, Matches
      <4> QED
        BY <3>2, <4>2, <4>3 DEF a
    <3> QED
      BY <3>1, <3>2
  <2>2. pass'.at \in {"library", "write"} /\ \A c \in pass'.held : c.body = [reason |-> verdict, of |-> c.gen]
    BY <1>2
  <2> QED
    BY <1>2, <2>1, <2>2 DEF NoteIsTrue, Passed, SameSpec
<1>7. Quietly'
  <2> SUFFICES ASSUME NEW o \in obj[Provider!Key]
               PROVE  /\ settled \/ pass.quiet => IsOf(copy[Provider!Key].obj, o)
                      /\ settled => pass.quiet
                      /\ pass'.at \in {"library", "write"}
                      /\ pass.quiet =>
                            /\ pass'.at = "library" => Matches(o)'
                            /\ pass'.at = "write" => /\ \A c \in pass'.held : c.ver = o.ver
                                                     /\ \E x \in note' : SameSpec(x, o)
    BY <1>2 DEF Quietly, IsOf, SameSpec
  <2>1. /\ settled \/ pass.quiet => IsOf(copy[Provider!Key].obj, o)
        /\ settled => pass.quiet
        /\ pass.quiet => pass.held = {o}
    BY DEF SettleInvariant, PassIsTrue, Quietly
  <2>2. pass.quiet => h = o /\ SameSpec(h, o)
    BY <2>1 DEF SameSpec
  <2>3. (pass'.at = "library" => a = h) /\ pass'.at \in {"library", "write"}
    BY <1>2
  <2> QED
    BY <1>2, <1>5, <2>1, <2>2, <2>3
<1> QED
  BY <1>4, <1>6, <1>7 DEF PassIsTrue

LEMMA CheckSettles ==
  ASSUME Provider!ProvidersAssumption, ProviderInvariant, SettleInvariant, Provider!NotDue \/ Provider!Call
  PROVE  PassIsTrue'
<1> DEFINE h == Provider!Held
<1>1. /\ pass.at = "check" /\ pass.held = {h} /\ h \in ThingsOf({1, 2})
      /\ UNCHANGED <<obj, settled>>
  BY CheckIs
<1>2. UNCHANGED <<copy, clock>>
  BY DEF Provider!NotDue, Provider!Call, Provider!watched
<1>3. CASE Provider!Call
  <2>1. account \in Answers /\ Provider!Settles(h, account, "write")
    BY <1>3, CheckIs
  <2>2. PICK y : /\ SameSpec(y, h) /\ y.verdict = account /\ note' = {y}
                 /\ y.written = (Provider!Applied(h, account) = h)
    BY <1>3, CheckIs
  <2> HIDE DEF h
  <2>3. /\ note' # {} /\ (\A x \in note' : SameSpec(x, h) /\ x.verdict = account)
        /\ Provider!Applied(h, account) # h => \A x \in note' : ~x.written
    BY <2>2
  <2> QED
    BY <1>1, <1>2, <2>1, <2>3, AppliedSettles
<1>4. ASSUME Provider!NotDue PROVE PassIsTrue'
  <2>1. PICK y \in note : /\ SameSpec(y, h) /\ note = {y} /\ y.verdict \in Answers
            /\ \/ y.written /\ Provider!Goes("library") /\ note' = note
               \/ /\ Provider!Settles(h, y.verdict, "write")
                  /\ note' = IF Provider!Applied(h, y.verdict) = h THEN Provider!WrittenNote(h) ELSE note
    BY <1>4, CheckIs
  <2> HIDE DEF h
  <2>2. CASE Provider!Settles(h, y.verdict, "write")
             /\ note' = IF Provider!Applied(h, y.verdict) = h THEN Provider!WrittenNote(h) ELSE note
    <3>1. note' = note \/ note' = Provider!WrittenNote(h)
      BY <2>2
    <3>2. /\ \A x \in note' : SameCall(x, y)
          /\ note' # {}
      <4>1. CASE note' = note
        BY <2>1, <4>1 DEF SameCall
      <4>2. CASE note' = Provider!WrittenNote(h)
        BY <2>1, <4>2, WrittenNoteIs DEF ProviderInvariant
      <4> QED
        BY <3>1, <4>1, <4>2
    <3>3. \A x \in note' : SameSpec(x, h) /\ x.verdict = y.verdict
      BY <2>1, <3>2 DEF SameCall, SameSpec
    <3>4. Provider!Applied(h, y.verdict) # h => note' = note
      BY <2>2
    <3> QED
      BY <1>1, <1>2, <2>1, <2>2, <3>2, <3>3, <3>4, AppliedSettles
  <2>3. CASE y.written /\ Provider!Goes("library") /\ note' = note
    <3>1. /\ pass'.at = "library" /\ pass'.held = pass.held /\ pass'.quiet = pass.quiet
      BY <2>3, GoesIs DEF ProviderInvariant
    <3>2. HeldIsPassed'
      BY <1>1, <1>2, <3>1 DEF SettleInvariant, PassIsTrue, HeldIsPassed
    <3>3. NoteIsTrue'
      BY <1>1, <2>3, <3>1 DEF SettleInvariant, PassIsTrue, NoteIsTrue, Matches
    <3>4. ASSUME NEW o \in obj[Provider!Key], pass.quiet PROVE Matches(o)
      <4>1. pass.held = {o}
        BY <1>1, <3>4 DEF SettleInvariant, PassIsTrue, Quietly
      <4>2. SameSpec(y, o)
        BY <1>1, <2>1, <4>1
      <4> QED
        BY <2>1, <2>3, <4>2 DEF SettleInvariant, PassIsTrue, NoteIsTrue
    <3>5. Quietly'
      BY <1>1, <1>2, <2>3, <3>1, <3>4 DEF SettleInvariant, PassIsTrue, Quietly, Matches, IsOf
    <3> QED
      BY <3>2, <3>3, <3>5 DEF PassIsTrue
  <2> QED
    BY <2>1, <2>2, <2>3
<1> QED
  BY <1>3, <1>4

\* A request that fails ends the pass, which then settles nothing.
LEMMA EndsSettles ==
  ASSUME Provider!ProvidersAssumption, ProviderInvariant, SettleInvariant,
         pass' = [Provider!Disturbed EXCEPT !.at = "library"], settled' = FALSE,
         UNCHANGED <<obj, clock, note>>
  PROVE  PassIsTrue'
<1>1. pass'.at = "library" /\ pass'.held = pass.held /\ pass'.quiet = FALSE
  BY EndsIs DEF ProviderInvariant
<1>2. HeldIsPassed'
  BY <1>1 DEF SettleInvariant, PassIsTrue, HeldIsPassed
<1>3. NoteIsTrue'
  BY <1>1 DEF SettleInvariant, PassIsTrue, NoteIsTrue, Matches
<1>4. Quietly'
  BY <1>1 DEF Quietly
<1> QED
  BY <1>2, <1>3, <1>4 DEF PassIsTrue

LEMMA RefusedSettles ==
  ASSUME Provider!ProvidersAssumption, ProviderInvariant, SettleInvariant, Provider!Refused
  PROVE  PassIsTrue'
<1>1. /\ pass.at \in {"write", "rewrite"} /\ ~Provider!Holds(Provider!Key, Provider!Held.ver)
      /\ Provider!Goes(IF pass.at = "write" THEN "reread" ELSE "library")
      /\ (note' = note \/ note' = {})
      /\ UNCHANGED <<obj, copy, clock, settled>>
  BY DEF Provider!Refused
<1>2. /\ pass'.held = pass.held /\ pass'.verdict = pass.verdict /\ pass'.quiet = pass.quiet
      /\ pass'.at \in {"reread", "library"}
  BY <1>1, GoesIs DEF ProviderInvariant
<1>3. pass.held = {Provider!Held}
  BY <1>1, HeldIsTyped DEF ProviderInvariant, ProviderTyped
<1>4. \A o \in obj[Provider!Key] : ~pass.quiet /\ ~settled
  BY <1>1, <1>3 DEF SettleInvariant, PassIsTrue, Quietly, Provider!Holds
<1>5. HeldIsPassed'
  BY <1>1, <1>2 DEF SettleInvariant, PassIsTrue, HeldIsPassed
<1>6. NoteIsTrue'
  <2>1. CASE note' = note
    BY <1>1, <1>2, <2>1 DEF SettleInvariant, PassIsTrue, NoteIsTrue, Matches
  <2>2. CASE note' = {}
    <3>1. pass'.at \notin {"write", "rewrite"}
      BY <1>2
    <3> QED
      BY <2>2, <3>1 DEF NoteIsTrue
  <2> QED
    BY <1>1, <2>1, <2>2
<1>7. Quietly'
  <2>1. \A o \in obj'[Provider!Key] : ~pass'.quiet /\ ~settled'
    BY <1>1, <1>2, <1>4
  <2> QED
    BY <2>1 DEF Quietly
<1> QED
  BY <1>5, <1>6, <1>7 DEF PassIsTrue

LEMMA RereadSettles ==
  ASSUME Provider!ProvidersAssumption, ProviderInvariant, SettleInvariant, Provider!Reread
  PROVE  PassIsTrue'
<1>1. pass.at = "reread" /\ pass.verdict \in Answers /\ UNCHANGED <<obj, copy, clock, settled>>
  BY RereadIs DEF Provider!Reread
<1>2. \A o \in obj[Provider!Key] : ~pass.quiet /\ ~settled
  BY <1>1 DEF SettleInvariant, PassIsTrue, Quietly
<1>3. CASE obj[Provider!Key] = {} /\ Provider!Goes("library") /\ note' = {}
  <2>1. pass'.at = "library" /\ pass'.held = pass.held
    BY <1>3, GoesIs DEF ProviderInvariant
  <2> QED
    BY <1>1, <1>3, <2>1 DEF SettleInvariant, PassIsTrue, HeldIsPassed, NoteIsTrue, Quietly
<1>4. ASSUME NEW o \in ThingsOf({1, 2}), obj[Provider!Key] = {o}, Provider!Settles(o, pass.verdict, "rewrite"),
             note' = IF Provider!Applied(o, pass.verdict) = o THEN Provider!WrittenNote(o) ELSE note
      PROVE  PassIsTrue'
  <2> DEFINE a == Provider!Applied(o, pass.verdict)
  <2>1. /\ pass'.held = {a} /\ pass'.verdict = pass.verdict /\ pass'.quiet = pass.quiet
        /\ pass'.at = IF a = o THEN "library" ELSE "rewrite"
        /\ a.ver = o.ver /\ a.uid = o.uid /\ a.gen = o.gen /\ a.body = [reason |-> pass.verdict, of |-> o.gen]
    BY <1>1, <1>4, SettlesIs DEF ProviderInvariant
  <2>2. /\ a = o => \A x \in note' : \E y \in note : SameCall(x, y)
        /\ a # o => note' = note
    BY <1>4, WrittenNoteIs DEF ProviderInvariant
  <2> HIDE DEF a
  <2>3. o.ver <= clock /\ o.gen \in Nat
    BY <1>4, TrueThings
  <2>4. HeldIsPassed'
    BY <1>1, <1>4, <2>1, <2>3 DEF HeldIsPassed, Passed, SameSpec
  <2>5. \A y \in note : Passed(y, o) /\ y.verdict = pass.verdict
    BY <1>1, <1>4 DEF SettleInvariant, PassIsTrue, NoteIsTrue
  <2>6. NoteIsTrue'
    <3>1. CASE a = o
      <4>1. \A x \in note' : Passed(x, o) /\ x.verdict = pass.verdict
        BY <2>2, <2>5, <3>1 DEF SameCall, Passed
      <4>2. o.body = [reason |-> pass.verdict, of |-> o.gen]
        BY <2>1, <3>1
      <4>3. \A x \in note' : SameSpec(x, o) => Matches(o)'
        BY <4>1, <4>2 DEF Matches, SameSpec
      <4> QED
        BY <1>1, <1>4, <2>1, <3>1, <4>1, <4>3 DEF NoteIsTrue, Passed, SameSpec
    <3>2. CASE a # o
      <4>1. note' = note /\ pass'.at = "rewrite"
        BY <2>1, <2>2, <3>2
      <4>2. \A c \in pass'.held : c.body = [reason |-> pass'.verdict, of |-> c.gen]
        BY <2>1
      <4> QED
        BY <1>1, <1>4, <2>1, <2>5, <4>1, <4>2
        DEF SettleInvariant, PassIsTrue, NoteIsTrue, Matches
    <3> QED
      BY <3>1, <3>2
  <2>7. Quietly'
    BY <1>1, <1>2, <2>1 DEF Quietly
  <2> QED
    BY <2>4, <2>6, <2>7 DEF PassIsTrue
<1> QED
  BY <1>3, <1>4, RereadIs

LEMMA StandJobSettles ==
  ASSUME Provider!ProvidersAssumption, ProviderInvariant, SettleInvariant, Provider!StandJob
  PROVE  PassIsTrue'
<1>1. /\ pass.at = "library" /\ pass' = Provider!Idle /\ settled' = (settled \/ pass.quiet)
      /\ UNCHANGED <<obj, copy, clock, note>>
  BY DEF Provider!StandJob, Provider!watched
<1>2. pass'.at = "idle" /\ pass'.held = {} /\ pass'.quiet = FALSE
  BY <1>1, PassIsTyped DEF ProviderInvariant
<1>3. \A o \in obj[Provider!Key] : settled \/ pass.quiet => IsOf(copy[Provider!Key].obj, o) /\ Matches(o)
  BY <1>1 DEF SettleInvariant, PassIsTrue, Quietly
<1>4. HeldIsPassed'
  BY <1>2 DEF HeldIsPassed
<1>5. NoteIsTrue'
  BY <1>1, <1>2 DEF SettleInvariant, PassIsTrue, NoteIsTrue, Matches
<1>6. Quietly'
  BY <1>1, <1>2, <1>3 DEF Quietly, Matches, IsOf, SameSpec
<1> QED
  BY <1>4, <1>5, <1>6 DEF PassIsTrue

LEMMA RestartSettles ==
  ASSUME Provider!ProvidersAssumption, ProviderInvariant, Provider!Restart
  PROVE  PassIsTrue'
<1>1. note' = {} /\ pass' = Provider!Idle /\ settled' = FALSE
  BY DEF Provider!Restart
<1>2. pass'.at = "idle" /\ pass'.held = {} /\ pass'.quiet = FALSE
  BY <1>1, PassIsTyped DEF ProviderInvariant
<1> QED
  BY <1>1, <1>2 DEF PassIsTrue, HeldIsPassed, NoteIsTrue, Quietly

\* The write of the verdict lands: the provider is what the pass applied it to.
LEMMA OwnSettles ==
  ASSUME Provider!ProvidersAssumption, ProviderInvariant, SettleInvariant,
         pass.at \in {"write", "rewrite"}, NEW h, pass.held = {h}, NEW v, Own(h.body, v),
         h.body \in [reason : Answers \cup {"none"}, of : Nat],
         \E c \in obj[Provider!Key] : c.ver = h.ver
  PROVE  /\ WatchIsNew' /\ clock' = clock + 1 /\ clock \in Nat
         /\ \A o \in obj'[Provider!Key] : o.ver = clock + 1
         /\ \A o \in obj'[Provider!Key] : \E c \in obj[Provider!Key] :
                /\ SameSpec(c, o) /\ SameSpec(h, c) /\ c.ver = h.ver
                /\ o.body = [reason |-> pass.verdict, of |-> o.gen]
<1>1. /\ WatchInvariant(ThingsOf({1, 2}))' /\ clock' = clock + 1 /\ clock \in Nat
      /\ \A o \in obj'[Provider!Key] : o.ver = clock + 1
  BY OwnKeeps, TrueThings DEF ProviderInvariant
<1>2. PICK c \in obj[Provider!Key] : c.ver = h.ver
  OBVIOUS
<1>3. /\ SameSpec(h, c) /\ h.body = [reason |-> pass.verdict, of |-> h.gen]
      /\ \A e \in obj[Provider!Key] : e = c
  BY <1>2, TrueThings DEF SettleInvariant, PassIsTrue, HeldIsPassed, NoteIsTrue
<1>4. ASSUME NEW o \in obj'[Provider!Key]
      PROVE  SameSpec(c, o) /\ o.body = [reason |-> pass.verdict, of |-> o.gen]
  <2>1. PICK e \in obj[Provider!Key] : SameSpec(e, o) /\ o.body = h.body
    BY ObjAfter
  <2>2. SameSpec(c, o) /\ o.gen = h.gen
    BY <1>3, <2>1 DEF SameSpec
  <2> QED
    BY <1>3, <2>1, <2>2
<1>5. WatchIsNew'
  <2>1. obj'[Provider!Key] \in AtMostOne(ThingsOf({1, 2})) /\ Provider!Key \in Keys
    <3>1. Provider!Key \in Keys
      BY DEF Provider!ProvidersAssumption
    <3> QED
      BY <1>1, <3>1 DEF WatchInvariant, WatchTyped
  <2>2. Lands(Written(h.body))
    BY DEF Own
  <2>3. last'[Provider!Key] = clock + 1
    <3>1. last \in [Keys -> Nat]
      BY ProviderFacts DEF ProviderInvariant
    <3> QED
      BY <2>1, <3>1 DEF Own
  <2>4. \E w \in {0, clock + 1} : memo'[Provider!Key] = {w}
    <3>1. memo \in [Keys -> AtMostOne(Nat)]
      BY ProviderFacts DEF ProviderInvariant
    <3>2. memo'[Provider!Key] = {v} /\ v \in {0, clock + 1}
      BY <2>1, <3>1 DEF Own
    <3> QED
      BY <3>2
  <2>5. \A o \in obj'[Provider!Key] : \E e \in obj[Provider!Key] : SameSpec(e, o)
    BY <1>2, <1>4
  <2> QED
    BY <1>1, <2>1, <2>2, <2>3, <2>4, <2>5, NewestLands DEF ProviderInvariant, SettleInvariant
<1> QED
  BY <1>1, <1>2, <1>3, <1>4, <1>5

LEMMA WriteSettles ==
  ASSUME Provider!ProvidersAssumption, ProviderInvariant, SettleInvariant, Provider!Write
  PROVE  PassIsTrue' /\ WatchIsNew'
<1> DEFINE h == Provider!Held
<1>1. /\ pass.at \in {"write", "rewrite"} /\ pass'.at = "library" /\ pass'.quiet = pass.quiet
      /\ note' = Provider!WrittenNote(h) /\ settled' = settled
      /\ \E o \in obj[Provider!Key] : o.ver = h.ver
  BY TakenIs
<1>2. PICK c : pass'.held = {c} /\ c.ver = clock + 1 /\ SameSpec(c, h) /\ c.body = h.body
  BY TakenIs
<1>3. /\ pass.held = {h} /\ Own(h.body, clock + 1)
      /\ h.body \in [reason : Answers \cup {"none"}, of : Nat] /\ copy' = copy
  BY WriteIs DEF Own, Lands
<1> HIDE DEF h
<1>4. /\ WatchIsNew' /\ clock' = clock + 1 /\ clock \in Nat
      /\ \A o \in obj'[Provider!Key] : \E e \in obj[Provider!Key] :
             /\ SameSpec(e, o) /\ SameSpec(h, e) /\ e.ver = h.ver
             /\ o.body = [reason |-> pass.verdict, of |-> o.gen]
  BY <1>1, <1>3, OwnSettles
<1>5. HeldIsPassed'
  <2>1. \A o \in obj'[Provider!Key] : SameSpec(c, o)
    BY <1>2, <1>4 DEF SameSpec
  <2>2. \A o \in obj[Provider!Key] : o.gen \in Nat
    BY TrueThings
  <2>3. \A o \in obj'[Provider!Key] : Passed(c, o)
    <3> SUFFICES ASSUME NEW o \in obj'[Provider!Key] PROVE Passed(c, o)
      OBVIOUS
    <3>1. c.gen = o.gen /\ o.gen \in Nat
      BY <1>4, <2>1, <2>2 DEF SameSpec
    <3> QED
      BY <3>1 DEF Passed
  <2>4. c.ver <= clock'
    BY <1>2, <1>4
  <2> QED
    BY <1>1, <1>2, <2>1, <2>3, <2>4 DEF HeldIsPassed, Passed, SameSpec
<1>6. /\ \A x \in note' : \E y \in note : SameCall(x, y)
      /\ \A y \in note : \E x \in note' : SameCall(x, y)
  BY <1>1, WrittenNoteIs DEF ProviderInvariant
<1>7. \A y \in note : y.verdict = pass.verdict
  BY <1>1 DEF SettleInvariant, PassIsTrue, NoteIsTrue
<1>8. \A x \in note' : x.verdict = pass.verdict
  BY <1>6, <1>7 DEF SameCall
<1>9. \A o \in obj'[Provider!Key], x \in note' : SameSpec(x, o) => Matches(o)'
  BY <1>4, <1>8 DEF Matches, SameSpec
<1>10. NoteIsTrue'
  <2>1. \A x \in note', o \in obj'[Provider!Key] : Passed(x, o)
    <3> SUFFICES ASSUME NEW x \in note', NEW o \in obj'[Provider!Key] PROVE Passed(x, o)
      OBVIOUS
    <3>1. PICK y \in note : SameCall(x, y)
      BY <1>6
    <3>2. PICK e \in obj[Provider!Key] : SameSpec(e, o)
      BY <1>4
    <3>3. Passed(y, e)
      BY DEF SettleInvariant, PassIsTrue, NoteIsTrue
    <3> QED
      BY <3>1, <3>2, <3>3 DEF Passed, SameCall, SameSpec
  <2> QED
    BY <1>1, <1>9, <2>1 DEF NoteIsTrue, Passed, SameSpec
<1>11. Quietly'
  <2> SUFFICES ASSUME NEW o \in obj'[Provider!Key]
               PROVE  /\ settled \/ pass.quiet => IsOf(copy[Provider!Key].obj, o)
                      /\ settled => pass.quiet
                      /\ pass.quiet => Matches(o)'
    BY <1>1, <1>3 DEF Quietly, IsOf, SameSpec
  <2>1. PICK e \in obj[Provider!Key] : SameSpec(e, o)
    BY <1>4
  <2>2. /\ settled \/ pass.quiet => IsOf(copy[Provider!Key].obj, e)
        /\ settled => pass.quiet
        /\ pass.quiet => \E y \in note : SameSpec(y, e)
    BY <1>1, <1>3 DEF SettleInvariant, PassIsTrue, Quietly
  <2>3. settled \/ pass.quiet => IsOf(copy[Provider!Key].obj, o)
    BY <2>1, <2>2 DEF IsOf, SameSpec
  <2>4. pass.quiet => \E x \in note' : SameSpec(x, o)
    BY <1>6, <2>1, <2>2 DEF SameSpec, SameCall
  <2> QED
    BY <1>9, <2>2, <2>3, <2>4
<1> QED
  BY <1>4, <1>5, <1>10, <1>11 DEF PassIsTrue

LEMMA RequestFailsSettles ==
  ASSUME Provider!ProvidersAssumption, ProviderInvariant, SettleInvariant, Provider!RequestFails
  PROVE  PassIsTrue' /\ WatchIsNew'
<1> DEFINE h == Provider!Held
<1>1. /\ pass' = [Provider!Disturbed EXCEPT !.at = "library"] /\ settled' = FALSE /\ note' = note
      /\ pass.at \in {"write", "reread", "rewrite"}
  BY DEF Provider!RequestFails, Provider!provider
<1>2. /\ pass.held = {h} /\ h.body \in [reason : Answers \cup {"none"}, of : Nat]
      /\ \/ Stays /\ obj' = obj
         \/ /\ Own(h.body, 0) /\ pass.at # "reread"
            /\ \E o \in obj[Provider!Key] : o.ver = h.ver
  BY WriteIs
<1> HIDE DEF h
<1>3. CASE Stays /\ obj' = obj
  BY <1>1, <1>3, EndsSettles, NewestStays DEF Stays, ProviderInvariant, SettleInvariant
<1>4. CASE Own(h.body, 0) /\ pass.at # "reread" /\ \E o \in obj[Provider!Key] : o.ver = h.ver
  <2>1. /\ WatchIsNew' /\ clock' = clock + 1 /\ clock \in Nat
        /\ \A o \in obj'[Provider!Key] : o.ver = clock + 1
        /\ \A o \in obj'[Provider!Key] : \E e \in obj[Provider!Key] :
               /\ SameSpec(e, o) /\ SameSpec(h, e) /\ e.ver = h.ver
               /\ o.body = [reason |-> pass.verdict, of |-> o.gen]
    BY <1>1, <1>2, <1>4, OwnSettles
  <2>2. pass'.at = "library" /\ pass'.held = {h} /\ pass'.quiet = FALSE
    BY <1>1, <1>2, EndsIs DEF ProviderInvariant
  <2>3. h.ver <= clock /\ h.ver \in Nat
    BY <1>2, TrueThings DEF SettleInvariant, PassIsTrue, HeldIsPassed
  <2>4. ASSUME NEW o \in obj'[Provider!Key] PROVE SameSpec(h, o) /\ Passed(h, o)
    <3>1. PICK e \in obj[Provider!Key] : SameSpec(e, o) /\ SameSpec(h, e)
      BY <2>1
    <3>2. Passed(h, e)
      BY <1>2 DEF SettleInvariant, PassIsTrue, HeldIsPassed
    <3> QED
      BY <3>1, <3>2 DEF SameSpec, Passed
  <2>5. HeldIsPassed'
    <3>1. h.ver <= clock'
      BY <2>1, <2>3
    <3> QED
      BY <2>2, <2>4, <3>1 DEF HeldIsPassed, Passed, SameSpec
  <2>6. NoteIsTrue'
    <3>1. ASSUME NEW x \in note, NEW o \in obj'[Provider!Key]
          PROVE  Passed(x, o) /\ (SameSpec(x, o) => Matches(o)')
      <4>1. PICK e \in obj[Provider!Key] : SameSpec(e, o) /\ o.body = [reason |-> pass.verdict, of |-> o.gen]
        BY <2>1
      <4>2. Passed(x, e) /\ x.verdict = pass.verdict
        BY <1>1 DEF SettleInvariant, PassIsTrue, NoteIsTrue
      <4>3. SameSpec(x, o) => Matches(o)'
        BY <1>1, <4>1, <4>2 DEF Matches, SameSpec
      <4> QED
        BY <4>1, <4>2, <4>3 DEF SameSpec, Passed
    <3> QED
      BY <1>1, <2>2, <3>1 DEF NoteIsTrue, Passed, SameSpec
  <2>7. Quietly'
    BY <1>1, <2>2 DEF Quietly
  <2> QED
    BY <2>1, <2>5, <2>6, <2>7 DEF PassIsTrue
<1> QED
  BY <1>2, <1>3, <1>4

LEMMA SettleStep ==
  ASSUME Provider!ProvidersAssumption, ProviderInvariant, SettleInvariant, [Provider!Next]_(Provider!vars)
  PROVE  SettleInvariant'
<1>1. budget'.reads = 0 /\ ~Provider!ReadFails
  <2>1. budget \in [Troubles -> Nat] /\ budget.reads = 0
    BY DEF ProviderInvariant, ProviderTyped, SettleInvariant
  <2>2. ~Provider!ReadFails
    <3>1. ~Provider!Spend("reads")
      BY <2>1 DEF Provider!Spend
    <3> QED
      BY <3>1 DEF Provider!ReadFails
  <2>3. CASE Provider!PersonEdits \/ Provider!PersonDeletes \/ Provider!PersonCreates
    <3>1. budget' \in [Troubles -> Nat] /\ budget'.reads <= budget.reads
      BY <2>3, MeddleIs
    <3>2. budget'.reads \in Nat
      BY <3>1 DEF Troubles
    <3> QED
      BY <2>1, <2>2, <3>1, <3>2
  <2>4. CASE ~Provider!PersonEdits /\ ~Provider!PersonDeletes /\ ~Provider!PersonCreates
    <3>1. budget' = budget \/ \E kind \in Troubles : Provider!Spend(kind)
      BY <2>2, <2>4 DEF Provider!Next, Provider!PassSteps, Troubles, Provider!watched, Provider!vars,
         Provider!AccountChanges, Provider!TimePasses, Provider!JobEnds, Provider!DeliverProvider,
         Provider!Deliver, Provider!ReadProviders, Provider!NotDue, Provider!Call,
         Provider!SecretFails, Provider!Write, Provider!RequestFails, Provider!Refused, Provider!Reread,
         Provider!StandJob, Provider!Restart
    <3> QED
      BY <2>1, <2>2, <3>1, SpentOrNot DEF ProviderInvariant
  <2> QED
    BY <2>3, <2>4
<1>2. CASE Provider!PersonEdits \/ Provider!PersonDeletes \/ Provider!PersonCreates
  BY <1>1, <1>2, MeddleSettles DEF SettleInvariant
<1>3. CASE Provider!Write \/ Provider!RequestFails
  BY <1>1, <1>3, WriteSettles, RequestFailsSettles DEF SettleInvariant
<1>4. CASE UNCHANGED Provider!vars
  <2>1. PassIsTrue'
    BY <1>4, BesideSettles
  <2>2. WatchIsNew'
    BY <1>4 DEF SettleInvariant, WatchIsNew, SightedIsPassed, SpecsComeLast, MemoIsLast, Sighted, IsOf,
       SameSpec, Passed, Provider!vars, Provider!watched
  <2> QED
    BY <1>1, <2>1, <2>2 DEF SettleInvariant
<1>5. CASE \/ Provider!AccountChanges \/ Provider!TimePasses \/ Provider!JobEnds
           \/ Provider!NotDue \/ Provider!Call \/ Provider!SecretFails \/ Provider!StandJob
           \/ Provider!ReadProviders \/ Provider!Refused \/ Provider!Reread
           \/ Provider!DeliverProvider \/ Provider!Restart
  <2>1. WatchIsNew'
    <3>1. CASE Provider!DeliverProvider \/ Provider!Restart
      <4>1. Delivers \/ Begins
        BY <3>1, ProviderIsWatched DEF Provider!DeliverProvider, Provider!Restart, Delivers, Begins
      <4> QED
        BY <4>1, NewestStays DEF ProviderInvariant, SettleInvariant
    <3>2. CASE \/ Provider!AccountChanges \/ Provider!TimePasses \/ Provider!JobEnds
               \/ Provider!NotDue \/ Provider!Call \/ Provider!SecretFails \/ Provider!StandJob
               \/ Provider!ReadProviders \/ Provider!Refused \/ Provider!Reread
      <4>1. Stays
        BY <3>2, StaysIs
      <4> QED
        BY <4>1, NewestStays DEF ProviderInvariant, SettleInvariant
    <3> QED
      BY <1>5, <3>1, <3>2
  <2>2. Provider!SecretFails => PassIsTrue'
    <3>1. Provider!SecretFails => /\ pass' = [Provider!Disturbed EXCEPT !.at = "library"] /\ settled' = FALSE
                                  /\ UNCHANGED <<obj, clock, note>>
      BY DEF Provider!SecretFails, Provider!provider
    <3> QED
      BY <3>1, EndsSettles
  <2>3. PassIsTrue'
    BY <1>5, <2>2, BesideSettles, AgeSettles, ReadSettles, CheckSettles, RefusedSettles, RereadSettles,
       StandJobSettles, RestartSettles
  <2> QED
    BY <1>1, <2>1, <2>3 DEF SettleInvariant
<1> QED
  BY <1>1, <1>2, <1>3, <1>4, <1>5 DEF Provider!Next, Provider!PassSteps

LEMMA InitSettle ==
  ASSUME Provider!ProvidersAssumption, budget.reads = 0, Provider!Init
  PROVE  SettleInvariant
<1> DEFINE first == [Provider!Created(1) EXCEPT !.ver = 1]
<1>1. /\ Provider!Key \in Keys
      /\ note = {} /\ settled = FALSE /\ pass = Provider!Idle
      /\ obj = [k \in Keys |-> {first}]
      /\ copy = [k \in Keys |-> [at |-> 1, obj |-> {first}]]
      /\ queue = [k \in Keys |-> <<>>] /\ memo = [k \in Keys |-> {}] /\ last = [k \in Keys |-> 0]
  BY DEF Provider!Init, Provider!Empty, Provider!ProvidersAssumption
<1>2. first.ver = 1 /\ first.gen = 1
  BY DEF Provider!Created
<1> HIDE DEF first
<1>3. /\ obj[Provider!Key] = {first} /\ copy[Provider!Key].obj = {first} /\ Len(queue[Provider!Key]) = 0
      /\ memo[Provider!Key] = {} /\ last[Provider!Key] = 0
  <2>1. obj[Provider!Key] = {first}
    BY <1>1
  <2>2. copy[Provider!Key].obj = {first}
    <3>1. copy[Provider!Key] = [at |-> 1, obj |-> {first}]
      BY <1>1
    <3> QED
      BY <3>1
  <2>3. Len(queue[Provider!Key]) = 0
    <3>1. queue[Provider!Key] = <<>>
      BY <1>1
    <3> QED
      BY <3>1
  <2>4. memo[Provider!Key] = {}
    BY <1>1
  <2>5. last[Provider!Key] = 0
    BY <1>1
  <2> QED
    BY <2>1, <2>2, <2>3, <2>4, <2>5
<1>4. \A x : Sighted(x) => x = first
  BY <1>3 DEF Sighted
<1>5. SightedIsPassed
  BY <1>2, <1>3, <1>4 DEF SightedIsPassed, Passed
<1>6. SpecsComeLast /\ MemoIsLast
  BY <1>2, <1>3, <1>4 DEF SpecsComeLast, MemoIsLast
<1>7. pass.at = "idle" /\ pass.held = {} /\ pass.quiet = FALSE
  BY <1>1 DEF Provider!Idle
<1>8. PassIsTrue
  BY <1>1, <1>7 DEF PassIsTrue, HeldIsPassed, NoteIsTrue, Quietly
<1> QED
  BY <1>1, <1>5, <1>6, <1>8 DEF SettleInvariant, WatchIsNew

\* versionmemo.go and providercadence.go: one pass that nothing disturbed leaves the status
\* at the verdict of the last call, of this provider and this generation.  A read of the API
\* server that fails is outside the hypothesis: the pass then trusts the store's copy.
THEOREM SettledTheorem ==
  OperatorAssumption /\ CreatedOnce /\ EveryReadLands => (Spec => []OnePassSettles)
<1> SUFFICES ASSUME OperatorAssumption, CreatedOnce, EveryReadLands
             PROVE  Spec => []OnePassSettles
  OBVIOUS
<1> USE DEF OperatorAssumption
<1>1. Init => (focus = "provider" => SettleInvariant)
  <2> SUFFICES ASSUME Init, focus = "provider" PROVE SettleInvariant
    OBVIOUS
  <2>1. Provider!Init /\ budget \in ProviderFaults
    BY DEF Init
  <2> QED
    BY <2>1, InitSettle DEF EveryReadLands
<1>2. /\ OfAProvider => ProviderInvariant
      /\ focus = "provider" => SettleInvariant
      /\ [Next]_vars
      => (focus = "provider" => SettleInvariant)'
  <2> SUFFICES ASSUME OfAProvider => ProviderInvariant, focus = "provider" => SettleInvariant,
                      [Next]_vars, focus' = "provider"
               PROVE  SettleInvariant'
    OBVIOUS
  <2>1. [Provider!Next]_(Provider!vars)
    BY ProviderOnly DEF OfAProvider
  <2>2. focus = "provider"
    BY DEF Next, vars, OfLeader, OfBus, OfObject, OfProvider, About
  <2> QED
    BY <2>1, <2>2, SettleStep DEF OfAProvider
<1>3. (focus = "provider" => SettleInvariant) => OnePassSettles
  BY DEF SettleInvariant, PassIsTrue, Quietly, Matches, SameSpec, OnePassSettles,
     Provider!OnePassSettles, Provider!Reads
<1>4. Spec => [](OfAProvider => ProviderInvariant)
  BY ProviderInductive
<1> QED
  BY <1>1, <1>2, <1>3, <1>4, PTL DEF Spec

-----------------------------------------------------------------------------
\* Every part keeps its types, whatever the behaviour is about: the TypeOK of the run.
THEOREM TypeCorrect == OperatorAssumption /\ CreatedOnce => (Spec => []TypeOK)
<1> SUFFICES ASSUME OperatorAssumption, CreatedOnce PROVE Spec => []TypeOK
  OBVIOUS
<1>1. /\ OfALeader => Leader!TypeOK
      /\ focus = "bus" => Client!TypeOK
      /\ OfAnObject => Object!TypeOK
      /\ OfAProvider => Provider!TypeOK
      => TypeOK
  BY DEF TypeOK, OfALeader, OfAnObject, OfAProvider
<1> QED
  BY <1>1, LeaderTypes, BusTypes, StoodTypes, ProviderTypes, PTL

=============================================================================
