-------------------------- MODULE Workloads_proofs --------------------------
(***************************************************************************)
(* What the operator stands, for every number of nodes, copies, facts,     *)
(* runs and mishaps.  The containers of a Job take turns at the .nfo file, *)
(* so no edit loses another, and a fight that is recorded is one; the      *)
(* operator counts no run beyond what it flushed, and takes no pod, claim  *)
(* or volume that is in use.  A behaviour of the sum is one of one part:   *)
(* what a part's steps keep, the sum keeps where it is about it.           *)
(***************************************************************************)
EXTENDS Workloads, FiniteSetTheorems, TLAPS

LEMMA TitleOnly ==
  /\ Init /\ focus = "title" => Title!Init
  /\ [Next]_vars /\ focus' = "title" => focus = "title" /\ [Title!Next]_(Title!vars)
<1>1. Init /\ focus = "title" => Title!Init
  BY DEF Init
<1>2. ASSUME [Next]_vars, focus' = "title" PROVE focus = "title" /\ [Title!Next]_(Title!vars)
  <2>1. CASE UNCHANGED vars
    BY <1>2, <2>1 DEF vars, nfoVars, Title!vars
  <2>2. CASE Next
    BY <1>2, <2>2 DEF Next, OfTitle, OfReport, OfCounts, OfStand, OfTemplate, About
  <2> QED
    BY <1>2, <2>1, <2>2
<1> QED
  BY <1>1, <1>2

LEMMA CountsOnly ==
  /\ Init /\ focus = "counts" => Counts!Init
  /\ [Next]_vars /\ focus' = "counts" => focus = "counts" /\ [Counts!Next]_(Counts!vars)
<1>1. Init /\ focus = "counts" => Counts!Init
  BY DEF Init
<1>2. ASSUME [Next]_vars, focus' = "counts" PROVE focus = "counts" /\ [Counts!Next]_(Counts!vars)
  <2>1. CASE UNCHANGED vars
    BY <1>2, <2>1 DEF vars, tallyVars, Counts!vars
  <2>2. CASE Next
    BY <1>2, <2>2 DEF Next, OfTitle, OfReport, OfCounts, OfStand, OfTemplate, About
  <2> QED
    BY <1>2, <2>1, <2>2
<1> QED
  BY <1>1, <1>2

-----------------------------------------------------------------------------
(* What the parts share.                                                   *)

\* One of S, or none.
AtMostOne(S) == {{}} \cup {{s} : s \in S}

LEMMA AtMostOneCounts ==
  ASSUME NEW S, NEW one \in AtMostOne(S)
  PROVE  Cardinality(one) <= 1 /\ one \subseteq S
<1>1. CASE one = {}
  BY <1>1, FS_EmptySet
<1>2. ASSUME NEW s \in S, one = {s} PROVE Cardinality(one) <= 1 /\ one \subseteq S
  BY <1>2, FS_Singleton
<1> QED
  BY <1>1, <1>2 DEF AtMostOne

-----------------------------------------------------------------------------
(* Tallies.  Where one namespace holds the name, what the counters have of *)
(* a run is what the operator read of it last; or the run has passed, and  *)
(* no report shows it again.                                               *)

OneHome == \A g, h \in Homes : g = h

Totals == [Counts!Runs -> 0..MaxTotal]
CountsTyped ==
    /\ run \in [Homes -> 0..MaxRun] /\ held \in [Homes -> SUBSET (0..MaxTotal)]
    /\ {rows, desk, last, most} \subseteq [Homes -> Totals]
    /\ counter \in [Homes -> [Counts!Runs -> Nat]]

\* Another run came after this one, and the window does not show it.
Passed(h, r) == r < run[h] /\ Counts!Window(rows[h])[r] = 0

RowsOfHome(h) ==
    /\ \A total, other \in held[h] : total = other
    /\ \A total \in held[h] : run[h] \in Counts!Runs /\ rows[h][run[h]] <= total
    /\ \A r \in Counts!Runs : r > run[h] => rows[h][r] = 0
    /\ \A r \in Counts!Runs : rows[h][r] <= most[h][r]

CountedOf(h, r) ==
    /\ desk[h][r] <= most[h][r] /\ counter[h][r] <= most[h][r]
    /\ desk[h][r] <= Counts!Window(rows[h])[r] \/ Passed(h, r)
    /\ \/ counter[h][r] <= last[h][r] /\ last[h][r] <= desk[h][r]
       \/ desk[h][r] = 0 /\ Passed(h, r)

CountsInvariant ==
    CountsTyped /\ \A h \in Homes : RowsOfHome(h) /\ \A r \in Counts!Runs : CountedOf(h, r)

Newer(table, r) == {o \in Counts!Left(table) : o > r}

\* The model and this module reach the one definition of Cardinality by two names.
LEMMA SameCount ==
  ASSUME NEW S
  PROVE  Counts!Cardinality(S) = Cardinality(S)
BY DEF Counts!Cardinality, Cardinality

LEMMA WindowShows ==
  ASSUME NEW table, NEW r \in Counts!Runs
  PROVE  /\ Counts!Window(table)[r] =
                IF Cardinality(Newer(table, r)) < Newest THEN table[r] ELSE 0
         /\ Counts!Window(table)[r] \in {0, table[r]}
<1>1. Counts!Window(table)[r] =
          IF Counts!Cardinality(Newer(table, r)) < Newest THEN table[r] ELSE 0
  BY DEF Counts!Window, Newer
<1>2. Counts!Cardinality(Newer(table, r)) = Cardinality(Newer(table, r))
  BY SameCount
<1> QED
  BY <1>1, <1>2

\* Newer runs that leave rows push an older one out of the window; none takes it back.
LEMMA WindowNarrows ==
  ASSUME Counts!TalliesAssumption,
         NEW old \in Totals, NEW new \in Totals, NEW r \in Counts!Runs,
         \A o \in Counts!Runs : o > r /\ old[o] > 0 => new[o] > 0,
         new[r] = old[r], Counts!Window(old)[r] = 0
  PROVE  Counts!Window(new)[r] = 0
<1> DEFINE before == Newer(old, r)
           after == Newer(new, r)
<1>1. IsFiniteSet(after) /\ Newest \in Nat
  <2>1. MaxRun \in Nat /\ Newest \in Nat
    BY DEF Counts!TalliesAssumption
  <2>2. IsFiniteSet(Counts!Runs)
    BY <2>1, FS_Interval DEF Counts!Runs
  <2>3. after \subseteq Counts!Runs
    BY DEF Counts!Left, Newer
  <2> QED
    BY <2>1, <2>2, <2>3, FS_Subset
<1>2. before \subseteq after
  BY DEF Counts!Left, Newer
<1>3. Cardinality(before) <= Cardinality(after) /\ Cardinality(before) \in Nat /\ Cardinality(after) \in Nat
  BY <1>1, <1>2, FS_Subset, FS_CardinalityType
<1>4. CASE old[r] = 0
  BY <1>4, WindowShows
<1>5. CASE old[r] # 0
  <2>1. ~(Cardinality(before) < Newest)
    BY <1>5, WindowShows
  <2>2. ~(Cardinality(after) < Newest)
    BY <1>1, <1>3, <2>1
  <2> QED
    BY <2>2, WindowShows
<1> QED
  BY <1>4, <1>5

\* The newest run alone gains in its row, so what the window says of it only gains.
LEMMA WindowOfNewest ==
  ASSUME NEW old \in Totals, NEW new \in Totals, NEW r \in Counts!Runs,
         \A o \in Counts!Runs : o > r => new[o] = old[o], old[r] <= new[r],
         MaxTotal \in Nat
  PROVE  Counts!Window(old)[r] <= Counts!Window(new)[r]
<1>1. Newer(old, r) = Newer(new, r)
  BY DEF Counts!Left, Newer
<1>2. old[r] \in Nat /\ new[r] \in Nat
  BY DEF Totals
<1> QED
  BY <1>1, <1>2, WindowShows

\* What a step keeps of one home: its rows narrow for the runs that passed, and the
\* window of every other loses nothing, or the run passes.
LEMMA CountedStays ==
  ASSUME CountsTyped, CountsTyped', NEW h \in Homes, NEW r \in Counts!Runs, CountedOf(h, r),
         desk'[h] = desk[h], last'[h] = last[h], counter'[h] = counter[h],
         desk[h][r] <= most'[h][r], counter[h][r] <= most'[h][r],
         Passed(h, r) => Passed(h, r)',
         Counts!Window(rows[h])[r] <= Counts!Window(rows[h])'[r] \/ Passed(h, r)'
  PROVE  CountedOf(h, r)'
<1>1. Counts!Window(rows[h])[r] \in Nat /\ Counts!Window(rows[h])'[r] \in Nat
  <2>1. rows[h][r] \in Nat /\ rows'[h][r] \in Nat
    BY DEF CountsTyped, Totals
  <2>2. Counts!Window(rows[h])[r] \in {0, rows[h][r]}
    BY WindowShows
  <2>3. Counts!Window(rows[h])'[r] \in {0, rows'[h][r]}
    BY DEF Counts!Window
  <2> QED
    BY <2>1, <2>2, <2>3
<1>2. desk[h][r] \in Nat
  BY DEF CountsTyped, Totals
<1>3. desk'[h][r] <= Counts!Window(rows[h])'[r] \/ Passed(h, r)'
  BY <1>1, <1>2 DEF CountedOf
<1> QED
  BY <1>3 DEF CountedOf

-----------------------------------------------------------------------------
(* The steps of the counts.                                                *)

LEMMA InitCounts ==
  ASSUME Counts!TalliesAssumption, Counts!Init
  PROVE  CountsInvariant
<1>1. MaxRun \in Nat /\ MaxTotal \in Nat
  BY DEF Counts!TalliesAssumption
<1>2. \A h \in Homes, r \in Counts!Runs : Counts!Nothing[h][r] = 0
  BY DEF Counts!Nothing
<1>3. Counts!Nothing \in [Homes -> Totals] /\ Counts!Nothing \in [Homes -> [Counts!Runs -> Nat]]
  BY <1>1 DEF Counts!Nothing, Totals
<1>4. CountsTyped
  BY <1>1, <1>3 DEF Counts!Init, CountsTyped
<1>5. ASSUME NEW h \in Homes, NEW r \in Counts!Runs PROVE CountedOf(h, r)
  <2>1. Counts!Window(rows[h])[r] = 0
    BY <1>2, WindowShows DEF Counts!Init
  <2> QED
    BY <1>2, <2>1 DEF Counts!Init, CountedOf
<1>6. ASSUME NEW h \in Homes PROVE RowsOfHome(h)
  BY <1>2 DEF Counts!Init, RowsOfHome
<1> QED
  BY <1>4, <1>5, <1>6 DEF CountsInvariant

LEMMA StartsKeeps ==
  ASSUME Counts!TalliesAssumption, OneHome, CountsInvariant, NEW h \in Homes, Counts!Starts(h)
  PROVE  CountsInvariant'
<1>1. PICK swept \in {{}, 1..run[h]} :
          rows' = [rows EXCEPT ![h] = [r \in Counts!Runs |-> IF r \in swept THEN 0 ELSE @[r]]]
  BY DEF Counts!Starts
<1>2. /\ run[h] < MaxRun /\ run' = [run EXCEPT ![h] = @ + 1] /\ held' = [held EXCEPT ![h] = {0}]
      /\ UNCHANGED <<desk, last, most, counter>>
  BY DEF Counts!Starts
<1>3. MaxRun \in Nat /\ MaxTotal \in Nat /\ run[h] \in Nat /\ run'[h] = run[h] + 1 /\ held'[h] = {0}
      /\ run'[h] \in Counts!Runs
  BY <1>2 DEF Counts!TalliesAssumption, CountsInvariant, CountsTyped, Counts!Runs
<1>4. rows'[h] \in Totals /\ rows[h] \in Totals
      /\ \A r \in Counts!Runs : rows'[h][r] = IF r \in swept THEN 0 ELSE rows[h][r]
  BY <1>1, <1>3 DEF CountsInvariant, CountsTyped, Totals
<1>5. CountsTyped'
  BY <1>1, <1>2, <1>3, <1>4 DEF CountsInvariant, CountsTyped
<1>6. RowsOfHome(h)'
  <2>1. \A r \in Counts!Runs : rows'[h][r] \in {0, rows[h][r]} /\ most[h][r] \in Nat
    BY <1>4 DEF CountsInvariant, CountsTyped, Totals
  <2>2. \A r \in Counts!Runs : r > run[h] => rows'[h][r] = 0
    BY <2>1 DEF CountsInvariant, RowsOfHome
  <2>3. \A r \in Counts!Runs : rows'[h][r] <= most[h][r]
    BY <2>1 DEF CountsInvariant, RowsOfHome
  <2>4. Counts!Runs \subseteq Nat
    BY DEF Counts!Runs
  <2> QED
    BY <1>2, <1>3, <2>2, <2>3, <2>4 DEF RowsOfHome
<1>7. ASSUME NEW r \in Counts!Runs PROVE CountedOf(h, r)'
  <2>1. Passed(h, r) => Passed(h, r)'
    <3> SUFFICES ASSUME Passed(h, r) PROVE Passed(h, r)'
      OBVIOUS
    <3>1. r < run'[h]
      BY <1>3 DEF Passed, Counts!Runs
    <3>2. CASE swept = {}
      BY <1>4, <3>1, <3>2, WindowNarrows DEF Passed
    <3>3. CASE swept = 1..run[h]
      <4>1. rows'[h][r] = 0
        BY <1>3, <1>4, <3>3 DEF Passed, Counts!Runs
      <4>2. Counts!Window(rows'[h])[r] = 0
        BY <4>1, WindowShows
      <4> QED
        BY <3>1, <4>2 DEF Passed
    <3> QED
      BY <3>2, <3>3
  <2>2. Counts!Window(rows[h])[r] <= Counts!Window(rows'[h])[r] \/ Passed(h, r)'
    <3>1. CASE swept = {}
      <4>1. rows'[h] = rows[h]
        BY <1>4, <3>1 DEF Totals
      <4>2. Counts!Window(rows[h])[r] \in Nat
        BY <1>4, WindowShows DEF Totals
      <4> QED
        BY <4>1, <4>2
    <3>2. CASE swept = 1..run[h] /\ r <= run[h]
      <4>1. rows'[h][r] = 0 /\ r < run'[h]
        BY <1>3, <1>4, <3>2 DEF Counts!Runs
      <4> QED
        BY <4>1, WindowShows DEF Passed
    <3>3. CASE ~(r <= run[h])
      <4>1. rows[h][r] = 0 /\ rows'[h][r] = 0
        BY <1>3, <1>4, <3>3 DEF Counts!Runs, CountsInvariant, RowsOfHome
      <4>2. Counts!Window(rows[h])[r] = 0 /\ Counts!Window(rows'[h])[r] = 0
        BY <4>1, WindowShows
      <4> QED
        BY <4>2
    <3> QED
      BY <3>1, <3>2, <3>3
  <2>3. CountsTyped /\ CountedOf(h, r)
    BY DEF CountsInvariant
  <2>4. desk[h][r] <= most'[h][r] /\ counter[h][r] <= most'[h][r]
    BY <1>2, <2>3 DEF CountedOf
  <2> QED
    BY <1>2, <1>5, <2>1, <2>2, <2>3, <2>4, CountedStays
<1> QED
  BY <1>5, <1>6, <1>7 DEF CountsInvariant, OneHome

LEMMA AddsKeeps ==
  ASSUME Counts!TalliesAssumption, OneHome, CountsInvariant, NEW h \in Homes, Counts!Adds(h)
  PROVE  CountsInvariant'
<1>1. PICK total \in held[h] : total < MaxTotal /\ held' = [held EXCEPT ![h] = {total + 1}]
  BY DEF Counts!Adds
<1>2. UNCHANGED <<run, rows, desk, last, most, counter>>
  BY DEF Counts!Adds
<1>3. MaxTotal \in Nat /\ total \in Nat /\ total + 1 \in 0..MaxTotal /\ held'[h] = {total + 1}
  BY <1>1 DEF Counts!TalliesAssumption, CountsInvariant, CountsTyped
<1>4. CountsTyped'
  BY <1>1, <1>2, <1>3 DEF CountsInvariant, CountsTyped
<1>5. RowsOfHome(h)'
  <2>1. run[h] \in Counts!Runs /\ rows[h][run[h]] <= total /\ rows[h][run[h]] \in Nat
    BY <1>1, <1>3 DEF CountsInvariant, CountsTyped, RowsOfHome, Totals
  <2>2. rows[h][run[h]] <= total + 1
    BY <1>3, <2>1
  <2> QED
    BY <1>2, <1>3, <2>1, <2>2 DEF CountsInvariant, RowsOfHome
<1>6. ASSUME NEW r \in Counts!Runs PROVE CountedOf(h, r)'
  BY <1>2 DEF CountsInvariant, CountedOf, Passed
<1> QED
  BY <1>4, <1>5, <1>6 DEF CountsInvariant, OneHome

\* A flush raises the row of the newest run, and of no other.
LEMMA FlushedKeeps ==
  ASSUME Counts!TalliesAssumption, OneHome, CountsInvariant, NEW h \in Homes, held[h] # {},
         Counts!Flushed(h), held'[h] \in SUBSET held[h], held' \in [Homes -> SUBSET (0..MaxTotal)],
         UNCHANGED <<run, desk, last, counter>>
  PROVE  CountsInvariant'
<1> DEFINE total == Counts!Total(h)
           now == run[h]
<1>1. total \in held[h]
  BY DEF Counts!Total
<1>2. /\ MaxTotal \in Nat /\ total \in 0..MaxTotal /\ now \in Counts!Runs /\ rows[h][now] <= total
      /\ rows[h] \in Totals /\ most[h] \in Totals
  BY <1>1 DEF Counts!TalliesAssumption, CountsInvariant, CountsTyped, RowsOfHome
<1>3. /\ rows' = [rows EXCEPT ![h][now] = total]
      /\ most' = [most EXCEPT ![h][now] = total]
  BY DEF Counts!Flushed
<1>4. /\ rows'[h] \in Totals /\ most'[h] \in Totals
      /\ rows'[h][now] = total /\ most'[h][now] = total
      /\ \A r \in Counts!Runs : r # now => rows'[h][r] = rows[h][r] /\ most'[h][r] = most[h][r]
  BY <1>2, <1>3 DEF CountsInvariant, CountsTyped, Totals
<1>5. CountsTyped'
  BY <1>2, <1>3, <1>4 DEF CountsInvariant, CountsTyped
<1>6. RowsOfHome(h)'
  <2>1. \A a, b \in held'[h] : a = b
    BY DEF CountsInvariant, RowsOfHome
  <2>2. \A a \in held'[h] : a = total
    BY <1>1 DEF CountsInvariant, RowsOfHome
  <2>3. total <= total
    BY <1>2
  <2>4. \A r \in Counts!Runs : r > now => rows'[h][r] = 0
    BY <1>2, <1>4 DEF CountsInvariant, RowsOfHome, Counts!Runs
  <2>5. \A r \in Counts!Runs : rows'[h][r] <= most'[h][r]
    BY <1>4, <2>3 DEF CountsInvariant, RowsOfHome
  <2> QED
    BY <1>2, <1>4, <2>1, <2>2, <2>3, <2>4, <2>5 DEF RowsOfHome
<1>7. ASSUME NEW r \in Counts!Runs PROVE CountedOf(h, r)'
  <2>1. /\ CountedOf(h, r) /\ r \in Nat /\ now \in Nat /\ CountsTyped
        /\ \A o \in Counts!Runs : o \in Nat
    BY <1>2 DEF CountsInvariant, Counts!Runs
  <2>2. most[h][r] <= most'[h][r] \/ r = now
    BY <1>2, <1>4 DEF Totals
  <2>3. Passed(h, r) => Passed(h, r)'
    <3> SUFFICES ASSUME Passed(h, r) PROVE Passed(h, r)'
      OBVIOUS
    <3>1. r < now /\ Counts!Window(rows[h])[r] = 0
      BY DEF Passed
    <3>2. rows'[h][r] = rows[h][r]
      BY <1>4, <2>1, <3>1
    <3>3. \A o \in Counts!Runs : o > r /\ rows[h][o] > 0 => rows'[h][o] > 0
      BY <1>2, <1>4 DEF Totals
    <3>4. Counts!Window(rows'[h])[r] = 0
      BY <1>2, <1>4, <3>1, <3>2, <3>3, WindowNarrows
    <3> QED
      BY <3>1, <3>4 DEF Passed
  <2>4. CASE r = now
    <3>1. \A o \in Counts!Runs : o > r => rows'[h][o] = rows[h][o]
      BY <1>4, <2>1, <2>4
    <3>2. Counts!Window(rows[h])[r] <= Counts!Window(rows'[h])[r]
      BY <1>2, <1>4, <2>4, <3>1, WindowOfNewest
    <3>3. ~Passed(h, r)
      BY <2>1, <2>4 DEF Passed
    <3>4. /\ desk[h][r] \in Nat /\ counter[h][r] \in Nat /\ last[h][r] \in Nat
          /\ rows[h][r] \in Nat /\ Counts!Window(rows[h])[r] \in {0, rows[h][r]}
      <4>1. desk[h] \in Totals /\ last[h] \in Totals /\ counter[h] \in [Counts!Runs -> Nat]
        BY <2>1 DEF CountsTyped
      <4>2. Counts!Window(rows[h])[r] \in {0, rows[h][r]}
        BY WindowShows
      <4> QED
        BY <1>2, <4>1, <4>2 DEF Totals
    <3>5. desk[h][r] <= total /\ counter[h][r] <= total
      BY <1>2, <2>1, <2>4, <3>3, <3>4 DEF CountedOf
    <3> QED
      BY <1>4, <1>5, <2>1, <2>3, <2>4, <3>2, <3>5, CountedStays
  <2>5. CASE r # now
    <3>1. most'[h][r] = most[h][r] /\ rows'[h][r] = rows[h][r]
      BY <1>4, <2>5
    <3>2. Counts!Window(rows[h])[r] <= Counts!Window(rows'[h])[r] \/ Passed(h, r)'
      <4>0. rows[h][r] \in Nat /\ now \in Nat /\ r \in Nat
        BY <1>2, <2>1 DEF Totals
      <4>1. CASE r > now
        <5>1. \A o \in Counts!Runs : o > r => rows'[h][o] = rows[h][o]
          BY <1>4, <2>1, <4>1
        <5>2. rows[h][r] <= rows'[h][r]
          BY <3>1, <4>0
        <5> QED
          BY <1>2, <1>4, <5>1, <5>2, WindowOfNewest
      <4>2. CASE r < now
        <5>1. Counts!Window(rows'[h])[r] \in {0, rows[h][r]}
          BY <3>1, WindowShows
        <5>2. Counts!Window(rows[h])[r] \in {0, rows[h][r]} /\ rows[h][r] \in Nat
          BY <1>2, WindowShows DEF Totals
        <5> QED
          BY <4>2, <5>1, <5>2 DEF Passed
      <4> QED
        BY <2>1, <2>5, <4>1, <4>2
    <3>3. desk[h][r] <= most'[h][r] /\ counter[h][r] <= most'[h][r]
      BY <2>1, <3>1 DEF CountedOf
    <3> QED
      BY <1>5, <2>1, <2>3, <3>2, <3>3, CountedStays
  <2> QED
    BY <2>4, <2>5
<1> QED
  BY <1>5, <1>6, <1>7 DEF CountsInvariant, OneHome

LEMMA FlushesKeeps ==
  ASSUME Counts!TalliesAssumption, OneHome, CountsInvariant, NEW h \in Homes, Counts!Flushes(h)
  PROVE  CountsInvariant'
<1>1. held' = held /\ held' \in [Homes -> SUBSET (0..MaxTotal)] /\ held'[h] \in SUBSET held[h]
  BY DEF Counts!Flushes, CountsInvariant, CountsTyped
<1> QED
  BY <1>1, FlushedKeeps DEF Counts!Flushes

LEMMA EndsKeeps ==
  ASSUME Counts!TalliesAssumption, OneHome, CountsInvariant, NEW h \in Homes, Counts!Ends(h)
  PROVE  CountsInvariant'
<1>1. /\ held[h] # {} /\ UNCHANGED <<run, desk, last, counter>>
      /\ held' = [held EXCEPT ![h] = {}]
  BY DEF Counts!Ends
<1>2. held' \in [Homes -> SUBSET (0..MaxTotal)] /\ held'[h] = {}
  BY <1>1 DEF CountsInvariant, CountsTyped
<1>3. CASE Counts!Flushed(h)
  BY <1>1, <1>2, <1>3, FlushedKeeps
<1>4. CASE UNCHANGED <<rows, most>>
  <2>1. CountsTyped'
    BY <1>1, <1>2, <1>4 DEF CountsInvariant, CountsTyped
  <2>2. RowsOfHome(h)'
    BY <1>1, <1>2, <1>4 DEF CountsInvariant, RowsOfHome
  <2>3. ASSUME NEW r \in Counts!Runs PROVE CountedOf(h, r)'
    BY <1>1, <1>4 DEF CountsInvariant, CountedOf, Passed
  <2> QED
    BY <2>1, <2>2, <2>3 DEF CountsInvariant, OneHome
<1> QED
  BY <1>3, <1>4 DEF Counts!Ends

LEMMA ReportsKeeps ==
  ASSUME Counts!TalliesAssumption, OneHome, CountsInvariant, NEW h \in Homes, Counts!Reports(h)
  PROVE  CountsInvariant'
<1>1. /\ desk' = [desk EXCEPT ![h] = Counts!Window(rows[h])]
      /\ UNCHANGED <<run, held, rows, last, most, counter>>
  BY DEF Counts!Reports
<1>2. \A r \in Counts!Runs : Counts!Window(rows[h])[r] \in {0, rows[h][r]}
  BY WindowShows
<1>3. rows[h] \in Totals /\ MaxTotal \in Nat /\ DOMAIN Counts!Window(rows[h]) = Counts!Runs
  BY DEF CountsInvariant, CountsTyped, Counts!TalliesAssumption, Counts!Window
<1>4. Counts!Window(rows[h]) \in Totals
  <2>1. \A r \in Counts!Runs : Counts!Window(rows[h])[r] \in 0..MaxTotal
    BY <1>2, <1>3 DEF Totals
  <2>2. Counts!Window(rows[h]) = [r \in Counts!Runs |-> Counts!Window(rows[h])[r]]
    BY DEF Counts!Window
  <2> QED
    BY <2>1, <2>2 DEF Totals
<1>5. desk'[h] = Counts!Window(rows[h]) /\ CountsTyped'
  BY <1>1, <1>4 DEF CountsInvariant, CountsTyped
<1>6. RowsOfHome(h)'
  BY <1>1 DEF CountsInvariant, RowsOfHome
<1>7. ASSUME NEW r \in Counts!Runs PROVE CountedOf(h, r)'
  <2>1. /\ CountedOf(h, r) /\ rows[h][r] <= most[h][r]
        /\ desk'[h][r] = Counts!Window(rows[h])[r]
        /\ {rows[h][r], most[h][r], desk[h][r], last[h][r], counter[h][r],
            Counts!Window(rows[h])[r]} \subseteq Nat
    BY <1>3, <1>4, <1>5 DEF CountsInvariant, CountsTyped, RowsOfHome, Totals
  <2>2. desk'[h][r] <= most[h][r]
    BY <1>2, <2>1
  <2>3. CASE Passed(h, r)
    BY <1>1, <2>1, <2>2, <2>3 DEF CountedOf, Passed
  <2>4. CASE ~Passed(h, r)
    <3>1. desk[h][r] <= desk'[h][r] /\ counter[h][r] <= last[h][r] /\ last[h][r] <= desk[h][r]
      BY <2>1, <2>4 DEF CountedOf
    <3>2. last[h][r] <= desk'[h][r]
      BY <2>1, <3>1
    <3> QED
      BY <1>1, <2>1, <2>2, <3>1, <3>2 DEF CountedOf
  <2> QED
    BY <2>3, <2>4
<1> QED
  BY <1>5, <1>6, <1>7 DEF CountsInvariant, OneHome

\* A row adds what it gained since it was read last.
LEMMA ObservesKeeps ==
  ASSUME Counts!TalliesAssumption, OneHome, CountsInvariant, NEW h \in Homes, Counts!Observes(h)
  PROVE  CountsInvariant'
<1>1. /\ counter' = [counter EXCEPT ![h] = [r \in Counts!Runs |-> @[r] + Counts!Added(desk[h][r], last[h][r])]]
      /\ last' = [Counts!Nothing EXCEPT ![h] = desk[h]]
      /\ UNCHANGED <<run, held, rows, desk, most>>
  BY DEF Counts!Observes
<1>2. Counts!Nothing \in [Homes -> Totals] /\ MaxTotal \in Nat
  BY DEF Counts!Nothing, Totals, Counts!TalliesAssumption
<1>3. last'[h] = desk[h] /\ last' \in [Homes -> Totals]
  BY <1>1, <1>2 DEF CountsInvariant, CountsTyped
<1>4. ASSUME NEW r \in Counts!Runs
      PROVE  /\ counter'[h][r] = counter[h][r] + Counts!Added(desk[h][r], last[h][r])
             /\ {most[h][r], desk[h][r], last[h][r], counter[h][r], counter'[h][r]} \subseteq Nat
  <2>1. /\ counter'[h][r] = counter[h][r] + Counts!Added(desk[h][r], last[h][r])
        /\ {most[h][r], desk[h][r], last[h][r], counter[h][r]} \subseteq Nat
    BY <1>1, <1>2 DEF CountsInvariant, CountsTyped, Totals
  <2> QED
    BY <2>1 DEF Counts!Added
<1>5. counter' \in [Homes -> [Counts!Runs -> Nat]]
  <2>1. [r \in Counts!Runs |-> counter[h][r] + Counts!Added(desk[h][r], last[h][r])] \in [Counts!Runs -> Nat]
    <3>1. \A r \in Counts!Runs : counter[h][r] + Counts!Added(desk[h][r], last[h][r]) \in Nat
      BY <1>4
    <3> QED
      BY <3>1
  <2> QED
    BY <1>1, <2>1 DEF CountsInvariant, CountsTyped
<1>6. CountsTyped'
  BY <1>1, <1>3, <1>5 DEF CountsInvariant, CountsTyped
<1>7. RowsOfHome(h)'
  BY <1>1 DEF CountsInvariant, RowsOfHome
<1>8. ASSUME NEW r \in Counts!Runs PROVE CountedOf(h, r)'
  <2>1. CountedOf(h, r) /\ last'[h][r] = desk[h][r]
    BY <1>3 DEF CountsInvariant
  <2>2. counter'[h][r] <= desk[h][r] \/ (counter'[h][r] = counter[h][r] /\ desk[h][r] = 0 /\ Passed(h, r))
    BY <1>4, <2>1 DEF CountedOf, Counts!Added
  <2>3. desk[h][r] <= most[h][r] /\ counter[h][r] <= most[h][r]
    BY <2>1 DEF CountedOf
  <2>4. counter'[h][r] <= most[h][r]
    BY <1>4, <2>2, <2>3
  <2>5. desk[h][r] <= desk[h][r]
    BY <1>4
  <2> QED
    BY <1>1, <2>1, <2>2, <2>3, <2>4, <2>5 DEF CountedOf, Passed
<1> QED
  BY <1>6, <1>7, <1>8 DEF CountsInvariant, OneHome

LEMMA RestartKeeps ==
  ASSUME Counts!TalliesAssumption, CountsInvariant, Counts!Restart
  PROVE  CountsInvariant'
<1>1. /\ last' = Counts!Nothing /\ counter' = Counts!Nothing
      /\ UNCHANGED <<run, held, rows, desk, most>>
  BY DEF Counts!Restart
<1>2. MaxTotal \in Nat
  BY DEF Counts!TalliesAssumption
<1>3. CountsTyped'
  BY <1>1, <1>2 DEF CountsInvariant, CountsTyped, Counts!Nothing, Totals
<1>4. ASSUME NEW h \in Homes PROVE RowsOfHome(h)'
  BY <1>1 DEF CountsInvariant, RowsOfHome
<1>5. ASSUME NEW h \in Homes, NEW r \in Counts!Runs PROVE CountedOf(h, r)'
  <2>1. last'[h][r] = 0 /\ counter'[h][r] = 0
    BY <1>1 DEF Counts!Nothing
  <2>2. desk[h][r] \in Nat /\ most[h][r] \in Nat /\ CountedOf(h, r)
    BY <1>2 DEF CountsInvariant, CountsTyped, Totals
  <2> QED
    BY <1>1, <2>1, <2>2 DEF CountedOf, Passed
<1> QED
  BY <1>3, <1>4, <1>5 DEF CountsInvariant

LEMMA CountsStep ==
  ASSUME Counts!TalliesAssumption, OneHome, CountsInvariant, [Counts!Next]_(Counts!vars)
  PROVE  CountsInvariant'
<1>1. ASSUME NEW h \in Homes,
             Counts!Starts(h) \/ Counts!Adds(h) \/ Counts!Flushes(h) \/ Counts!Ends(h)
               \/ Counts!Reports(h) \/ Counts!Observes(h)
      PROVE  CountsInvariant'
  BY <1>1, StartsKeeps, AddsKeeps, FlushesKeeps, EndsKeeps, ReportsKeeps, ObservesKeeps
<1>2. CASE UNCHANGED Counts!vars
  BY <1>2 DEF Counts!vars, CountsInvariant, CountsTyped, RowsOfHome, CountedOf, Passed
<1> QED
  BY <1>1, <1>2, RestartKeeps DEF Counts!Next

\* In one namespace the counts of the containers and of the operator keep to their
\* invariant.
THEOREM CountsInductive ==
    WorkloadsAssumption /\ OneHome => (Spec => [](focus = "counts" => CountsInvariant))
<1> SUFFICES ASSUME WorkloadsAssumption, OneHome
             PROVE  Spec => [](focus = "counts" => CountsInvariant)
  OBVIOUS
<1> USE DEF WorkloadsAssumption
<1>1. Init => (focus = "counts" => CountsInvariant)
  BY CountsOnly, InitCounts
<1>2. (focus = "counts" => CountsInvariant) /\ [Next]_vars => (focus = "counts" => CountsInvariant)'
  BY CountsOnly, CountsStep
<1> QED
  BY <1>1, <1>2, PTL DEF Spec

\* metricstallies.go: where one namespace holds the name, a row that is read twice adds
\* nothing, so no run is counted beyond the total that its container flushed.
THEOREM CountedTheorem == WorkloadsAssumption /\ OneHome => (Spec => []CountedOnce)
<1>1. (focus = "counts" => CountsInvariant) => CountedOnce
  BY DEF CountsInvariant, CountedOf, CountedOnce, Counts!CountedOnce
<1> QED
  BY <1>1, CountsInductive, PTL

-----------------------------------------------------------------------------
(* NfoFacts.  A container edits the file of the moment, under the lock; and *)
(* what the ledger's hash is of is what this program left in the file,      *)
(* unless the record of an edit is still to come.                           *)

Ours == {"ours", "newer"}
Documents == [Title!Groups -> Title!Values]
Results == {"none", "found", "error", "nothing", "fight"}
Attempts == [result : Results, age : {"stands", "lapsed", "refreshed"}]
Ledgers == [Title!Runs -> [wrote : AtMostOne(Title!Values), attempt : Attempts]]
Processes ==
    [at : {"idle", "ask", "note", "lock", "write", "record", "read", "rows"},
     run : Title!Runs \cup {"none"}, doc : AtMostOne(Documents), answer : Title!Values,
     result : Results, snap : AtMostOne([nfo : Documents, ledger : Ledgers])]

Mishaps == {"dies", "refreshes", "changes", "edits", "asks", "writes", "ledgers", "catalog"}

TitleTyped ==
    /\ nfo \in Documents /\ lock \in {""} \cup Title!Containers
    /\ ledger \in Ledgers /\ holds \in [Facts -> Ours]
    /\ proc \in [Title!Containers -> Processes]
    /\ budget \in [Mishaps -> Nat]

\* A container is at work on a fact of its own, from a document that it read; it
\* writes under the lock, and from the file as it is.
Editing(c) == proc[c].at \in {"ask", "note", "lock", "write"}
Landed(c) == proc[c].at = "record" /\ proc[c].result = "found"
WorksOn(c) ==
    /\ proc[c].at # "idle" => proc[c].run \in Title!Runs /\ Title!Container(proc[c].run) = c
    /\ Editing(c) \/ Landed(c) => proc[c].doc # {}
    /\ proc[c].at = "write" => lock = c /\ proc[c].doc = {nfo}

TitleInvariant == TitleTyped /\ \A c \in Title!Containers : WorksOn(c)

LEMMA RunsDiffer ==
  ASSUME Title!NfoAssumption
  PROVE  /\ \A r \in Title!Runs : Title!Container(r) \in Title!Containers /\ Title!Group(r) \in Title!Groups
         /\ \A r, s \in Title!Runs : Title!Group(r) = Title!Group(s) => r = s
         /\ \A r \in Title!Runs : Title!Container(r) = "nfo" <=> r \in Facts
         /\ \A f \in Facts : f \in Title!Runs /\ Title!Group(f) = f
  BY DEF Title!NfoAssumption, Title!Runs, Title!Container, Title!Containers, Title!Group, Title!Groups

LEMMA InitTitle ==
  ASSUME Title!NfoAssumption, Title!Init
  PROVE  TitleInvariant
<1>1. nfo \in Documents
  BY DEF Title!Init, Documents, Title!Values
<1>2. {} \in AtMostOne(Title!Values) /\ {} \in AtMostOne(Documents)
      /\ {} \in AtMostOne([nfo : Documents, ledger : Ledgers])
  BY DEF AtMostOne
<1>3. ledger \in Ledgers
  <2>1. [wrote |-> {}, attempt |-> Title!Never] \in [wrote : AtMostOne(Title!Values), attempt : Attempts]
    BY <1>2 DEF Title!Never, Attempts, Results
  <2> QED
    BY <2>1 DEF Title!Init, Ledgers
<1>4. Title!Idle \in Processes /\ Title!Idle.at = "idle"
  BY <1>2 DEF Title!Idle, Processes, Results, Title!Values
<1>5. proc = [c \in Title!Containers |-> Title!Idle]
  BY DEF Title!Init
<1>6. TitleTyped
  BY <1>1, <1>3, <1>4, <1>5 DEF Title!Init, TitleTyped, Title!NfoAssumption, Ours, Mishaps
<1> QED
  BY <1>4, <1>5, <1>6 DEF TitleInvariant, WorksOn, Editing, Landed

\* A container goes on with what it holds, or from the beginning; the file, the lock and
\* the ledger are as they were.
LEMMA MovesKeeps ==
  ASSUME TitleInvariant, NEW c \in Title!Containers, NEW p \in Processes,
         proc' = [proc EXCEPT ![c] = p], UNCHANGED <<nfo, ledger, holds>>,
         lock' \in {""} \cup Title!Containers, \A d \in Title!Containers : d # c /\ lock = d => lock' = d,
         budget' \in [Mishaps -> Nat],
         p.at # "idle" => p.run \in Title!Runs /\ Title!Container(p.run) = c,
         p.at \in {"ask", "note", "lock", "write"} \/ (p.at = "record" /\ p.result = "found") => p.doc # {},
         p.at = "write" => lock' = c /\ p.doc = {nfo}
  PROVE  TitleInvariant'
<1>1. proc' \in [Title!Containers -> Processes] /\ proc'[c] = p
      /\ \A d \in Title!Containers : d # c => proc'[d] = proc[d]
  BY DEF TitleInvariant, TitleTyped
<1>2. TitleTyped'
  BY <1>1 DEF TitleInvariant, TitleTyped
<1>3. ASSUME NEW d \in Title!Containers PROVE WorksOn(d)'
  <2>1. CASE d = c
    BY <1>1, <2>1 DEF WorksOn, Editing, Landed
  <2>2. CASE d # c
    BY <1>1, <2>2 DEF TitleInvariant, WorksOn, Editing, Landed
  <2> QED
    BY <2>1, <2>2
<1> QED
  BY <1>2, <1>3 DEF TitleInvariant

\* A mishap is spent.
LEMMA SpentIsTyped ==
  ASSUME TitleInvariant, NEW kind \in Mishaps, Title!Spend(kind)
  PROVE  /\ budget' \in [Mishaps -> Nat] /\ budget[kind] > 0 /\ budget'[kind] # budget[kind]
         /\ \A other \in Mishaps : other # kind => budget'[other] = budget[other]
<1>1. budget \in [Mishaps -> Nat] /\ budget[kind] > 0 /\ budget' = [budget EXCEPT ![kind] = budget[kind] - 1]
  BY DEF Title!Spend, TitleInvariant, TitleTyped
<1>2. budget[kind] - 1 \in Nat /\ budget[kind] - 1 # budget[kind]
  BY <1>1
<1> QED
  BY <1>1, <1>2

LEMMA WorkOf ==
  ASSUME TitleInvariant, NEW c \in Title!Containers
  PROVE  /\ WorksOn(c) /\ proc[c] \in Processes /\ nfo \in Documents /\ ledger \in Ledgers
         /\ holds \in [Facts -> Ours] /\ lock \in {""} \cup Title!Containers /\ budget \in [Mishaps -> Nat]
  BY DEF TitleInvariant, TitleTyped

\* The folder is what a container reads of the file and the ledger.
LEMMA FolderIsTyped ==
  ASSUME TitleInvariant
  PROVE  /\ {Title!Folder} \in AtMostOne([nfo : Documents, ledger : Ledgers])
         /\ {nfo} \in AtMostOne(Documents) /\ Title!Idle \in Processes /\ Title!Idle.at = "idle"
<1>1. {} \in AtMostOne(Documents) /\ {} \in AtMostOne([nfo : Documents, ledger : Ledgers])
  BY DEF AtMostOne
<1>2. Title!Idle \in Processes /\ Title!Idle.at = "idle"
  BY <1>1 DEF Title!Idle, Processes, Results, Title!Values
<1>3. [nfo |-> nfo, ledger |-> ledger] \in [nfo : Documents, ledger : Ledgers]
  BY DEF TitleInvariant, TitleTyped
<1>4. {nfo} \in AtMostOne(Documents) /\ {Title!Folder} \in AtMostOne([nfo : Documents, ledger : Ledgers])
  BY <1>3 DEF AtMostOne, TitleInvariant, TitleTyped, Title!Folder
<1> QED
  BY <1>2, <1>4

LEMMA TakeKeeps ==
  ASSUME Title!NfoAssumption, TitleInvariant, NEW r \in Title!Runs, Title!Take(r)
  PROVE  TitleInvariant'
<1> DEFINE c == Title!Container(r)
           fought == [Title!Idle EXCEPT !.at = "record", !.run = r, !.result = "fight"]
           asks == [Title!Idle EXCEPT !.at = "ask", !.run = r, !.doc = {nfo}]
           p == IF r \in Facts /\ Title!Fought(r) THEN fought ELSE asks
<1>1. proc' = [proc EXCEPT ![c] = p] /\ UNCHANGED <<nfo, lock, ledger, holds, budget>>
  BY DEF Title!Take
<1>2. c \in Title!Containers
  BY RunsDiffer
<1>3. fought \in Processes /\ fought.at = "record" /\ fought.run = r /\ fought.result = "fight"
  BY FolderIsTyped DEF Processes, Results
<1>4. asks \in Processes /\ asks.at = "ask" /\ asks.run = r /\ asks.doc = {nfo}
  BY FolderIsTyped DEF Processes
<1>5. /\ p \in Processes /\ p.run = r /\ p.at \in {"record", "ask"}
      /\ p.at = "ask" => p.doc # {}
      /\ p.at = "record" => p.result = "fight"
  BY <1>3, <1>4
<1> HIDE DEF p
<1>6. budget' \in [Mishaps -> Nat] /\ lock' \in {""} \cup Title!Containers
  BY <1>1 DEF TitleInvariant, TitleTyped
<1> QED
  BY <1>1, <1>2, <1>5, <1>6, MovesKeeps

\* The steps that leave the file and the ledger alone.
LEMMA MovesOn ==
  ASSUME Title!NfoAssumption, TitleInvariant, NEW c \in Title!Containers,
         \/ Title!Ask(c) \/ Title!AskFails(c) \/ Title!Lock(c) \/ Title!WriteFails(c)
         \/ Title!RecordFails(c) \/ Title!Read(c) \/ Title!WriteRows(c) \/ Title!RowsFail(c)
  PROVE  TitleInvariant'
<1> USE WorkOf
<1>1. /\ UNCHANGED <<nfo, ledger, holds>> /\ budget' \in [Mishaps -> Nat]
  <2>1. UNCHANGED <<nfo, ledger, holds>>
    BY DEF Title!Ask, Title!AskFails, Title!Lock, Title!WriteFails, Title!RecordFails, Title!Read,
       Title!WriteRows, Title!RowsFail
  <2>2. \/ budget' = budget
        \/ \E kind \in Mishaps : Title!Spend(kind)
    BY DEF Title!Ask, Title!AskFails, Title!Lock, Title!WriteFails, Title!RecordFails, Title!Read,
       Title!WriteRows, Title!RowsFail, Mishaps
  <2> QED
    BY <2>1, <2>2, SpentIsTyped
<1>2. CASE Title!Ask(c)
  <2> DEFINE p == [proc[c] EXCEPT !.at = IF c = "probe" THEN "note" ELSE "lock",
                                  !.answer = Title!Answer(proc[c].run)]
  <2>1. proc[c].at = "ask" /\ proc' = [proc EXCEPT ![c] = p] /\ lock' = lock
    BY <1>2 DEF Title!Ask, TitleInvariant, TitleTyped
  <2>2. Title!Answer(proc[c].run) \in Title!Values
    <3>1. WorksOn(c) /\ proc[c].run \in Title!Runs /\ holds \in [Facts -> Ours]
      BY <2>1 DEF WorksOn
    <3>2. ASSUME NEW r \in Title!Runs, holds \in [Facts -> Ours] PROVE Title!Answer(r) \in Title!Values
      <4>1. CASE r \in Facts
        <5>1. holds[r] \in Ours /\ Title!Answer(r) = holds[r]
          BY <3>2, <4>1 DEF Title!Answer, Title!NfoAssumption
        <5> QED
          BY <5>1 DEF Ours, Title!Values
      <4>2. CASE r \in {"probe", "identity"}
        BY <4>2 DEF Title!Answer, Title!Values
      <4> QED
        BY <4>1, <4>2 DEF Title!Runs
    <3> QED
      BY <3>1, <3>2
  <2>3. /\ p \in Processes /\ p.run = proc[c].run /\ p.doc = proc[c].doc /\ p.at \in {"note", "lock"}
    BY <2>2 DEF Processes
  <2>4. p.doc # {} /\ p.run \in Title!Runs /\ Title!Container(p.run) = c
    BY <2>1, <2>3 DEF WorksOn, Editing
  <2> HIDE DEF p
  <2> QED
    BY <1>1, <2>1, <2>3, <2>4, MovesKeeps
<1>3. CASE Title!AskFails(c) \/ Title!WriteFails(c)
  <2>1. PICK result \in {"error", "nothing"} : Title!Fails(c, result)
    BY <1>3 DEF Title!AskFails, Title!WriteFails
  <2> DEFINE p == [proc[c] EXCEPT !.at = "record", !.result = result]
  <2>2. proc' = [proc EXCEPT ![c] = p]
    BY <2>1 DEF Title!Fails, TitleInvariant, TitleTyped
  <2>3. p \in Processes /\ p.at = "record" /\ p.run = proc[c].run /\ p.result = result
    BY <2>1 DEF Processes, Results
  <2>4. proc[c].at # "idle"
    BY <1>3 DEF Title!AskFails, Title!WriteFails
  <2>5. p.run \in Title!Runs /\ Title!Container(p.run) = c
    BY <2>3, <2>4 DEF WorksOn
  <2>6. lock' \in {lock, IF lock = c THEN "" ELSE lock}
    BY <1>3 DEF Title!AskFails, Title!WriteFails, Title!Releases
  <2> HIDE DEF p
  <2> QED
    BY <1>1, <2>2, <2>3, <2>5, <2>6, MovesKeeps
<1>4. CASE Title!Lock(c)
  <2> DEFINE p == [proc[c] EXCEPT !.at = "write", !.doc = {nfo}]
  <2>1. proc[c].at = "lock" /\ proc' = [proc EXCEPT ![c] = p] /\ lock = "" /\ lock' = c
    BY <1>4 DEF Title!Lock, TitleInvariant, TitleTyped
  <2>2. p \in Processes /\ p.at = "write" /\ p.run = proc[c].run /\ p.doc = {nfo}
    BY FolderIsTyped DEF Processes
  <2>3. p.run \in Title!Runs /\ Title!Container(p.run) = c
    BY <2>1, <2>2 DEF WorksOn
  <2>4. \A d \in Title!Containers : lock # d
    BY <2>1 DEF Title!Containers
  <2> HIDE DEF p
  <2> QED
    BY <1>1, <2>1, <2>2, <2>3, <2>4, MovesKeeps
<1>5. CASE Title!RecordFails(c) \/ Title!Read(c)
  <2>1. proc[c].at \in {"record", "read"} /\ lock' = lock
    BY <1>5 DEF Title!RecordFails, Title!Read
  <2>2. PICK p \in Processes : /\ p.at \in {"read", "rows"} /\ p.run = proc[c].run
                              /\ proc' = [proc EXCEPT ![c] = p]
    <3>1. CASE Title!RecordFails(c)
      <4> DEFINE q == [proc[c] EXCEPT !.at = "read"]
      <4>1. proc' = [proc EXCEPT ![c] = q]
        BY <3>1 DEF Title!RecordFails, Title!Goes, TitleInvariant, TitleTyped
      <4>2. q \in Processes /\ q.at = "read" /\ q.run = proc[c].run
        BY DEF Processes
      <4> HIDE DEF q
      <4> QED
        BY <4>1, <4>2
    <3>2. CASE Title!Read(c)
      <4> DEFINE q == [proc[c] EXCEPT !.at = "rows", !.snap = {Title!Folder}]
      <4>1. proc' = [proc EXCEPT ![c] = q]
        BY <3>2 DEF Title!Read, TitleInvariant, TitleTyped
      <4>2. q \in Processes /\ q.at = "rows" /\ q.run = proc[c].run
        BY FolderIsTyped DEF Processes
      <4> HIDE DEF q
      <4> QED
        BY <4>1, <4>2
    <3> QED
      BY <1>5, <3>1, <3>2
  <2>3. p.run \in Title!Runs /\ Title!Container(p.run) = c
    BY <2>1, <2>2 DEF WorksOn
  <2> QED
    BY <1>1, <2>1, <2>2, <2>3, MovesKeeps
<1>6. CASE Title!WriteRows(c) \/ Title!RowsFail(c)
  <2>1. proc' = [proc EXCEPT ![c] = Title!Idle] /\ lock' = (IF lock = c THEN "" ELSE lock)
    BY <1>6 DEF Title!WriteRows, Title!RowsFail, Title!Releases
  <2> QED
    BY <1>1, <2>1, FolderIsTyped, MovesKeeps
<1> QED
  BY <1>2, <1>3, <1>4, <1>5, <1>6


\* The ledger changes, and no container's place.
LEMMA LedgerKeeps ==
  ASSUME TitleInvariant, ledger' \in Ledgers, UNCHANGED <<nfo, lock, holds, proc>>,
         budget' \in [Mishaps -> Nat]
  PROVE  TitleInvariant'
BY DEF TitleInvariant, TitleTyped, WorksOn, Editing, Landed

\* An edit is of the file as it is: one group of it changes.
LEMMA EditOf ==
  ASSUME Title!NfoAssumption, TitleInvariant, NEW c \in Title!Containers, Title!Write(c)
  PROVE  /\ proc[c].run \in Title!Runs /\ Title!Container(proc[c].run) = c
         /\ nfo' = [nfo EXCEPT ![Title!Group(proc[c].run)] = proc[c].answer] /\ nfo' \in Documents
         /\ proc' = [proc EXCEPT ![c] = [proc[c] EXCEPT !.at = "record", !.result = "found"]]
         /\ lock = c /\ lock' \in {"", c} /\ proc[c].doc = {nfo}
         /\ UNCHANGED <<ledger, holds, budget>>
<1>1. proc[c].at = "write" /\ UNCHANGED <<ledger, holds, budget>>
  BY DEF Title!Write
<1>2. proc[c].run \in Title!Runs /\ Title!Container(proc[c].run) = c /\ lock = c /\ proc[c].doc = {nfo}
  BY <1>1, WorkOf DEF WorksOn
<1>3. Title!The({nfo}) = nfo
  BY DEF Title!The
<1>4. nfo' = [nfo EXCEPT ![Title!Group(proc[c].run)] = proc[c].answer]
  BY <1>2, <1>3 DEF Title!Write, Title!Edited
<1>5. nfo \in Documents /\ proc[c].answer \in Title!Values
  BY WorkOf DEF Processes
<1>6. nfo' \in Documents
  BY <1>4, <1>5 DEF Documents
<1>7. lock' \in {"", c}
  BY <1>2 DEF Title!Write, Title!Releases
<1>8. proc' = [proc EXCEPT ![c] = [proc[c] EXCEPT !.at = "record", !.result = "found"]]
  BY DEF Title!Write, Title!Fails, TitleInvariant, TitleTyped
<1> QED
  BY <1>1, <1>2, <1>4, <1>6, <1>7, <1>8

LEMMA WriteKeeps ==
  ASSUME Title!NfoAssumption, TitleInvariant, NEW c \in Title!Containers, Title!Write(c)
  PROVE  TitleInvariant'
<1> DEFINE p == [proc[c] EXCEPT !.at = "record", !.result = "found"]
<1> USE EditOf
<1>1. p \in Processes /\ p.at = "record" /\ p.run = proc[c].run /\ p.doc = proc[c].doc
  BY WorkOf DEF Processes, Results
<1>2. proc' = [proc EXCEPT ![c] = p]
  OBVIOUS
<1> HIDE DEF p
<1>3. proc' \in [Title!Containers -> Processes] /\ proc'[c] = p
      /\ \A d \in Title!Containers : d # c => proc'[d] = proc[d]
  BY <1>1, <1>2 DEF TitleInvariant, TitleTyped
<1>4. TitleTyped'
  BY <1>3 DEF TitleInvariant, TitleTyped
<1>5. ASSUME NEW d \in Title!Containers PROVE WorksOn(d)'
  <2>1. CASE d = c
    BY <1>1, <1>3, <2>1 DEF WorksOn, Editing, Landed
  <2>2. CASE d # c
    <3>1. WorksOn(d) /\ proc'[d] = proc[d] /\ proc[d].at # "write"
      BY <2>2, <1>3, WorkOf DEF WorksOn
    <3> QED
      BY <3>1 DEF WorksOn, Editing, Landed
  <2> QED
    BY <2>1, <2>2
<1> QED
  BY <1>4, <1>5 DEF TitleInvariant

\* A container goes on after a record.
LEMMA GoesKeeps ==
  ASSUME TitleInvariant, NEW c \in Title!Containers, ledger' \in Ledgers,
         \/ proc[c].at = "note" /\ Title!Goes(c, "lock")
         \/ proc[c].at = "record" /\ Title!Goes(c, "read"),
         UNCHANGED <<nfo, lock, holds, budget>>
  PROVE  TitleInvariant'
<1>1. PICK to \in {"lock", "read"} : /\ proc' = [proc EXCEPT ![c].at = to]
                                     /\ to = "lock" => proc[c].at = "note"
                                     /\ proc[c].at # "idle"
  BY DEF Title!Goes
<1> DEFINE p == [proc[c] EXCEPT !.at = to]
<1>2. proc' = [proc EXCEPT ![c] = p]
  BY <1>1 DEF TitleInvariant, TitleTyped
<1>3. p \in Processes /\ p.at = to /\ p.run = proc[c].run /\ p.doc = proc[c].doc
  BY WorkOf DEF Processes
<1> HIDE DEF p
<1>4. proc' \in [Title!Containers -> Processes] /\ proc'[c] = p
      /\ \A d \in Title!Containers : d # c => proc'[d] = proc[d]
  BY <1>2, <1>3 DEF TitleInvariant, TitleTyped
<1>5. TitleTyped'
  BY <1>4 DEF TitleInvariant, TitleTyped
<1>6. WorksOn(c)'
  BY <1>1, <1>3, <1>4, WorkOf DEF WorksOn, Editing, Landed
<1>7. ASSUME NEW d \in Title!Containers, d # c PROVE WorksOn(d)'
  BY <1>4, <1>7, WorkOf DEF WorksOn, Editing, Landed
<1> QED
  BY <1>5, <1>6, <1>7 DEF TitleInvariant

\* What a record leaves in the ledger: the value that the edit was of, and the attempt.
LEMMA EntryOf ==
  ASSUME Title!NfoAssumption, TitleInvariant, NEW c \in Title!Containers, proc[c].at = "record"
  PROVE  /\ proc[c].run \in Title!Runs /\ Title!Container(proc[c].run) = c
         /\ Title!Entry(c) \in [wrote : AtMostOne(Title!Values), attempt : Attempts]
         /\ Title!Entry(c).attempt.result = proc[c].result
         /\ Title!Entry(c).wrote = IF proc[c].run \in Facts /\ proc[c].result = "found"
                                   THEN {proc[c].answer} ELSE ledger[proc[c].run].wrote
<1> DEFINE g == Title!Group(proc[c].run)
<1>1. proc[c].run \in Title!Runs /\ Title!Container(proc[c].run) = c /\ g \in Title!Groups
  BY WorkOf, RunsDiffer DEF WorksOn
<1>2. proc[c] \in Processes /\ proc[c].answer \in Title!Values /\ proc[c].result \in Results
  BY WorkOf DEF Processes
<1>3. ASSUME proc[c].result = "found" PROVE Title!Hash(c) = {proc[c].answer}
  <2>1. proc[c].doc # {} /\ proc[c].doc \in AtMostOne(Documents)
    BY <1>2, <1>3, WorkOf DEF WorksOn, Landed, Processes
  <2>2. Title!The(proc[c].doc) \in Documents
    BY <2>1 DEF AtMostOne, Title!The
  <2>3. [Title!The(proc[c].doc) EXCEPT ![g] = proc[c].answer][g] = proc[c].answer
    BY <1>1, <2>2 DEF Documents
  <2> QED
    BY <2>3 DEF Title!Hash, Title!Edited
<1>4. /\ Title!Entry(c).attempt = Title!Made(proc[c].result)
      /\ Title!Entry(c).wrote = IF proc[c].run \in Facts /\ proc[c].result = "found"
                                THEN {proc[c].answer} ELSE ledger[proc[c].run].wrote
  BY <1>3 DEF Title!Entry
<1>5. Title!Made(proc[c].result) \in Attempts /\ Title!Made(proc[c].result).result = proc[c].result
  BY <1>2 DEF Title!Made, Attempts
<1>6. ledger[proc[c].run].wrote \in AtMostOne(Title!Values) /\ {proc[c].answer} \in AtMostOne(Title!Values)
  <2>1. ledger[proc[c].run] \in [wrote : AtMostOne(Title!Values), attempt : Attempts]
    BY <1>1, WorkOf DEF Ledgers
  <2> QED
    BY <1>2, <2>1 DEF AtMostOne
<1>7. Title!Entry(c) = [wrote |-> Title!Entry(c).wrote, attempt |-> Title!Entry(c).attempt]
  BY DEF Title!Entry
<1> QED
  BY <1>1, <1>4, <1>5, <1>6, <1>7

LEMMA RecordKeeps ==
  ASSUME Title!NfoAssumption, TitleInvariant, NEW c \in Title!Containers, Title!Record(c)
  PROVE  TitleInvariant'
<1>1. proc[c].at = "record" /\ Title!Goes(c, "read") /\ UNCHANGED <<nfo, lock, holds, budget>>
      /\ ledger' = [ledger EXCEPT ![proc[c].run] = Title!Entry(c)]
  BY DEF Title!Record
<1>2. ledger' \in Ledgers
  BY <1>1, EntryOf, WorkOf DEF Ledgers
<1> QED
  BY <1>1, <1>2, GoesKeeps

LEMMA NoteKeeps ==
  ASSUME Title!NfoAssumption, TitleInvariant, Title!NoteProbe
  PROVE  TitleInvariant'
<1>1. proc["probe"].at = "note" /\ Title!Goes("probe", "lock") /\ UNCHANGED <<nfo, lock, holds, budget>>
      /\ ledger' = [ledger EXCEPT !["probe"].wrote = {proc["probe"].answer}]
  BY DEF Title!NoteProbe
<1>2. "probe" \in Title!Containers /\ "probe" \in Title!Runs
  BY DEF Title!Containers, Title!Runs
<1>3. proc["probe"].answer \in Title!Values
  BY <1>2, WorkOf DEF Processes
<1>4. {proc["probe"].answer} \in AtMostOne(Title!Values)
  BY <1>3 DEF AtMostOne
<1>5. ledger' \in Ledgers
  BY <1>1, <1>2, <1>4, WorkOf DEF Ledgers
<1> QED
  BY <1>1, <1>2, <1>5, GoesKeeps

LEMMA AgedKeeps ==
  ASSUME Title!NfoAssumption, TitleInvariant, NEW r \in Title!Runs,
         Title!TimePasses(r) \/ (r \in Facts /\ Title!Refresh(r))
  PROVE  TitleInvariant'
<1>1. PICK age \in {"lapsed", "refreshed"} : ledger' = [ledger EXCEPT ![r].attempt.age = age]
  <2>1. Title!Aged(r, "lapsed") \/ Title!Aged(r, "refreshed")
    BY DEF Title!TimePasses, Title!Refresh
  <2> QED
    BY <2>1 DEF Title!Aged
<1>2. ledger' \in Ledgers
  BY <1>1 DEF Ledgers, Attempts, TitleInvariant, TitleTyped
<1>3. UNCHANGED <<nfo, lock, holds, proc>>
  BY DEF Title!TimePasses, Title!Refresh
<1>4. budget' = budget \/ Title!Spend("refreshes")
  BY DEF Title!TimePasses, Title!Refresh
<1>5. budget' \in [Mishaps -> Nat]
  BY <1>4, SpentIsTyped DEF Mishaps, TitleInvariant, TitleTyped
<1> QED
  BY <1>2, <1>3, <1>5, LedgerKeeps

LEMMA OthersKeep ==
  ASSUME Title!NfoAssumption, TitleInvariant,
         \/ \E f \in Facts : Title!AnswerChanges(f)
         \/ \E g \in Title!Groups : Title!OtherEdits(g)
  PROVE  TitleInvariant'
<1>1. ASSUME NEW f \in Facts, Title!AnswerChanges(f) PROVE TitleInvariant'
  <2>1. holds' = [holds EXCEPT ![f] = "newer"] /\ UNCHANGED <<nfo, lock, ledger, proc>>
        /\ Title!Spend("changes")
    BY <1>1 DEF Title!AnswerChanges
  <2>2. holds' \in [Facts -> Ours]
    BY <2>1 DEF Ours, TitleInvariant, TitleTyped
  <2>3. budget' \in [Mishaps -> Nat]
    BY <2>1, SpentIsTyped DEF Mishaps
  <2> QED
    BY <2>1, <2>2, <2>3 DEF TitleInvariant, TitleTyped, WorksOn, Editing, Landed
<1>2. ASSUME NEW g \in Title!Groups, Title!OtherEdits(g) PROVE TitleInvariant'
  <2>1. PICK value \in {"none", "theirs"} : nfo' = [nfo EXCEPT ![g] = value]
    BY <1>2 DEF Title!OtherEdits
  <2>2. UNCHANGED <<lock, ledger, holds, proc>> /\ Title!Spend("edits")
        /\ \A c \in Title!Containers : proc[c].at # "write"
    BY <1>2 DEF Title!OtherEdits
  <2>3. nfo' \in Documents
    BY <2>1 DEF Documents, Title!Values, TitleInvariant, TitleTyped
  <2>4. budget' \in [Mishaps -> Nat]
    BY <2>2, SpentIsTyped DEF Mishaps
  <2> QED
    BY <2>2, <2>3, <2>4 DEF TitleInvariant, TitleTyped, WorksOn, Editing, Landed
<1> QED
  BY <1>1, <1>2

LEMMA JobKeeps ==
  ASSUME Title!NfoAssumption, TitleInvariant,
         \/ Title!StartJob \/ Title!WalkReads \/ Title!WalkFlushes \/ Title!JobEnds
         \/ Title!JobDies \/ Title!DaySpent
  PROVE  TitleInvariant'
<1>1. CASE Title!StartJob \/ Title!WalkReads \/ Title!WalkFlushes \/ Title!JobEnds
  <2>1. UNCHANGED <<nfo, lock, ledger, holds, proc, budget>>
    BY <1>1 DEF Title!StartJob, Title!WalkReads, Title!WalkFlushes, Title!JobEnds
  <2> QED
    BY <2>1 DEF TitleInvariant, TitleTyped, WorksOn, Editing, Landed
<1>2. CASE Title!JobDies
  <2>1. proc' = [c \in Title!Containers |-> Title!Idle] /\ lock' = "" /\ UNCHANGED <<nfo, ledger, holds>>
        /\ Title!Spend("dies")
    BY <1>2 DEF Title!JobDies
  <2>2. budget' \in [Mishaps -> Nat]
    BY <2>1, SpentIsTyped DEF Mishaps
  <2>3. TitleTyped'
    BY <2>1, <2>2, FolderIsTyped DEF TitleInvariant, TitleTyped
  <2>4. ASSUME NEW c \in Title!Containers PROVE WorksOn(c)'
    BY <2>1, FolderIsTyped DEF WorksOn, Editing, Landed
  <2> QED
    BY <2>3, <2>4 DEF TitleInvariant
<1>3. CASE Title!DaySpent
  <2>1. proc' = [proc EXCEPT !["nfo"] = Title!Idle] /\ UNCHANGED <<nfo, lock, ledger, holds>>
        /\ Title!Spend("asks") /\ "nfo" \in Title!Containers
    BY <1>3 DEF Title!DaySpent, Title!Containers
  <2>2. budget' \in [Mishaps -> Nat] /\ lock' \in {""} \cup Title!Containers
    BY <2>1, SpentIsTyped, WorkOf DEF Mishaps
  <2> QED
    BY <2>1, <2>2, FolderIsTyped, MovesKeeps
<1> QED
  BY <1>1, <1>2, <1>3

\* The containers take turns at the file, whatever happens beside them.
LEMMA TitleStep ==
  ASSUME Title!NfoAssumption, TitleInvariant, [Title!Next]_(Title!vars)
  PROVE  TitleInvariant'
<1>1. CASE UNCHANGED Title!vars
  BY <1>1 DEF Title!vars, TitleInvariant, TitleTyped, WorksOn, Editing, Landed
<1>2. CASE Title!StartJob \/ Title!WalkReads \/ Title!WalkFlushes \/ Title!JobEnds
           \/ Title!JobDies \/ Title!DaySpent
  BY <1>2, JobKeeps
<1>3. CASE \E r \in Title!Runs : Title!TimePasses(r) \/ Title!Take(r)
  BY <1>3, AgedKeeps, TakeKeeps
<1>4. ASSUME NEW f \in Facts, Title!Refresh(f) PROVE TitleInvariant'
  BY <1>4, AgedKeeps, RunsDiffer
<1>5. CASE (\E f \in Facts : Title!AnswerChanges(f)) \/ (\E g \in Title!Groups : Title!OtherEdits(g))
  BY <1>5, OthersKeep
<1>6. CASE Title!NoteProbe
  BY <1>6, NoteKeeps
<1>7. ASSUME NEW c \in Title!Containers, Title!Works(c) \/ Title!Mishap(c) PROVE TitleInvariant'
  BY <1>7, MovesOn, WriteKeeps, RecordKeeps DEF Title!Works, Title!Mishap
<1> QED
  BY <1>1, <1>2, <1>3, <1>4, <1>5, <1>6, <1>7 DEF Title!Next

\* Every behaviour keeps the containers in their turns at the file.
THEOREM TitleInductive == WorkloadsAssumption => (Spec => [](focus = "title" => TitleInvariant))
<1> SUFFICES ASSUME WorkloadsAssumption PROVE Spec => [](focus = "title" => TitleInvariant)
  OBVIOUS
<1> USE DEF WorkloadsAssumption
<1>1. Init => (focus = "title" => TitleInvariant)
  BY TitleOnly, InitTitle
<1>2. (focus = "title" => TitleInvariant) /\ [Next]_vars => (focus = "title" => TitleInvariant)'
  BY TitleOnly, TitleStep
<1> QED
  BY <1>1, <1>2, PTL DEF Spec

LEMMA TitleIsTyped ==
  ASSUME Title!NfoAssumption, TitleInvariant
  PROVE  Title!TypeOK
<1>1. nfo \in [Title!Groups -> Title!Values] /\ lock \in {""} \cup Title!Containers
  BY DEF TitleInvariant, TitleTyped, Documents
<1>2. ASSUME NEW r \in Title!Runs
      PROVE  ledger[r].wrote \subseteq Title!Values /\ Title!Cardinality(ledger[r].wrote) <= 1
  <2>1. ledger[r].wrote \in AtMostOne(Title!Values)
    BY DEF TitleInvariant, TitleTyped, Ledgers
  <2>2. Title!Cardinality(ledger[r].wrote) = Cardinality(ledger[r].wrote)
    BY DEF Title!Cardinality, Cardinality
  <2> QED
    BY <2>1, <2>2, AtMostOneCounts
<1>3. ASSUME NEW c \in Title!Containers
      PROVE  proc[c].at \in {"idle", "ask", "note", "lock", "write", "record", "read", "rows"}
  BY WorkOf DEF Processes
<1> QED
  BY <1>1, <1>2, <1>3 DEF Title!TypeOK

\* The types of a title: NfoFacts!TypeOK.
THEOREM TitleTypes == WorkloadsAssumption => (Spec => [](focus = "title" => Title!TypeOK))
<1> SUFFICES ASSUME WorkloadsAssumption PROVE Spec => [](focus = "title" => Title!TypeOK)
  OBVIOUS
<1>1. Spec => [](focus = "title" => TitleInvariant)
  BY TitleInductive
<1>2. TitleInvariant => Title!TypeOK
  BY TitleIsTyped DEF WorkloadsAssumption
<1> QED
  BY <1>1, <1>2, PTL

LEMMA EditStep ==
  ASSUME Title!NfoAssumption, TitleInvariant, [Title!Next]_(Title!vars)
  PROVE  Title!EditKeepsTheRest
<1>1. CASE nfo' = nfo
  BY <1>1 DEF Title!EditKeepsTheRest
<1>2. ASSUME NEW g \in Title!Groups, Title!OtherEdits(g) PROVE Title!EditKeepsTheRest
  <2>1. Title!Spend("edits")
    BY <1>2 DEF Title!OtherEdits
  <2>2. budget'.edits # budget.edits
    BY <2>1, SpentIsTyped DEF Mishaps
  <2> QED
    BY <2>2 DEF Title!EditKeepsTheRest
<1>3. ASSUME NEW c \in Title!Containers, Title!Write(c) PROVE Title!EditKeepsTheRest
  <2>1. /\ proc[c].run \in Title!Runs /\ Title!Container(proc[c].run) = c
        /\ nfo' = [nfo EXCEPT ![Title!Group(proc[c].run)] = proc[c].answer]
        /\ proc' = [proc EXCEPT ![c] = [proc[c] EXCEPT !.at = "record", !.result = "found"]]
    BY <1>3, EditOf
  <2>2. proc'[c].result = "found"
    BY <2>1 DEF TitleInvariant, TitleTyped, Processes
  <2>3. ASSUME NEW r \in Title!Runs, nfo'[Title!Group(r)] # nfo[Title!Group(r)]
        PROVE  proc[c].run = r
    <3>1. Title!Group(r) = Title!Group(proc[c].run)
      BY <2>1, <2>3, RunsDiffer DEF TitleInvariant, TitleTyped, Documents
    <3> QED
      BY <2>1, <3>1, RunsDiffer
  <2> QED
    BY <2>1, <2>2, <2>3 DEF Title!EditKeepsTheRest
<1>4. \/ nfo' = nfo
      \/ \E g \in Title!Groups : Title!OtherEdits(g)
      \/ \E c \in Title!Containers : Title!Write(c)
  <2>1. CASE UNCHANGED Title!vars
    BY <2>1 DEF Title!vars
  <2>2. CASE Title!StartJob \/ Title!WalkReads \/ Title!WalkFlushes \/ Title!JobEnds \/ Title!JobDies
    BY <2>2 DEF Title!StartJob, Title!WalkReads, Title!WalkFlushes, Title!JobEnds, Title!JobDies
  <2>3. CASE \E r \in Title!Runs : Title!TimePasses(r) \/ Title!Take(r)
    BY <2>3 DEF Title!TimePasses, Title!Take
  <2>4. CASE \E f \in Facts : Title!Refresh(f) \/ Title!AnswerChanges(f)
    BY <2>4 DEF Title!Refresh, Title!AnswerChanges
  <2>5. CASE Title!NoteProbe \/ Title!DaySpent
    BY <2>5 DEF Title!NoteProbe, Title!DaySpent
  <2>6. ASSUME NEW c \in Title!Containers, Title!Mishap(c) PROVE nfo' = nfo
    BY <2>6 DEF Title!Mishap, Title!AskFails, Title!WriteFails, Title!RecordFails, Title!RowsFail
  <2>7. ASSUME NEW c \in Title!Containers, Title!Works(c) PROVE nfo' = nfo \/ Title!Write(c)
    BY <2>7 DEF Title!Works, Title!Ask, Title!Lock, Title!Record, Title!Read, Title!WriteRows
  <2> QED
    BY <2>1, <2>2, <2>3, <2>4, <2>5, <2>6, <2>7 DEF Title!Next
<1> QED
  BY <1>1, <1>2, <1>3, <1>4

\* No edit loses another: what a container changes of the file is the group of its own
\* fact, however the edits of the three interleave: NfoFacts!EditKeepsTheRest.
THEOREM EditTheorem == WorkloadsAssumption => (Spec => EditKeepsTheRest)
<1> SUFFICES ASSUME WorkloadsAssumption PROVE Spec => EditKeepsTheRest
  OBVIOUS
<1>1. Spec => [](focus = "title" => TitleInvariant)
  BY TitleInductive
<1>2. (focus = "title" => TitleInvariant) /\ (focus = "title" => TitleInvariant)' /\ [Next]_vars
      => [focus = "title" => Title!EditKeepsTheRest]_vars
  <2> SUFFICES ASSUME TitleInvariant, Next, focus = "title" PROVE Title!EditKeepsTheRest
    OBVIOUS
  <2>1. Title!Next
    BY DEF Next, OfTitle, OfReport, OfCounts, OfStand, OfTemplate, About
  <2> QED
    BY <2>1, EditStep DEF WorkloadsAssumption
<1> QED
  BY <1>1, <1>2, PTL DEF Spec, EditKeepsTheRest

-----------------------------------------------------------------------------
(* A recorded fight is a file that another writer holds, where the answers  *)
(* of the providers do not change, or every record of an edit gets to the   *)
(* ledger.                                                                  *)

\* The edit of a fact is in the file, and its record is to come.
Writing(f) == proc["nfo"].run = f /\ Landed("nfo")
Beaten(f) == ledger[f].wrote # {} /\ nfo[f] \notin Ours

Calm ==
    /\ budget.changes = 0 /\ proc["nfo"].answer # "newer"
    /\ \A f \in Facts : holds[f] = "ours" /\ nfo[f] # "newer" /\ "newer" \notin ledger[f].wrote
Whole == budget.dies = 0 /\ budget.ledgers = 0

HashIsOf(f) ==
    /\ ledger[f].wrote \subseteq Ours
    /\ nfo[f] \in Ours /\ ~Writing(f) => ledger[f].wrote \subseteq {nfo[f]}
    /\ nfo[f] \in Ours /\ Writing(f) => nfo[f] = proc["nfo"].answer
    /\ ledger[f].attempt.result = "fight" => Beaten(f)
FactAtWork ==
    /\ proc["nfo"].at \in {"lock", "write"} \/ Landed("nfo") => proc["nfo"].answer \in Ours
    /\ proc["nfo"].at = "record" /\ proc["nfo"].result = "fight" => Beaten(proc["nfo"].run)
    /\ Editing("nfo") \/ Landed("nfo") => ledger[proc["nfo"].run].attempt.result # "fight"

FightInvariant ==
    /\ Calm \/ Whole
    /\ FactAtWork /\ \A f \in Facts : HashIsOf(f)

OneKindOfMishap == \A b \in TitleFaults : b.changes = 0 \/ (b.dies = 0 /\ b.ledgers = 0)

LEMMA InitFight ==
  ASSUME Title!NfoAssumption, OneKindOfMishap, Title!Init
  PROVE  FightInvariant
<1>1. "nfo" \in Title!Containers /\ proc["nfo"] = Title!Idle
  BY DEF Title!Init, Title!Containers
<1>2. \A f \in Facts : /\ f \in Title!Runs /\ f \in Title!Groups /\ nfo[f] \in {"none", "theirs"}
                       /\ ledger[f].wrote = {} /\ ledger[f].attempt.result = "none" /\ holds[f] = "ours"
  BY RunsDiffer DEF Title!Init, Title!Never, Title!Groups
<1>3. budget.changes = 0 \/ Whole
  BY DEF OneKindOfMishap, Title!Init, Whole
<1>4. Title!Idle.at = "idle" /\ Title!Idle.answer = "none"
  BY DEF Title!Idle
<1> QED
  BY <1>1, <1>2, <1>3, <1>4 DEF FightInvariant, Calm, FactAtWork, Editing, HashIsOf, Writing, Landed, Ours

LEMMA BudgetFalls ==
  ASSUME TitleInvariant, budget' = budget \/ \E kind \in Mishaps : Title!Spend(kind)
  PROVE  /\ Whole => Whole'
         /\ budget.changes = 0 => budget'.changes = 0
<1>1. CASE budget' = budget
  BY <1>1 DEF Whole
<1>2. ASSUME NEW kind \in Mishaps, Title!Spend(kind)
      PROVE  /\ Whole => Whole'
             /\ budget.changes = 0 => budget'.changes = 0
  <2>1. /\ budget[kind] > 0
        /\ \A other \in Mishaps : other # kind => budget'[other] = budget[other]
    BY <1>2, SpentIsTyped
  <2>2. \A other \in Mishaps : budget[other] = 0 => budget'[other] = 0
    BY <2>1
  <2>3. (budget.dies = 0 => budget'.dies = 0) /\ (budget.ledgers = 0 => budget'.ledgers = 0)
        /\ (budget.changes = 0 => budget'.changes = 0)
    BY <2>2 DEF Mishaps
  <2> QED
    BY <2>3 DEF Whole
<1> QED
  BY <1>1, <1>2

\* What the nfo container works on is a fact.
LEMMA FactOf ==
  ASSUME Title!NfoAssumption, TitleInvariant, proc["nfo"].at # "idle"
  PROVE  proc["nfo"].run \in Facts /\ "nfo" \in Title!Containers
<1>1. "nfo" \in Title!Containers
  BY DEF Title!Containers
<1> QED
  BY <1>1, WorkOf, RunsDiffer DEF WorksOn

LEMMA FightStays ==
  ASSUME Title!NfoAssumption, TitleInvariant, FightInvariant,
         budget' = budget \/ \E kind \in Mishaps : Title!Spend(kind),
         UNCHANGED holds, proc'["nfo"] = proc["nfo"],
         \A f \in Facts : /\ nfo'[f] = nfo[f] /\ ledger'[f].wrote = ledger[f].wrote
                          /\ ledger'[f].attempt.result = ledger[f].attempt.result
  PROVE  FightInvariant'
<1>1. Calm' \/ Whole'
  BY BudgetFalls DEF FightInvariant, Calm
<1>2. ASSUME NEW f \in Facts PROVE HashIsOf(f)' /\ Beaten(f)' = Beaten(f)
  BY DEF FightInvariant, HashIsOf, Writing, Landed, Beaten
<1>3. FactAtWork'
  BY <1>2, FactOf DEF FightInvariant, FactAtWork, Editing, Landed
<1> QED
  BY <1>1, <1>2, <1>3 DEF FightInvariant

\* The nfo container goes on, and leaves the file and the ledger; it leaves an edit without
\* its record only where no answer changes.
LEMMA FightMoves ==
  ASSUME Title!NfoAssumption, TitleInvariant, FightInvariant,
         budget' = budget \/ \E kind \in Mishaps : Title!Spend(kind),
         UNCHANGED <<nfo, ledger, holds>>,
         NEW p, proc'["nfo"] = p,
         ~Landed("nfo") \/ Calm, p.at # "record" \/ p.result # "found",
         Calm => p.answer # "newer",
         p.at \in {"lock", "write"} => p.answer \in Ours,
         p.at = "record" /\ p.result = "fight" => Beaten(p.run),
         p.at \in {"ask", "note", "lock", "write"} => ledger[p.run].attempt.result # "fight"
  PROVE  FightInvariant'
<1>1. Calm' \/ Whole'
  BY BudgetFalls DEF FightInvariant, Calm
<1>2. ~Landed("nfo")'
  BY DEF Landed
<1>3. ASSUME NEW f \in Facts PROVE HashIsOf(f)'
  <2>1. HashIsOf(f)
    BY DEF FightInvariant
  <2>2. ASSUME nfo[f] \in Ours PROVE ledger[f].wrote \subseteq {nfo[f]}
    <3>1. CASE ~Landed("nfo")
      BY <2>1, <2>2, <3>1 DEF HashIsOf, Writing
    <3>2. CASE Calm
      BY <2>1, <2>2, <3>2 DEF HashIsOf, Calm, Ours
    <3> QED
      BY <3>1, <3>2
  <2> QED
    BY <1>2, <2>1, <2>2 DEF HashIsOf, Writing, Beaten
<1>4. FactAtWork'
  BY <1>2 DEF FactAtWork, Editing, Beaten
<1> QED
  BY <1>1, <1>3, <1>4 DEF FightInvariant

LEMMA FightTake ==
  ASSUME Title!NfoAssumption, TitleInvariant, FightInvariant, NEW r \in Title!Runs, Title!Take(r)
  PROVE  FightInvariant'
<1> DEFINE c == Title!Container(r)
           fought == [Title!Idle EXCEPT !.at = "record", !.run = r, !.result = "fight"]
           asks == [Title!Idle EXCEPT !.at = "ask", !.run = r, !.doc = {nfo}]
<1>1. /\ proc' = [proc EXCEPT ![c] = IF r \in Facts /\ Title!Fought(r) THEN fought ELSE asks]
      /\ proc[c] = Title!Idle /\ UNCHANGED <<nfo, ledger, holds, budget>>
      /\ c \in Title!Containers
  BY RunsDiffer DEF Title!Take, Title!Takes
<1>2. CASE c # "nfo"
  <2>1. "nfo" \in Title!Containers /\ \E p : proc' = [proc EXCEPT ![c] = p]
    BY <1>1 DEF Title!Containers
  <2>2. proc'["nfo"] = proc["nfo"]
    BY <1>2, <2>1 DEF TitleInvariant, TitleTyped
  <2> QED
    BY <1>1, <2>2, FightStays
<1>3. CASE c = "nfo"
  <2>1. r \in Facts /\ HashIsOf(r)
    BY <1>3, RunsDiffer DEF FightInvariant
  <2>2. proc["nfo"].at = "idle"
    BY <1>1, <1>3 DEF Title!Idle
  <2>3. CASE Title!Fought(r)
    <3>1. proc'["nfo"] = fought
      BY <1>1, <1>3, <2>1, <2>3 DEF TitleInvariant, TitleTyped
    <3>2. fought.at = "record" /\ fought.result = "fight" /\ fought.run = r /\ fought.answer = "none"
      BY DEF Title!Idle
    <3>3. Beaten(r)
      BY <2>1, <2>2, <2>3 DEF Title!Fought, HashIsOf, Beaten, Writing, Landed
    <3> HIDE DEF fought
    <3> QED
      BY <1>1, <2>2, <3>1, <3>2, <3>3, FightMoves DEF Landed
  <2>4. CASE ~Title!Fought(r)
    <3>1. proc'["nfo"] = asks
      BY <1>1, <1>3, <2>1, <2>4 DEF TitleInvariant, TitleTyped
    <3>2. asks.at = "ask" /\ asks.run = r /\ asks.answer = "none"
      BY DEF Title!Idle
    <3>3. ledger[r].attempt.result # "fight"
      BY <2>1, <2>4 DEF Title!Fought, HashIsOf, Beaten
    <3> HIDE DEF asks
    <3> QED
      BY <1>1, <2>2, <3>1, <3>2, <3>3, FightMoves DEF Landed
  <2> QED
    BY <2>3, <2>4
<1> QED
  BY <1>2, <1>3

\* A step of another container than the one of the facts.
LEMMA FightBeside ==
  ASSUME Title!NfoAssumption, TitleInvariant, FightInvariant,
         NEW c \in Title!Containers, c # "nfo", Title!Works(c) \/ Title!Mishap(c)
  PROVE  FightInvariant'
<1>1. proc'["nfo"] = proc["nfo"]
  <2>1. \E p : proc' = [proc EXCEPT ![c] = p]
    BY DEF Title!Works, Title!Mishap, Title!Ask, Title!Lock, Title!Write, Title!Record, Title!Read,
       Title!WriteRows, Title!AskFails, Title!WriteFails, Title!RecordFails, Title!RowsFail,
       Title!Goes, Title!Fails
  <2> QED
    BY <2>1 DEF TitleInvariant, TitleTyped, Title!Containers
<1>2. UNCHANGED holds /\ (budget' = budget \/ \E kind \in Mishaps : Title!Spend(kind))
  BY DEF Title!Works, Title!Mishap, Title!Ask, Title!Lock, Title!Write, Title!Record, Title!Read,
     Title!WriteRows, Title!AskFails, Title!WriteFails, Title!RecordFails, Title!RowsFail, Mishaps
<1>3. CASE Title!Write(c)
  <2>1. /\ proc[c].run \in Title!Runs \ Facts /\ ledger' = ledger
        /\ nfo' = [nfo EXCEPT ![Title!Group(proc[c].run)] = proc[c].answer]
    BY <1>3, EditOf, RunsDiffer
  <2>2. \A f \in Facts : f \in Title!Groups /\ Title!Group(proc[c].run) # f
    BY <2>1, RunsDiffer
  <2>3. \A f \in Facts : nfo'[f] = nfo[f]
    BY <2>1, <2>2 DEF TitleInvariant, TitleTyped, Documents
  <2> QED
    BY <1>1, <1>2, <2>1, <2>3, FightStays
<1>4. CASE Title!Record(c)
  <2>1. /\ proc[c].run \in Title!Runs \ Facts /\ nfo' = nfo
        /\ ledger' = [ledger EXCEPT ![proc[c].run] = Title!Entry(c)]
    BY <1>4, EntryOf, RunsDiffer DEF Title!Record
  <2>2. \A f \in Facts : ledger'[f] = ledger[f]
    BY <2>1, RunsDiffer DEF TitleInvariant, TitleTyped, Ledgers
  <2> QED
    BY <1>1, <1>2, <2>1, <2>2, FightStays
<1>5. CASE ~Title!Write(c) /\ ~Title!Record(c)
  <2>1. UNCHANGED <<nfo, ledger>>
    BY <1>5 DEF Title!Works, Title!Mishap, Title!Ask, Title!Lock, Title!Read,
       Title!WriteRows, Title!AskFails, Title!WriteFails, Title!RecordFails, Title!RowsFail
  <2> QED
    BY <1>1, <1>2, <2>1, FightStays
<1> QED
  BY <1>3, <1>4, <1>5

LEMMA FightGoesOn ==
  ASSUME Title!NfoAssumption, TitleInvariant, FightInvariant,
         \/ Title!Ask("nfo") \/ Title!AskFails("nfo") \/ Title!Lock("nfo") \/ Title!WriteFails("nfo")
         \/ Title!RecordFails("nfo") \/ Title!Read("nfo") \/ Title!WriteRows("nfo")
         \/ Title!RowsFail("nfo") \/ Title!DaySpent \/ Title!JobDies
  PROVE  FightInvariant'
<1> DEFINE w == proc["nfo"]
<1>1. /\ "nfo" \in Title!Containers /\ UNCHANGED <<nfo, ledger, holds>>
      /\ budget' = budget \/ \E kind \in Mishaps : Title!Spend(kind)
  BY DEF Title!Ask, Title!AskFails, Title!Lock, Title!WriteFails, Title!RecordFails, Title!Read,
     Title!WriteRows, Title!RowsFail, Title!DaySpent, Title!JobDies, Title!Containers, Mishaps
<1>2. w \in Processes /\ FactAtWork /\ (Calm => w.answer # "newer")
  BY <1>1, WorkOf DEF FightInvariant, Calm
<1>3. CASE Title!Ask("nfo")
  <2> DEFINE p == [w EXCEPT !.at = "lock", !.answer = holds[w.run]]
  <2>1. w.at = "ask" /\ w.run \in Facts
    BY <1>3, FactOf DEF Title!Ask
  <2>2. Title!Answer(w.run) = holds[w.run] /\ holds[w.run] \in Ours
    BY <1>1, <2>1, WorkOf DEF Title!Answer, Title!NfoAssumption
  <2>3. proc'["nfo"] = p
    BY <1>1, <1>3, <2>2 DEF Title!Ask, TitleInvariant, TitleTyped
  <2>4. p.at = "lock" /\ p.run = w.run /\ p.answer = holds[w.run]
    BY <1>2 DEF Processes
  <2>5. ledger[w.run].attempt.result # "fight"
    BY <1>2, <2>1 DEF FactAtWork, Editing
  <2>6. Calm => p.answer # "newer"
    BY <2>1, <2>4 DEF Calm
  <2> HIDE DEF p
  <2> QED
    BY <1>1, <2>1, <2>2, <2>3, <2>4, <2>5, <2>6, FightMoves DEF Landed
<1>4. CASE Title!AskFails("nfo") \/ Title!WriteFails("nfo")
  <2>1. PICK result \in {"error", "nothing"} : Title!Fails("nfo", result)
    BY <1>4 DEF Title!AskFails, Title!WriteFails
  <2> DEFINE p == [w EXCEPT !.at = "record", !.result = result]
  <2>2. w.at \in {"ask", "write"} /\ proc'["nfo"] = p
    BY <1>1, <1>4, <2>1 DEF Title!Fails, TitleInvariant, TitleTyped, Title!AskFails, Title!WriteFails
  <2>3. p.at = "record" /\ p.result = result /\ p.answer = w.answer
    BY <1>2 DEF Processes
  <2> HIDE DEF p
  <2> QED
    BY <1>1, <1>2, <2>2, <2>3, FightMoves DEF Landed
<1>5. CASE Title!Lock("nfo")
  <2> DEFINE p == [w EXCEPT !.at = "write", !.doc = {nfo}]
  <2>1. w.at = "lock" /\ proc'["nfo"] = p
    BY <1>1, <1>5 DEF Title!Lock, TitleInvariant, TitleTyped
  <2>2. p.at = "write" /\ p.run = w.run /\ p.answer = w.answer
    BY <1>2 DEF Processes
  <2>3. w.answer \in Ours /\ ledger[w.run].attempt.result # "fight"
    BY <1>2, <2>1 DEF FactAtWork, Editing
  <2> HIDE DEF p
  <2> QED
    BY <1>1, <1>2, <2>1, <2>2, <2>3, FightMoves DEF Landed
<1>6. CASE Title!Read("nfo")
  <2> DEFINE p == [w EXCEPT !.at = "rows", !.snap = {Title!Folder}]
  <2>1. w.at = "read" /\ proc'["nfo"] = p
    BY <1>1, <1>6 DEF Title!Read, TitleInvariant, TitleTyped
  <2>2. p.at = "rows" /\ p.answer = w.answer
    BY <1>2 DEF Processes
  <2> HIDE DEF p
  <2> QED
    BY <1>1, <1>2, <2>1, <2>2, FightMoves DEF Landed
<1>7. CASE Title!RecordFails("nfo")
  <2> DEFINE p == [w EXCEPT !.at = "read"]
  <2>1. proc'["nfo"] = p /\ Title!Spend("ledgers")
    BY <1>1, <1>7 DEF Title!RecordFails, Title!Goes, TitleInvariant, TitleTyped
  <2>2. p.at = "read" /\ p.answer = w.answer
    BY <1>2 DEF Processes
  <2>3. budget.ledgers > 0
    BY <2>1, SpentIsTyped DEF Mishaps
  <2>4. Calm
    BY <2>3 DEF FightInvariant, Whole
  <2> HIDE DEF p
  <2> QED
    BY <1>1, <1>2, <2>1, <2>2, <2>4, FightMoves DEF Landed
<1>8. CASE Title!WriteRows("nfo") \/ Title!RowsFail("nfo") \/ Title!DaySpent
  <2>1. proc'["nfo"] = Title!Idle /\ w.at \in {"rows", "ask"}
    BY <1>1, <1>8 DEF Title!WriteRows, Title!RowsFail, Title!DaySpent, TitleInvariant, TitleTyped
  <2>2. Title!Idle.at = "idle" /\ Title!Idle.answer = "none"
    BY DEF Title!Idle
  <2> QED
    BY <1>1, <2>1, <2>2, FightMoves DEF Landed
<1>9. CASE Title!JobDies
  <2>1. proc'["nfo"] = Title!Idle /\ Title!Spend("dies")
    BY <1>1, <1>9 DEF Title!JobDies
  <2>2. Title!Idle.at = "idle" /\ Title!Idle.answer = "none"
    BY DEF Title!Idle
  <2>3. budget.dies > 0
    BY <2>1, SpentIsTyped DEF Mishaps
  <2>4. Calm
    BY <2>3 DEF FightInvariant, Whole
  <2> QED
    BY <1>1, <2>1, <2>2, <2>4, FightMoves DEF Landed
<1> QED
  BY <1>3, <1>4, <1>5, <1>6, <1>7, <1>8, <1>9

\* The edit of a fact: its bytes are in the file, and its hash is to come.
LEMMA FightWrite ==
  ASSUME Title!NfoAssumption, TitleInvariant, FightInvariant, Title!Write("nfo")
  PROVE  FightInvariant'
<1> DEFINE w == proc["nfo"]
<1>1. "nfo" \in Title!Containers /\ w.at = "write"
  BY DEF Title!Write, Title!Containers
<1>2. w.run \in Facts /\ w.answer \in Ours /\ ledger[w.run].attempt.result # "fight"
  BY <1>1, FactOf DEF FightInvariant, FactAtWork, Editing
<1>3. /\ nfo' = [nfo EXCEPT ![w.run] = w.answer] /\ UNCHANGED <<ledger, holds, budget>>
      /\ proc' = [proc EXCEPT !["nfo"] = [w EXCEPT !.at = "record", !.result = "found"]]
  BY <1>1, <1>2, EditOf, RunsDiffer
<1>4. /\ proc'["nfo"].at = "record" /\ proc'["nfo"].result = "found"
      /\ proc'["nfo"].run = w.run /\ proc'["nfo"].answer = w.answer
  BY <1>1, <1>3 DEF TitleInvariant, TitleTyped, Processes
<1>5. \A f \in Facts : nfo'[f] = IF f = w.run THEN w.answer ELSE nfo[f]
  BY <1>2, <1>3, RunsDiffer DEF TitleInvariant, TitleTyped, Documents, Title!Groups
<1>6. Calm' \/ Whole'
  BY <1>2, <1>3, <1>4, <1>5 DEF FightInvariant, Calm, Whole
<1>7. ASSUME NEW f \in Facts PROVE HashIsOf(f)'
  <2>1. HashIsOf(f) /\ ~Writing(f)
    BY <1>1 DEF FightInvariant, Writing, Landed
  <2>2. CASE f = w.run
    BY <1>2, <1>3, <1>4, <1>5, <2>1, <2>2 DEF HashIsOf, Writing, Landed
  <2>3. CASE f # w.run
    BY <1>2, <1>3, <1>4, <1>5, <2>1, <2>3 DEF HashIsOf, Writing, Landed, Beaten
  <2> QED
    BY <2>2, <2>3
<1>8. FactAtWork'
  BY <1>2, <1>3, <1>4 DEF FactAtWork, Editing, Landed
<1> QED
  BY <1>6, <1>7, <1>8 DEF FightInvariant

LEMMA FightRecord ==
  ASSUME Title!NfoAssumption, TitleInvariant, FightInvariant, Title!Record("nfo")
  PROVE  FightInvariant'
<1> DEFINE w == proc["nfo"]
           entry == Title!Entry("nfo")
<1>1. "nfo" \in Title!Containers /\ w.at = "record" /\ UNCHANGED <<nfo, holds, budget>>
      /\ ledger' = [ledger EXCEPT ![w.run] = entry] /\ Title!Goes("nfo", "read")
  BY DEF Title!Record, Title!Containers
<1>2. w.run \in Facts /\ w.run \in Title!Runs /\ HashIsOf(w.run)
  BY <1>1, FactOf, RunsDiffer DEF FightInvariant
<1>3. /\ entry.attempt.result = w.result
      /\ entry.wrote = IF w.result = "found" THEN {w.answer} ELSE ledger[w.run].wrote
  BY <1>1, <1>2, EntryOf
<1> HIDE DEF entry
<1>4. \A f \in Facts : ledger'[f] = IF f = w.run THEN entry ELSE ledger[f]
  BY <1>1, <1>2, RunsDiffer DEF TitleInvariant, TitleTyped, Ledgers
<1>5. proc'["nfo"].at = "read" /\ proc'["nfo"].answer = w.answer
  BY <1>1 DEF Title!Goes, TitleInvariant, TitleTyped, Processes
<1>6. w.result = "found" => w.answer \in Ours
  BY <1>1 DEF FightInvariant, FactAtWork, Landed
<1>7. w.result = "fight" => Beaten(w.run)
  BY <1>1 DEF FightInvariant, FactAtWork
<1>8. Calm' \/ Whole'
  BY <1>1, <1>2, <1>3, <1>4, <1>5 DEF FightInvariant, Calm, Whole
<1>9. ASSUME NEW f \in Facts PROVE HashIsOf(f)'
  <2>1. HashIsOf(f)
    BY DEF FightInvariant
  <2>2. CASE f = w.run
    <3>1. CASE w.result = "found"
      BY <1>1, <1>3, <1>4, <1>5, <1>6, <2>1, <2>2, <3>1 DEF HashIsOf, Writing, Landed
    <3>2. CASE w.result # "found"
      BY <1>1, <1>3, <1>4, <1>5, <1>7, <2>1, <2>2, <3>2 DEF HashIsOf, Writing, Landed, Beaten
    <3> QED
      BY <3>1, <3>2
  <2>3. CASE f # w.run
    BY <1>1, <1>4, <1>5, <2>1, <2>3 DEF HashIsOf, Writing, Landed, Beaten
  <2> QED
    BY <2>2, <2>3
<1>10. FactAtWork'
  BY <1>5 DEF FactAtWork, Editing, Landed
<1> QED
  BY <1>8, <1>9, <1>10 DEF FightInvariant

LEMMA FightOthers ==
  ASSUME Title!NfoAssumption, TitleInvariant, FightInvariant,
         \/ \E f \in Facts : Title!AnswerChanges(f)
         \/ \E g \in Title!Groups : Title!OtherEdits(g)
  PROVE  FightInvariant'
<1>1. ASSUME NEW f \in Facts, Title!AnswerChanges(f) PROVE FightInvariant'
  <2>1. Title!Spend("changes") /\ UNCHANGED <<nfo, ledger, proc>>
    BY <1>1 DEF Title!AnswerChanges
  <2>2. budget.changes > 0
    BY <2>1, SpentIsTyped DEF Mishaps
  <2>3. Whole
    BY <2>2 DEF FightInvariant, Calm
  <2>4. Whole'
    BY <2>1, <2>3, BudgetFalls DEF Mishaps
  <2> QED
    BY <2>1, <2>4 DEF FightInvariant, HashIsOf, FactAtWork, Writing, Landed, Editing, Beaten
<1>2. ASSUME NEW g \in Title!Groups, Title!OtherEdits(g) PROVE FightInvariant'
  <2>1. PICK value \in {"none", "theirs"} : nfo' = [nfo EXCEPT ![g] = value]
    BY <1>2 DEF Title!OtherEdits
  <2>2. UNCHANGED <<ledger, holds, proc>> /\ Title!Spend("edits")
    BY <1>2 DEF Title!OtherEdits
  <2>3. \A f \in Facts : nfo'[f] = nfo[f] \/ nfo'[f] \in {"none", "theirs"}
    BY <2>1, RunsDiffer DEF TitleInvariant, TitleTyped, Documents, Title!Groups
  <2>4. \A f \in Facts : HashIsOf(f)' /\ (Beaten(f) => Beaten(f)')
    BY <2>2, <2>3 DEF FightInvariant, HashIsOf, Writing, Landed, Beaten, Ours
  <2>5. FactAtWork'
    BY <2>2, <2>4, FactOf DEF FightInvariant, FactAtWork, Editing, Landed
  <2>6. (Whole => Whole') /\ (budget.changes = 0 => budget'.changes = 0)
    BY <2>2, BudgetFalls DEF Mishaps
  <2>7. Calm' \/ Whole'
    BY <2>2, <2>3, <2>6 DEF FightInvariant, Calm
  <2> QED
    BY <2>4, <2>5, <2>7 DEF FightInvariant
<1> QED
  BY <1>1, <1>2

LEMMA FightAged ==
  ASSUME Title!NfoAssumption, TitleInvariant, FightInvariant,
         \/ Title!NoteProbe
         \/ \E r \in Title!Runs : Title!TimePasses(r) \/ (r \in Facts /\ Title!Refresh(r))
  PROVE  FightInvariant'
<1>1. CASE Title!NoteProbe
  <2>1. /\ ledger' = [ledger EXCEPT !["probe"].wrote = {proc["probe"].answer}]
        /\ Title!Goes("probe", "lock") /\ UNCHANGED <<nfo, holds, budget>>
    BY <1>1 DEF Title!NoteProbe
  <2>2. \A f \in Facts : f # "probe" /\ f \in Title!Runs
    BY RunsDiffer DEF Title!NfoAssumption
  <2>3. \A f \in Facts : ledger'[f] = ledger[f]
    BY <2>1, <2>2 DEF TitleInvariant, TitleTyped, Ledgers
  <2>4. proc'["nfo"] = proc["nfo"]
    BY <2>1 DEF Title!Goes, TitleInvariant, TitleTyped, Title!Containers
  <2> QED
    BY <2>1, <2>3, <2>4, FightStays
<1>2. ASSUME NEW r \in Title!Runs, Title!TimePasses(r) \/ (r \in Facts /\ Title!Refresh(r))
      PROVE  FightInvariant'
  <2>1. \E age : ledger' = [ledger EXCEPT ![r].attempt.age = age]
    <3>1. Title!Aged(r, "lapsed") \/ Title!Aged(r, "refreshed")
      BY <1>2 DEF Title!TimePasses, Title!Refresh
    <3> QED
      BY <3>1 DEF Title!Aged
  <2>2. UNCHANGED <<nfo, holds, proc>> /\ (budget' = budget \/ \E kind \in Mishaps : Title!Spend(kind))
    BY <1>2 DEF Title!TimePasses, Title!Refresh, Mishaps
  <2>3. \A f \in Facts : /\ ledger'[f].wrote = ledger[f].wrote
                         /\ ledger'[f].attempt.result = ledger[f].attempt.result
    <3>1. PICK age : ledger' = [ledger EXCEPT ![r].attempt.age = age]
      BY <2>1
    <3>2. \A f \in Facts : f \in Title!Runs /\ ledger[f] \in [wrote : AtMostOne(Title!Values), attempt : Attempts]
      BY RunsDiffer DEF TitleInvariant, TitleTyped, Ledgers
    <3>3. ASSUME NEW f \in Facts PROVE ledger'[f] = ledger[f]
                                        \/ ledger'[f] = [ledger[f] EXCEPT !.attempt.age = age]
      BY <3>1, <3>2 DEF TitleInvariant, TitleTyped, Ledgers
    <3>4. ASSUME NEW entry \in [wrote : AtMostOne(Title!Values), attempt : Attempts]
          PROVE  /\ [entry EXCEPT !.attempt.age = age].wrote = entry.wrote
                 /\ [entry EXCEPT !.attempt.age = age].attempt.result = entry.attempt.result
      BY DEF Attempts
    <3> QED
      BY <3>2, <3>3, <3>4
  <2> QED
    BY <2>2, <2>3, FightStays
<1> QED
  BY <1>1, <1>2

LEMMA FightStep ==
  ASSUME Title!NfoAssumption, TitleInvariant, FightInvariant, [Title!Next]_(Title!vars)
  PROVE  FightInvariant'
<1>1. CASE UNCHANGED Title!vars
  BY <1>1, FightStays DEF Title!vars
<1>2. CASE Title!StartJob \/ Title!WalkReads \/ Title!WalkFlushes \/ Title!JobEnds
  <2>1. UNCHANGED <<nfo, ledger, holds, proc, budget>>
    BY <1>2 DEF Title!StartJob, Title!WalkReads, Title!WalkFlushes, Title!JobEnds
  <2> QED
    BY <2>1, FightStays
<1>3. CASE Title!JobDies \/ Title!DaySpent
  BY <1>3, FightGoesOn
<1>4. CASE \E r \in Title!Runs : Title!TimePasses(r) \/ Title!Take(r)
  BY <1>4, FightAged, FightTake
<1>5. ASSUME NEW f \in Facts, Title!Refresh(f) PROVE FightInvariant'
  BY <1>5, FightAged, RunsDiffer
<1>6. CASE (\E f \in Facts : Title!AnswerChanges(f)) \/ (\E g \in Title!Groups : Title!OtherEdits(g))
  BY <1>6, FightOthers
<1>7. CASE Title!NoteProbe
  BY <1>7, FightAged
<1>8. ASSUME NEW c \in Title!Containers, Title!Works(c) \/ Title!Mishap(c) PROVE FightInvariant'
  <2>1. CASE c # "nfo"
    BY <1>8, <2>1, FightBeside
  <2>2. CASE c = "nfo"
    BY <1>8, <2>2, FightGoesOn, FightWrite, FightRecord DEF Title!Works, Title!Mishap
  <2> QED
    BY <2>1, <2>2
<1> QED
  BY <1>1, <1>2, <1>3, <1>4, <1>5, <1>6, <1>7, <1>8 DEF Title!Next

\* A recorded fight is true: what the file holds for the fact is not what this program
\* wrote, wherever no provider's answer changes or no record of an edit is lost:
\* NfoFacts!FightIsTrue.
THEOREM FightTheorem == WorkloadsAssumption /\ OneKindOfMishap => (Spec => []FightIsTrue)
<1> SUFFICES ASSUME WorkloadsAssumption, OneKindOfMishap PROVE Spec => []FightIsTrue
  OBVIOUS
<1> USE DEF WorkloadsAssumption
<1>1. Init => (focus = "title" => FightInvariant)
  BY TitleOnly, InitFight
<1>2. Spec => [](focus = "title" => TitleInvariant)
  BY TitleInductive
<1>3. /\ focus = "title" => TitleInvariant /\ FightInvariant
      /\ [Next]_vars
      => (focus = "title" => FightInvariant)'
  BY TitleOnly, FightStep
<1>4. (focus = "title" => FightInvariant) => FightIsTrue
  BY DEF FightInvariant, HashIsOf, Beaten, Ours, FightIsTrue, Title!FightIsTrue
<1> QED
  BY <1>1, <1>2, <1>3, <1>4, PTL DEF Spec
-----------------------------------------------------------------------------
(* Lists of tasks.                                                         *)

\* The tasks of a list, and those after its first.
Entries(todo) == {todo[i] : i \in 1..Len(todo)}
Rest(todo) == {todo[i] : i \in 2..Len(todo)}

LEMMA FirstAndRest ==
  ASSUME NEW S, NEW todo \in Seq(S), todo # <<>>
  PROVE  /\ Head(todo) \in S /\ Head(todo) = todo[1]
         /\ Tail(todo) \in Seq(S)
         /\ Entries(todo) = {Head(todo)} \cup Rest(todo)
         /\ Entries(Tail(todo)) = Rest(todo)
         /\ Rest(Tail(todo)) \subseteq Rest(todo)
         /\ Tail(todo) # <<>> => Head(Tail(todo)) \in Rest(todo)
<1>1. Len(todo) \in Nat /\ Len(todo) > 0 /\ \A i \in 1..Len(todo) : todo[i] \in S
  OBVIOUS
<1>2. Head(todo) = todo[1]
  OBVIOUS
<1>3. Tail(todo) \in Seq(S) /\ Len(Tail(todo)) = Len(todo) - 1
      /\ \A i \in 1..Len(Tail(todo)) : Tail(todo)[i] = todo[i + 1]
  OBVIOUS
<1>4. Entries(todo) = {todo[1]} \cup Rest(todo)
  BY <1>1 DEF Entries, Rest
<1>5. Entries(Tail(todo)) = Rest(todo)
  <2>1. ASSUME NEW x \in Entries(Tail(todo)) PROVE x \in Rest(todo)
    <3>1. PICK i \in 1..Len(Tail(todo)) : x = Tail(todo)[i]
      BY DEF Entries
    <3>2. x = todo[i + 1] /\ i + 1 \in 2..Len(todo)
      BY <1>1, <1>3, <3>1
    <3> QED
      BY <3>2 DEF Rest
  <2>2. ASSUME NEW x \in Rest(todo) PROVE x \in Entries(Tail(todo))
    <3>1. PICK i \in 2..Len(todo) : x = todo[i]
      BY DEF Rest
    <3>2. x = Tail(todo)[i - 1] /\ i - 1 \in 1..Len(Tail(todo))
      BY <1>1, <1>3, <3>1
    <3> QED
      BY <3>2 DEF Entries
  <2> QED
    BY <2>1, <2>2
<1>6. Rest(Tail(todo)) \subseteq Entries(Tail(todo))
  <2>1. 2..Len(Tail(todo)) \subseteq 1..Len(Tail(todo))
    BY <1>1, <1>3
  <2> QED
    BY <2>1 DEF Entries, Rest
<1>7. Tail(todo) # <<>> => Head(Tail(todo)) \in Entries(Tail(todo))
  <2> SUFFICES ASSUME Tail(todo) # <<>> PROVE Head(Tail(todo)) \in Entries(Tail(todo))
    OBVIOUS
  <2>1. Head(Tail(todo)) = Tail(todo)[1] /\ 1 \in 1..Len(Tail(todo))
    BY <1>3
  <2> QED
    BY <2>1 DEF Entries
<1> QED
  BY <1>1, <1>2, <1>3, <1>4, <1>5, <1>6, <1>7

LEMMA PutBefore ==
  ASSUME NEW S, NEW todo \in Seq(S), NEW task \in S
  PROVE  LET longer == <<task>> \o todo
         IN  /\ longer \in Seq(S) /\ longer # <<>> /\ Head(longer) = task
             /\ Rest(longer) = Entries(todo) /\ Entries(longer) = {task} \cup Entries(todo)
<1> DEFINE longer == <<task>> \o todo
<1>1. longer \in Seq(S) /\ longer # <<>> /\ Len(longer) = Len(todo) + 1 /\ Len(todo) \in Nat
  OBVIOUS
<1>2. longer[1] = task /\ \A i \in 2..Len(longer) : longer[i] = todo[i - 1]
  OBVIOUS
<1>3. Head(longer) = task
  BY <1>1, <1>2
<1>4. Rest(longer) = Entries(todo)
  <2>1. ASSUME NEW x \in Entries(todo) PROVE x \in Rest(longer)
    <3>1. PICK i \in 1..Len(todo) : x = todo[i]
      BY DEF Entries
    <3>2. x = longer[i + 1] /\ i + 1 \in 2..Len(longer)
      BY <1>1, <1>2, <3>1
    <3> QED
      BY <3>2 DEF Rest
  <2>2. ASSUME NEW x \in Rest(longer) PROVE x \in Entries(todo)
    <3>1. PICK i \in 2..Len(longer) : x = longer[i]
      BY DEF Rest
    <3>2. x = todo[i - 1] /\ i - 1 \in 1..Len(todo)
      BY <1>1, <1>2, <3>1
    <3> QED
      BY <3>2 DEF Entries
  <2> QED
    BY <2>1, <2>2
<1>5. Entries(longer) = {task} \cup Rest(longer)
  BY <1>1, <1>2 DEF Entries, Rest
<1> HIDE DEF longer
<1> QED
  BY <1>1, <1>3, <1>4, <1>5 DEF longer

LEMMA JoinOf ==
  ASSUME NEW S, NEW s \in Seq(S), NEW t \in Seq(S)
  PROVE  s \o t \in Seq(S) /\ Entries(s \o t) = Entries(s) \cup Entries(t)
<1>1. s \o t \in Seq(S) /\ Len(s \o t) = Len(s) + Len(t) /\ Len(s) \in Nat /\ Len(t) \in Nat
  OBVIOUS
<1>2. \A i \in 1..Len(s \o t) : (s \o t)[i] = IF i <= Len(s) THEN s[i] ELSE t[i - Len(s)]
  OBVIOUS
<1>3. ASSUME NEW x \in Entries(s \o t) PROVE x \in Entries(s) \cup Entries(t)
  <2>1. PICK i \in 1..Len(s \o t) : x = (s \o t)[i]
    BY DEF Entries
  <2>2. CASE i <= Len(s)
    BY <1>1, <1>2, <2>1, <2>2 DEF Entries
  <2>3. CASE i > Len(s)
    <3>1. x = t[i - Len(s)] /\ i - Len(s) \in 1..Len(t)
      BY <1>1, <1>2, <2>1, <2>3
    <3> QED
      BY <3>1 DEF Entries
  <2> QED
    BY <1>1, <2>2, <2>3
<1>4. ASSUME NEW x \in Entries(s) PROVE x \in Entries(s \o t)
  <2>1. PICK i \in 1..Len(s) : x = s[i]
    BY DEF Entries
  <2>2. x = (s \o t)[i] /\ i \in 1..Len(s \o t)
    BY <1>1, <1>2, <2>1
  <2> QED
    BY <2>2 DEF Entries
<1>5. ASSUME NEW x \in Entries(t) PROVE x \in Entries(s \o t)
  <2>1. PICK i \in 1..Len(t) : x = t[i]
    BY DEF Entries
  <2>2. x = (s \o t)[i + Len(s)] /\ i + Len(s) \in 1..Len(s \o t)
    BY <1>1, <1>2, <2>1
  <2> QED
    BY <2>2 DEF Entries
<1> QED
  BY <1>1, <1>3, <1>4, <1>5

LEMMA RestIsOf ==
  ASSUME NEW S, NEW todo \in Seq(S)
  PROVE  Rest(todo) \subseteq Entries(todo) /\ Entries(todo) \subseteq S
<1>1. Len(todo) \in Nat /\ \A i \in 1..Len(todo) : todo[i] \in S
  OBVIOUS
<1> QED
  BY <1>1 DEF Entries, Rest

-----------------------------------------------------------------------------
(* Stores.  A pass that has its claim to take has read no copy that runs;  *)
(* a claim that is bound holds the volume of its name; and what the pass   *)
(* read of a pod that still is the one that stands is where that pod is.   *)

\* The behaviours of a store, and of a screen.
OfAStore == focus \in {"store", "roughstore", "spread", "again"}
OfAScreen == focus \in {"screen", "roughscreen"}

Pods == [node : AtMostOne(Nodes), tpl : {"one", "two"}, going : BOOLEAN,
         refused : BOOLEAN, orphan : BOOLEAN]
PodsRead == [node : AtMostOne(Nodes), tpl : {"one", "two"}, going : BOOLEAN,
             refused : BOOLEAN, is : BOOLEAN]
ClaimStates == [bound : BOOLEAN, node : AtMostOne(Nodes), going : BOOLEAN, orphan : BOOLEAN]
VolumeStates == [phase : {"available", "bound", "released"}, of : {"none", "claim", "gone"},
                 going : BOOLEAN]
VolumesRead == [released : BOOLEAN, is : BOOLEAN]
Losses == {"dies", "returns", "edits", "redeclares", "fails", "restarts", "moves", "races"}

PassTyped(copies, names, tasks) ==
    /\ pass \in [todo : Seq(tasks), tpl : {"", "one", "two"},
                 pods : {<<>>} \cup [copies -> AtMostOne(PodsRead)], claims : SUBSET names,
                 stranded : SUBSET Nodes]
    /\ pass.todo # <<>> => pass.tpl # "" /\ pass.pods \in [copies -> AtMostOne(PodsRead)]
StandTyped(copies, names, tasks) ==
    /\ want \in [stands : BOOLEAN, tpl : {"one", "two"}, copies : 0..Cardinality(copies),
                 on : SUBSET Nodes, perNode : BOOLEAN]
    /\ up \subseteq Nodes
    /\ pods \in [copies -> AtMostOne(Pods)]
    /\ claims \in [names -> AtMostOne(ClaimStates)]
    /\ volumes \in [names -> AtMostOne(VolumeStates)]
    /\ seen \in [pods : [copies -> AtMostOne(PodsRead)], claims : SUBSET names,
                 volumes : [names -> AtMostOne(VolumesRead)]]
    /\ PassTyped(copies, names, tasks)
    /\ budget \in [Losses -> Nat]

LaterTasks == ({"heal", "pod", "retire"} \X Copies) \cup {<<"claim", "rows">>, <<"sweep", 0>>}
StoreTasks ==
    LaterTasks \cup ({"unclaim", "write", "get", "spend", "rewrite", "create"} \X {"rows"})

\* What was read of a pod that is still the one that stands.
IsTrue(read, c) == \A r \in read : r.is => \E p \in pods[c] : r.node # {} => p.node = r.node

ReadIsTrue == \A c \in Copies : IsTrue(seen.pods[c], c)
OneIsPinned == ~want.perNode => \A c \in Copies : c # 0 => pods[c] = {}
NothingInUseGoes ==
    \A claim \in claims["rows"] : claim.going /\ ~claim.orphan =>
        ~want.perNode /\ \A c \in Copies : \A p \in pods[c] : p.node = {} \/ p.going

\* What holds where a task of a kind is next.
Ready(kind) == kind = "unclaim" => want.perNode \/ \A c \in Copies : pods[c] = {}
PassIsTrue == pass.todo # <<>> =>
    /\ Rest(pass.todo) \subseteq LaterTasks
    /\ \A c \in Copies : IsTrue(pass.pods[c], c)
    /\ \A task \in Entries(pass.todo) : task[1] = "heal" =>
           \A r \in pass.pods[task[2]] : r.node # {} /\ r.node \subseteq pass.stranded
    /\ ~want.perNode => \A task \in Entries(pass.todo) : task[1] = "pod" => task[2] = 0
    /\ Ready(Head(pass.todo)[1])

StoreInvariant ==
    /\ StandTyped(Copies, {"rows"}, StoreTasks)
    /\ ReadIsTrue /\ OneIsPinned /\ NothingInUseGoes /\ PassIsTrue

LEMMA StoreOnly ==
  /\ Init /\ OfAStore => Store!Init
  /\ [Next]_vars /\ OfAStore' => OfAStore /\ [Store!Next]_(Store!vars)
<1>1. Init /\ OfAStore => Store!Init
  BY DEF Init, OfAStore
<1>2. ASSUME [Next]_vars, OfAStore' PROVE OfAStore /\ [Store!Next]_(Store!vars)
  <2>1. CASE UNCHANGED vars
    BY <1>2, <2>1 DEF vars, standVars, Store!vars, OfAStore
  <2>2. CASE Next
    BY <1>2, <2>2 DEF Next, OfTitle, OfReport, OfCounts, OfStand, OfTemplate, About, OfAStore
  <2> QED
    BY <1>2, <2>1, <2>2
<1> QED
  BY <1>1, <1>2

\* A pod is marked, and goes on to be where it was.
PodsOnward(copies) ==
    /\ pods' \in [copies -> AtMostOne(Pods)]
    /\ \A c \in copies :
           /\ pods[c] = {} => pods'[c] = {}
           /\ \A p \in pods[c] : \E q \in pods'[c] : q.node = p.node
           /\ \A q \in pods'[c] : \E p \in pods[c] : q.node = p.node /\ (p.going => q.going)
\* A claim goes where its owner is gone.
ClaimsOnward(names) ==
    /\ claims' \in [names -> AtMostOne(ClaimStates)]
    /\ \A k \in names : \A d \in claims'[k] :
           \E e \in claims[k] : /\ d.bound = e.bound /\ (e.orphan => d.orphan)
                                /\ d.going => e.going \/ d.orphan

LEMMA OneOf ==
  ASSUME NEW S, NEW one \in AtMostOne(S), NEW x \in one
  PROVE  x \in S /\ one = {x}
BY DEF AtMostOne

LEMMA OneIn == \A S : \A x \in S : {x} \in AtMostOne(S) /\ {} \in AtMostOne(S)
BY DEF AtMostOne

LEMMA MarkDoes ==
  ASSUME NEW copies, pods \in [copies -> AtMostOne(Pods)], NEW c \in copies,
         pods' = [pods EXCEPT ![c] = {[o EXCEPT !["going"] = TRUE] : o \in @}]
  PROVE  PodsOnward(copies) /\ \A p \in pods'[c] : p.going
<1>1. ASSUME NEW o \in Pods
      PROVE  LET q == [o EXCEPT !["going"] = TRUE]
             IN  q \in Pods /\ q.node = o.node /\ q.going = TRUE /\ q.orphan = o.orphan
  BY DEF Pods
<1>2. pods[c] \in AtMostOne(Pods) /\ pods'[c] = {[o EXCEPT !["going"] = TRUE] : o \in pods[c]}
  OBVIOUS
<1>3. pods'[c] \in AtMostOne(Pods)
  <2>1. CASE pods[c] = {}
    <3>1. pods'[c] = {}
      BY <1>2, <2>1
    <3> QED
      BY <3>1 DEF AtMostOne
  <2>2. ASSUME NEW o \in Pods, pods[c] = {o} PROVE pods'[c] \in AtMostOne(Pods)
    <3>1. pods'[c] = {[o EXCEPT !["going"] = TRUE]}
      BY <1>2, <2>2
    <3> QED
      BY <1>1, <3>1 DEF AtMostOne
  <2> QED
    BY <1>2, <2>1, <2>2 DEF AtMostOne
<1>4. \A d \in copies : d # c => pods'[d] = pods[d]
  OBVIOUS
<1>5. pods' \in [copies -> AtMostOne(Pods)]
  BY <1>3, <1>4
<1>6. \A o \in pods[c] : o \in Pods
  BY <1>2 DEF AtMostOne
<1>7. ASSUME NEW q \in pods'[c] PROVE q.going /\ \E p \in pods[c] : q.node = p.node
  <2>1. PICK p \in pods[c] : q = [p EXCEPT !["going"] = TRUE]
    BY <1>2
  <2> QED
    BY <1>1, <1>6, <2>1
<1>8. ASSUME NEW p \in pods[c] PROVE \E q \in pods'[c] : q.node = p.node
  <2>1. [p EXCEPT !["going"] = TRUE] \in pods'[c]
    BY <1>2
  <2> QED
    BY <1>1, <1>6, <2>1
<1>9. pods[c] = {} => pods'[c] = {}
  BY <1>2
<1> QED
  BY <1>4, <1>5, <1>7, <1>8, <1>9 DEF PodsOnward

LEMMA StayDoes ==
  ASSUME NEW copies, NEW names, pods \in [copies -> AtMostOne(Pods)],
         claims \in [names -> AtMostOne(ClaimStates)]
  PROVE  (UNCHANGED pods => PodsOnward(copies)) /\ (UNCHANGED claims => ClaimsOnward(names))
<1>1. ASSUME UNCHANGED pods PROVE PodsOnward(copies)
  BY <1>1 DEF PodsOnward
<1>2. ASSUME UNCHANGED claims PROVE ClaimsOnward(names)
  BY <1>2 DEF ClaimsOnward
<1> QED
  BY <1>1, <1>2

\* What was read of a pod, or of a volume, that goes on is as true as before.
LEMMA ReadStaysTrue ==
  ASSUME StoreInvariant, PodsOnward(Copies), NEW c \in Copies, NEW read, IsTrue(read, c)
  PROVE  IsTrue(read, c)'
BY DEF IsTrue, PodsOnward

LEMMA OnwardKeeps ==
  ASSUME StoreInvariant, PodsOnward(Copies), ClaimsOnward({"rows"}),
         UNCHANGED <<volumes, seen, pass>>,
         want' \in [stands : BOOLEAN, tpl : {"one", "two"}, copies : 0..Cardinality(Copies),
                    on : SUBSET Nodes, perNode : BOOLEAN],
         want'.perNode = want.perNode, up' \subseteq Nodes, budget' \in [Losses -> Nat]
  PROVE  StoreInvariant'
<1>1. StandTyped(Copies, {"rows"}, StoreTasks)'
  BY DEF StoreInvariant, StandTyped, PassTyped, PodsOnward, ClaimsOnward
<1>2. ReadIsTrue'
  BY ReadStaysTrue DEF StoreInvariant, ReadIsTrue, IsTrue, PodsOnward
<1>3. OneIsPinned'
  BY DEF StoreInvariant, OneIsPinned, PodsOnward
<1>4. NothingInUseGoes'
  <2> SUFFICES ASSUME NEW d \in claims'["rows"], d.going, ~d.orphan
               PROVE  ~want'.perNode /\ \A c \in Copies : \A q \in pods'[c] : q.node = {} \/ q.going
    BY DEF NothingInUseGoes
  <2>1. PICK e \in claims["rows"] : (e.orphan => d.orphan) /\ (d.going => e.going \/ d.orphan)
    BY DEF ClaimsOnward
  <2>2. ~want.perNode /\ \A c \in Copies : \A p \in pods[c] : p.node = {} \/ p.going
    BY <2>1 DEF StoreInvariant, NothingInUseGoes
  <2> QED
    BY <2>2 DEF PodsOnward
<1>5. PassIsTrue'
  BY ReadStaysTrue DEF StoreInvariant, PassIsTrue, Ready, PodsOnward
<1> QED
  BY <1>1, <1>2, <1>3, <1>4, <1>5 DEF StoreInvariant

LEMMA StoreShape ==
  ASSUME StoreInvariant
  PROVE  /\ pods \in [Copies -> AtMostOne(Pods)] /\ claims \in [{"rows"} -> AtMostOne(ClaimStates)]
         /\ volumes \in [{"rows"} -> AtMostOne(VolumeStates)]
         /\ want \in [stands : BOOLEAN, tpl : {"one", "two"}, copies : 0..Cardinality(Copies),
                      on : SUBSET Nodes, perNode : BOOLEAN]
         /\ up \subseteq Nodes /\ budget \in [Losses -> Nat]
  BY DEF StoreInvariant, StandTyped

LEMMA StoreSpends ==
  ASSUME StoreInvariant, NEW kind \in Losses, Store!Spend(kind)
  PROVE  budget' \in [Losses -> Nat]
<1>1. budget \in [Losses -> Nat] /\ budget[kind] > 0 /\ budget' = [budget EXCEPT ![kind] = budget[kind] - 1]
  BY StoreShape DEF Store!Spend
<1> QED
  BY <1>1

\* The pods of a node that dies.
Dying(copies, n, marked) ==
    pods' = [c \in copies |-> {[p EXCEPT !.going = p.going \/ (marked /\ p.node = {n})] : p \in pods[c]}]
LEMMA DyingMarks ==
  ASSUME NEW copies, pods \in [copies -> AtMostOne(Pods)], NEW n, NEW marked \in BOOLEAN,
         Dying(copies, n, marked)
  PROVE  PodsOnward(copies)
<1> DEFINE M(p) == [p EXCEPT !.going = p.going \/ (marked /\ p.node = {n})]
<1>1. pods' = [c \in copies |-> {M(p) : p \in pods[c]}]
  BY DEF Dying
<1>2. ASSUME NEW p \in Pods PROVE M(p) \in Pods /\ M(p).node = p.node /\ (p.going => M(p).going)
  BY DEF Pods
<1>3. \A c \in copies : pods'[c] = {M(p) : p \in pods[c]}
  BY <1>1
<1> HIDE DEF M
<1>4. ASSUME NEW c \in copies PROVE pods'[c] \in AtMostOne(Pods)
  <2>1. CASE pods[c] = {}
    <3>1. pods'[c] = {}
      BY <1>3, <2>1
    <3> QED
      BY <3>1 DEF AtMostOne
  <2>2. ASSUME NEW p \in Pods, pods[c] = {p} PROVE pods'[c] \in AtMostOne(Pods)
    <3>1. pods'[c] = {M(p)}
      BY <1>3, <2>2
    <3> QED
      BY <1>2, <3>1 DEF AtMostOne
  <2>3. pods[c] \in AtMostOne(Pods)
    OBVIOUS
  <2> QED
    BY <2>1, <2>2, <2>3 DEF AtMostOne
<1>5. pods' \in [copies -> AtMostOne(Pods)]
  BY <1>1, <1>4
<1>6. PodsOnward(copies)
  <2>1. ASSUME NEW c \in copies, NEW p \in pods[c] PROVE p \in Pods
    BY DEF AtMostOne
  <2> QED
    BY <1>2, <1>3, <1>5, <2>1 DEF PodsOnward
<1> QED
  BY <1>6

\* What an owner leaves behind.
Orphaned(copies, names) ==
    /\ pods' = [c \in copies |-> {[p EXCEPT !.orphan = TRUE] : p \in pods[c]}]
    /\ claims' = [k \in names |-> {[claim EXCEPT !.orphan = TRUE] : claim \in claims[k]}]
LEMMA OrphaningMarks ==
  ASSUME NEW copies, NEW names, pods \in [copies -> AtMostOne(Pods)],
         claims \in [names -> AtMostOne(ClaimStates)], Orphaned(copies, names)
  PROVE  PodsOnward(copies) /\ ClaimsOnward(names)
<1> DEFINE M(p) == [p EXCEPT !.orphan = TRUE]
<1>2. /\ \A p \in Pods : M(p) \in Pods /\ M(p).node = p.node /\ M(p).going = p.going
      /\ \A e \in ClaimStates : M(e) \in ClaimStates /\ M(e).bound = e.bound /\ M(e).going = e.going
                                /\ M(e).orphan = TRUE
  BY DEF Pods, ClaimStates
<1>3. /\ pods' = [c \in copies |-> {M(p) : p \in pods[c]}]
      /\ claims' = [k \in names |-> {M(e) : e \in claims[k]}]
  BY DEF Orphaned
<1> HIDE DEF M
<1>4. ASSUME NEW S, NEW one \in AtMostOne(S), \A p \in S : M(p) \in S
      PROVE  {M(p) : p \in one} \in AtMostOne(S) /\ one \subseteq S
  <2>1. CASE one = {}
    <3>1. {M(p) : p \in one} = {}
      BY <2>1
    <3> QED
      BY <2>1, <3>1 DEF AtMostOne
  <2>2. ASSUME NEW p \in S, one = {p} PROVE {M(q) : q \in one} \in AtMostOne(S) /\ one \subseteq S
    <3>1. {M(q) : q \in one} = {M(p)}
      BY <2>2
    <3> QED
      BY <1>4, <2>2, <3>1 DEF AtMostOne
  <2> QED
    BY <2>1, <2>2 DEF AtMostOne
<1>5. PodsOnward(copies)
  <2>1. ASSUME NEW c \in copies
        PROVE  pods'[c] \in AtMostOne(Pods) /\ pods[c] \subseteq Pods /\ pods'[c] = {M(p) : p \in pods[c]}
    BY <1>2, <1>3, <1>4
  <2>2. pods' \in [copies -> AtMostOne(Pods)]
    BY <1>3, <2>1
  <2> QED
    BY <1>2, <2>1, <2>2 DEF PodsOnward
<1>6. ClaimsOnward(names)
  <2>1. ASSUME NEW k \in names
        PROVE  /\ claims'[k] \in AtMostOne(ClaimStates) /\ claims[k] \subseteq ClaimStates
               /\ claims'[k] = {M(e) : e \in claims[k]}
    BY <1>2, <1>3, <1>4
  <2>2. claims' \in [names -> AtMostOne(ClaimStates)]
    BY <1>3, <2>1
  <2> QED
    BY <1>2, <2>1, <2>2 DEF ClaimsOnward
<1> QED
  BY <1>5, <1>6

\* What only marks pods and claims.
LEMMA MarksKeep ==
  ASSUME Store!StoresAssumption, StoreInvariant,
         \/ \E c \in Copies : Store!CollectPod(c)
         \/ \E k \in {"rows"} : Store!CollectClaim(k)
         \/ \E n \in Nodes : Store!NodeDies(n) \/ Store!NodeReturns(n)
         \/ Store!Edit \/ Store!Undeclare \/ Store!Declare
  PROVE  StoreInvariant'
<1> USE StoreShape, StayDoes
<1>1. ASSUME NEW c \in Copies, Store!CollectPod(c) PROVE StoreInvariant'
  <2>1. PodsOnward(Copies)
    BY <1>1, MarkDoes DEF Store!CollectPod, Store!Set
  <2> QED
    BY <1>1, <2>1, OnwardKeeps DEF Store!CollectPod
<1>2. ASSUME Store!CollectClaim("rows") PROVE StoreInvariant'
  <2>1. PICK e \in ClaimStates : claims["rows"] = {e} /\ e.orphan
    <3>1. claims["rows"] \in AtMostOne(ClaimStates)
      OBVIOUS
    <3>2. PICK e \in claims["rows"] : e.orphan
      BY <1>2 DEF Store!CollectClaim
    <3> QED
      BY <3>1, <3>2, OneOf
  <2>2. claims' = [claims EXCEPT !["rows"] = {[e EXCEPT !["going"] = TRUE]}]
    <3> DEFINE M(o) == [o EXCEPT !["going"] = TRUE]
    <3>1. claims' = [claims EXCEPT !["rows"] = {M(o) : o \in claims["rows"]}]
      BY <1>2 DEF Store!CollectClaim, Store!Set
    <3> HIDE DEF M
    <3>2. {M(o) : o \in claims["rows"]} = {M(e)}
      BY <2>1
    <3>3. claims' = [claims EXCEPT !["rows"] = {M(e)}]
      BY <3>1, <3>2
    <3> QED
      BY <3>3 DEF M
  <2>3. [e EXCEPT !["going"] = TRUE] \in ClaimStates /\ [e EXCEPT !["going"] = TRUE].bound = e.bound
        /\ [e EXCEPT !["going"] = TRUE].orphan = TRUE
    BY <2>1 DEF ClaimStates
  <2>4. ClaimsOnward({"rows"})
    BY <2>1, <2>2, <2>3 DEF ClaimsOnward, AtMostOne
  <2> QED
    BY <1>2, <2>4, OnwardKeeps DEF Store!CollectClaim
<1>3. ASSUME NEW n \in Nodes, Store!NodeDies(n) PROVE StoreInvariant'
  <2>1. PICK marked \in BOOLEAN :
            pods' = [c \in Copies |-> {[p EXCEPT !.going = p.going \/ (marked /\ p.node = {n})] : p \in pods[c]}]
    BY <1>3 DEF Store!NodeDies
  <2>2. Dying(Copies, n, marked)
    BY <2>1 DEF Dying
  <2>6. PodsOnward(Copies)
    BY <2>2, DyingMarks
  <2>7. budget' \in [Losses -> Nat]
    BY <1>3, StoreSpends DEF Store!NodeDies, Losses
  <2> QED
    BY <1>3, <2>6, <2>7, OnwardKeeps DEF Store!NodeDies
<1>4. ASSUME NEW n \in Nodes, Store!NodeReturns(n) PROVE StoreInvariant'
  <2>1. budget' \in [Losses -> Nat]
    BY <1>4, StoreSpends DEF Store!NodeReturns, Losses
  <2> QED
    BY <1>4, <2>1, OnwardKeeps DEF Store!NodeReturns, Store!objects
<1>5. ASSUME Store!Edit PROVE StoreInvariant'
  <2>1. budget' \in [Losses -> Nat]
    BY <1>5, StoreSpends DEF Store!Edit, Losses
  <2>2. UNCHANGED <<up, pods, claims, volumes, seen, pass>>
    BY <1>5 DEF Store!Edit, Store!objects
  <2>3. Cardinality(Copies) = Store!Cardinality(Copies) /\ Cardinality(Copies) \in Nat
    <3>1. IsFiniteSet(Copies)
      BY DEF Store!StoresAssumption, Store!StandAssumption, IsFiniteSet, Store!IsFiniteSet
    <3>2. Cardinality(Copies) = Store!Cardinality(Copies)
      BY DEF Cardinality, Store!Cardinality
    <3> QED
      BY <3>1, <3>2, FS_CardinalityType
  <2>4. /\ want' \in [stands : BOOLEAN, tpl : {"one", "two"}, copies : 0..Cardinality(Copies),
                      on : SUBSET Nodes, perNode : BOOLEAN]
        /\ want'.perNode = want.perNode
    BY <1>5, <2>3 DEF Store!Edit
  <2> QED
    BY <2>1, <2>2, <2>4, OnwardKeeps
<1>6. ASSUME Store!Undeclare PROVE StoreInvariant'
  <2>1. budget' \in [Losses -> Nat]
    BY <1>6, StoreSpends DEF Store!Undeclare, Losses
  <2>2. PodsOnward(Copies) /\ ClaimsOnward({"rows"})
    BY <1>6, OrphaningMarks DEF Orphaned, Store!Undeclare
  <2>7. /\ want' \in [stands : BOOLEAN, tpl : {"one", "two"}, copies : 0..Cardinality(Copies),
                      on : SUBSET Nodes, perNode : BOOLEAN]
        /\ want'.perNode = want.perNode
    BY <1>6 DEF Store!Undeclare
  <2> QED
    BY <1>6, <2>1, <2>2, <2>7, OnwardKeeps DEF Store!Undeclare
<1>7. ASSUME Store!Declare PROVE StoreInvariant'
  <2>1. /\ want' \in [stands : BOOLEAN, tpl : {"one", "two"}, copies : 0..Cardinality(Copies),
                      on : SUBSET Nodes, perNode : BOOLEAN]
        /\ want'.perNode = want.perNode
    BY <1>7 DEF Store!Declare
  <2> QED
    BY <1>7, <2>1, OnwardKeeps DEF Store!Declare, Store!objects
<1> QED
  BY <1>1, <1>2, <1>3, <1>4, <1>5, <1>6, <1>7

\* A field of the volumes of one name, or of its claims.
LEMMA FieldOfVolumes ==
  ASSUME NEW field \in {"phase", "of", "going"}, NEW value,
         field = "phase" => value \in {"available", "bound", "released"},
         field = "of" => value \in {"none", "claim", "gone"}, field = "going" => value \in BOOLEAN
  PROVE  \A vs \in AtMostOne(VolumeStates) :
             {[v EXCEPT ![field] = value] : v \in vs} \in AtMostOne(VolumeStates)
<1> TAKE vs \in AtMostOne(VolumeStates)
<1>1. ASSUME NEW v \in VolumeStates PROVE [v EXCEPT ![field] = value] \in VolumeStates
  BY <1>1 DEF VolumeStates
<1>2. CASE vs = {}
  BY <1>2 DEF AtMostOne
<1>3. ASSUME NEW v \in VolumeStates, vs = {v}
      PROVE  {[w EXCEPT ![field] = value] : w \in vs} \in AtMostOne(VolumeStates)
  <2>1. {[w EXCEPT ![field] = value] : w \in vs} = {[v EXCEPT ![field] = value]}
    BY <1>3
  <2> QED
    BY <1>1, <2>1 DEF AtMostOne
<1> QED
  BY <1>2, <1>3 DEF AtMostOne

LEMMA FieldOfClaims ==
  ASSUME NEW field \in {"bound", "going", "orphan"}
  PROVE  \A cs \in AtMostOne(ClaimStates) :
         /\ {[c EXCEPT ![field] = TRUE] : c \in cs} \in AtMostOne(ClaimStates)
         /\ \A d \in {[c EXCEPT ![field] = TRUE] : c \in cs} : \E c \in cs :
                /\ field # "going" => d.going = c.going
                /\ field # "orphan" => d.orphan = c.orphan
                /\ field # "bound" => d.bound = c.bound
<1> TAKE cs \in AtMostOne(ClaimStates)
<1>1. ASSUME NEW c \in ClaimStates
      PROVE  /\ [c EXCEPT ![field] = TRUE] \in ClaimStates
             /\ field # "going" => [c EXCEPT ![field] = TRUE].going = c.going
             /\ field # "orphan" => [c EXCEPT ![field] = TRUE].orphan = c.orphan
             /\ field # "bound" => [c EXCEPT ![field] = TRUE].bound = c.bound
  BY <1>1 DEF ClaimStates
<1>2. CASE cs = {}
  BY <1>2 DEF AtMostOne
<1>3. ASSUME NEW c \in ClaimStates, cs = {c}
      PROVE  /\ {[d EXCEPT ![field] = TRUE] : d \in cs} \in AtMostOne(ClaimStates)
             /\ \A d \in {[c0 EXCEPT ![field] = TRUE] : c0 \in cs} : \E c1 \in cs :
                    /\ field # "going" => d.going = c1.going
                    /\ field # "orphan" => d.orphan = c1.orphan
                    /\ field # "bound" => d.bound = c1.bound
  <2>1. {[d EXCEPT ![field] = TRUE] : d \in cs} = {[c EXCEPT ![field] = TRUE]}
    BY <1>3
  <2>2. {[c EXCEPT ![field] = TRUE]} \in AtMostOne(ClaimStates)
    BY <1>1, <1>3 DEF AtMostOne
  <2> QED
    BY <1>1, <1>3, <2>1, <2>2
<1>4. cs = {} \/ \E c \in ClaimStates : cs = {c}
  BY DEF AtMostOne
<1> QED
  BY <1>2, <1>3, <1>4

\* The claim and the volume of a store, each with a field that is set.
LEMMA SetIs ==
  ASSUME StoreInvariant, NEW field, NEW value
  PROVE  /\ Store!Set(volumes, "rows", field, value)
                = [volumes EXCEPT !["rows"] = {[o EXCEPT ![field] = value] : o \in volumes["rows"]}]
         /\ Store!Set(claims, "rows", field, value)
                = [claims EXCEPT !["rows"] = {[o EXCEPT ![field] = value] : o \in claims["rows"]}]
BY DEF Store!Set

LEMMA SetVolume ==
  ASSUME StoreInvariant, NEW field \in {"phase", "of", "going"}, NEW value,
         field = "phase" => value \in {"available", "bound", "released"},
         field = "of" => value \in {"none", "claim", "gone"}, field = "going" => value \in BOOLEAN
  PROVE  Store!Set(volumes, "rows", field, value) \in [{"rows"} -> AtMostOne(VolumeStates)]
<1>1. volumes \in [{"rows"} -> AtMostOne(VolumeStates)]
  BY StoreShape
<1> DEFINE marked == {[o EXCEPT ![field] = value] : o \in volumes["rows"]}
<1>2. marked \in AtMostOne(VolumeStates)
  <2>1. volumes["rows"] \in AtMostOne(VolumeStates)
    BY <1>1
  <2>2. \A vs \in AtMostOne(VolumeStates) :
            {[v EXCEPT ![field] = value] : v \in vs} \in AtMostOne(VolumeStates)
    BY FieldOfVolumes
  <2> QED
    BY <2>1, <2>2, Zenon
<1>3. Store!Set(volumes, "rows", field, value) = [volumes EXCEPT !["rows"] = marked]
  BY SetIs
<1> HIDE DEF marked
<1> QED
  BY <1>1, <1>2, <1>3

LEMMA NoRecord == \A S : {} \in AtMostOne(S)
BY DEF AtMostOne

\* What was read of the volume that ends is of another one from now on.
LEMMA VolumeAges ==
  ASSUME StoreInvariant, Store!VolumeEnds("rows")
  PROVE  /\ seen' \in [pods : [Copies -> AtMostOne(PodsRead)], claims : SUBSET {"rows"},
                       volumes : [{"rows"} -> AtMostOne(VolumesRead)]]
         /\ seen'.pods = seen.pods
         /\ \A r \in seen'.volumes["rows"] : ~r.is
<1> DEFINE aged == {[r EXCEPT !.is = FALSE] : r \in seen.volumes["rows"]}
<1>1. seen \in [pods : [Copies -> AtMostOne(PodsRead)], claims : SUBSET {"rows"},
                volumes : [{"rows"} -> AtMostOne(VolumesRead)]]
  BY DEF StoreInvariant, StandTyped
<1>2. seen' = [seen EXCEPT !.volumes["rows"] = aged]
  BY DEF Store!VolumeEnds, Store!Aged
<1>3. aged \in AtMostOne(VolumesRead) /\ \A r \in aged : ~r.is
  <2>1. CASE seen.volumes["rows"] = {}
    BY <2>1 DEF AtMostOne
  <2>2. ASSUME NEW r \in VolumesRead, seen.volumes["rows"] = {r}
        PROVE  aged \in AtMostOne(VolumesRead) /\ \A x \in aged : ~x.is
    <3>1. aged = {[r EXCEPT !.is = FALSE]}
      BY <2>2
    <3>2. [r EXCEPT !.is = FALSE] \in VolumesRead /\ [r EXCEPT !.is = FALSE].is = FALSE
      BY DEF VolumesRead
    <3> QED
      BY <3>1, <3>2 DEF AtMostOne
  <2> QED
    BY <1>1, <2>1, <2>2 DEF AtMostOne
<1> HIDE DEF aged
<1> QED
  BY <1>1, <1>2, <1>3

\* The binder, and the end of a claim or of a volume.
LEMMA ClaimsKeep ==
  ASSUME Store!StoresAssumption, StoreInvariant,
         \/ Store!ClaimEnds("rows") \/ (want.perNode /\ (Store!MarkVolume("rows") \/ Store!Bind("rows")))
         \/ Store!ReleaseVolume("rows") \/ Store!VolumeEnds("rows")
  PROVE  StoreInvariant'
<1> USE StoreShape
<1>1. UNCHANGED <<want, up, pods, pass>>
  BY DEF Store!ClaimEnds, Store!MarkVolume, Store!Bind, Store!ReleaseVolume, Store!VolumeEnds
<1>2. budget' \in [Losses -> Nat]
  BY StoreSpends DEF Store!ClaimEnds, Store!MarkVolume, Store!Bind, Store!ReleaseVolume,
     Store!VolumeEnds, Store!Races, Losses
<1>3. /\ seen' \in [pods : [Copies -> AtMostOne(PodsRead)], claims : SUBSET {"rows"},
                    volumes : [{"rows"} -> AtMostOne(VolumesRead)]]
      /\ seen'.pods = seen.pods
  <2>1. CASE Store!VolumeEnds("rows")
    BY <2>1, VolumeAges
  <2>2. CASE UNCHANGED seen
    BY <2>2 DEF StoreInvariant, StandTyped
  <2> QED
    BY <2>1, <2>2 DEF Store!ClaimEnds, Store!MarkVolume, Store!Bind, Store!ReleaseVolume
<1>4. volumes' \in [{"rows"} -> AtMostOne(VolumeStates)]
  <2>1. CASE Store!VolumeEnds("rows")
    BY <2>1, NoRecord DEF Store!VolumeEnds
  <2>2. CASE \/ UNCHANGED volumes
             \/ volumes' = Store!Set(volumes, "rows", "of", "gone")
             \/ volumes' = Store!Set(volumes, "rows", "of", "claim")
             \/ volumes' = Store!Set(volumes, "rows", "phase", "bound")
             \/ volumes' = Store!Set(volumes, "rows", "phase", "released")
    BY <2>2, SetVolume
  <2> QED
    BY <2>1, <2>2 DEF Store!ClaimEnds, Store!MarkVolume, Store!Bind, Store!ReleaseVolume
<1>5. /\ claims' \in [{"rows"} -> AtMostOne(ClaimStates)]
      /\ \A d \in claims'["rows"] : \E e \in claims["rows"] : d.going = e.going /\ d.orphan = e.orphan
  <2>1. CASE Store!ClaimEnds("rows")
    <3>1. claims' = [claims EXCEPT !["rows"] = {}]
      BY <2>1 DEF Store!ClaimEnds
    <3> QED
      BY <3>1, NoRecord
  <2>2. CASE Store!Bind("rows")
    <3> DEFINE bound == {[c EXCEPT !["bound"] = TRUE] : c \in claims["rows"]}
    <3>1. claims' = [claims EXCEPT !["rows"] = bound]
      BY <2>2 DEF Store!Bind, Store!Set
    <3>2. claims["rows"] \in AtMostOne(ClaimStates)
      BY StoreShape
    <3>3. \A cs \in AtMostOne(ClaimStates) :
             /\ {[c EXCEPT !["bound"] = TRUE] : c \in cs} \in AtMostOne(ClaimStates)
             /\ \A d \in {[c EXCEPT !["bound"] = TRUE] : c \in cs} : \E c \in cs :
                    d.going = c.going /\ d.orphan = c.orphan
      BY FieldOfClaims
    <3>4. /\ bound \in AtMostOne(ClaimStates)
          /\ \A d \in bound : \E e \in claims["rows"] : d.going = e.going /\ d.orphan = e.orphan
      BY <3>2, <3>3, Zenon
    <3> HIDE DEF bound
    <3> QED
      BY <3>1, <3>4, StoreShape
  <2>3. CASE UNCHANGED claims
    BY <2>3
  <2> QED
    BY <2>1, <2>2, <2>3 DEF Store!MarkVolume, Store!ReleaseVolume, Store!VolumeEnds
<1>6. StandTyped(Copies, {"rows"}, StoreTasks)'
  BY <1>1, <1>2, <1>3, <1>4, <1>5 DEF StoreInvariant, StandTyped, PassTyped
<1>7. ReadIsTrue' /\ PassIsTrue'
  BY <1>1, <1>3 DEF StoreInvariant, ReadIsTrue, PassIsTrue, Ready, IsTrue
<1>8. OneIsPinned' /\ NothingInUseGoes'
  BY <1>1, <1>5 DEF StoreInvariant, OneIsPinned, NothingInUseGoes
<1> QED
  BY <1>6, <1>7, <1>8 DEF StoreInvariant

\* The task that is next is of the one claim, or of one copy.
LEMMA TaskIs ==
  ASSUME StoreInvariant, pass.todo # <<>>
  PROVE  /\ pass.todo \in Seq(StoreTasks) /\ Store!Task \in StoreTasks
         /\ pass.tpl \in {"one", "two"} /\ pass.pods \in [Copies -> AtMostOne(PodsRead)]
         /\ Store!Task[1] \in {"heal", "pod", "retire"} => Store!Of \in Copies
         /\ Store!Task[1] \in {"claim", "unclaim", "write", "get", "spend", "rewrite", "create"} =>
                Store!Of = "rows"
         /\ Ready(Store!Task[1])
         /\ Store!Task \in Entries(pass.todo)
<1>1. /\ pass.todo \in Seq(StoreTasks) /\ pass.tpl \in {"one", "two"}
      /\ pass.pods \in [Copies -> AtMostOne(PodsRead)]
  BY DEF StoreInvariant, StandTyped, PassTyped
<1>2. Store!Task = Head(pass.todo) /\ Store!Task \in StoreTasks /\ Store!Task \in Entries(pass.todo)
  BY <1>1, FirstAndRest DEF Store!Task
<1>3. ASSUME NEW task \in StoreTasks
      PROVE  /\ task[1] \in {"heal", "pod", "retire"} => task[2] \in Copies
             /\ task[1] \in {"claim", "unclaim", "write", "get", "spend", "rewrite", "create"} =>
                    task[2] = "rows"
  BY DEF StoreTasks, LaterTasks
<1>4. Ready(Store!Task[1])
  BY <1>2 DEF StoreInvariant, PassIsTrue
<1> QED
  BY <1>1, <1>2, <1>3, <1>4 DEF Store!Of

LEMMA LaterIsReady ==
  ASSUME NEW task \in LaterTasks
  PROVE  Ready(task[1])'
<1>1. task[1] # "unclaim"
  BY DEF LaterTasks
<1> QED
  BY <1>1 DEF Ready

\* What was read stays true.
Lasts == \A c \in Copies : \A read : IsTrue(read, c) => IsTrue(read, c)'

\* The pass goes on with another list of tasks.
LEMMA PassGoesOn ==
  ASSUME StoreInvariant, pass.todo # <<>>, NEW todo \in Seq(StoreTasks), todo # <<>>,
         pass' = [pass EXCEPT !.todo = todo],
         want'.perNode = want.perNode, Lasts,
         Rest(todo) \subseteq LaterTasks,
         \A task \in Entries(todo) : task \in Entries(pass.todo) \/ task[1] \notin {"heal", "pod"},
         Ready(Head(todo)[1])'
  PROVE  PassTyped(Copies, {"rows"}, StoreTasks)' /\ PassIsTrue'
<1>1. pass' \in [todo : {todo}, tpl : {pass.tpl}, pods : {pass.pods}, claims : {pass.claims},
                 stranded : {pass.stranded}]
  BY DEF StoreInvariant, StandTyped, PassTyped
<1>2. PassTyped(Copies, {"rows"}, StoreTasks)'
  BY <1>1 DEF StoreInvariant, StandTyped, PassTyped
<1>3. PassIsTrue'
  BY <1>1 DEF StoreInvariant, PassIsTrue, Lasts
<1> QED
  BY <1>2, <1>3

LEMMA PassIsOver ==
  ASSUME pass' = Store!Idle
  PROVE  PassTyped(Copies, {"rows"}, StoreTasks)' /\ PassIsTrue'
<1>1. PICK none : none = <<>>
  OBVIOUS
<1>2. none \in Seq(StoreTasks)
  BY <1>1
<1>3. Store!Idle.todo = none
      /\ Store!Idle \in [todo : {none}, tpl : {""}, pods : {none}, claims : {{}}, stranded : {{}}]
  BY <1>1 DEF Store!Idle
<1>4. pass'.todo = none
      /\ pass' \in [todo : {none}, tpl : {""}, pods : {none}, claims : {{}}, stranded : {{}}]
  BY <1>3
<1>5. PassTyped(Copies, {"rows"}, StoreTasks)'
  BY <1>1, <1>2, <1>4 DEF PassTyped
<1>6. PassIsTrue'
  BY <1>1, <1>4 DEF PassIsTrue
<1> QED
  BY <1>5, <1>6

LEMMA DoneKeeps ==
  ASSUME StoreInvariant, pass.todo # <<>>, Store!Done, want'.perNode = want.perNode, Lasts
  PROVE  PassTyped(Copies, {"rows"}, StoreTasks)' /\ PassIsTrue'
<1>0. PICK todo : todo = Tail(pass.todo)
  OBVIOUS
<1>1. /\ todo \in Seq(StoreTasks) /\ Entries(todo) = Rest(pass.todo)
      /\ Rest(todo) \subseteq Rest(pass.todo) /\ Rest(pass.todo) \subseteq Entries(pass.todo)
      /\ todo # <<>> => Head(todo) \in Rest(pass.todo)
  BY <1>0, TaskIs, FirstAndRest, RestIsOf
<1>2. Rest(pass.todo) \subseteq LaterTasks
  BY DEF StoreInvariant, PassIsTrue
<1>3. pass' = IF todo = <<>> THEN Store!Idle ELSE [pass EXCEPT !.todo = todo]
  BY <1>0 DEF Store!Done, Store!Left
<1>4. CASE todo = <<>>
  BY <1>3, <1>4, PassIsOver
<1>5. CASE todo # <<>>
  <2>1. Ready(Head(todo)[1])'
    BY <1>1, <1>2, <1>5, LaterIsReady
  <2> QED
    BY <1>1, <1>2, <1>3, <1>5, <2>1, PassGoesOn
<1> QED
  BY <1>4, <1>5

LEMMA OneTask ==
  ASSUME NEW S, NEW task \in S
  PROVE  /\ <<task>> \in Seq(S) /\ <<task>> # <<>> /\ Head(<<task>>) = task
         /\ Entries(<<task>>) = {task} /\ Rest(<<task>>) = {}
<1>1. <<task>> \in Seq(S) /\ <<task>> # <<>> /\ Len(<<task>>) = 1 /\ <<task>>[1] = task
  OBVIOUS
<1>2. 1..1 = {1} /\ 2..1 = {}
  OBVIOUS
<1>3. Entries(<<task>>) = {task} /\ Rest(<<task>>) = {}
  BY <1>1, <1>2 DEF Entries, Rest
<1> QED
  BY <1>1, <1>3

LEMMA AbandonKeeps ==
  ASSUME StoreInvariant, pass.todo # <<>>, Store!Abandoned, want'.perNode = want.perNode, Lasts
  PROVE  PassTyped(Copies, {"rows"}, StoreTasks)' /\ PassIsTrue'
<1> DEFINE sweep == <<"sweep", 0>>
<1>1. sweep \in StoreTasks /\ sweep \in LaterTasks /\ sweep[1] = "sweep"
  BY DEF StoreTasks, LaterTasks
<1>2. pass' = IF <<sweep>> = <<>> THEN Store!Idle ELSE [pass EXCEPT !.todo = <<sweep>>]
  BY DEF Store!Abandoned, Store!Left, Store!LastTask
<1> HIDE DEF sweep
<1>3. /\ <<sweep>> \in Seq(StoreTasks) /\ <<sweep>> # <<>> /\ Head(<<sweep>>) = sweep
      /\ Entries(<<sweep>>) = {sweep} /\ Rest(<<sweep>>) = {}
  BY <1>1, OneTask
<1>4. Ready(Head(<<sweep>>)[1])'
  BY <1>1, <1>3, LaterIsReady
<1>5. \A task \in Entries(<<sweep>>) : task[1] \notin {"heal", "pod"}
  BY <1>1, <1>3
<1>6. pass' = [pass EXCEPT !.todo = <<sweep>>]
  BY <1>2, <1>3
<1> DEFINE todo == <<sweep>>
<1> HIDE DEF todo
<1>7. /\ todo \in Seq(StoreTasks) /\ todo # <<>> /\ Rest(todo) \subseteq LaterTasks
      /\ \A task \in Entries(todo) : task[1] \notin {"heal", "pod"}
      /\ Ready(Head(todo)[1])' /\ pass' = [pass EXCEPT !.todo = todo]
  BY <1>3, <1>4, <1>5, <1>6 DEF todo
<1> QED
  BY <1>7, PassGoesOn

LEMMA ThenKeeps ==
  ASSUME StoreInvariant, pass.todo # <<>>, want'.perNode = want.perNode, Lasts, Store!Of = "rows",
         NEW kind \in {"write", "get", "spend", "rewrite", "create"}, pass' = Store!Then(kind)
  PROVE  PassTyped(Copies, {"rows"}, StoreTasks)' /\ PassIsTrue'
<1> DEFINE task == <<kind, "rows">>
<1>0. PICK todo : todo = <<task>> \o Tail(pass.todo)
  OBVIOUS
<1>1. task \in StoreTasks /\ task[1] = kind
  BY DEF StoreTasks
<1>2. pass' = [pass EXCEPT !.todo = todo]
  BY <1>0 DEF Store!Then
<1> HIDE DEF task
<1>3. /\ Tail(pass.todo) \in Seq(StoreTasks) /\ Entries(Tail(pass.todo)) = Rest(pass.todo)
      /\ Rest(pass.todo) \subseteq Entries(pass.todo)
  BY TaskIs, FirstAndRest, RestIsOf
<1>4. /\ todo \in Seq(StoreTasks) /\ todo # <<>> /\ Head(todo) = task
      /\ Rest(todo) = Rest(pass.todo) /\ Entries(todo) = {task} \cup Rest(pass.todo)
  BY <1>0, <1>1, <1>3, PutBefore
<1>5. Rest(pass.todo) \subseteq LaterTasks
  BY DEF StoreInvariant, PassIsTrue
<1>6. \A t \in Entries(todo) : t \in Entries(pass.todo) \/ t[1] \notin {"heal", "pod"}
  BY <1>1, <1>3, <1>4
<1>7. Ready(Head(todo)[1])'
  BY <1>1, <1>4 DEF Ready
<1> QED
  BY <1>1, <1>2, <1>4, <1>5, <1>6, <1>7, PassGoesOn

LEMMA SameLasts == UNCHANGED pods => Lasts
BY DEF Lasts, IsTrue

\* A step of the pass that touches no object.
LEMMA SameWorld ==
  ASSUME StoreInvariant, UNCHANGED <<want, up, pods, claims, volumes, seen>>,
         budget' \in [Losses -> Nat],
         PassTyped(Copies, {"rows"}, StoreTasks)', PassIsTrue'
  PROVE  StoreInvariant'
<1>1. StandTyped(Copies, {"rows"}, StoreTasks)'
  BY DEF StoreInvariant, StandTyped
<1>2. ReadIsTrue' /\ OneIsPinned' /\ NothingInUseGoes'
  BY DEF StoreInvariant, ReadIsTrue, IsTrue, OneIsPinned, NothingInUseGoes
<1> QED
  BY <1>1, <1>2 DEF StoreInvariant

LEMMA RequestsKeep ==
  ASSUME StoreInvariant,
         Store!StandClaim \/ Store!GetVolume \/ Store!HealFails \/ Store!Fail
  PROVE  StoreInvariant'
<1>1. pass.todo # <<>> /\ UNCHANGED <<want, up, pods, claims, volumes, seen>>
  BY DEF Store!StandClaim, Store!GetVolume, Store!HealFails, Store!Fail, Store!Is, Store!objects
<1>2. Lasts /\ want'.perNode = want.perNode
  BY <1>1, SameLasts
<1>3. budget' \in [Losses -> Nat]
  BY StoreSpends, StoreShape DEF Store!StandClaim, Store!GetVolume, Store!HealFails, Store!Fail,
     Store!Races, Losses
<1>4. CASE Store!StandClaim \/ Store!GetVolume
  <2>1. Store!Of = "rows"
    BY <1>1, <1>4, TaskIs DEF Store!StandClaim, Store!GetVolume, Store!Is
  <2>2. CASE Store!Done
    BY <1>1, <1>2, <1>3, <2>2, DoneKeeps, SameWorld
  <2>3. CASE \E kind \in {"write", "get", "spend", "rewrite", "create"} : pass' = Store!Then(kind)
    BY <1>1, <1>2, <1>3, <2>1, <2>3, ThenKeeps, SameWorld
  <2> QED
    BY <1>4, <2>2, <2>3 DEF Store!StandClaim, Store!GetVolume
<1>5. CASE Store!HealFails
  BY <1>1, <1>2, <1>3, <1>5, DoneKeeps, SameWorld DEF Store!HealFails
<1>6. CASE Store!Fail
  BY <1>1, <1>2, <1>3, <1>6, AbandonKeeps, SameWorld DEF Store!Fail
<1> QED
  BY <1>4, <1>5, <1>6

\* The volume that is swept is marked, and no other.
LEMMA SweptIs ==
  ASSUME StoreInvariant, Store!Sweep
  PROVE  /\ volumes' \in [{"rows"} -> AtMostOne(VolumeStates)]
         /\ \A w \in volumes'["rows"] : \E v \in volumes["rows"] :
                w.phase = v.phase /\ w.of = v.of /\ (w.going => v.going \/ Store!Taken("rows"))
         /\ \A v \in volumes["rows"] : \E w \in volumes'["rows"] : w.phase = v.phase /\ w.of = v.of
<1> DEFINE swept == {[v EXCEPT !.going = v.going \/ Store!Taken("rows")] : v \in volumes["rows"]}
<1>1. volumes' = [k \in {"rows"} |-> {[v EXCEPT !.going = v.going \/ Store!Taken(k)] : v \in volumes[k]}]
  BY DEF Store!Sweep
<1>2. volumes' = [k \in {"rows"} |-> swept]
  <2>1. \A k \in {"rows"} : {[v EXCEPT !.going = v.going \/ Store!Taken(k)] : v \in volumes[k]} = swept
    OBVIOUS
  <2> HIDE DEF swept
  <2> QED
    BY <1>1, <2>1
<1>3. PICK taken \in BOOLEAN : taken = Store!Taken("rows")
  BY DEF Store!Taken
<1>4. ASSUME NEW v \in VolumeStates
      PROVE  /\ [v EXCEPT !.going = v.going \/ taken] \in VolumeStates
             /\ [v EXCEPT !.going = v.going \/ taken].phase = v.phase
             /\ [v EXCEPT !.going = v.going \/ taken].of = v.of
             /\ [v EXCEPT !.going = v.going \/ taken].going => v.going \/ taken
  <2>1. PICK going \in BOOLEAN : going = (v.going \/ taken)
    OBVIOUS
  <2> QED
    BY <2>1 DEF VolumeStates
<1>5. CASE volumes["rows"] = {}
  <2>1. swept = {}
    BY <1>5
  <2> HIDE DEF swept
  <2> QED
    BY <1>2, <1>5, <2>1, NoRecord
<1>6. ASSUME NEW v \in VolumeStates, volumes["rows"] = {v}
      PROVE  /\ volumes' \in [{"rows"} -> AtMostOne(VolumeStates)]
             /\ \E w : /\ volumes'["rows"] = {w}
                      /\ w.phase = v.phase /\ w.of = v.of /\ (w.going => v.going \/ taken)
  <2> DEFINE w == [v EXCEPT !.going = v.going \/ taken]
  <2>1. swept = {w}
    BY <1>3, <1>6
  <2>2. w \in VolumeStates /\ w.phase = v.phase /\ w.of = v.of /\ (w.going => v.going \/ taken)
    BY <1>4
  <2> HIDE DEF swept, w
  <2> QED
    BY <1>2, <2>1, <2>2, OneIn
<1>7. volumes["rows"] \in AtMostOne(VolumeStates)
  BY StoreShape
<1> QED
  BY <1>3, <1>5, <1>6, <1>7 DEF AtMostOne

LEMMA VolumeStepsKeep ==
  ASSUME StoreInvariant,
         Store!WriteVolume \/ Store!DeleteSpent \/ Store!RewriteVolume \/ Store!Sweep
  PROVE  StoreInvariant'
<1>1. pass.todo # <<>> /\ UNCHANGED <<want, up, pods, claims, seen, budget>>
  BY DEF Store!WriteVolume, Store!DeleteSpent, Store!RewriteVolume, Store!Sweep, Store!Is
<1>2. Lasts /\ want'.perNode = want.perNode
  BY <1>1, SameLasts
<1>3. volumes \in [{"rows"} -> AtMostOne(VolumeStates)]
  BY StoreShape
<1>4. ~Store!Sweep => Store!Of = "rows"
  BY <1>1, TaskIs DEF Store!WriteVolume, Store!DeleteSpent, Store!RewriteVolume, Store!Is
<1>5. volumes' \in [{"rows"} -> AtMostOne(VolumeStates)]
  <2>1. CASE Store!WriteVolume \/ Store!RewriteVolume
    <3>1. {Store!NewVolume} \in AtMostOne(VolumeStates)
      BY OneIn DEF Store!NewVolume, VolumeStates
    <3>2. UNCHANGED volumes \/ volumes' = [volumes EXCEPT !["rows"] = {Store!NewVolume}]
      BY <1>4, <2>1 DEF Store!WriteVolume, Store!RewriteVolume, Store!Sweep, Store!Is
    <3> QED
      BY <1>3, <3>1, <3>2
  <2>2. CASE Store!DeleteSpent
    <3>1. volumes' = Store!Set(volumes, "rows", "going", TRUE)
      BY <1>4, <2>2 DEF Store!DeleteSpent, Store!Sweep, Store!Is
    <3> QED
      BY <3>1, SetVolume
  <2>3. CASE Store!Sweep
    BY <2>3, SweptIs
  <2> QED
    BY <2>1, <2>2, <2>3
<1>6. PassTyped(Copies, {"rows"}, StoreTasks)' /\ PassIsTrue'
  <2>1. CASE Store!Done
    BY <1>1, <1>2, <2>1, DoneKeeps
  <2>2. CASE Store!Abandoned
    BY <1>1, <1>2, <2>2, AbandonKeeps
  <2>3. CASE ~Store!Sweep /\ \E kind \in {"write", "get", "spend", "rewrite", "create"} : pass' = Store!Then(kind)
    BY <1>1, <1>2, <1>4, <2>3, ThenKeeps
  <2>4. CASE Store!Sweep
    BY <2>1, <2>4 DEF Store!Sweep
  <2> QED
    BY <2>1, <2>2, <2>3, <2>4 DEF Store!WriteVolume, Store!DeleteSpent, Store!RewriteVolume
<1>7. StandTyped(Copies, {"rows"}, StoreTasks)'
  BY <1>1, <1>5, <1>6 DEF StoreInvariant, StandTyped
<1>8. ReadIsTrue' /\ OneIsPinned' /\ NothingInUseGoes'
  BY <1>1 DEF StoreInvariant, ReadIsTrue, IsTrue, OneIsPinned, NothingInUseGoes
<1> QED
  BY <1>6, <1>7, <1>8 DEF StoreInvariant

\* A pod stands on, or a new one has no node yet.
PodsStand ==
    /\ pods' \in [Copies -> AtMostOne(Pods)]
    /\ \A c \in Copies :
           /\ \A p \in pods[c] : \E q \in pods'[c] : q.node = p.node
           /\ \A q \in pods'[c] :
                  q.node = {} \/ \E p \in pods[c] : q.node = p.node /\ (p.going => q.going)

LEMMA OnwardStands ==
  ASSUME PodsOnward(Copies)
  PROVE  PodsStand /\ (OneIsPinned /\ want' = want => OneIsPinned')
BY DEF PodsOnward, PodsStand, OneIsPinned

LEMMA PodsStandKeep ==
  ASSUME StoreInvariant, UNCHANGED <<want, up, claims, volumes, seen, budget>>, PodsStand,
         OneIsPinned', PassTyped(Copies, {"rows"}, StoreTasks)', PassIsTrue'
  PROVE  StoreInvariant'
<1>1. StandTyped(Copies, {"rows"}, StoreTasks)'
  BY DEF StoreInvariant, StandTyped, PodsStand
<1>2. ReadIsTrue'
  BY DEF StoreInvariant, ReadIsTrue, IsTrue, PodsStand
<1>3. NothingInUseGoes'
  BY DEF StoreInvariant, NothingInUseGoes, PodsStand
<1> QED
  BY <1>1, <1>2, <1>3 DEF StoreInvariant

LEMMA StandLasts == PodsStand => Lasts
BY DEF PodsStand, Lasts, IsTrue

LEMMA MarkedPod ==
  ASSUME StoreInvariant, NEW c \in Copies, Store!DeletePod(c)
  PROVE  PodsOnward(Copies)
<1>1. pods' = [pods EXCEPT ![c] = {[o EXCEPT !["going"] = TRUE] : o \in pods[c]}]
  BY DEF Store!DeletePod, Store!Set
<1> QED
  BY <1>1, StoreShape, MarkDoes

LEMMA PodStepsKeep ==
  ASSUME StoreInvariant, Store!StandPod \/ Store!Retire
  PROVE  StoreInvariant' /\ \A c \in Copies : pods[c] # {} => pods'[c] # {}
<1>1. pass.todo # <<>> /\ UNCHANGED <<want, up, claims, volumes, seen, budget>>
  BY DEF Store!StandPod, Store!Retire, Store!Is
<1>2. Store!Of \in Copies /\ pass.tpl \in {"one", "two"} /\ Store!Task \in Entries(pass.todo)
  BY <1>1, TaskIs DEF Store!StandPod, Store!Retire, Store!Is
<1>3. PICK c \in Copies : c = Store!Of
  BY <1>2
<1>4. OneIsPinned /\ want' = want /\ pods \in [Copies -> AtMostOne(Pods)]
  BY <1>1, StoreShape DEF StoreInvariant
<1>5. ASSUME UNCHANGED pods \/ Store!DeletePod(c)
      PROVE  /\ PodsStand /\ OneIsPinned' /\ Lasts
             /\ \A d \in Copies : pods[d] # {} => pods'[d] # {}
  <2>1. PodsOnward(Copies)
    <3>1. CASE UNCHANGED pods
      BY <1>4, <3>1 DEF PodsOnward
    <3> QED
      BY <1>5, <3>1, MarkedPod
  <2> QED
    BY <1>4, <2>1, OnwardStands, StandLasts DEF PodsStand
<1>6. CASE Store!Retire
  <2>1. (UNCHANGED pods \/ Store!DeletePod(c)) /\ (Store!Done \/ Store!Abandoned)
    BY <1>3, <1>6 DEF Store!Retire
  <2>2. PassTyped(Copies, {"rows"}, StoreTasks)' /\ PassIsTrue'
    BY <1>1, <1>4, <1>5, <2>1, DoneKeeps, AbandonKeeps
  <2> QED
    BY <1>1, <1>5, <2>1, <2>2, PodsStandKeep
<1>7. CASE Store!StandPod
  <2>1. Store!Done
    BY <1>7 DEF Store!StandPod
  <2>2. CASE UNCHANGED pods \/ Store!DeletePod(c)
    <3>1. PassTyped(Copies, {"rows"}, StoreTasks)' /\ PassIsTrue'
      BY <1>1, <1>4, <1>5, <2>1, <2>2, DoneKeeps
    <3> QED
      BY <1>1, <1>5, <2>2, <3>1, PodsStandKeep
  <2>3. CASE pods' = [pods EXCEPT ![c] = IF pods[c] = {} THEN {Store!NewPod(pass.tpl)} ELSE pods[c]]
    <3> DEFINE q == Store!NewPod(pass.tpl)
    <3>1. q \in Pods /\ q.node = {}
      BY <1>2, OneIn DEF Store!NewPod, Pods, AtMostOne
    <3> HIDE DEF q
    <3>2. {q} \in AtMostOne(Pods)
      BY <3>1, OneIn
    <3>3. /\ pods' \in [Copies -> AtMostOne(Pods)]
          /\ \A d \in Copies : pods'[d] = pods[d] \/ (d = c /\ pods[d] = {} /\ pods'[d] = {q})
      BY <1>4, <2>3, <3>2 DEF q
    <3>4. PodsStand /\ \A d \in Copies : pods[d] # {} => pods'[d] # {}
      BY <3>1, <3>3 DEF PodsStand
    <3>5. ~want.perNode => c = 0
      <4>1. Store!Task[1] = "pod" /\ Store!Task[2] = c
        BY <1>3, <1>7 DEF Store!StandPod, Store!Is, Store!Of
      <4> QED
        BY <1>1, <1>2, <4>1 DEF StoreInvariant, PassIsTrue
    <3>6. OneIsPinned'
      BY <1>4, <3>3, <3>5 DEF OneIsPinned
    <3>7. PassTyped(Copies, {"rows"}, StoreTasks)' /\ PassIsTrue'
      BY <1>1, <1>4, <2>1, <3>4, StandLasts, DoneKeeps
    <3> QED
      BY <1>1, <3>4, <3>6, <3>7, PodsStandKeep
  <2> QED
    BY <1>3, <1>7, <2>2, <2>3 DEF Store!StandPod
<1> QED
  BY <1>6, <1>7

LEMMA ClaimStepKeeps ==
  ASSUME StoreInvariant, Store!CreateClaim
  PROVE  /\ StoreInvariant' /\ Store!Of = "rows" /\ UNCHANGED pods
         /\ claims["rows"] # {} => claims' = claims
         /\ \A d \in claims'["rows"] : d \in claims["rows"] \/ ~d.bound
<1>1. pass.todo # <<>> /\ UNCHANGED <<want, up, pods, volumes, seen, budget>>
  BY DEF Store!CreateClaim, Store!Is
<1>2. Store!Of = "rows"
  BY <1>1, TaskIs DEF Store!CreateClaim, Store!Is
<1>3. PassTyped(Copies, {"rows"}, StoreTasks)' /\ PassIsTrue'
  BY <1>1, SameLasts, DoneKeeps DEF Store!CreateClaim
<1>4. claims' = [claims EXCEPT !["rows"] = IF claims["rows"] = {} THEN {Store!NewClaim} ELSE claims["rows"]]
  BY <1>2 DEF Store!CreateClaim
<1>5. Store!NewClaim \in ClaimStates /\ Store!NewClaim.going = FALSE /\ Store!NewClaim.bound = FALSE
  BY OneIn DEF Store!NewClaim, ClaimStates, AtMostOne
<1>6. {Store!NewClaim} \in AtMostOne(ClaimStates)
  BY <1>5, OneIn
<1>7. /\ claims' \in [{"rows"} -> AtMostOne(ClaimStates)]
      /\ claims["rows"] # {} => claims' = claims
      /\ \A d \in claims'["rows"] : d \in claims["rows"] \/ (~d.going /\ ~d.bound)
  BY <1>4, <1>5, <1>6, StoreShape
<1>8. StandTyped(Copies, {"rows"}, StoreTasks)'
  BY <1>1, <1>3, <1>7 DEF StoreInvariant, StandTyped
<1>9. ReadIsTrue' /\ OneIsPinned' /\ NothingInUseGoes'
  BY <1>1, <1>7 DEF StoreInvariant, ReadIsTrue, IsTrue, OneIsPinned, NothingInUseGoes
<1> QED
  BY <1>1, <1>2, <1>3, <1>7, <1>8, <1>9 DEF StoreInvariant

LEMMA AgedIs ==
  ASSUME NEW read \in AtMostOne(PodsRead)
  PROVE  /\ Store!Aged(read) \in AtMostOne(PodsRead)
         /\ \A r \in Store!Aged(read) : ~r.is /\ \E s \in read : r.node = s.node
<1> DEFINE M(r) == [r EXCEPT !.is = FALSE]
<1>1. Store!Aged(read) = {M(r) : r \in read}
  BY DEF Store!Aged
<1>2. \A r \in PodsRead : M(r) \in PodsRead /\ M(r).is = FALSE /\ M(r).node = r.node
  BY DEF PodsRead
<1> HIDE DEF M
<1>3. CASE read = {}
  <2>1. Store!Aged(read) = {}
    BY <1>1, <1>3
  <2> QED
    BY <2>1 DEF AtMostOne
<1>4. ASSUME NEW r \in PodsRead, read = {r}
      PROVE  /\ Store!Aged(read) \in AtMostOne(PodsRead)
             /\ \A q \in Store!Aged(read) : ~q.is /\ \E s \in read : q.node = s.node
  <2>1. Store!Aged(read) = {M(r)}
    BY <1>1, <1>4
  <2> QED
    BY <1>2, <1>4, <2>1, OneIn
<1> QED
  BY <1>3, <1>4 DEF AtMostOne

\* A pod is gone, and with it what was read of it.
LEMMA PodGoneKeeps ==
  ASSUME StoreInvariant, NEW c \in Copies, Store!PodGoes(c),
         UNCHANGED <<want, up, claims, volumes, budget>>,
         PassTyped(Copies, {"rows"}, StoreTasks)', PassIsTrue'
  PROVE  StoreInvariant'
<1>1. pods' = [pods EXCEPT ![c] = {}] /\ pods' \in [Copies -> AtMostOne(Pods)]
  BY StoreShape DEF Store!PodGoes, AtMostOne
<1>2. seen \in [pods : [Copies -> AtMostOne(PodsRead)], claims : SUBSET {"rows"},
                volumes : [{"rows"} -> AtMostOne(VolumesRead)]]
  BY DEF StoreInvariant, StandTyped
<1>3. PICK read \in AtMostOne(PodsRead) : read = Store!Aged(seen.pods[c]) /\ \A r \in read : ~r.is
  BY <1>2, AgedIs
<1>4. seen' = [seen EXCEPT !.pods = [seen.pods EXCEPT ![c] = read]]
  BY <1>3 DEF Store!PodGoes
<1>5. [seen.pods EXCEPT ![c] = read] \in [Copies -> AtMostOne(PodsRead)]
  BY <1>2
<1>6. /\ seen' \in [pods : [Copies -> AtMostOne(PodsRead)], claims : SUBSET {"rows"},
                    volumes : [{"rows"} -> AtMostOne(VolumesRead)]]
      /\ seen'.pods = [seen.pods EXCEPT ![c] = read] /\ seen'.volumes = seen.volumes
  BY <1>2, <1>4, <1>5
<1>7. StandTyped(Copies, {"rows"}, StoreTasks)'
  BY <1>1, <1>6 DEF StoreInvariant, StandTyped
<1>8. ReadIsTrue'
  <2>1. ASSUME NEW d \in Copies PROVE IsTrue(seen.pods[d], d)'
    <3>1. CASE d = c
      BY <1>2, <1>3, <1>6, <3>1 DEF IsTrue
    <3>2. CASE d # c
      BY <1>1, <1>2, <1>6, <3>2 DEF StoreInvariant, ReadIsTrue, IsTrue
    <3> QED
      BY <3>1, <3>2
  <2> QED
    BY <1>6, <2>1 DEF StoreInvariant, ReadIsTrue
<1>9. OneIsPinned' /\ NothingInUseGoes'
  BY <1>1, StoreShape DEF StoreInvariant, OneIsPinned, NothingInUseGoes
<1> QED
  BY <1>7, <1>8, <1>9 DEF StoreInvariant

\* And what the pass read of it.
LEMMA PassForgets ==
  ASSUME StoreInvariant, pass.todo # <<>>, NEW c \in Copies, NEW todo \in Seq(StoreTasks), todo # <<>>,
         NEW read \in AtMostOne(PodsRead),
         \A r \in read : ~r.is /\ \E s \in pass.pods[c] : r.node = s.node,
         pass' = [pass EXCEPT !.pods = [pass.pods EXCEPT ![c] = read], !.todo = todo],
         want' = want, \A d \in Copies : d # c => pods'[d] = pods[d],
         Rest(todo) \subseteq LaterTasks,
         \A task \in Entries(todo) : task \in Entries(pass.todo) \/ task[1] \notin {"heal", "pod"},
         Ready(Head(todo)[1])'
  PROVE  PassTyped(Copies, {"rows"}, StoreTasks)' /\ PassIsTrue'
<1>1. PICK reads \in [Copies -> AtMostOne(PodsRead)] :
          /\ reads = [pass.pods EXCEPT ![c] = read] /\ reads[c] = read
          /\ \A d \in Copies : d # c => reads[d] = pass.pods[d]
  <2>1. PICK old \in [Copies -> AtMostOne(PodsRead)] : old = pass.pods
    BY TaskIs
  <2>2. PICK reads \in [Copies -> AtMostOne(PodsRead)] : reads = [old EXCEPT ![c] = read]
    OBVIOUS
  <2> QED
    BY <2>1, <2>2
<1>2. pass' = [pass EXCEPT !.pods = reads, !.todo = todo]
  BY <1>1
<1>3. pass' \in [todo : {todo}, tpl : {pass.tpl}, pods : {reads}, claims : {pass.claims},
                 stranded : {pass.stranded}]
  BY <1>2 DEF StoreInvariant, StandTyped, PassTyped
<1>4. PassTyped(Copies, {"rows"}, StoreTasks)'
  BY <1>1, <1>3 DEF StoreInvariant, StandTyped, PassTyped
<1>5. \A d \in Copies : IsTrue(reads[d], d)'
  <2>1. ASSUME NEW d \in Copies PROVE IsTrue(reads[d], d)'
    <3>1. CASE d = c
      BY <1>1, <3>1 DEF IsTrue
    <3>2. CASE d # c
      BY <1>1, <3>2 DEF StoreInvariant, PassIsTrue, IsTrue
    <3> QED
      BY <3>1, <3>2
  <2> QED
    BY <2>1
<1>6. \A task \in Entries(todo) : task[1] = "heal" =>
          \A r \in reads[task[2]] : r.node # {} /\ r.node \subseteq pass.stranded
  <2> SUFFICES ASSUME NEW task \in Entries(todo), task[1] = "heal", NEW r \in reads[task[2]]
               PROVE  r.node # {} /\ r.node \subseteq pass.stranded
    OBVIOUS
  <2>1. task \in Entries(pass.todo) /\ task \in StoreTasks
    BY RestIsOf
  <2>2. task[2] \in Copies
    BY <2>1 DEF StoreTasks, LaterTasks
  <2>3. \A s \in pass.pods[task[2]] : s.node # {} /\ s.node \subseteq pass.stranded
    BY <2>1 DEF StoreInvariant, PassIsTrue
  <2>4. \E s \in pass.pods[task[2]] : r.node = s.node
    BY <1>1, <2>2
  <2> QED
    BY <2>3, <2>4
<1>7. PassIsTrue'
  BY <1>3, <1>5, <1>6 DEF StoreInvariant, PassIsTrue
<1> QED
  BY <1>4, <1>7

LEMMA PodEndsKeeps ==
  ASSUME StoreInvariant, NEW c \in Copies, Store!PodEnds(c)
  PROVE  StoreInvariant' /\ pass'.todo = pass.todo
<1>1. Store!PodGoes(c) /\ UNCHANGED <<want, up, claims, volumes, budget>>
  BY DEF Store!PodEnds
<1>2. pods' = [pods EXCEPT ![c] = {}] /\ pods \in [Copies -> AtMostOne(Pods)]
  BY <1>1, StoreShape DEF Store!PodGoes
<1>3. CASE pass.todo = <<>>
  <2>1. pass' = pass
    BY <1>3 DEF Store!PodEnds
  <2>2. PassTyped(Copies, {"rows"}, StoreTasks)' /\ PassIsTrue'
    BY <1>3, <2>1 DEF StoreInvariant, StandTyped, PassTyped, PassIsTrue
  <2> QED
    BY <1>1, <2>1, <2>2, PodGoneKeeps
<1>4. CASE pass.todo # <<>>
  <2>1. /\ pass.pods \in [Copies -> AtMostOne(PodsRead)] /\ pass.todo \in Seq(StoreTasks)
        /\ Store!Task \in Entries(pass.todo)
    BY <1>4, TaskIs
  <2>2. PICK read \in AtMostOne(PodsRead) :
            /\ read = Store!Aged(pass.pods[c])
            /\ \A r \in read : ~r.is /\ \E s \in pass.pods[c] : r.node = s.node
    BY <2>1, AgedIs
  <2>3. PICK todo \in Seq(StoreTasks) : todo = pass.todo
    BY <2>1
  <2>4. pass \in [todo : {todo}, tpl : {pass.tpl}, pods : {pass.pods}, claims : {pass.claims},
                  stranded : {pass.stranded}]
    BY <2>3 DEF StoreInvariant, StandTyped, PassTyped
  <2>5. pass' = [pass EXCEPT !.pods = [pass.pods EXCEPT ![c] = read]]
    BY <1>4, <2>2 DEF Store!PodEnds
  <2>6. pass' = [pass EXCEPT !.pods = [pass.pods EXCEPT ![c] = read], !.todo = todo]
    BY <2>4, <2>5
  <2>7. Ready(Head(todo)[1])'
    <3>1. PICK kind : kind = Head(todo)[1]
      OBVIOUS
    <3>2. Ready(kind)
      BY <1>4, <2>3, <3>1 DEF StoreInvariant, PassIsTrue
    <3>3. Ready(kind)'
      BY <1>1, <1>2, <3>2 DEF Ready
    <3> QED
      BY <3>1, <3>3
  <2>8. Rest(todo) \subseteq LaterTasks
    BY <1>4, <2>3 DEF StoreInvariant, PassIsTrue
  <2>9. \A d \in Copies : d # c => pods'[d] = pods[d]
    BY <1>2
  <2>10. PassTyped(Copies, {"rows"}, StoreTasks)' /\ PassIsTrue'
    BY <1>1, <1>4, <2>2, <2>3, <2>6, <2>7, <2>8, <2>9, PassForgets
  <2> QED
    BY <1>1, <2>4, <2>5, <2>10, <2>3, PodGoneKeeps
<1> QED
  BY <1>3, <1>4

LEMMA HealPodKeeps ==
  ASSUME Store!StoresAssumption, StoreInvariant, Store!HealPod
  PROVE  /\ StoreInvariant'
         /\ \A c \in Copies : pods[c] # {} /\ pods'[c] = {} =>
                \E p \in pods[c] : p.node # {} /\ p.node \subseteq pass.stranded
<1>1. pass.todo # <<>> /\ UNCHANGED <<want, up, claims, volumes, budget>> /\ Store!Task[1] = "heal"
  BY DEF Store!HealPod, Store!Is
<1>2. PICK c \in Copies : c = Store!Of
  BY <1>1, TaskIs
<1>3. CASE ~\E p \in pass.pods[c] : p.is
  <2>1. Store!Done /\ UNCHANGED <<pods, seen>>
    BY <1>2, <1>3 DEF Store!HealPod
  <2>2. PassTyped(Copies, {"rows"}, StoreTasks)' /\ PassIsTrue'
    BY <1>1, <2>1, SameLasts, DoneKeeps
  <2>3. budget' \in [Losses -> Nat]
    BY <1>1, StoreShape
  <2> QED
    BY <1>1, <2>1, <2>2, <2>3, SameWorld
<1>4. CASE \E p \in pass.pods[c] : p.is
  <2>1. PICK r \in pass.pods[c] : r.is
    BY <1>4
  <2>2. Store!PodGoes(c)
    BY <1>2, <1>4 DEF Store!HealPod
  <2>3. pods' = [pods EXCEPT ![c] = {}] /\ pods \in [Copies -> AtMostOne(Pods)]
    BY <2>2, StoreShape DEF Store!PodGoes
  <2>4. r.node # {} /\ r.node \subseteq pass.stranded
    BY <1>1, <1>2, TaskIs DEF StoreInvariant, PassIsTrue, Store!Of
  <2>5. \E p \in pods[c] : p.node = r.node
    BY <1>1, <2>1, <2>4 DEF StoreInvariant, PassIsTrue, IsTrue
  <2> DEFINE task == <<"unclaim", "rows">>
  <2>6. PICK todo : todo = <<task>> \o Tail(pass.todo)
    OBVIOUS
  <2>7. /\ pass.todo \in Seq(StoreTasks) /\ pass.pods \in [Copies -> AtMostOne(PodsRead)]
        /\ Tail(pass.todo) \in Seq(StoreTasks) /\ Entries(Tail(pass.todo)) = Rest(pass.todo)
        /\ Rest(pass.todo) \subseteq Entries(pass.todo)
    BY <1>1, TaskIs, FirstAndRest, RestIsOf
  <2>8. task \in StoreTasks /\ task[1] = "unclaim"
    BY DEF StoreTasks
  <2>9. pass' = [pass EXCEPT !.pods[c] = {}, !.todo = todo]
    BY <1>2, <1>4, <2>6 DEF Store!HealPod, Store!Rows
  <2> HIDE DEF task
  <2>10. /\ todo \in Seq(StoreTasks) /\ todo # <<>> /\ Head(todo) = task
         /\ Rest(todo) = Rest(pass.todo) /\ Entries(todo) = {task} \cup Rest(pass.todo)
    BY <2>6, <2>7, <2>8, PutBefore
  <2>11. Rest(pass.todo) \subseteq LaterTasks
    BY <1>1 DEF StoreInvariant, PassIsTrue
  <2>12. \A t \in Entries(todo) : t \in Entries(pass.todo) \/ t[1] \notin {"heal", "pod"}
    BY <2>7, <2>8, <2>10
  <2>13. Ready(Head(todo)[1])'
    <3>1. want.perNode \/ \A d \in Copies : pods'[d] = {}
      BY <2>3, <2>5 DEF StoreInvariant, OneIsPinned
    <3>2. Ready("unclaim")'
      BY <1>1, <3>1 DEF Ready
    <3>3. Head(todo)[1] = "unclaim"
      BY <2>8, <2>10
    <3> QED
      BY <3>2, <3>3
  <2>14. pass' = [pass EXCEPT !.pods = [pass.pods EXCEPT ![c] = {}], !.todo = todo]
    BY <2>9
  <2>15. {} \in AtMostOne(PodsRead)
    BY DEF AtMostOne
  <2>16. \A d \in Copies : d # c => pods'[d] = pods[d]
    BY <2>3
  <2>17. PICK read \in AtMostOne(PodsRead) : read = {}
    BY <2>15
  <2>18. PassTyped(Copies, {"rows"}, StoreTasks)' /\ PassIsTrue'
    BY <1>1, <2>10, <2>11, <2>12, <2>13, <2>14, <2>16, <2>17, PassForgets
  <2>19. StoreInvariant'
    BY <1>1, <2>2, <2>18, PodGoneKeeps
  <2> QED
    BY <2>3, <2>4, <2>5, <2>19
<1> QED
  BY <1>3, <1>4

LEMMA HealClaimKeeps ==
  ASSUME StoreInvariant, Store!HealClaim
  PROVE  StoreInvariant'
<1>1. pass.todo # <<>> /\ UNCHANGED <<want, up, pods, volumes, seen, budget>>
      /\ Store!Task[1] = "unclaim"
  BY DEF Store!HealClaim, Store!Is
<1>2. Store!Of = "rows" /\ (want.perNode \/ \A c \in Copies : pods[c] = {})
  BY <1>1, TaskIs DEF Ready
<1>3. Lasts
  BY <1>1, SameLasts
<1>4. CASE want.perNode \/ claims["rows"] = {}
  <2>1. Store!Done /\ UNCHANGED claims
    BY <1>2, <1>4 DEF Store!HealClaim, Store!PerNode
  <2>2. PassTyped(Copies, {"rows"}, StoreTasks)' /\ PassIsTrue'
    BY <1>1, <1>3, <2>1, DoneKeeps
  <2>3. budget' \in [Losses -> Nat]
    BY <1>1, StoreShape
  <2> QED
    BY <1>1, <2>1, <2>2, <2>3, SameWorld
<1>5. CASE ~want.perNode /\ claims["rows"] # {}
  <2> DEFINE M(o) == [o EXCEPT !["going"] = TRUE]
  <2>1. claims' = [claims EXCEPT !["rows"] = {M(o) : o \in claims["rows"]}]
    BY <1>2, <1>5 DEF Store!HealClaim, Store!PerNode, Store!Set
  <2>2. \A e \in ClaimStates : M(e) \in ClaimStates
    BY DEF ClaimStates
  <2> HIDE DEF M
  <2>3. {M(o) : o \in claims["rows"]} \in AtMostOne(ClaimStates)
    <3>1. CASE claims["rows"] = {}
      <4>1. {M(o) : o \in claims["rows"]} = {}
        BY <3>1
      <4> QED
        BY <4>1 DEF AtMostOne
    <3>2. ASSUME NEW e \in ClaimStates, claims["rows"] = {e}
          PROVE  {M(o) : o \in claims["rows"]} \in AtMostOne(ClaimStates)
      <4>1. {M(o) : o \in claims["rows"]} = {M(e)}
        BY <3>2
      <4> QED
        BY <2>2, <4>1, OneIn
    <3>3. claims["rows"] \in AtMostOne(ClaimStates)
      BY StoreShape
    <3> QED
      BY <3>1, <3>2, <3>3 DEF AtMostOne
  <2>4. claims' \in [{"rows"} -> AtMostOne(ClaimStates)]
    BY <2>1, <2>3, StoreShape
  <2>5. PICK todo : todo = Tail(pass.todo)
    OBVIOUS
  <2>6. /\ todo \in Seq(StoreTasks) /\ Entries(todo) = Rest(pass.todo)
        /\ Rest(todo) \subseteq Rest(pass.todo) /\ Rest(pass.todo) \subseteq Entries(pass.todo)
        /\ todo # <<>> => Head(todo) \in Rest(pass.todo)
    BY <1>1, <2>5, TaskIs, FirstAndRest, RestIsOf
  <2>7. PICK known : known = pass.claims \ {"rows"}
    OBVIOUS
  <2>8. pass' = [pass EXCEPT !.claims = known, !.todo = todo]
    BY <1>2, <1>5, <2>5, <2>7 DEF Store!HealClaim, Store!PerNode
  <2>9. pass' \in [todo : {todo}, tpl : {pass.tpl}, pods : {pass.pods}, claims : {known},
                   stranded : {pass.stranded}]
    BY <2>8 DEF StoreInvariant, StandTyped, PassTyped
  <2>10. known \subseteq {"rows"}
    BY <2>7 DEF StoreInvariant, StandTyped, PassTyped
  <2>11. PassTyped(Copies, {"rows"}, StoreTasks)'
    BY <1>1, <2>6, <2>9, <2>10 DEF StoreInvariant, StandTyped, PassTyped
  <2>12. Rest(pass.todo) \subseteq LaterTasks
    BY <1>1 DEF StoreInvariant, PassIsTrue
  <2>13. todo # <<>> => Ready(Head(todo)[1])'
    BY <2>6, <2>12, LaterIsReady
  <2>14. PassIsTrue'
    BY <1>1, <1>3, <2>6, <2>9, <2>12, <2>13 DEF StoreInvariant, PassIsTrue, Lasts
  <2>15. StandTyped(Copies, {"rows"}, StoreTasks)'
    BY <1>1, <2>4, <2>11 DEF StoreInvariant, StandTyped
  <2>16. ReadIsTrue' /\ OneIsPinned' /\ NothingInUseGoes'
    BY <1>1, <1>2, <1>5 DEF StoreInvariant, ReadIsTrue, IsTrue, OneIsPinned, NothingInUseGoes
  <2> QED
    BY <2>14, <2>15, <2>16 DEF StoreInvariant
<1> QED
  BY <1>4, <1>5

\* What the watch's store may come to hold.
LEMMA EverythingIs ==
  ASSUME StoreInvariant
  PROVE  /\ Store!Everything \in [pods : [Copies -> AtMostOne(PodsRead)], claims : SUBSET {"rows"},
                                  volumes : [{"rows"} -> AtMostOne(VolumesRead)]]
         /\ \A c \in Copies : IsTrue(Store!Everything.pods[c], c)
         /\ \A r \in Store!Everything.volumes["rows"] :
                \E v \in volumes["rows"] : r.released => v.phase = "released"
         /\ Store!Everything.claims = Store!Held
<1> DEFINE R(p) == [node |-> p.node, tpl |-> p.tpl, going |-> p.going, refused |-> p.refused,
                    is |-> TRUE]
           V(v) == [released |-> v.phase = "released", is |-> TRUE]
<1>1. \A p \in Pods : R(p) \in PodsRead /\ R(p).node = p.node
  BY DEF Pods, PodsRead
<1>2. \A v \in VolumeStates : V(v) \in VolumesRead /\ (V(v).released => v.phase = "released")
  BY DEF VolumeStates, VolumesRead
<1>3. /\ \A c \in Copies : Store!PodCopies(c) = {R(p) : p \in pods[c]}
      /\ Store!VolumeCopies("rows") = {V(v) : v \in volumes["rows"]}
  BY DEF Store!PodCopies, Store!VolumeCopies
<1> HIDE DEF R, V
<1>4. ASSUME NEW c \in Copies
      PROVE  Store!PodCopies(c) \in AtMostOne(PodsRead) /\ IsTrue(Store!PodCopies(c), c)
  <2>1. pods[c] \in AtMostOne(Pods)
    BY StoreShape
  <2>2. CASE pods[c] = {}
    <3>1. Store!PodCopies(c) = {}
      BY <1>3, <2>2
    <3> QED
      BY <3>1 DEF AtMostOne, IsTrue
  <2>3. ASSUME NEW p \in Pods, pods[c] = {p}
        PROVE  Store!PodCopies(c) \in AtMostOne(PodsRead) /\ IsTrue(Store!PodCopies(c), c)
    <3>1. Store!PodCopies(c) = {R(p)}
      BY <1>3, <2>3
    <3> QED
      BY <1>1, <2>3, <3>1, OneIn DEF IsTrue
  <2> QED
    BY <2>1, <2>2, <2>3 DEF AtMostOne
<1>5. /\ Store!VolumeCopies("rows") \in AtMostOne(VolumesRead)
      /\ \A r \in Store!VolumeCopies("rows") :
             \E v \in volumes["rows"] : r.released => v.phase = "released"
  <2>1. volumes["rows"] \in AtMostOne(VolumeStates)
    BY StoreShape
  <2>2. CASE volumes["rows"] = {}
    <3>1. Store!VolumeCopies("rows") = {}
      BY <1>3, <2>2
    <3> QED
      BY <3>1 DEF AtMostOne
  <2>3. ASSUME NEW v \in VolumeStates, volumes["rows"] = {v}
        PROVE  /\ Store!VolumeCopies("rows") \in AtMostOne(VolumesRead)
               /\ \A r \in Store!VolumeCopies("rows") :
                      \E w \in volumes["rows"] : r.released => w.phase = "released"
    <3>1. Store!VolumeCopies("rows") = {V(v)}
      BY <1>3, <2>3
    <3> QED
      BY <1>2, <2>3, <3>1, OneIn
  <2> QED
    BY <2>1, <2>2, <2>3 DEF AtMostOne
<1>6. Store!Held \subseteq {"rows"}
  BY DEF Store!Held
<1>7. PICK reads \in [Copies -> AtMostOne(PodsRead)] : reads = [c \in Copies |-> Store!PodCopies(c)]
  BY <1>4
<1>8. PICK kept \in [{"rows"} -> AtMostOne(VolumesRead)] :
          kept = [k \in {"rows"} |-> Store!VolumeCopies(k)]
  BY <1>5
<1>9. Store!Everything = [pods |-> reads, claims |-> Store!Held, volumes |-> kept]
  BY <1>7, <1>8 DEF Store!Everything
<1>10. /\ \A c \in Copies : reads[c] = Store!PodCopies(c)
       /\ kept["rows"] = Store!VolumeCopies("rows")
  BY <1>7, <1>8
<1>11. /\ Store!Everything.pods = reads /\ Store!Everything.volumes = kept
       /\ Store!Everything.claims = Store!Held
       /\ Store!Everything \in [pods : [Copies -> AtMostOne(PodsRead)], claims : SUBSET {"rows"},
                                volumes : [{"rows"} -> AtMostOne(VolumesRead)]]
  BY <1>6, <1>9
<1> QED
  BY <1>4, <1>5, <1>10, <1>11

\* The watch's store comes to hold other copies.
LEMMA SeenKeeps ==
  ASSUME StoreInvariant, UNCHANGED <<want, up, pods, claims, volumes>>, budget' \in [Losses -> Nat],
         seen' \in [pods : [Copies -> AtMostOne(PodsRead)], claims : SUBSET {"rows"},
                    volumes : [{"rows"} -> AtMostOne(VolumesRead)]],
         \A c \in Copies : IsTrue(seen'.pods[c], c),
         PassTyped(Copies, {"rows"}, StoreTasks)', PassIsTrue'
  PROVE  StoreInvariant'
<1>1. StandTyped(Copies, {"rows"}, StoreTasks)'
  BY DEF StoreInvariant, StandTyped
<1>2. ReadIsTrue' /\ OneIsPinned' /\ NothingInUseGoes'
  BY DEF StoreInvariant, ReadIsTrue, IsTrue, OneIsPinned, NothingInUseGoes
<1> QED
  BY <1>1, <1>2 DEF StoreInvariant

LEMMA SamePass ==
  ASSUME StoreInvariant, UNCHANGED <<want, pods, pass>>
  PROVE  PassTyped(Copies, {"rows"}, StoreTasks)' /\ PassIsTrue'
BY DEF StoreInvariant, StandTyped, PassTyped, PassIsTrue, IsTrue, Ready

LEMMA DeliverKeeps ==
  ASSUME StoreInvariant, Store!Deliver
  PROVE  StoreInvariant'
<1>1. UNCHANGED <<want, up, pods, claims, volumes, pass, budget>>
  BY DEF Store!Deliver, Store!objects
<1>2. PICK all \in [pods : [Copies -> AtMostOne(PodsRead)], claims : SUBSET {"rows"},
                    volumes : [{"rows"} -> AtMostOne(VolumesRead)]] :
          all = Store!Everything
  BY EverythingIs
<1>3. /\ \A c \in Copies : IsTrue(all.pods[c], c)
      /\ \A r \in all.volumes["rows"] :
             \E v \in volumes["rows"] : r.released => v.phase = "released"
      /\ all.claims = Store!Held
  BY <1>2, EverythingIs
<1>4. seen \in [pods : [Copies -> AtMostOne(PodsRead)], claims : SUBSET {"rows"},
                volumes : [{"rows"} -> AtMostOne(VolumesRead)]]
  BY DEF StoreInvariant, StandTyped
<1>5. \/ seen' = [seen EXCEPT !.pods = all.pods]
      \/ seen' = [seen EXCEPT !.claims = all.claims]
      \/ seen' = [seen EXCEPT !.volumes = all.volumes]
  BY <1>2, <1>3 DEF Store!Deliver
<1>6. /\ seen' \in [pods : [Copies -> AtMostOne(PodsRead)], claims : SUBSET {"rows"},
                    volumes : [{"rows"} -> AtMostOne(VolumesRead)]]
      /\ seen'.pods = seen.pods \/ seen'.pods = all.pods
      /\ seen'.volumes = seen.volumes \/ seen'.volumes = all.volumes
  BY <1>4, <1>5
<1>7. budget' \in [Losses -> Nat]
  BY <1>1, StoreShape
<1>8. \A c \in Copies : IsTrue(seen'.pods[c], c)
  BY <1>3, <1>6 DEF StoreInvariant, ReadIsTrue
<1> QED
  BY <1>1, <1>6, <1>7, <1>8, SamePass, SeenKeeps

LEMMA StoreRestarts ==
  ASSUME StoreInvariant, Store!Restart
  PROVE  StoreInvariant'
<1>1. UNCHANGED <<want, up, pods, claims, volumes>> /\ pass' = Store!Idle /\ seen' = Store!Everything
  BY DEF Store!Restart, Store!objects
<1>2. budget' \in [Losses -> Nat]
  BY StoreSpends DEF Store!Restart, Losses
<1> QED
  BY <1>1, <1>2, EverythingIs, PassIsOver, SeenKeeps

LEMMA AsList ==
  ASSUME NEW S, NEW n \in Nat, NEW s \in [1..n -> S]
  PROVE  s \in Seq(S) /\ \A x \in Entries(s) : \E i \in 1..n : x = s[i]
<1>1. s \in Seq(S) /\ Len(s) = n
  OBVIOUS
<1> QED
  BY <1>1 DEF Entries

LEMMA SameSize == Store!Cardinality(Copies) = Cardinality(Copies)
BY DEF Store!Cardinality, Cardinality

LEMMA CopiesAre ==
  ASSUME Store!StoresAssumption
  PROVE  /\ IsFiniteSet(Copies) /\ Cardinality(Copies) \in Nat \ {0} /\ 0 \in Copies
         /\ Copies = 0..(Cardinality(Copies) - 1)
<1>1. IsFiniteSet(Copies) /\ 0 \in Copies /\ Copies = 0..(Cardinality(Copies) - 1)
  BY SameSize DEF Store!StoresAssumption, Store!StandAssumption, Store!IsFiniteSet, IsFiniteSet
<1>2. Cardinality(Copies) \in Nat
  BY <1>1, FS_CardinalityType
<1> QED
  BY <1>1, <1>2

\* The lists that a pass begins with.
LEMMA ListsAre ==
  ASSUME Store!StoresAssumption, StoreInvariant
  PROVE  /\ \A cs \in SUBSET Copies : \A list \in Store!Listed(cs) :
                /\ Store!Healed(list) \in Seq(StoreTasks)
                /\ \A task \in Entries(Store!Healed(list)) :
                       task \in LaterTasks /\ task[1] = "heal" /\ task[2] \in cs
         /\ Store!StandTasks \in Seq(StoreTasks)
         /\ \A task \in Entries(Store!StandTasks) :
                /\ task \in LaterTasks /\ task[1] # "heal"
                /\ task[1] = "pod" /\ ~want.perNode => task[2] = 0
<1>1. LaterTasks \subseteq StoreTasks
  BY DEF StoreTasks
<1>2. ASSUME NEW cs \in SUBSET Copies, NEW list \in Store!Listed(cs)
      PROVE  /\ Store!Healed(list) \in Seq(StoreTasks)
             /\ \A task \in Entries(Store!Healed(list)) :
                    task \in LaterTasks /\ task[1] = "heal" /\ task[2] \in cs
  <2>1. PICK n : n = Cardinality(cs)
    OBVIOUS
  <2>2. n \in Nat
    <3>1. IsFiniteSet(cs)
      BY CopiesAre, FS_Subset
    <3> QED
      BY <2>1, <3>1, FS_CardinalityType
  <2>3. list \in [1..n -> cs]
    BY <2>1 DEF Store!Listed, Store!Cardinality, Cardinality
  <2>4. PICK s : s = Store!Healed(list)
    OBVIOUS
  <2>5. s = [i \in 1..n |-> <<"heal", list[i]>>]
    BY <2>3, <2>4 DEF Store!Healed
  <2>6. \A i \in 1..n : <<"heal", list[i]>> \in LaterTasks /\ list[i] \in cs
    BY <2>3 DEF LaterTasks
  <2>7. s \in [1..n -> StoreTasks]
    BY <1>1, <2>5, <2>6
  <2>8. s \in Seq(StoreTasks) /\ \A x \in Entries(s) : \E i \in 1..n : x = s[i]
    BY <2>2, <2>7, AsList
  <2>9. ASSUME NEW x \in Entries(s) PROVE x \in LaterTasks /\ x[1] = "heal" /\ x[2] \in cs
    <3>1. PICK i \in 1..n : x = s[i]
      BY <2>8
    <3>2. x = <<"heal", list[i]>>
      BY <2>5, <3>1
    <3> QED
      BY <2>6, <3>2
  <2> QED
    BY <2>4, <2>8, <2>9
<1>3. ASSUME NEW kind \in {"pod", "retire"}, NEW from \in 0..Cardinality(Copies),
             NEW to \in 0..Cardinality(Copies), from <= to
      PROVE  /\ Store!Tasks(kind, from, to) \in Seq(StoreTasks)
             /\ \A task \in Entries(Store!Tasks(kind, from, to)) :
                    /\ task \in LaterTasks /\ task[1] = kind
                    /\ from = 0 /\ to = 1 => task[2] = 0
  <2>1. PICK n \in Nat : n = to - from
    BY <1>3, CopiesAre
  <2>2. PICK s : s = Store!Tasks(kind, from, to)
    OBVIOUS
  <2>3. s = [i \in 1..n |-> <<kind, from + i - 1>>]
    BY <2>1, <2>2 DEF Store!Tasks
  <2>4. \A i \in 1..n : from + i - 1 \in Copies
    BY <1>3, <2>1, CopiesAre
  <2>5. \A i \in 1..n : <<kind, from + i - 1>> \in LaterTasks
    BY <2>4 DEF LaterTasks
  <2>6. s \in [1..n -> StoreTasks]
    BY <1>1, <2>3, <2>5
  <2>7. s \in Seq(StoreTasks) /\ \A x \in Entries(s) : \E i \in 1..n : x = s[i]
    BY <2>6, AsList
  <2>8. ASSUME NEW x \in Entries(s)
        PROVE  x \in LaterTasks /\ x[1] = kind /\ (from = 0 /\ to = 1 => x[2] = 0)
    <3>1. PICK i \in 1..n : x = s[i]
      BY <2>7
    <3>2. x = <<kind, from + i - 1>>
      BY <2>3, <3>1
    <3>3. x[1] = kind /\ x[2] = from + i - 1
      BY <3>2
    <3>4. from = 0 /\ to = 1 => x[2] = 0
      BY <2>1, <3>1, <3>3
    <3> QED
      BY <2>5, <3>1, <3>2, <3>3, <3>4
  <2> QED
    BY <2>2, <2>7, <2>8
<1>4. /\ Store!CopiesWanted \in 0..Cardinality(Copies)
      /\ ~want.perNode => Store!CopiesWanted = 1
  BY StoreShape, CopiesAre DEF Store!CopiesWanted, Store!PerNode
<1>5. PICK wanted \in 0..Cardinality(Copies) : wanted = Store!CopiesWanted
  BY <1>4
<1>6. PICK stood : stood = Store!Tasks("pod", 0, wanted)
  OBVIOUS
<1>7. PICK over : over = Store!Tasks("retire", wanted, Cardinality(Copies))
  OBVIOUS
<1>8. /\ stood \in Seq(StoreTasks)
      /\ \A task \in Entries(stood) :
             task \in LaterTasks /\ task[1] = "pod" /\ (wanted = 1 => task[2] = 0)
  BY <1>3, <1>6, CopiesAre
<1>9. /\ over \in Seq(StoreTasks)
      /\ \A task \in Entries(over) : task \in LaterTasks /\ task[1] = "retire"
  BY <1>3, <1>7, CopiesAre
<1> DEFINE claim == <<"claim", "rows">>
<1>10. claim \in StoreTasks /\ claim \in LaterTasks /\ claim[1] = "claim"
  BY DEF StoreTasks, LaterTasks
<1>11. Store!StandTasks = (<<claim>> \o stood) \o over
  BY <1>5, <1>6, <1>7, SameSize DEF Store!StandTasks, Store!Rows
<1> HIDE DEF claim
<1>12. PICK first : first = <<claim>> \o stood
  OBVIOUS
<1>13. first \in Seq(StoreTasks) /\ Entries(first) = {claim} \cup Entries(stood)
  BY <1>8, <1>10, <1>12, PutBefore
<1>14. /\ Store!StandTasks \in Seq(StoreTasks)
       /\ Entries(Store!StandTasks) = {claim} \cup Entries(stood) \cup Entries(over)
  <2>1. /\ first \o over \in Seq(StoreTasks)
        /\ Entries(first \o over) = Entries(first) \cup Entries(over)
    BY <1>9, <1>13, JoinOf
  <2>2. Store!StandTasks = first \o over
    BY <1>11, <1>12
  <2> QED
    BY <1>13, <2>1, <2>2
<1>15. ASSUME NEW task \in Entries(Store!StandTasks)
       PROVE  /\ task \in LaterTasks /\ task[1] # "heal"
              /\ task[1] = "pod" /\ ~want.perNode => task[2] = 0
  BY <1>4, <1>5, <1>8, <1>9, <1>10, <1>14, <1>15
<1> QED
  BY <1>2, <1>14, <1>15

LEMMA BeginKeeps ==
  ASSUME Store!StoresAssumption, StoreInvariant, Store!BeginPass
  PROVE  StoreInvariant' /\ Head(pass'.todo) \in LaterTasks
<1>1. PICK cs \in SUBSET Copies : cs = {c \in Copies : Store!Stranded(c)}
  OBVIOUS
<1>2. PICK list \in Store!Listed(cs) :
          Store!Begin(Store!Healed(list) \o (IF want.stands THEN Store!StandTasks ELSE <<>>),
                      Store!Template)
  BY <1>1 DEF Store!BeginPass
<1>3. PICK heals : heals = Store!Healed(list)
  OBVIOUS
<1>4. /\ heals \in Seq(StoreTasks)
      /\ \A task \in Entries(heals) : task \in LaterTasks /\ task[1] = "heal" /\ task[2] \in cs
  BY <1>3, ListsAre
<1>5. PICK none : none = <<>>
  OBVIOUS
<1>6. none \in Seq(StoreTasks) /\ Entries(none) = {}
  BY <1>5 DEF Entries
<1>7. PICK stands : stands = IF want.stands THEN Store!StandTasks ELSE none
  OBVIOUS
<1>8. /\ stands \in Seq(StoreTasks)
      /\ \A task \in Entries(stands) :
             /\ task \in LaterTasks /\ task[1] # "heal"
             /\ task[1] = "pod" /\ ~want.perNode => task[2] = 0
  BY <1>6, <1>7, ListsAre
<1> DEFINE sweep == <<"sweep", 0>>
<1>9. sweep \in StoreTasks /\ sweep \in LaterTasks /\ sweep[1] = "sweep"
  BY DEF StoreTasks, LaterTasks
<1>10. PICK todo : todo = (heals \o stands) \o <<sweep>>
  OBVIOUS
<1>11. pass' = [todo |-> todo, tpl |-> want.tpl, pods |-> seen.pods, claims |-> seen.claims,
                stranded |-> Nodes \ up]
       /\ UNCHANGED <<want, up, pods, claims, volumes, seen, budget>>
  BY <1>2, <1>3, <1>5, <1>7, <1>10
     DEF Store!Begin, Store!LastTask, Store!Template, Store!objects
<1> HIDE DEF sweep
<1>12. <<sweep>> \in Seq(StoreTasks) /\ Entries(<<sweep>>) = {sweep}
  BY <1>9, OneTask
<1>13. PICK both : both = heals \o stands
  OBVIOUS
<1>14. both \in Seq(StoreTasks) /\ Entries(both) = Entries(heals) \cup Entries(stands)
  BY <1>4, <1>8, <1>13, JoinOf
<1>15. todo \in Seq(StoreTasks) /\ Entries(todo) = Entries(both) \cup {sweep}
  <2>1. PICK end : end = <<sweep>>
    OBVIOUS
  <2>2. /\ both \o end \in Seq(StoreTasks)
        /\ Entries(both \o end) = Entries(both) \cup Entries(end)
    <3>1. end \in Seq(StoreTasks)
      BY <1>12, <2>1
    <3> QED
      BY <1>14, <3>1, JoinOf
  <2>3. todo = both \o end
    BY <1>10, <1>13, <2>1
  <2> QED
    BY <1>12, <2>1, <2>2, <2>3
<1>16. todo # <<>>
  BY <1>6, <1>5, <1>15
<1>17. \A task \in Entries(todo) :
           /\ task \in LaterTasks /\ (task[1] = "heal" => task[2] \in cs)
           /\ task[1] = "pod" /\ ~want.perNode => task[2] = 0
  BY <1>4, <1>8, <1>9, <1>14, <1>15
<1>18. Rest(todo) \subseteq LaterTasks /\ Head(todo) \in LaterTasks
  BY <1>15, <1>16, <1>17, RestIsOf, FirstAndRest
<1>19. seen \in [pods : [Copies -> AtMostOne(PodsRead)], claims : SUBSET {"rows"},
                 volumes : [{"rows"} -> AtMostOne(VolumesRead)]]
       /\ want.tpl \in {"one", "two"}
  BY DEF StoreInvariant, StandTyped
<1>20. pass' \in [todo : {todo}, tpl : {want.tpl}, pods : {seen.pods}, claims : {seen.claims},
                  stranded : {Nodes \ up}]
  BY <1>11
<1>21. PassTyped(Copies, {"rows"}, StoreTasks)'
  BY <1>15, <1>19, <1>20 DEF PassTyped
<1>22. \A c \in cs : \A r \in seen.pods[c] : r.node # {} /\ r.node \subseteq Nodes \ up
  <2> SUFFICES ASSUME NEW c \in cs, NEW r \in seen.pods[c]
               PROVE  r.node # {} /\ r.node \subseteq Nodes \ up
    OBVIOUS
  <2>1. PICK p \in seen.pods[c] : p.node # {} /\ p.node \cap up = {}
    BY <1>1 DEF Store!Stranded
  <2>2. r = p /\ r \in PodsRead
    BY <1>19, OneOf
  <2>3. r.node \subseteq Nodes
    BY <2>2 DEF PodsRead, AtMostOne
  <2> QED
    BY <2>1, <2>2, <2>3
<1>23. Ready(Head(todo)[1])'
  BY <1>18, LaterIsReady
<1>24. PassIsTrue'
  <2>1. \A c \in Copies : IsTrue(seen.pods[c], c)'
    BY <1>11 DEF StoreInvariant, ReadIsTrue, IsTrue
  <2> QED
    BY <1>11, <1>17, <1>18, <1>20, <1>22, <1>23, <2>1 DEF PassIsTrue, IsTrue
<1>25. budget' \in [Losses -> Nat]
  BY <1>11, StoreShape
<1> QED
  BY <1>11, <1>18, <1>20, <1>21, <1>24, <1>25, SameWorld

LEMMA ScheduleKeeps ==
  ASSUME StoreInvariant, NEW c \in Copies, Store!Schedule(c)
  PROVE  /\ StoreInvariant' /\ \A d \in Copies : pods[d] # {} => pods'[d] # {}
         /\ claims["rows"] # {}
<1>1. PICK n \in Nodes :
          /\ Store!MayRunOn(c, n)
          /\ pods' = Store!Set(Store!Set(pods, c, "node", {n}), c, "refused", FALSE)
          /\ claims' = IF want.perNode THEN claims
                       ELSE [k \in {"rows"} |-> {[claim EXCEPT !.bound = TRUE, !.node = {n}] :
                                                 claim \in claims[k]}]
  BY DEF Store!Schedule, Store!PerNode
<1>2. UNCHANGED <<want, up, volumes, seen, pass, budget>>
  BY DEF Store!Schedule
<1>3. PICK p \in Pods : pods[c] = {p} /\ p.node = {} /\ ~p.going
  <2>1. PICK p \in pods[c] : p.node = {} /\ ~p.going
    BY DEF Store!Schedule, Store!Waits
  <2> QED
    BY <2>1, StoreShape, OneOf
<1>4. PICK e \in ClaimStates : claims["rows"] = {e} /\ ~e.going
  <2>1. PICK e \in claims["rows"] : ~e.going
    BY <1>1 DEF Store!MayRunOn
  <2> QED
    BY <2>1, StoreShape, OneOf
<1>5. {n} \in AtMostOne(Nodes)
  BY OneIn
<1>6. PICK q \in Pods : pods' = [pods EXCEPT ![c] = {q}] /\ ~q.going
  <2> DEFINE M(o) == [o EXCEPT !["node"] = {n}]
             R(o) == [o EXCEPT !["refused"] = FALSE]
             once == [pods EXCEPT ![c] = {M(o) : o \in pods[c]}]
  <2>1. pods' = [once EXCEPT ![c] = {R(o) : o \in once[c]}]
    BY <1>1 DEF Store!Set
  <2>2. R(M(p)) \in Pods /\ R(M(p)).going = p.going
    BY <1>5 DEF Pods
  <2> HIDE DEF M, R
  <2>3. once[c] = {M(p)}
    BY <1>3, StoreShape
  <2>4. {R(o) : o \in once[c]} = {R(M(p))}
    BY <2>3
  <2>5. pods' = [pods EXCEPT ![c] = {R(M(p))}]
    BY <2>1, <2>4
  <2> QED
    BY <1>3, <2>2, <2>5
<1>7. /\ pods' \in [Copies -> AtMostOne(Pods)] /\ pods'[c] = {q}
      /\ \A d \in Copies : d # c => pods'[d] = pods[d]
  BY <1>6, StoreShape, OneIn
<1>8. PICK d \in ClaimStates :
          claims' \in [{"rows"} -> AtMostOne(ClaimStates)] /\ claims'["rows"] = {d} /\ ~d.going
          /\ (want.perNode => d = e)
  <2>1. CASE want.perNode
    BY <1>1, <1>4, <2>1, StoreShape
  <2>2. CASE ~want.perNode
    <3> DEFINE M(o) == [o EXCEPT !.bound = TRUE, !.node = {n}]
    <3>1. claims' = [k \in {"rows"} |-> {M(o) : o \in claims[k]}]
      BY <1>1, <2>2
    <3>2. M(e) \in ClaimStates /\ M(e).going = e.going
      BY <1>5 DEF ClaimStates
    <3> HIDE DEF M
    <3>3. {M(o) : o \in claims["rows"]} = {M(e)}
      BY <1>4
    <3>4. claims'["rows"] = {M(e)} /\ {M(e)} \in AtMostOne(ClaimStates)
      BY <3>1, <3>2, <3>3, OneIn
    <3>5. claims' \in [{"rows"} -> AtMostOne(ClaimStates)]
      BY <3>1, <3>3, <3>4
    <3> QED
      BY <1>4, <2>2, <3>2, <3>4, <3>5
  <2> QED
    BY <2>1, <2>2
<1>9. StandTyped(Copies, {"rows"}, StoreTasks)'
  BY <1>2, <1>7, <1>8 DEF StoreInvariant, StandTyped, PassTyped
<1>10. \A d0 \in Copies : \A read : IsTrue(read, d0) => IsTrue(read, d0)'
  BY <1>3, <1>7 DEF IsTrue
<1>11. ReadIsTrue' /\ OneIsPinned'
  <2>1. ReadIsTrue'
    BY <1>2, <1>10 DEF StoreInvariant, ReadIsTrue
  <2>2. OneIsPinned'
    BY <1>2, <1>3, <1>7 DEF StoreInvariant, OneIsPinned
  <2> QED
    BY <2>1, <2>2
<1>12. NothingInUseGoes'
  BY <1>2, <1>4, <1>8 DEF StoreInvariant, NothingInUseGoes
<1>13. PassIsTrue'
  <2>1. \A kind : Ready(kind) => Ready(kind)'
    BY <1>2, <1>3 DEF Ready
  <2> QED
    BY <1>2, <1>10, <2>1 DEF StoreInvariant, PassIsTrue
<1> QED
  BY <1>3, <1>4, <1>7, <1>9, <1>11, <1>12, <1>13 DEF StoreInvariant

LEMMA StoreStarts ==
  ASSUME Store!StoresAssumption, Store!Init
  PROVE  StoreInvariant
<1>1. /\ Cardinality(Copies) \in Nat \ {0} /\ Store!Cardinality(Copies) = Cardinality(Copies)
      /\ want \in [stands : {TRUE}, tpl : {"one"}, copies : {1, Cardinality(Copies)}, on : {Nodes},
                   perNode : BOOLEAN]
  BY CopiesAre, SameSize DEF Store!Init, Store!Nothing
<1>2. want \in [stands : BOOLEAN, tpl : {"one", "two"}, copies : 0..Cardinality(Copies),
                on : SUBSET Nodes, perNode : BOOLEAN]
  <2>1. {1, Cardinality(Copies)} \subseteq 0..Cardinality(Copies)
    BY <1>1
  <2>2. PICK cs : cs = {1, Cardinality(Copies)} /\ cs \subseteq 0..Cardinality(Copies)
    BY <2>1
  <2>3. want \in [stands : {TRUE}, tpl : {"one"}, copies : cs, on : {Nodes}, perNode : BOOLEAN]
    BY <1>1, <2>2
  <2> QED
    BY <2>2, <2>3
<1>3. /\ up = Nodes /\ seen = [pods |-> pods, claims |-> {}, volumes |-> volumes]
      /\ pods = [c \in Copies |-> {}] /\ claims = [k \in {"rows"} |-> {}]
      /\ volumes = [k \in {"rows"} |-> {}]
  BY DEF Store!Init, Store!Nothing
<1>4. budget \in [Losses -> Nat]
  BY DEF Store!Init, Store!Nothing, Store!StoresAssumption, Store!StandAssumption, Losses
<1>5. pass.todo = <<>> /\ PassTyped(Copies, {"rows"}, StoreTasks) /\ PassIsTrue
  <2>1. PICK none : none = <<>>
    OBVIOUS
  <2>2. none \in Seq(StoreTasks)
    BY <2>1
  <2>3. Store!Idle.todo = none
        /\ Store!Idle \in [todo : {none}, tpl : {""}, pods : {none}, claims : {{}}, stranded : {{}}]
    BY <2>1 DEF Store!Idle
  <2>4. pass.todo = none
        /\ pass \in [todo : {none}, tpl : {""}, pods : {none}, claims : {{}}, stranded : {{}}]
    BY <2>3 DEF Store!Init, Store!Nothing
  <2> QED
    BY <2>1, <2>2, <2>4 DEF PassTyped, PassIsTrue
<1>6. {} \in AtMostOne(Pods) /\ {} \in AtMostOne(ClaimStates) /\ {} \in AtMostOne(VolumeStates)
      /\ {} \in AtMostOne(PodsRead) /\ {} \in AtMostOne(VolumesRead)
  BY DEF AtMostOne
<1>7. /\ pods \in [Copies -> AtMostOne(Pods)] /\ pods \in [Copies -> AtMostOne(PodsRead)]
      /\ claims \in [{"rows"} -> AtMostOne(ClaimStates)]
      /\ volumes \in [{"rows"} -> AtMostOne(VolumeStates)]
      /\ volumes \in [{"rows"} -> AtMostOne(VolumesRead)]
  BY <1>3, <1>6
<1>8. seen \in [pods : [Copies -> AtMostOne(PodsRead)], claims : SUBSET {"rows"},
                volumes : [{"rows"} -> AtMostOne(VolumesRead)]]
  BY <1>3, <1>7
<1>9. /\ \A c \in Copies : pods[c] = {} /\ seen.pods[c] = {}
      /\ claims["rows"] = {} /\ volumes["rows"] = {} /\ seen.volumes["rows"] = {}
  BY <1>3
<1>10. StandTyped(Copies, {"rows"}, StoreTasks)
  BY <1>2, <1>3, <1>4, <1>5, <1>7, <1>8 DEF StandTyped
<1>11. ReadIsTrue /\ OneIsPinned /\ NothingInUseGoes
  BY <1>9 DEF ReadIsTrue, IsTrue, OneIsPinned, NothingInUseGoes
<1> QED
  BY <1>5, <1>10, <1>11 DEF StoreInvariant

LEMMA StoreStep ==
  ASSUME Store!StoresAssumption, StoreInvariant, Store!Next
  PROVE  StoreInvariant'
<1>1. CASE Store!PassSteps
  BY <1>1, BeginKeeps, HealPodKeeps, HealClaimKeeps, PodStepsKeep, RequestsKeep, VolumeStepsKeep,
     ClaimStepKeeps DEF Store!PassSteps, Store!StandSteps
<1>2. CASE Store!HealFails \/ Store!Deliver
  BY <1>2, RequestsKeep, DeliverKeeps
<1>3. CASE Store!Controllers
  <2>1. ASSUME NEW c \in Copies, Store!Schedule(c) \/ Store!PodEnds(c) \/ Store!CollectPod(c)
        PROVE  StoreInvariant'
    BY <2>1, ScheduleKeeps, PodEndsKeeps, MarksKeep
  <2>2. ASSUME \/ Store!ClaimEnds("rows")
               \/ (want.perNode /\ (Store!MarkVolume("rows") \/ Store!Bind("rows")))
               \/ Store!ReleaseVolume("rows") \/ Store!VolumeEnds("rows") \/ Store!CollectClaim("rows")
        PROVE  StoreInvariant'
    BY <2>2, ClaimsKeep, MarksKeep
  <2> QED
    BY <1>3, <2>1, <2>2 DEF Store!Controllers, Store!PerNode
<1>4. CASE Store!Mishaps
  BY <1>4, MarksKeep, RequestsKeep, StoreRestarts DEF Store!Mishaps
<1> QED
  BY <1>1, <1>2, <1>3, <1>4 DEF Store!Next

LEMMA StoreStutters ==
  ASSUME StoreInvariant, UNCHANGED Store!vars
  PROVE  StoreInvariant'
<1>1. UNCHANGED <<want, up, pods, claims, volumes, seen, pass, budget>>
  BY DEF Store!vars
<1> QED
  BY <1>1, StoreShape, SamePass, SameWorld

LEMMA HealStep ==
  ASSUME Store!StoresAssumption, StoreInvariant, Store!Next
  PROVE  Store!HealTakesTheStranded
<1> SUFFICES ASSUME NEW c \in Copies, Store!Is("heal"), pods[c] # {}, pods'[c] = {},
                    pass'.todo # pass.todo
             PROVE  \E p \in pods[c] : p.node # {} /\ p.node \subseteq pass.stranded
  BY DEF Store!HealTakesTheStranded
<1>1. pods' # pods /\ pass' # pass /\ pass.todo # <<>>
  BY DEF Store!Is
<1>2. CASE Store!HealPod
  BY <1>2, HealPodKeeps
<1>3. CASE Store!StandPod \/ Store!Retire
  BY <1>3, PodStepsKeep
<1>4. CASE Store!PassSteps /\ ~Store!HealPod /\ ~Store!StandPod /\ ~Store!Retire
  BY <1>1, <1>4 DEF Store!PassSteps, Store!StandSteps, Store!BeginPass, Store!Begin, Store!HealClaim,
     Store!StandClaim, Store!WriteVolume, Store!GetVolume, Store!DeleteSpent, Store!RewriteVolume,
     Store!CreateClaim, Store!Sweep, Store!objects
<1>5. CASE Store!HealFails \/ Store!Deliver
  BY <1>1, <1>5 DEF Store!HealFails, Store!Deliver, Store!objects
<1>6. CASE Store!Controllers
  <2>1. ~\E d \in Copies : Store!PodEnds(d)
    BY PodEndsKeeps
  <2> QED
    BY <1>1, <1>6, <2>1 DEF Store!Controllers, Store!Schedule, Store!CollectPod, Store!ClaimEnds,
       Store!MarkVolume, Store!Bind, Store!ReleaseVolume, Store!VolumeEnds, Store!CollectClaim
<1>7. CASE Store!Mishaps
  BY <1>1, <1>7 DEF Store!Mishaps, Store!NodeDies, Store!NodeReturns, Store!Edit, Store!Undeclare,
     Store!Declare, Store!Fail, Store!Restart, Store!objects
<1> QED
  BY <1>2, <1>3, <1>4, <1>5, <1>6, <1>7 DEF Store!Next

-----------------------------------------------------------------------------
(* The volume of a per-node claim, where no pass meets the binder half-way: *)
(* the pass judges by the claimRef and the phase, and reads them apart from *)
(* the claim.                                                               *)

VolumesHold ==
    /\ \A v \in volumes["rows"] :
           /\ v.of = "none" => v.phase = "available"
           /\ v.phase = "released" => v.of = "gone"
           /\ v.of # "gone" => ~v.going
           /\ v.of = "claim" => claims["rows"] # {}
    /\ \A claim \in claims["rows"] : \E v \in volumes["rows"] :
           v.of # "gone" /\ (claim.bound => v.phase = "bound")
    /\ \A r \in seen.volumes["rows"] :
           r.released /\ r.is => \E v \in volumes["rows"] : v.phase = "released"
    \* What the pass found out of the volume is so still.
    /\ Store!Is("spend") \/ Store!Is("rewrite") =>
           claims["rows"] = {} /\ \A v \in volumes["rows"] : v.of = "gone"
    /\ Store!Is("create") /\ claims["rows"] = {} => \E v \in volumes["rows"] : v.of = "none"

UnracedInvariant == budget.races = 0 /\ (want.perNode => VolumesHold)
NoRaces == \A b \in StoreFaults \cup RoughStoreFaults \cup SpreadFaults \cup AgainFaults : b.races = 0

LEMMA StillUnraced ==
  ASSUME StoreInvariant, budget.races = 0, NEW kind \in Losses, Store!Spend(kind)
  PROVE  kind # "races" /\ budget'.races = 0
<1>1. budget \in [Losses -> Nat] /\ "races" \in Losses
  BY StoreShape DEF Losses
<1>2. budget[kind] > 0 /\ budget' = [budget EXCEPT ![kind] = budget[kind] - 1]
  BY DEF Store!Spend
<1> QED
  BY <1>1, <1>2

LEMMA OneVolume ==
  ASSUME StoreInvariant
  PROVE  /\ \A v, w \in volumes["rows"] : v = w
         /\ \A c, d \in claims["rows"] : c = d
         /\ volumes["rows"] \subseteq VolumeStates /\ claims["rows"] \subseteq ClaimStates
BY StoreShape DEF AtMostOne

\* Which task is next after a step of the pass.
LEMMA LaterIsNext ==
  ASSUME StoreInvariant, pass.todo # <<>>, Store!Done \/ Store!Abandoned
  PROVE  \A kind \in {"spend", "rewrite", "create"} : ~Store!Is(kind)'
<1>1. \A task \in LaterTasks : task[1] \notin {"spend", "rewrite", "create"}
  BY DEF LaterTasks
<1>2. pass'.todo = <<>> \/ Head(pass'.todo) \in LaterTasks
  <2>1. CASE Store!Done
    <3>0. PICK todo : todo = Tail(pass.todo)
      OBVIOUS
    <3>1. todo # <<>> => Head(todo) \in Rest(pass.todo)
      BY <3>0, TaskIs, FirstAndRest
    <3>2. Rest(pass.todo) \subseteq LaterTasks
      BY DEF StoreInvariant, PassIsTrue
    <3>3. pass' = IF todo = <<>> THEN Store!Idle ELSE [pass EXCEPT !.todo = todo]
      BY <2>1, <3>0 DEF Store!Done, Store!Left
    <3>4. pass'.todo = todo
      BY <3>3 DEF Store!Idle, StoreInvariant, StandTyped, PassTyped
    <3> QED
      BY <3>1, <3>2, <3>4
  <2>2. CASE Store!Abandoned
    <3> DEFINE sweep == <<"sweep", 0>>
    <3>1. sweep \in LaterTasks
      BY DEF LaterTasks
    <3>2. pass' = IF <<sweep>> = <<>> THEN Store!Idle ELSE [pass EXCEPT !.todo = <<sweep>>]
      BY <2>2 DEF Store!Abandoned, Store!Left, Store!LastTask
    <3> HIDE DEF sweep
    <3>3. <<sweep>> # <<>> /\ Head(<<sweep>>) = sweep
      BY <3>1, OneTask
    <3>4. pass'.todo = <<sweep>>
      BY <3>2, <3>3 DEF StoreInvariant, StandTyped, PassTyped
    <3> QED
      BY <3>1, <3>3, <3>4
  <2> QED
    BY <2>1, <2>2
<1> QED
  BY <1>1, <1>2 DEF Store!Is, Store!Task

LEMMA ThenIsNext ==
  ASSUME StoreInvariant, pass.todo # <<>>, Store!Of = "rows",
         NEW kind \in {"write", "get", "spend", "rewrite", "create"}, pass' = Store!Then(kind)
  PROVE  \A other : Store!Is(other)' <=> other = kind
<1> DEFINE task == <<kind, "rows">>
<1>0. PICK todo : todo = <<task>> \o Tail(pass.todo)
  OBVIOUS
<1>1. task \in StoreTasks /\ task[1] = kind
  BY DEF StoreTasks
<1>2. pass' = [pass EXCEPT !.todo = todo]
  BY <1>0 DEF Store!Then
<1> HIDE DEF task
<1>3. Tail(pass.todo) \in Seq(StoreTasks)
  BY TaskIs, FirstAndRest
<1>4. todo # <<>> /\ Head(todo) = task
  BY <1>0, <1>1, <1>3, PutBefore
<1>5. pass'.todo = todo
  BY <1>2 DEF StoreInvariant, StandTyped, PassTyped
<1> QED
  BY <1>1, <1>4, <1>5 DEF Store!Is, Store!Task

\* A step that leaves the claim, the volume and what is read of it alone.
LEMMA QuietHolds ==
  ASSUME VolumesHold, UNCHANGED <<claims, volumes>>, seen'.volumes = seen.volumes,
         pass'.todo = pass.todo \/ \A kind \in {"spend", "rewrite", "create"} : ~Store!Is(kind)'
  PROVE  VolumesHold'
<1>1. \A kind \in {"spend", "rewrite", "create"} : Store!Is(kind)' => Store!Is(kind)
  BY DEF Store!Is, Store!Task
<1> QED
  BY <1>1 DEF VolumesHold

\* What a field that is set leaves of a volume.
SetTo(v, w, field, value) ==
    /\ IF field = "phase" THEN w.phase = value ELSE w.phase = v.phase
    /\ IF field = "of" THEN w.of = value ELSE w.of = v.of
    /\ IF field = "going" THEN w.going = value ELSE w.going = v.going
LEMMA SetsVolume ==
  ASSUME StoreInvariant, NEW field \in {"phase", "of", "going"}, NEW value,
         volumes' = Store!Set(volumes, "rows", field, value)
  PROVE  /\ \A v \in volumes["rows"] : \E w \in volumes'["rows"] : SetTo(v, w, field, value)
         /\ \A w \in volumes'["rows"] : \E v \in volumes["rows"] : SetTo(v, w, field, value)
<1> DEFINE M(v) == [v EXCEPT ![field] = value]
<1>1. \A v \in VolumeStates : SetTo(v, M(v), field, value)
  BY DEF VolumeStates, SetTo
<1>2. volumes' = [volumes EXCEPT !["rows"] = {M(o) : o \in volumes["rows"]}]
  BY SetIs
<1> HIDE DEF M
<1>3. volumes'["rows"] = {M(o) : o \in volumes["rows"]}
  BY <1>2, StoreShape
<1>4. volumes["rows"] \subseteq VolumeStates
  BY OneVolume
<1> QED
  BY <1>1, <1>3, <1>4

\* The binder, and the ends of claims and volumes.
LEMMA BinderHolds ==
  ASSUME StoreInvariant, UnracedInvariant, want.perNode,
         \/ Store!ClaimEnds("rows") \/ Store!MarkVolume("rows") \/ Store!Bind("rows")
         \/ Store!ReleaseVolume("rows") \/ Store!VolumeEnds("rows") \/ Store!CollectClaim("rows")
  PROVE  VolumesHold'
<1>1. /\ \A kind : Store!Is(kind)' <=> Store!Is(kind)
  BY DEF Store!ClaimEnds, Store!MarkVolume, Store!Bind, Store!ReleaseVolume, Store!VolumeEnds,
     Store!CollectClaim, Store!Is, Store!Task
<1>2. VolumesHold /\ budget.races = 0
  BY DEF UnracedInvariant
<1> USE OneVolume
<1>3. CASE Store!ClaimEnds("rows")
  <2>1. /\ claims' = [claims EXCEPT !["rows"] = {}] /\ claims["rows"] # {} /\ UNCHANGED seen
        /\ volumes' = IF Store!Holds("rows", "claim") THEN Store!Set(volumes, "rows", "of", "gone")
                      ELSE volumes
    BY <1>3 DEF Store!ClaimEnds
  <2>2. claims'["rows"] = {}
    BY <2>1, StoreShape
  <2>3. ~Store!Is("create")
    <3>1. SUFFICES ASSUME Store!Is("create") PROVE FALSE
      OBVIOUS
    <3>2. pass.todo # <<>> /\ Head(pass.todo) = <<"create", "rows">>
      <4>1. PICK task \in StoreTasks : task = Head(pass.todo) /\ task[1] = "create"
        BY <3>1, TaskIs DEF Store!Is, Store!Task
      <4>2. task = <<"create", "rows">>
        BY <4>1 DEF StoreTasks, LaterTasks
      <4> QED
        BY <3>1, <4>1, <4>2 DEF Store!Is
    <3>3. Store!Spend("races")
      BY <1>3, <3>2 DEF Store!ClaimEnds, Store!Races, Store!PerNode
    <3> QED
      BY <1>2, <3>3, StillUnraced DEF Losses
  <2>4. PICK v \in volumes["rows"] : v.of # "gone"
    BY <1>2, <2>1 DEF VolumesHold
  <2>5. ~Store!Is("spend") /\ ~Store!Is("rewrite")
    BY <1>2, <2>1 DEF VolumesHold
  <2>6. CASE Store!Holds("rows", "claim")
    <3>1. /\ \A x \in volumes["rows"] : \E w \in volumes'["rows"] : SetTo(x, w, "of", "gone")
          /\ \A w \in volumes'["rows"] : \E x \in volumes["rows"] : SetTo(x, w, "of", "gone")
      BY <2>1, <2>6, SetsVolume
    <3> QED
      BY <1>1, <1>2, <2>1, <2>2, <2>3, <2>5, <3>1 DEF VolumesHold, SetTo
  <2>7. CASE ~Store!Holds("rows", "claim")
    BY <1>1, <1>2, <2>1, <2>2, <2>3, <2>5, <2>7 DEF VolumesHold, Store!Holds
  <2> QED
    BY <2>6, <2>7
<1>4. CASE Store!MarkVolume("rows")
  <2>1. claims["rows"] # {} /\ Store!Holds("rows", "none") /\ UNCHANGED <<claims, seen>>
    BY <1>4 DEF Store!MarkVolume
  <2>2. /\ \A x \in volumes["rows"] : \E w \in volumes'["rows"] : SetTo(x, w, "of", "claim")
        /\ \A w \in volumes'["rows"] : \E x \in volumes["rows"] : SetTo(x, w, "of", "claim")
    BY <1>4, SetsVolume DEF Store!MarkVolume
  <2> QED
    BY <1>1, <1>2, <2>1, <2>2 DEF VolumesHold, SetTo, Store!Holds
<1>5. CASE Store!Bind("rows")
  <2>1. claims["rows"] # {} /\ Store!Holds("rows", "claim") /\ UNCHANGED seen
    BY <1>5 DEF Store!Bind
  <2>2. /\ \A x \in volumes["rows"] : \E w \in volumes'["rows"] : SetTo(x, w, "phase", "bound")
        /\ \A w \in volumes'["rows"] : \E x \in volumes["rows"] : SetTo(x, w, "phase", "bound")
    BY <1>5, SetsVolume DEF Store!Bind
  <2>3. claims'["rows"] # {}
    <3> DEFINE bound == {[c EXCEPT !["bound"] = TRUE] : c \in claims["rows"]}
    <3>1. claims' = [claims EXCEPT !["rows"] = bound]
      BY <1>5 DEF Store!Bind, Store!Set
    <3>2. bound # {}
      BY <2>1
    <3> HIDE DEF bound
    <3> QED
      BY <3>1, <3>2, StoreShape
  <2> QED
    BY <1>1, <1>2, <2>1, <2>2, <2>3 DEF VolumesHold, SetTo, Store!Holds
<1>6. CASE Store!ReleaseVolume("rows")
  <2>1. Store!Holds("rows", "gone") /\ UNCHANGED <<claims, seen>>
    BY <1>6 DEF Store!ReleaseVolume, Store!Holds
  <2>2. /\ \A x \in volumes["rows"] : \E w \in volumes'["rows"] : SetTo(x, w, "phase", "released")
        /\ \A w \in volumes'["rows"] : \E x \in volumes["rows"] : SetTo(x, w, "phase", "released")
    BY <1>6, SetsVolume DEF Store!ReleaseVolume
  <2> QED
    BY <1>1, <1>2, <2>1, <2>2 DEF VolumesHold, SetTo, Store!Holds
<1>7. CASE Store!VolumeEnds("rows")
  <2>1. UNCHANGED claims /\ volumes' = [volumes EXCEPT !["rows"] = {}]
        /\ \E v \in volumes["rows"] : v.going
    BY <1>7 DEF Store!VolumeEnds
  <2>2. volumes'["rows"] = {} /\ \A r \in seen'.volumes["rows"] : ~r.is
    BY <1>7, <2>1, StoreShape, VolumeAges
  <2>3. claims["rows"] = {}
    BY <1>2, <2>1 DEF VolumesHold
  <2>4. ~Store!Is("create")
    BY <1>2, <2>1, <2>3 DEF VolumesHold
  <2> QED
    BY <1>1, <1>2, <2>1, <2>2, <2>3, <2>4 DEF VolumesHold
<1>8. CASE Store!CollectClaim("rows")
  <2> DEFINE going == {[c EXCEPT !["going"] = TRUE] : c \in claims["rows"]}
  <2>1. claims' = [claims EXCEPT !["rows"] = going] /\ UNCHANGED <<volumes, seen>> /\ claims["rows"] # {}
    BY <1>8 DEF Store!CollectClaim, Store!Set
  <2>2. \A d \in going : \E c \in claims["rows"] : d.bound = c.bound
    <3>1. claims["rows"] \in AtMostOne(ClaimStates)
      BY StoreShape
    <3>2. \A cs \in AtMostOne(ClaimStates) :
              \A d \in {[c EXCEPT !["going"] = TRUE] : c \in cs} : \E c \in cs : d.bound = c.bound
      BY FieldOfClaims
    <3> QED
      BY <3>1, <3>2, Zenon
  <2>3. going # {}
    BY <2>1
  <2> HIDE DEF going
  <2>4. claims'["rows"] = going
    BY <2>1, StoreShape
  <2> QED
    BY <1>1, <1>2, <2>1, <2>2, <2>3, <2>4 DEF VolumesHold
<1> QED
  BY <1>3, <1>4, <1>5, <1>6, <1>7, <1>8

\* The pass's own steps on the volume and on the claim.
LEMMA PassHoldsVolumes ==
  ASSUME StoreInvariant, UnracedInvariant, want.perNode,
         \/ Store!WriteVolume \/ Store!GetVolume \/ Store!DeleteSpent \/ Store!RewriteVolume
         \/ Store!CreateClaim \/ Store!Sweep
  PROVE  VolumesHold'
<1>1. VolumesHold /\ budget.races = 0 /\ pass.todo # <<>> /\ UNCHANGED seen
  BY DEF UnracedInvariant, Store!WriteVolume, Store!GetVolume, Store!DeleteSpent, Store!RewriteVolume,
     Store!CreateClaim, Store!Sweep, Store!Is, Store!objects
<1>2. ~Store!Sweep => Store!Of = "rows"
  BY <1>1, TaskIs DEF Store!WriteVolume, Store!GetVolume, Store!DeleteSpent, Store!RewriteVolume,
     Store!CreateClaim, Store!Is
<1> USE OneVolume
<1>3. ASSUME volumes["rows"] = {}, volumes' = [volumes EXCEPT !["rows"] = {Store!NewVolume}],
             UNCHANGED claims, \A kind \in {"spend", "rewrite"} : ~Store!Is(kind)'
      PROVE  VolumesHold'
  <2>1. volumes'["rows"] = {Store!NewVolume}
    BY <1>3, StoreShape
  <2>2. Store!NewVolume.phase = "available" /\ Store!NewVolume.of = "none" /\ ~Store!NewVolume.going
    BY DEF Store!NewVolume
  <2>3. claims["rows"] = {}
    BY <1>1, <1>3 DEF VolumesHold
  <2> QED
    BY <1>1, <1>3, <2>1, <2>2, <2>3 DEF VolumesHold
<1>4. CASE Store!WriteVolume
  <2>0. Store!Of = "rows" /\ UNCHANGED claims
    BY <1>2, <1>4 DEF Store!WriteVolume, Store!Sweep, Store!Is
  <2>1. CASE volumes["rows"] = {}
    <3>1. volumes' = [volumes EXCEPT !["rows"] = {Store!NewVolume}] /\ pass' = Store!Then("create")
      BY <1>4, <2>0, <2>1 DEF Store!WriteVolume
    <3> QED
      BY <1>1, <1>3, <2>0, <2>1, <3>1, ThenIsNext
  <2>2. CASE volumes["rows"] # {}
    <3>1. UNCHANGED volumes /\ pass' = Store!Then("get")
      BY <1>4, <2>0, <2>2 DEF Store!WriteVolume
    <3> QED
      BY <1>1, <2>0, <3>1, ThenIsNext, QuietHolds
  <2> QED
    BY <2>1, <2>2
<1>5. CASE Store!GetVolume
  <2>0. Store!Of = "rows" /\ UNCHANGED <<claims, volumes>>
    BY <1>2, <1>5 DEF Store!GetVolume, Store!Sweep, Store!Is, Store!objects
  <2>1. ~Store!HalfWay("rows")
    <3>1. Store!HalfWay("rows") => Store!Spend("races")
      BY <1>5, <2>0 DEF Store!GetVolume, Store!Races
    <3> QED
      BY <1>1, <3>1, StillUnraced DEF Losses
  <2>2. CASE volumes["rows"] = {}
    <3>1. claims["rows"] = {} /\ pass' = Store!Then("rewrite")
      BY <1>1, <1>5, <2>0, <2>2 DEF VolumesHold, Store!GetVolume
    <3> QED
      BY <1>1, <2>0, <2>2, <3>1, ThenIsNext DEF VolumesHold
  <2>3. CASE volumes["rows"] # {} /\ \E v \in volumes["rows"] : Store!Spent(v)
    <3>1. pass' = Store!Then("spend")
      BY <1>5, <2>0, <2>3 DEF Store!GetVolume
    <3>2. \A v \in volumes["rows"] : v.of = "gone"
      BY <1>1, <2>1, <2>3 DEF VolumesHold, Store!HalfWay, Store!Spent, VolumeStates
    <3>3. claims["rows"] = {}
      BY <1>1, <3>2 DEF VolumesHold
    <3> QED
      BY <1>1, <2>0, <3>1, <3>2, <3>3, ThenIsNext DEF VolumesHold
  <2>4. CASE volumes["rows"] # {} /\ ~\E v \in volumes["rows"] : Store!Spent(v)
    <3>1. pass' = Store!Then("create")
      BY <1>5, <2>0, <2>4 DEF Store!GetVolume
    <3>2. claims["rows"] = {} => \E v \in volumes["rows"] : v.of = "none"
      BY <1>1, <2>1, <2>4 DEF VolumesHold, Store!HalfWay, Store!Spent, VolumeStates
    <3> QED
      BY <1>1, <2>0, <3>1, <3>2, ThenIsNext DEF VolumesHold
  <2> QED
    BY <2>2, <2>3, <2>4
<1>6. CASE Store!DeleteSpent
  <2>0. Store!Of = "rows" /\ UNCHANGED claims /\ Store!Is("spend") /\ pass' = Store!Then("rewrite")
        /\ volumes' = Store!Set(volumes, "rows", "going", TRUE)
    BY <1>2, <1>6 DEF Store!DeleteSpent, Store!Sweep, Store!Is
  <2>1. /\ \A x \in volumes["rows"] : \E w \in volumes'["rows"] : SetTo(x, w, "going", TRUE)
        /\ \A w \in volumes'["rows"] : \E x \in volumes["rows"] : SetTo(x, w, "going", TRUE)
    BY <2>0, SetsVolume
  <2>2. claims["rows"] = {} /\ \A v \in volumes["rows"] : v.of = "gone"
    BY <1>1, <2>0 DEF VolumesHold
  <2>3. \A w \in volumes'["rows"] : w.of = "gone"
    BY <2>1, <2>2 DEF SetTo
  <2>4. \A r \in seen'.volumes["rows"] :
            r.released /\ r.is => \E w \in volumes'["rows"] : w.phase = "released"
    BY <1>1, <2>1 DEF VolumesHold, SetTo
  <2>5. \A kind : Store!Is(kind)' <=> kind = "rewrite"
    BY <1>1, <2>0, ThenIsNext
  <2> QED
    BY <2>0, <2>2, <2>3, <2>4, <2>5 DEF VolumesHold
<1>7. CASE Store!RewriteVolume
  <2>0. Store!Of = "rows" /\ UNCHANGED claims
    BY <1>2, <1>7 DEF Store!RewriteVolume, Store!Sweep, Store!Is
  <2>1. CASE volumes["rows"] = {}
    <3>1. volumes' = [volumes EXCEPT !["rows"] = {Store!NewVolume}] /\ pass' = Store!Then("create")
      BY <1>7, <2>0, <2>1 DEF Store!RewriteVolume
    <3> QED
      BY <1>1, <1>3, <2>0, <2>1, <3>1, ThenIsNext
  <2>2. CASE volumes["rows"] # {}
    <3>1. UNCHANGED volumes /\ Store!Abandoned
      BY <1>7, <2>0, <2>2 DEF Store!RewriteVolume
    <3> QED
      BY <1>1, <2>0, <3>1, LaterIsNext, QuietHolds
  <2> QED
    BY <2>1, <2>2
<1>8. CASE Store!CreateClaim
  <2>1. UNCHANGED volumes /\ Store!Is("create") /\ Store!Done
    BY <1>8 DEF Store!CreateClaim
  <2>2. claims["rows"] # {} => claims' = claims
    BY <1>8, ClaimStepKeeps
  <2>3. \A d \in claims'["rows"] : d \in claims["rows"] \/ ~d.bound
    BY <1>8, ClaimStepKeeps
  <2>4. CASE claims["rows"] # {}
    BY <1>1, <2>1, <2>2, <2>4, LaterIsNext, QuietHolds
  <2>5. CASE claims["rows"] = {}
    <3>1. PICK v \in volumes["rows"] : v.of = "none"
      BY <1>1, <2>1, <2>5 DEF VolumesHold
    <3> QED
      BY <1>1, <2>1, <2>3, <2>5, <3>1, LaterIsNext DEF VolumesHold
  <2> QED
    BY <2>4, <2>5
<1>9. CASE Store!Sweep
  <2>1. UNCHANGED claims /\ Store!Done
    BY <1>9 DEF Store!Sweep
  <2>2. Store!Taken("rows") => \E v \in volumes["rows"] : v.phase = "released"
    BY <1>1 DEF Store!Taken, VolumesHold
  <2>3. /\ \A w \in volumes'["rows"] : \E v \in volumes["rows"] :
               w.phase = v.phase /\ w.of = v.of /\ (w.going => v.going \/ Store!Taken("rows"))
        /\ \A v \in volumes["rows"] : \E w \in volumes'["rows"] : w.phase = v.phase /\ w.of = v.of
    BY <1>9, SweptIs
  <2> QED
    BY <1>1, <2>1, <2>2, <2>3, LaterIsNext DEF VolumesHold
<1> QED
  BY <1>4, <1>5, <1>6, <1>7, <1>8, <1>9

\* What leaves the volume and the claim alone.
LEMMA OthersHold ==
  ASSUME Store!StoresAssumption, StoreInvariant, UnracedInvariant, want.perNode,
         \/ Store!BeginPass \/ Store!HealPod \/ Store!HealClaim \/ Store!Retire \/ Store!StandClaim
         \/ Store!StandPod \/ Store!HealFails \/ Store!Fail
         \/ \E c \in Copies : Store!Schedule(c) \/ Store!PodEnds(c) \/ Store!CollectPod(c)
         \/ \E n \in Nodes : Store!NodeDies(n) \/ Store!NodeReturns(n)
         \/ Store!Edit \/ Store!Declare
  PROVE  VolumesHold'
<1>1. VolumesHold
  BY DEF UnracedInvariant
<1>2. UNCHANGED <<claims, volumes>>
  <2>1. CASE Store!HealClaim
    BY <2>1 DEF Store!HealClaim, Store!PerNode
  <2> QED
    BY <2>1 DEF Store!BeginPass, Store!Begin, Store!HealPod, Store!Retire, Store!StandClaim,
       Store!StandPod, Store!HealFails, Store!Fail, Store!Schedule, Store!PodEnds, Store!CollectPod,
       Store!NodeDies, Store!NodeReturns, Store!Edit, Store!Declare, Store!objects, Store!PerNode
<1>3. seen'.volumes = seen.volumes
  <2>1. UNCHANGED seen \/ \E c : Store!PodGoes(c)
    BY DEF Store!BeginPass, Store!Begin, Store!HealPod, Store!HealClaim, Store!Retire, Store!StandClaim,
       Store!StandPod, Store!HealFails, Store!Fail, Store!Schedule, Store!PodEnds, Store!CollectPod,
       Store!NodeDies, Store!NodeReturns, Store!Edit, Store!Declare, Store!objects
  <2>2. seen \in [pods : [Copies -> AtMostOne(PodsRead)], claims : SUBSET {"rows"},
                  volumes : [{"rows"} -> AtMostOne(VolumesRead)]]
    BY DEF StoreInvariant, StandTyped
  <2> QED
    BY <2>1, <2>2 DEF Store!PodGoes
<1>4. pass'.todo = pass.todo \/ \A kind \in {"spend", "rewrite", "create"} : ~Store!Is(kind)'
  <2>1. CASE Store!BeginPass
    <3>1. Head(pass'.todo) \in LaterTasks
      BY <2>1, BeginKeeps
    <3> QED
      BY <3>1 DEF LaterTasks, Store!Is, Store!Task
  <2>2. CASE Store!HealPod
    <3>1. CASE Store!Done
      BY <2>2, <3>1, LaterIsNext DEF Store!HealPod, Store!Is
    <3>2. CASE ~Store!Done
      <4> DEFINE task == <<"unclaim", "rows">>
      <4>1. pass.todo # <<>> /\ task \in StoreTasks /\ task[1] = "unclaim"
        BY <2>2 DEF Store!HealPod, Store!Is, StoreTasks
      <4>2. PICK todo : todo = <<task>> \o Tail(pass.todo)
        OBVIOUS
      <4>3. pass' = [pass EXCEPT !.pods[Store!Of] = {}, !.todo = todo]
        BY <2>2, <3>2, <4>2 DEF Store!HealPod, Store!Rows
      <4> HIDE DEF task
      <4>4. Tail(pass.todo) \in Seq(StoreTasks)
        BY <4>1, TaskIs, FirstAndRest
      <4>5. todo # <<>> /\ Head(todo) = task
        BY <4>1, <4>2, <4>4, PutBefore
      <4>6. pass'.todo = todo
        BY <4>3 DEF StoreInvariant, StandTyped, PassTyped
      <4> QED
        BY <4>1, <4>5, <4>6 DEF Store!Is, Store!Task
    <3> QED
      BY <3>1, <3>2
  <2>3. CASE Store!HealClaim \/ Store!Retire \/ Store!StandPod \/ Store!HealFails \/ Store!Fail
    <3>1. pass.todo # <<>> /\ (Store!Done \/ Store!Abandoned)
      BY <2>3 DEF Store!HealClaim, Store!Retire, Store!StandPod, Store!HealFails, Store!Fail, Store!Is,
         Store!PerNode
    <3> QED
      BY <3>1, LaterIsNext
  <2>4. CASE Store!StandClaim
    <3>1. pass.todo # <<>> /\ Store!Of = "rows"
      BY <2>4, TaskIs DEF Store!StandClaim, Store!Is
    <3>2. Store!Done \/ pass' = Store!Then("write")
      BY <2>4 DEF Store!StandClaim, Store!PerNode
    <3> QED
      BY <3>1, <3>2, LaterIsNext, ThenIsNext
  <2>5. ASSUME NEW c, Store!PodEnds(c) PROVE pass'.todo = pass.todo
    BY <2>5 DEF Store!PodEnds, StoreInvariant, StandTyped, PassTyped
  <2> QED
    BY <2>1, <2>2, <2>3, <2>4, <2>5 DEF Store!Schedule, Store!CollectPod, Store!NodeDies,
       Store!NodeReturns, Store!Edit, Store!Declare
<1> QED
  BY <1>1, <1>2, <1>3, <1>4, QuietHolds

\* The watch, a new process, and the end of the owner.
LEMMA WatchHolds ==
  ASSUME StoreInvariant, UnracedInvariant, want.perNode,
         Store!Deliver \/ Store!Restart \/ Store!Undeclare
  PROVE  VolumesHold'
<1>1. VolumesHold
  BY DEF UnracedInvariant
<1>2. \A r \in Store!Everything.volumes["rows"] :
          \E v \in volumes["rows"] : r.released => v.phase = "released"
  BY EverythingIs
<1>3. CASE Store!Deliver
  <2>1. UNCHANGED <<claims, volumes, pass>>
    BY <1>3 DEF Store!Deliver, Store!objects
  <2>2. seen'.volumes \in {seen.volumes, Store!Everything.volumes}
    <3>1. PICK all : all = Store!Everything
      OBVIOUS
    <3>2. \/ seen' = [seen EXCEPT !.pods = all.pods]
          \/ seen' = [seen EXCEPT !.claims = Store!Held]
          \/ seen' = [seen EXCEPT !.volumes = all.volumes]
      BY <1>3, <3>1 DEF Store!Deliver
    <3>3. seen \in [pods : [Copies -> AtMostOne(PodsRead)], claims : SUBSET {"rows"},
                    volumes : [{"rows"} -> AtMostOne(VolumesRead)]]
      BY DEF StoreInvariant, StandTyped
    <3> QED
      BY <3>1, <3>2, <3>3
  <2>3. \A kind : Store!Is(kind)' <=> Store!Is(kind)
    BY <2>1 DEF Store!Is, Store!Task
  <2> QED
    BY <1>1, <1>2, <2>1, <2>2, <2>3 DEF VolumesHold
<1>4. CASE Store!Restart
  <2>1. UNCHANGED <<claims, volumes>> /\ pass' = Store!Idle /\ seen' = Store!Everything
    BY <1>4 DEF Store!Restart, Store!objects
  <2>2. \A kind : ~Store!Is(kind)'
    BY <2>1 DEF Store!Idle, Store!Is
  <2> QED
    BY <1>1, <1>2, <2>1, <2>2 DEF VolumesHold
<1>5. CASE Store!Undeclare
  <2>1. /\ UNCHANGED <<volumes, seen, pass>>
        /\ claims' = [k \in {"rows"} |-> {[claim EXCEPT !.orphan = TRUE] : claim \in claims[k]}]
    BY <1>5 DEF Store!Undeclare
  <2> DEFINE left == {[c EXCEPT !["orphan"] = TRUE] : c \in claims["rows"]}
  <2>2. claims'["rows"] = left
    BY <2>1
  <2>3. \A d \in left : \E c \in claims["rows"] : d.bound = c.bound
    <3>1. claims["rows"] \in AtMostOne(ClaimStates)
      BY StoreShape
    <3>2. \A cs \in AtMostOne(ClaimStates) :
              \A d \in {[c EXCEPT !["orphan"] = TRUE] : c \in cs} : \E c \in cs : d.bound = c.bound
      BY FieldOfClaims
    <3> QED
      BY <3>1, <3>2, Zenon
  <2>4. left = {} <=> claims["rows"] = {}
    OBVIOUS
  <2>5. \A kind : Store!Is(kind)' <=> Store!Is(kind)
    BY <2>1 DEF Store!Is, Store!Task
  <2> HIDE DEF left
  <2> QED
    BY <1>1, <2>1, <2>2, <2>3, <2>4, <2>5 DEF VolumesHold
<1> QED
  BY <1>3, <1>4, <1>5

LEMMA RacesNever ==
  ASSUME StoreInvariant, budget.races = 0, Store!Next
  PROVE  budget'.races = 0 /\ want'.perNode = want.perNode
<1>1. budget' = budget \/ \E kind \in Losses : Store!Spend(kind)
  BY DEF Store!Next, Store!PassSteps, Store!StandSteps, Store!BeginPass, Store!Begin, Store!HealPod,
     Store!HealClaim, Store!HealFails, Store!Retire, Store!StandClaim, Store!WriteVolume,
     Store!GetVolume, Store!DeleteSpent, Store!RewriteVolume, Store!CreateClaim, Store!StandPod,
     Store!Sweep, Store!Deliver, Store!Controllers, Store!Schedule, Store!PodEnds, Store!CollectPod,
     Store!ClaimEnds, Store!MarkVolume, Store!Bind, Store!ReleaseVolume, Store!VolumeEnds,
     Store!CollectClaim, Store!Mishaps, Store!NodeDies, Store!NodeReturns, Store!Edit, Store!Undeclare,
     Store!Declare, Store!Fail, Store!Restart, Store!Races, Losses
<1>2. want'.perNode = want.perNode
  <2>1. UNCHANGED want \/ Store!Edit \/ Store!Undeclare \/ Store!Declare
    BY DEF Store!Next, Store!PassSteps, Store!StandSteps, Store!BeginPass, Store!Begin, Store!HealPod,
       Store!HealClaim, Store!HealFails, Store!Retire, Store!StandClaim, Store!WriteVolume,
       Store!GetVolume, Store!DeleteSpent, Store!RewriteVolume, Store!CreateClaim, Store!StandPod,
       Store!Sweep, Store!Deliver, Store!Controllers, Store!Schedule, Store!PodEnds, Store!CollectPod,
       Store!ClaimEnds, Store!MarkVolume, Store!Bind, Store!ReleaseVolume, Store!VolumeEnds,
       Store!CollectClaim, Store!Mishaps, Store!NodeDies, Store!NodeReturns, Store!Fail, Store!Restart
  <2> QED
    BY <2>1, StoreShape DEF Store!Edit, Store!Undeclare, Store!Declare
<1> QED
  BY <1>1, <1>2, StillUnraced

LEMMA UnracedStep ==
  ASSUME Store!StoresAssumption, StoreInvariant, UnracedInvariant, Store!Next \/ UNCHANGED Store!vars
  PROVE  UnracedInvariant'
<1>1. CASE UNCHANGED Store!vars
  <2>1. UNCHANGED <<want, claims, volumes, seen, pass, budget>>
    BY <1>1 DEF Store!vars
  <2> QED
    BY <2>1, QuietHolds DEF UnracedInvariant
<1>2. CASE Store!Next
  <2>1. budget'.races = 0 /\ want'.perNode = want.perNode
    BY <1>2, RacesNever DEF UnracedInvariant
  <2>2. ASSUME want.perNode PROVE VolumesHold'
    BY <1>2, <2>2, BinderHolds, PassHoldsVolumes, OthersHold, WatchHolds
       DEF Store!Next, Store!PassSteps, Store!StandSteps, Store!Controllers, Store!Mishaps
  <2> QED
    BY <2>1, <2>2 DEF UnracedInvariant
<1> QED
  BY <1>1, <1>2

LEMMA UnracedStarts ==
  ASSUME Init, OfAStore, NoRaces
  PROVE  UnracedInvariant
<1>1. budget.races = 0
  BY DEF Init, OfAStore, NoRaces
<1>2. /\ claims = [k \in {"rows"} |-> {}] /\ volumes = [k \in {"rows"} |-> {}] /\ pass = Store!Idle
      /\ seen = [pods |-> pods, claims |-> {}, volumes |-> volumes]
  BY StoreOnly DEF Store!Init, Store!Nothing
<1>3. claims["rows"] = {} /\ volumes["rows"] = {} /\ seen.volumes["rows"] = {} /\ \A kind : ~Store!Is(kind)
  BY <1>2 DEF Store!Is, Store!Idle
<1> QED
  BY <1>1, <1>3 DEF UnracedInvariant, VolumesHold

LEMMA MountedStays ==
  ASSUME StoreInvariant
  PROVE  Store!MountedClaimIsKept
BY DEF StoreInvariant, NothingInUseGoes, Store!MountedClaimIsKept

LEMMA VolumeStays ==
  ASSUME UnracedInvariant
  PROVE  Store!NamedVolumeStays
BY DEF UnracedInvariant, VolumesHold, Store!NamedVolumeStays, Store!PerNode

-----------------------------------------------------------------------------
(* Screens.  A recovery is the head of its list or the whole of it, and    *)
(* goes on only where the pod is going already: so no claim goes of a      *)
(* screen that plays.                                                      *)

Names == {"rows", "art"}
ScreenTasks == ({"stop", "recover", "rows", "art", "pod", "sweep"} \X {0})
    \cup ({"claim", "write", "get", "spend", "rewrite", "create"} \X Names)
Recovers == {<<"rows", 0>>, <<"art", 0>>}
ScreenWants == [stands : BOOLEAN, tpl : {"one", "two"}, copies : {0, 1}, on : SUBSET Nodes,
                perNode : BOOLEAN]
ScreenWorld ==
    /\ want \in ScreenWants
    /\ pods \in [{0} -> AtMostOne(Pods)]
    /\ claims \in [Names -> AtMostOne(ClaimStates)]
    /\ \A name \in Names : \A claim \in claims[name] :
           claim.going /\ ~claim.orphan => \A p \in pods[0] : p.node = {} \/ p.going
ScreenPass ==
    /\ {"todo", "tpl"} \subseteq DOMAIN pass
    /\ pass.todo \in Seq(ScreenTasks)
    /\ pass.todo # <<>> => pass.tpl \in {"one", "two"}
    /\ <<"recover", 0>> \notin Rest(pass.todo)
    /\ \/ Entries(pass.todo) \cap Recovers = {}
       \/ Entries(pass.todo) \subseteq Recovers \cup {<<"sweep", 0>>} /\ \A p \in pods[0] : p.going
ScreenInvariant == ScreenWorld /\ ScreenPass

LEMMA ScreenOnly ==
  /\ Init /\ OfAScreen => Screen!Init
  /\ [Next]_vars /\ OfAScreen' => OfAScreen /\ [Screen!Next]_(Screen!vars)
<1>1. Init /\ OfAScreen => Screen!Init
  BY DEF Init, OfAScreen
<1>2. ASSUME [Next]_vars, OfAScreen' PROVE OfAScreen /\ [Screen!Next]_(Screen!vars)
  <2>1. CASE UNCHANGED vars
    BY <1>2, <2>1 DEF vars, standVars, Screen!vars, OfAScreen
  <2>2. CASE Next
    BY <1>2, <2>2 DEF Next, OfTitle, OfReport, OfCounts, OfStand, OfTemplate, About, OfAScreen
  <2> QED
    BY <1>2, <2>1, <2>2
<1> QED
  BY <1>1, <1>2

LEMMA ScreenShape ==
  ASSUME ScreenInvariant
  PROVE  /\ want \in ScreenWants
         /\ pods \in [{0} -> AtMostOne(Pods)] /\ claims \in [Names -> AtMostOne(ClaimStates)]
         /\ pass.todo \in Seq(ScreenTasks) /\ Entries(pass.todo) \subseteq ScreenTasks
BY RestIsOf DEF ScreenInvariant, ScreenWorld, ScreenPass

LEMMA ScreenTaskIs ==
  ASSUME ScreenInvariant, pass.todo # <<>>
  PROVE  /\ Screen!Task = Head(pass.todo) /\ Screen!Task \in ScreenTasks
         /\ Screen!Task \in Entries(pass.todo)
         /\ Screen!Task[1] \in {"stop", "recover", "pod", "rows", "art"} =>
                Screen!Of = 0 /\ Screen!Task = <<Screen!Task[1], 0>>
         /\ Screen!Task[1] \in {"claim", "write", "get", "spend", "rewrite", "create"} =>
                Screen!Of \in Names
         /\ pass.tpl \in {"one", "two"}
<1>1. pass.todo \in Seq(ScreenTasks) /\ pass.tpl \in {"one", "two"}
  BY DEF ScreenInvariant, ScreenPass
<1>2. /\ Screen!Task = Head(pass.todo) /\ Screen!Task \in ScreenTasks
      /\ Screen!Task \in Entries(pass.todo)
  BY <1>1, FirstAndRest DEF Screen!Task
<1>3. ASSUME NEW task \in ScreenTasks
      PROVE  /\ task[1] \in {"stop", "recover", "pod", "rows", "art"} =>
                    task[2] = 0 /\ task = <<task[1], 0>>
             /\ task[1] \in {"claim", "write", "get", "spend", "rewrite", "create"} =>
                    task[2] \in Names
  BY DEF ScreenTasks
<1> QED
  BY <1>1, <1>2, <1>3 DEF Screen!Of

\* The list that a pass goes on with.
LEMMA ScreenGoesOn ==
  ASSUME ScreenInvariant, pass.todo # <<>>, NEW todo \in Seq(ScreenTasks),
         pass' = [pass EXCEPT !.todo = todo],
         <<"recover", 0>> \notin Rest(todo),
         \/ Entries(todo) \cap Recovers = {}
         \/ Entries(todo) \subseteq Recovers \cup {<<"sweep", 0>>} /\ \A p \in pods'[0] : p.going
  PROVE  ScreenPass'
<1>1. /\ {"todo", "tpl"} \subseteq DOMAIN pass' /\ pass'.todo = todo /\ pass'.tpl = pass.tpl
  BY DEF ScreenInvariant, ScreenPass
<1>2. pass.tpl \in {"one", "two"}
  BY DEF ScreenInvariant, ScreenPass
<1> QED
  BY <1>1, <1>2 DEF ScreenPass

LEMMA ScreenOver ==
  ASSUME pass' = Screen!Idle
  PROVE  ScreenPass'
<1>1. PICK none : none = <<>>
  OBVIOUS
<1>2. none \in Seq(ScreenTasks) /\ Entries(none) = {} /\ Rest(none) = {}
  BY <1>1 DEF Entries, Rest
<1>3. Screen!Idle.todo = none /\ {"todo", "tpl"} \subseteq DOMAIN Screen!Idle
  BY <1>1 DEF Screen!Idle
<1>4. pass'.todo = none /\ {"todo", "tpl"} \subseteq DOMAIN pass'
  BY <1>3
<1> QED
  BY <1>1, <1>2, <1>4 DEF ScreenPass

\* What a step of the pass has to keep of the pod, where the recovery goes on.
StillGoes == Entries(pass.todo) \cap Recovers = {} \/ \A p \in pods'[0] : p.going

LEMMA ScreenDone ==
  ASSUME ScreenInvariant, pass.todo # <<>>, Screen!Done, StillGoes
  PROVE  ScreenPass'
<1>1. PICK todo : todo = Tail(pass.todo)
  OBVIOUS
<1>2. /\ todo \in Seq(ScreenTasks) /\ Entries(todo) = Rest(pass.todo)
      /\ Rest(todo) \subseteq Rest(pass.todo) /\ Rest(pass.todo) \subseteq Entries(pass.todo)
  BY <1>1, ScreenShape, FirstAndRest, RestIsOf
<1>3. pass' = IF todo = <<>> THEN Screen!Idle ELSE [pass EXCEPT !.todo = todo]
  BY <1>1 DEF Screen!Done, Screen!Left
<1>4. <<"recover", 0>> \notin Rest(todo)
  BY <1>2 DEF ScreenInvariant, ScreenPass
<1>5. \/ Entries(todo) \cap Recovers = {}
      \/ Entries(todo) \subseteq Recovers \cup {<<"sweep", 0>>} /\ \A p \in pods'[0] : p.going
  BY <1>2 DEF ScreenInvariant, ScreenPass, StillGoes
<1>6. CASE todo = <<>>
  BY <1>3, <1>6, ScreenOver
<1>7. CASE todo # <<>>
  BY <1>2, <1>3, <1>4, <1>5, <1>7, ScreenGoesOn
<1> QED
  BY <1>6, <1>7

LEMMA ScreenAbandons ==
  ASSUME ScreenInvariant, pass.todo # <<>>, Screen!Abandoned
  PROVE  ScreenPass'
<1> DEFINE sweep == <<"sweep", 0>>
<1>1. sweep \in ScreenTasks /\ sweep \notin Recovers
  BY DEF ScreenTasks, Recovers
<1>2. pass' = IF <<sweep>> = <<>> THEN Screen!Idle ELSE [pass EXCEPT !.todo = <<sweep>>]
  BY DEF Screen!Abandoned, Screen!Left, Screen!LastTask
<1> HIDE DEF sweep
<1>3. PICK todo : todo = <<sweep>>
  OBVIOUS
<1>4. todo \in Seq(ScreenTasks) /\ todo # <<>> /\ Entries(todo) = {sweep} /\ Rest(todo) = {}
  BY <1>1, <1>3, OneTask
<1>5. pass' = [pass EXCEPT !.todo = todo]
  BY <1>2, <1>3, <1>4
<1> QED
  BY <1>1, <1>4, <1>5, ScreenGoesOn

LEMMA ScreenThen ==
  ASSUME ScreenInvariant, pass.todo # <<>>, Screen!Of \in Names,
         Screen!Task[1] \in {"claim", "write", "get", "spend", "rewrite", "create"},
         NEW kind \in {"write", "get", "spend", "rewrite", "create"}, pass' = Screen!Then(kind)
  PROVE  ScreenPass'
<1>1. PICK task : task = <<kind, Screen!Of>>
  OBVIOUS
<1>2. task \in ScreenTasks /\ task \notin Recovers
  BY <1>1 DEF ScreenTasks, Recovers
<1>3. PICK todo : todo = <<task>> \o Tail(pass.todo)
  OBVIOUS
<1>4. pass' = [pass EXCEPT !.todo = todo]
  BY <1>1, <1>3 DEF Screen!Then
<1>5. Tail(pass.todo) \in Seq(ScreenTasks) /\ Entries(Tail(pass.todo)) = Rest(pass.todo)
      /\ Rest(pass.todo) \subseteq Entries(pass.todo)
  BY ScreenShape, FirstAndRest, RestIsOf
<1>6. /\ todo \in Seq(ScreenTasks) /\ Rest(todo) = Rest(pass.todo)
      /\ Entries(todo) = {task} \cup Rest(pass.todo)
  BY <1>2, <1>3, <1>5, PutBefore
<1>7. Entries(pass.todo) \cap Recovers = {}
  <2>1. Screen!Task \in Entries(pass.todo)
    BY ScreenTaskIs
  <2>2. Screen!Task \notin Recovers \cup {<<"sweep", 0>>}
    BY DEF Recovers
  <2> QED
    BY <2>1, <2>2 DEF ScreenInvariant, ScreenPass
<1>8. <<"recover", 0>> \notin Rest(pass.todo)
  BY DEF ScreenInvariant, ScreenPass
<1> QED
  BY <1>2, <1>4, <1>5, <1>6, <1>7, <1>8, ScreenGoesOn

\* The world where the pods and the claims stay, and where they go on.
LEMMA ScreenOnward ==
  ASSUME ScreenInvariant, want' \in ScreenWants, PodsOnward({0}), ClaimsOnward(Names)
  PROVE  ScreenWorld' /\ StillGoes
<1>1. ASSUME NEW name \in Names, NEW d \in claims'[name], d.going, ~d.orphan, NEW q \in pods'[0]
      PROVE  q.node = {} \/ q.going
  <2>1. PICK e \in claims[name] : (e.orphan => d.orphan) /\ (d.going => e.going \/ d.orphan)
    BY DEF ClaimsOnward
  <2>2. PICK p \in pods[0] : q.node = p.node /\ (p.going => q.going)
    BY DEF PodsOnward
  <2>3. p.node = {} \/ p.going
    BY <1>1, <2>1 DEF ScreenInvariant, ScreenWorld
  <2> QED
    BY <2>2, <2>3
<1>2. ScreenWorld'
  BY <1>1 DEF ScreenWorld, PodsOnward, ClaimsOnward
<1>3. StillGoes
  BY DEF ScreenInvariant, ScreenPass, StillGoes, PodsOnward
<1> QED
  BY <1>2, <1>3

LEMMA ScreenStays ==
  ASSUME ScreenInvariant, UNCHANGED pass, StillGoes
  PROVE  ScreenPass'
BY DEF ScreenInvariant, ScreenPass, StillGoes

LEMMA ScreenSame ==
  ASSUME ScreenInvariant, UNCHANGED <<want, pods, claims>>
  PROVE  ScreenWorld' /\ StillGoes
<1>1. PodsOnward({0}) /\ ClaimsOnward(Names) /\ want' \in ScreenWants
  BY ScreenShape, StayDoes
<1> QED
  BY <1>1, ScreenOnward

\* A claim goes on, and goes where its owner is gone.
LEMMA ClaimMarked ==
  ASSUME NEW names, claims \in [names -> AtMostOne(ClaimStates)], NEW k \in names,
         claims' = [claims EXCEPT ![k] = {[o EXCEPT !["going"] = TRUE] : o \in @}]
  PROVE  /\ claims' \in [names -> AtMostOne(ClaimStates)]
         /\ (\A e \in claims[k] : e.orphan) => ClaimsOnward(names)
<1> DEFINE M(o) == [o EXCEPT !["going"] = TRUE]
<1>1. \A e \in ClaimStates : /\ M(e) \in ClaimStates /\ M(e).bound = e.bound
                             /\ M(e).orphan = e.orphan
  BY DEF ClaimStates
<1>2. claims' = [claims EXCEPT ![k] = {M(o) : o \in claims[k]}]
  OBVIOUS
<1> HIDE DEF M
<1>3. CASE claims[k] = {}
  <2>1. {M(o) : o \in claims[k]} = claims[k]
    BY <1>3
  <2>2. claims' = claims
    BY <1>2, <2>1
  <2> QED
    BY <2>2 DEF ClaimsOnward
<1>4. ASSUME NEW e \in ClaimStates, claims[k] = {e}
      PROVE  /\ claims' \in [names -> AtMostOne(ClaimStates)]
             /\ (\A x \in claims[k] : x.orphan) => ClaimsOnward(names)
  <2>1. {M(o) : o \in claims[k]} = {M(e)}
    BY <1>4
  <2>2. claims' = [claims EXCEPT ![k] = {M(e)}] /\ {M(e)} \in AtMostOne(ClaimStates)
    BY <1>1, <1>2, <2>1, OneIn
  <2> QED
    BY <1>1, <1>4, <2>2 DEF ClaimsOnward
<1>5. claims[k] \in AtMostOne(ClaimStates)
  OBVIOUS
<1> QED
  BY <1>3, <1>4, <1>5 DEF AtMostOne

\* Where the pod goes, every claim may go.
LEMMA ClaimsMayGo ==
  ASSUME ScreenInvariant, UNCHANGED <<want, pods>>, claims' \in [Names -> AtMostOne(ClaimStates)],
         \A p \in pods[0] : p.going
  PROVE  ScreenWorld' /\ StillGoes
BY DEF ScreenInvariant, ScreenWorld, StillGoes

LEMMA ScreenRecovers ==
  ASSUME ScreenInvariant, Screen!Recover \/ Screen!RecoverRows \/ Screen!RecoverArt
  PROVE  ScreenInvariant'
<1>1. CASE Screen!Recover
  <2>1. pass.todo # <<>> /\ UNCHANGED <<want, up, claims, volumes, seen, budget>>
    BY <1>1 DEF Screen!Recover, Screen!Is
  <2>2. CASE Screen!Done /\ UNCHANGED pods
    BY <2>1, <2>2, ScreenSame, ScreenDone DEF ScreenInvariant
  <2>3. CASE Screen!DeletePod(0) /\ pass' = [pass EXCEPT !.todo = <<<<"rows", 0>>, <<"art", 0>>>> \o Screen!LastTask]
    <3>1. pods' = [pods EXCEPT ![0] = {[o EXCEPT !["going"] = TRUE] : o \in pods[0]}]
      BY <2>3 DEF Screen!DeletePod, Screen!Set
    <3>2. PodsOnward({0}) /\ \A p \in pods'[0] : p.going
      BY <3>1, ScreenShape, MarkDoes
    <3>3. ClaimsOnward(Names) /\ want' \in ScreenWants
      BY <2>1, ScreenShape, StayDoes
    <3>4. PICK one, two, end : one = <<"rows", 0>> /\ two = <<"art", 0>> /\ end = <<"sweep", 0>>
      OBVIOUS
    <3>5. /\ one \in ScreenTasks /\ two \in ScreenTasks /\ end \in ScreenTasks
          /\ <<"recover", 0>> \notin {one, two, end} /\ Recovers = {one, two}
      BY <3>4 DEF ScreenTasks, Recovers
    <3>6. PICK both : both = <<one, two>>
      OBVIOUS
    <3>7. both \in Seq({one, two}) /\ both \in Seq(ScreenTasks)
      BY <3>5, <3>6
    <3>8. Entries(both) \subseteq {one, two}
      BY <3>7, RestIsOf
    <3>9. PICK todo : todo = both \o <<end>>
      OBVIOUS
    <3>10. /\ Entries(todo) \subseteq {one, two, end} /\ Rest(todo) \subseteq {one, two, end}
           /\ todo \in Seq(ScreenTasks)
      <4>1. PICK tail : tail = <<end>>
        OBVIOUS
      <4>2. tail \in Seq(ScreenTasks) /\ Entries(tail) = {end}
        BY <3>5, <4>1, OneTask
      <4>3. todo \in Seq(ScreenTasks) /\ Entries(todo) = Entries(both) \cup Entries(tail)
        BY <3>7, <3>9, <4>1, <4>2, JoinOf
      <4>4. Rest(todo) \subseteq Entries(todo)
        BY <4>3, RestIsOf
      <4> QED
        BY <3>8, <4>2, <4>3, <4>4
    <3>11. pass' = [pass EXCEPT !.todo = todo]
      BY <2>3, <3>4, <3>6, <3>9 DEF Screen!LastTask
    <3>12. Entries(todo) \subseteq Recovers \cup {<<"sweep", 0>>} /\ <<"recover", 0>> \notin Rest(todo)
      BY <3>4, <3>5, <3>10
    <3>13. ScreenPass'
      BY <2>1, <3>2, <3>10, <3>11, <3>12, ScreenGoesOn
    <3> QED
      BY <3>2, <3>3, <3>13, ScreenOnward DEF ScreenInvariant
  <2> QED
    BY <1>1, <2>2, <2>3 DEF Screen!Recover
<1>2. CASE Screen!RecoverRows \/ Screen!RecoverArt
  <2>1. /\ pass.todo # <<>> /\ UNCHANGED <<want, up, pods, volumes, seen, budget>> /\ Screen!Done
        /\ Screen!Task[1] \in {"rows", "art"}
    BY <1>2 DEF Screen!RecoverRows, Screen!RecoverArt, Screen!Is
  <2>2. Screen!Task \in Recovers /\ Screen!Task \in Entries(pass.todo)
    BY <2>1, ScreenTaskIs DEF Recovers
  <2>3. \A p \in pods[0] : p.going
    BY <2>2 DEF ScreenInvariant, ScreenPass
  <2>4. claims' \in [Names -> AtMostOne(ClaimStates)]
    <3>1. "rows" \in Names /\ "art" \in Names
      BY DEF Names
    <3>2. \/ claims' = [claims EXCEPT !["rows"] = {[o EXCEPT !["going"] = TRUE] : o \in claims["rows"]}]
          \/ claims' = [claims EXCEPT !["art"] = {[o EXCEPT !["going"] = TRUE] : o \in claims["art"]}]
          \/ UNCHANGED claims
      BY <1>2 DEF Screen!RecoverRows, Screen!RecoverArt, Screen!Set, Screen!Rows, Screen!Art
    <3>3. ASSUME NEW k \in Names,
                 claims' = [claims EXCEPT ![k] = {[o EXCEPT !["going"] = TRUE] : o \in claims[k]}]
          PROVE  claims' \in [Names -> AtMostOne(ClaimStates)]
      BY <3>3, ScreenShape, ClaimMarked
    <3>4. CASE UNCHANGED claims
      BY <3>4, ScreenShape
    <3> QED
      BY <3>1, <3>2, <3>3, <3>4
  <2>5. ScreenWorld' /\ StillGoes
    BY <2>1, <2>3, <2>4, ClaimsMayGo
  <2> QED
    BY <2>1, <2>5, ScreenDone DEF ScreenInvariant
<1> QED
  BY <1>1, <1>2

\* A task of another kind than the recovery's says that nothing recovers.
LEMMA NoRecovery ==
  ASSUME ScreenInvariant, pass.todo # <<>>, Screen!Task[1] \notin {"rows", "art", "sweep"}
  PROVE  Entries(pass.todo) \cap Recovers = {} /\ StillGoes
<1>1. Screen!Task \in Entries(pass.todo)
  BY ScreenTaskIs
<1>2. Screen!Task \notin Recovers \cup {<<"sweep", 0>>}
  BY DEF Recovers
<1> QED
  BY <1>1, <1>2 DEF ScreenInvariant, ScreenPass, StillGoes

\* Steps of the pass that leave its pod and its claims alone.
LEMMA ScreenRequests ==
  ASSUME ScreenInvariant,
         \/ Screen!StandClaim \/ Screen!WriteVolume \/ Screen!GetVolume \/ Screen!DeleteSpent
         \/ Screen!RewriteVolume \/ Screen!Sweep \/ Screen!Fail \/ Screen!Restart
  PROVE  ScreenInvariant'
<1>1. pass.todo # <<>> /\ UNCHANGED <<want, pods, claims>>
  BY DEF Screen!StandClaim, Screen!WriteVolume, Screen!GetVolume, Screen!DeleteSpent,
     Screen!RewriteVolume, Screen!Sweep, Screen!Fail, Screen!Restart, Screen!Is, Screen!objects
<1>2. ScreenWorld' /\ StillGoes
  BY <1>1, ScreenSame
<1>3. CASE Screen!Done
  BY <1>1, <1>2, <1>3, ScreenDone DEF ScreenInvariant
<1>4. CASE Screen!Abandoned
  BY <1>1, <1>2, <1>4, ScreenAbandons DEF ScreenInvariant
<1>5. CASE pass' = Screen!Idle
  BY <1>2, <1>5, ScreenOver DEF ScreenInvariant
<1>6. ASSUME Screen!Task[1] \in {"claim", "write", "get", "spend", "rewrite", "create"},
             NEW kind \in {"write", "get", "spend", "rewrite", "create"}, pass' = Screen!Then(kind)
      PROVE  ScreenInvariant'
  BY <1>1, <1>2, <1>6, ScreenTaskIs, ScreenThen DEF ScreenInvariant
<1>7. CASE Screen!StandClaim
  BY <1>3, <1>6, <1>7 DEF Screen!StandClaim, Screen!Is
<1>8. CASE Screen!WriteVolume
  BY <1>6, <1>8 DEF Screen!WriteVolume, Screen!Is
<1>9. CASE Screen!GetVolume
  BY <1>6, <1>9 DEF Screen!GetVolume, Screen!Is
<1>10. CASE Screen!DeleteSpent
  BY <1>6, <1>10 DEF Screen!DeleteSpent, Screen!Is
<1>11. CASE Screen!RewriteVolume
  BY <1>4, <1>6, <1>11 DEF Screen!RewriteVolume, Screen!Is
<1>12. CASE Screen!Sweep
  BY <1>3, <1>12 DEF Screen!Sweep
<1>13. CASE Screen!Fail \/ Screen!Restart
  BY <1>4, <1>5, <1>13 DEF Screen!Fail, Screen!Restart
<1> QED
  BY <1>7, <1>8, <1>9, <1>10, <1>11, <1>12, <1>13

\* Steps that leave the pass alone, and only mark the pod and the claims.
LEMMA ScreenMarks ==
  ASSUME ScreenInvariant,
         \/ Screen!Deliver \/ Screen!CollectPod(0) \/ Screen!DisplayMoves
         \/ \E k \in Names : Screen!MarkVolume(k) \/ Screen!ReleaseVolume(k) \/ Screen!VolumeEnds(k)
                               \/ Screen!CollectClaim(k)
         \/ \E n \in Nodes : Screen!NodeDies(n) \/ Screen!NodeReturns(n)
         \/ Screen!Edit \/ Screen!Delegate \/ Screen!Undeclare \/ Screen!Declare
  PROVE  ScreenInvariant'
<1>1. UNCHANGED pass
  BY DEF Screen!Deliver, Screen!CollectPod, Screen!DisplayMoves, Screen!MarkVolume, Screen!ReleaseVolume,
     Screen!VolumeEnds, Screen!CollectClaim, Screen!NodeDies, Screen!NodeReturns, Screen!Edit,
     Screen!Delegate, Screen!Undeclare, Screen!Declare
<1>2. ASSUME want' \in ScreenWants, PodsOnward({0}), ClaimsOnward(Names)
      PROVE  ScreenInvariant'
  BY <1>1, <1>2, ScreenOnward, ScreenStays DEF ScreenInvariant
<1> USE ScreenShape
<1>3. /\ UNCHANGED pods => PodsOnward({0})
      /\ UNCHANGED claims => ClaimsOnward(Names)
      /\ UNCHANGED want => want' \in ScreenWants
  BY StayDoes
<1>4. CASE UNCHANGED <<want, pods, claims>>
  BY <1>2, <1>3, <1>4
<1>5. CASE Screen!CollectPod(0)
  <2>1. PodsOnward({0})
    BY <1>5, MarkDoes DEF Screen!CollectPod, Screen!Set
  <2> QED
    BY <1>2, <1>3, <1>5, <2>1 DEF Screen!CollectPod
<1>6. CASE Screen!DisplayMoves
  <2>1. PodsOnward({0})
    BY <1>6, MarkDoes DEF Screen!DisplayMoves, Screen!DeletePod, Screen!Set
  <2>2. want' \in ScreenWants /\ UNCHANGED claims
    BY <1>6 DEF Screen!DisplayMoves, ScreenWants
  <2> QED
    BY <1>2, <1>3, <2>1, <2>2
<1>7. ASSUME NEW k \in Names, Screen!CollectClaim(k) PROVE ScreenInvariant'
  <2>1. claims[k] \in AtMostOne(ClaimStates) /\ \E e \in claims[k] : e.orphan
    BY <1>7 DEF Screen!CollectClaim
  <2>2. \A e \in claims[k] : e.orphan
    BY <2>1 DEF AtMostOne
  <2>3. claims' = [claims EXCEPT ![k] = {[o EXCEPT !["going"] = TRUE] : o \in claims[k]}]
    BY <1>7 DEF Screen!CollectClaim, Screen!Set
  <2>4. ClaimsOnward(Names)
    BY <2>2, <2>3, ClaimMarked
  <2> QED
    BY <1>2, <1>3, <1>7, <2>4 DEF Screen!CollectClaim
<1>8. ASSUME NEW n \in Nodes, Screen!NodeDies(n) PROVE ScreenInvariant'
  <2>1. PICK marked \in BOOLEAN :
            pods' = [c \in {0} |-> {[p EXCEPT !.going = p.going \/ (marked /\ p.node = {n})] : p \in pods[c]}]
    BY <1>8 DEF Screen!NodeDies
  <2>2. Dying({0}, n, marked)
    BY <2>1 DEF Dying
  <2>3. PodsOnward({0})
    BY <2>2, DyingMarks
  <2> QED
    BY <1>2, <1>3, <1>8, <2>3 DEF Screen!NodeDies
<1>9. CASE Screen!Edit
  <2>1. Screen!Cardinality({0}) = 1
    <3>1. Cardinality({0}) = Screen!Cardinality({0})
      BY DEF Cardinality, Screen!Cardinality
    <3> QED
      BY <3>1, FS_Singleton
  <2>2. want' \in ScreenWants /\ UNCHANGED <<pods, claims>>
    BY <1>9, <2>1 DEF Screen!Edit, Screen!objects, ScreenWants
  <2> QED
    BY <1>2, <1>3, <2>2
<1>10. CASE Screen!Delegate \/ Screen!Declare
  <2>1. PICK n \in {0, 1} : n = 1 - want.copies
    <3>1. want.copies \in {0, 1}
      BY DEF ScreenWants
    <3> QED
      BY <3>1
  <2>2. \/ want' = [want EXCEPT !.copies = n]
        \/ want' = [want EXCEPT !.stands = TRUE]
    BY <1>10, <2>1 DEF Screen!Delegate, Screen!Declare
  <2>3. want' \in ScreenWants
    BY <2>2 DEF ScreenWants
  <2>4. UNCHANGED <<pods, claims>>
    BY <1>10 DEF Screen!Delegate, Screen!Declare, Screen!objects
  <2> QED
    BY <1>2, <1>3, <2>3, <2>4
<1>11. CASE Screen!Undeclare
  <2>1. Orphaned({0}, Names)
    BY <1>11 DEF Screen!Undeclare, Orphaned, Names
  <2>2. PodsOnward({0}) /\ ClaimsOnward(Names)
    BY <2>1, OrphaningMarks
  <2>3. want' \in ScreenWants
    BY <1>11 DEF Screen!Undeclare, ScreenWants
  <2> QED
    BY <1>2, <2>2, <2>3
<1> QED
  BY <1>4, <1>5, <1>6, <1>7, <1>8, <1>9, <1>10, <1>11 DEF Screen!Deliver, Screen!MarkVolume, Screen!ReleaseVolume,
     Screen!VolumeEnds, Screen!NodeReturns, Screen!objects

LEMMA StopKeeps ==
  ASSUME ScreenInvariant, Screen!Stop
  PROVE  ScreenInvariant'
<1>1. pass.todo # <<>> /\ Screen!Of = 0 /\ UNCHANGED <<want, claims>> /\ Screen!Done
  BY ScreenTaskIs DEF Screen!Stop, Screen!Is
<1>2. PodsOnward({0})
  BY <1>1, ScreenShape, MarkDoes DEF Screen!Stop, Screen!DeletePod, Screen!Set
<1>3. ScreenWorld' /\ StillGoes
  BY <1>1, <1>2, ScreenShape, StayDoes, ScreenOnward
<1> QED
  BY <1>1, <1>3, ScreenDone DEF ScreenInvariant

\* The claims are others, and the recovery is where it was.
LEMMA ScreenWith ==
  ASSUME want' \in ScreenWants, pods' \in [{0} -> AtMostOne(Pods)],
         claims' \in [Names -> AtMostOne(ClaimStates)],
         \A k \in Names : \A d \in claims'[k] :
             d.going /\ ~d.orphan => \A q \in pods'[0] : q.node = {} \/ q.going
  PROVE  ScreenWorld'
BY DEF ScreenWorld

LEMMA ClaimEndsKeeps ==
  ASSUME ScreenInvariant, NEW k \in Names, Screen!ClaimEnds(k)
  PROVE  ScreenInvariant'
<1>1. UNCHANGED <<want, pods, pass>> /\ claims' = [claims EXCEPT ![k] = {}]
  BY DEF Screen!ClaimEnds
<1>2. ClaimsOnward(Names)
  BY <1>1, ScreenShape DEF ClaimsOnward, AtMostOne
<1>3. ScreenWorld' /\ StillGoes
  BY <1>1, <1>2, ScreenShape, StayDoes, ScreenOnward
<1> QED
  BY <1>1, <1>3, ScreenStays DEF ScreenInvariant

LEMMA BindKeeps ==
  ASSUME ScreenInvariant, NEW k \in Names, Screen!Bind(k)
  PROVE  ScreenInvariant'
<1> DEFINE M(o) == [o EXCEPT !["bound"] = TRUE]
<1>1. UNCHANGED <<want, pods, pass>> /\ claims' = [claims EXCEPT ![k] = {M(o) : o \in claims[k]}]
  BY DEF Screen!Bind, Screen!Set
<1>2. \A e \in ClaimStates : M(e) \in ClaimStates /\ M(e).going = e.going /\ M(e).orphan = e.orphan
  BY DEF ClaimStates
<1> HIDE DEF M
<1>3. PICK e \in ClaimStates : claims[k] = {e}
  <2>1. claims[k] \in AtMostOne(ClaimStates) /\ claims[k] # {}
    BY ScreenShape DEF Screen!Bind
  <2> QED
    BY <2>1 DEF AtMostOne
<1>4. {M(o) : o \in claims[k]} = {M(e)} /\ {M(e)} \in AtMostOne(ClaimStates)
  BY <1>2, <1>3, OneIn
<1>5. /\ claims' \in [Names -> AtMostOne(ClaimStates)]
      /\ \A j \in Names : \A d \in claims'[j] : \E c \in claims[j] : d.going = c.going /\ d.orphan = c.orphan
  <2>1. claims' = [claims EXCEPT ![k] = {M(e)}]
    BY <1>1, <1>4
  <2> QED
    BY <1>2, <1>3, <1>4, <2>1, ScreenShape
<1>6. ScreenWorld'
  BY <1>1, <1>5, ScreenShape, ScreenWith DEF ScreenInvariant, ScreenWorld
<1>7. StillGoes
  BY <1>1 DEF ScreenInvariant, ScreenPass, StillGoes
<1> QED
  BY <1>1, <1>6, <1>7, ScreenStays DEF ScreenInvariant

LEMMA CreateKeeps ==
  ASSUME ScreenInvariant, Screen!CreateClaim
  PROVE  ScreenInvariant'
<1>1. /\ pass.todo # <<>> /\ UNCHANGED <<want, pods>> /\ Screen!Done
      /\ Screen!Of \in Names /\ Screen!Task[1] = "create"
  BY ScreenTaskIs DEF Screen!CreateClaim, Screen!Is
<1>2. PICK k \in Names : k = Screen!Of
  BY <1>1
<1>3. claims' = [claims EXCEPT ![k] = IF claims[k] = {} THEN {Screen!NewClaim} ELSE claims[k]]
  BY <1>2 DEF Screen!CreateClaim
<1>4. Screen!NewClaim \in ClaimStates /\ Screen!NewClaim.going = FALSE
  BY OneIn DEF Screen!NewClaim, ClaimStates, AtMostOne
<1>5. {Screen!NewClaim} \in AtMostOne(ClaimStates)
  BY <1>4, OneIn
<1>6. /\ claims' \in [Names -> AtMostOne(ClaimStates)]
      /\ \A j \in Names : \A d \in claims'[j] : d \in claims[j] \/ ~d.going
  BY <1>3, <1>4, <1>5, ScreenShape
<1>7. ScreenWorld'
  BY <1>1, <1>6, ScreenShape, ScreenWith DEF ScreenInvariant, ScreenWorld
<1> QED
  BY <1>1, <1>7, NoRecovery, ScreenDone DEF ScreenInvariant

\* The pod stands, or a new one has no node yet.
LEMMA StandKeeps ==
  ASSUME ScreenInvariant, Screen!StandPod
  PROVE  ScreenInvariant'
<1>1. /\ pass.todo # <<>> /\ UNCHANGED <<want, claims>> /\ Screen!Done
      /\ Screen!Of = 0 /\ Screen!Task[1] = "pod" /\ pass.tpl \in {"one", "two"}
  BY ScreenTaskIs DEF Screen!StandPod, Screen!Is
<1>2. StillGoes
  BY <1>1, NoRecovery
<1>3. ScreenWorld'
  <2>1. CASE UNCHANGED pods \/ Screen!DeletePod(0)
    <3>1. PodsOnward({0})
      BY <2>1, ScreenShape, StayDoes, MarkDoes DEF Screen!DeletePod, Screen!Set
    <3> QED
      BY <1>1, <3>1, ScreenShape, StayDoes, ScreenOnward
  <2>2. CASE pods' = [pods EXCEPT ![0] = IF pods[0] = {} THEN {Screen!NewPod(pass.tpl)} ELSE pods[0]]
    <3> DEFINE q == Screen!NewPod(pass.tpl)
    <3>1. q \in Pods /\ q.node = {}
      BY <1>1, OneIn DEF Screen!NewPod, Pods, AtMostOne
    <3> HIDE DEF q
    <3>2. {q} \in AtMostOne(Pods)
      BY <3>1, OneIn
    <3>3. pods' \in [{0} -> AtMostOne(Pods)] /\ (pods'[0] = pods[0] \/ pods'[0] = {q})
      BY <2>2, <3>2, ScreenShape DEF q
    <3> QED
      BY <1>1, <3>1, <3>3, ScreenShape, ScreenWith DEF ScreenInvariant, ScreenWorld
  <2> QED
    BY <1>1, <2>1, <2>2 DEF Screen!StandPod
<1> QED
  BY <1>1, <1>2, <1>3, ScreenDone DEF ScreenInvariant

LEMMA EndKeeps ==
  ASSUME ScreenInvariant, Screen!PodEnds(0)
  PROVE  ScreenInvariant'
<1>1. UNCHANGED <<want, claims>> /\ pods' = [pods EXCEPT ![0] = {}]
  BY DEF Screen!PodEnds, Screen!PodGoes
<1>2. pods' \in [{0} -> AtMostOne(Pods)] /\ pods'[0] = {}
  BY <1>1, ScreenShape DEF AtMostOne
<1>3. ScreenWorld'
  BY <1>1, <1>2, ScreenShape, ScreenWith
<1>4. PICK rest : pass' = pass \/ pass' = [pass EXCEPT !.pods = rest]
  BY DEF Screen!PodEnds
<1>5. pass'.todo = pass.todo /\ pass'.tpl = pass.tpl /\ {"todo", "tpl"} \subseteq DOMAIN pass'
  BY <1>4 DEF ScreenInvariant, ScreenPass
<1>6. ScreenPass'
  BY <1>2, <1>5 DEF ScreenInvariant, ScreenPass
<1> QED
  BY <1>3, <1>6 DEF ScreenInvariant

\* A pod that has no node, and is not going: nothing recovers, and where it changes it
\* stays one that every claim may lose.
LEMMA PodWaits ==
  ASSUME ScreenInvariant, Screen!Waits(0)
  PROVE  /\ Entries(pass.todo) \cap Recovers = {}
         /\ \E p \in Pods : pods[0] = {p} /\ p.node = {} /\ ~p.going
<1>1. PICK p \in pods[0] : p.node = {} /\ ~p.going
  BY DEF Screen!Waits
<1>2. pods[0] \in AtMostOne(Pods)
  BY ScreenShape
<1>3. p \in Pods /\ pods[0] = {p}
  BY <1>1, <1>2, OneOf
<1> QED
  BY <1>1, <1>3 DEF ScreenInvariant, ScreenPass

LEMMA RefuseKeeps ==
  ASSUME ScreenInvariant, Screen!Refuse(0)
  PROVE  ScreenInvariant'
<1> DEFINE M(o) == [o EXCEPT !["refused"] = TRUE]
<1>1. /\ UNCHANGED <<want, claims, pass>> /\ Screen!Waits(0)
      /\ pods' = [pods EXCEPT ![0] = {M(o) : o \in pods[0]}]
  BY DEF Screen!Refuse, Screen!Set
<1>2. PICK p \in Pods : pods[0] = {p} /\ p.node = {} /\ ~p.going
  BY <1>1, PodWaits
<1>3. M(p) \in Pods /\ M(p).node = p.node /\ M(p).going = p.going
  BY DEF Pods
<1> HIDE DEF M
<1>4. {M(o) : o \in pods[0]} = {M(p)} /\ {M(p)} \in AtMostOne(Pods)
  BY <1>2, <1>3, OneIn
<1>5. pods' = [pods EXCEPT ![0] = {M(p)}]
  BY <1>1, <1>4
<1>6. pods' \in [{0} -> AtMostOne(Pods)] /\ pods'[0] = {M(p)}
  BY <1>4, <1>5, ScreenShape
<1>7. PodsOnward({0})
  BY <1>2, <1>3, <1>6 DEF PodsOnward
<1>8. ScreenWorld' /\ StillGoes
  BY <1>1, <1>7, ScreenShape, StayDoes, ScreenOnward
<1> QED
  BY <1>1, <1>8, ScreenStays DEF ScreenInvariant

\* Where a pod is placed no claim is going.
LEMMA PlaceKeeps ==
  ASSUME ScreenInvariant, Screen!Schedule(0)
  PROVE  ScreenInvariant'
<1>1. UNCHANGED <<want, pass>> /\ Screen!Waits(0)
  BY DEF Screen!Schedule
<1>2. PICK n \in Nodes :
          /\ Screen!MayRunOn(0, n)
          /\ pods' = Screen!Set(Screen!Set(pods, 0, "node", {n}), 0, "refused", FALSE)
          /\ claims' = IF want.perNode THEN claims
                       ELSE [k \in Names |-> {[claim EXCEPT !.bound = TRUE, !.node = {n}] :
                                              claim \in claims[k]}]
  BY DEF Screen!Schedule, Screen!PerNode, Names
<1>3. PICK p \in Pods : pods[0] = {p} /\ p.node = {} /\ ~p.going
  BY <1>1, PodWaits
<1> DEFINE M(o) == [o EXCEPT !["node"] = {n}]
           N(o) == [o EXCEPT !["refused"] = FALSE]
           once == [pods EXCEPT ![0] = {M(o) : o \in pods[0]}]
<1>4. pods' = [once EXCEPT ![0] = {N(o) : o \in once[0]}]
  BY <1>2 DEF Screen!Set
<1>5. N(M(p)) \in Pods
  <2>1. {n} \in AtMostOne(Nodes)
    BY OneIn
  <2> QED
    BY <2>1 DEF Pods
<1> HIDE DEF M, N
<1>6. once[0] = {M(p)}
  <2>1. {M(o) : o \in pods[0]} = {M(p)}
    BY <1>3
  <2> QED
    BY <2>1, ScreenShape
<1>7. {N(o) : o \in once[0]} = {N(M(p))} /\ {N(M(p))} \in AtMostOne(Pods)
  BY <1>5, <1>6, OneIn
<1>8. pods' \in [{0} -> AtMostOne(Pods)]
  BY <1>4, <1>7, ScreenShape
<1>9. \A k \in Names : \A e \in claims[k] : ~e.going
  <2> SUFFICES ASSUME NEW k \in Names PROVE \A e \in claims[k] : ~e.going
    OBVIOUS
  <2>1. \E e \in claims[k] : ~e.going
    BY <1>2 DEF Screen!MayRunOn, Names
  <2>2. claims[k] \in AtMostOne(ClaimStates)
    BY ScreenShape
  <2> QED
    BY <2>1, <2>2, OneOf
<1>10. claims' \in [Names -> AtMostOne(ClaimStates)] /\ \A k \in Names : \A d \in claims'[k] : ~d.going
  <2> DEFINE B(e) == [e EXCEPT !.bound = TRUE, !.node = {n}]
  <2>1. \A e \in ClaimStates : B(e) \in ClaimStates /\ B(e).going = e.going
    BY OneIn DEF ClaimStates, AtMostOne
  <2>2. CASE want.perNode
    BY <1>2, <1>9, <2>2, ScreenShape
  <2>3. CASE ~want.perNode
    <3>1. claims' = [k \in Names |-> {B(e) : e \in claims[k]}]
      BY <1>2, <2>3
    <3> HIDE DEF B
    <3>2. ASSUME NEW k \in Names
          PROVE  claims'[k] \in AtMostOne(ClaimStates) /\ \A d \in claims'[k] : ~d.going
      <4>1. claims'[k] = {B(e) : e \in claims[k]} /\ claims[k] \in AtMostOne(ClaimStates)
        BY <3>1, ScreenShape
      <4>2. CASE claims[k] = {}
        <5>1. claims'[k] = {}
          BY <4>1, <4>2
        <5> QED
          BY <5>1 DEF AtMostOne
      <4>3. ASSUME NEW e \in ClaimStates, claims[k] = {e}
            PROVE  claims'[k] \in AtMostOne(ClaimStates) /\ \A d \in claims'[k] : ~d.going
        <5>1. claims'[k] = {B(e)} /\ ~e.going
          BY <1>9, <4>1, <4>3
        <5> QED
          BY <2>1, <5>1, OneIn
      <4> QED
        BY <4>1, <4>2, <4>3 DEF AtMostOne
    <3> QED
      BY <3>1, <3>2
  <2> QED
    BY <2>2, <2>3
<1>11. ScreenWorld'
  BY <1>1, <1>8, <1>10, ScreenShape, ScreenWith
<1>12. StillGoes
  BY <1>1, PodWaits DEF StillGoes
<1> QED
  BY <1>1, <1>11, <1>12, ScreenStays DEF ScreenInvariant

\* The list that a pass starts with: a recovery only as its head.
LEMMA ScreenBegins ==
  ASSUME ScreenInvariant, Screen!BeginPass
  PROVE  ScreenInvariant'
<1>1. UNCHANGED <<want, pods, claims>>
  BY DEF Screen!BeginPass, Screen!Begin, Screen!objects
<1> DEFINE plain == {<<"stop", 0>>, <<"claim", "rows">>, <<"claim", "art">>, <<"pod", 0>>, <<"sweep", 0>>}
<1>2. plain \subseteq ScreenTasks /\ plain \cap Recovers = {} /\ <<"recover", 0>> \notin plain
  BY DEF ScreenTasks, Recovers, Names
<1>3. <<"recover", 0>> \in ScreenTasks /\ <<"recover", 0>> \notin Recovers
  BY DEF ScreenTasks, Recovers
<1>4. PICK end, stop, tasks, none, recover :
          /\ end = <<<<"sweep", 0>>>> /\ stop = <<<<"stop", 0>>>>
          /\ tasks = <<<<"claim", "rows">>, <<"claim", "art">>, <<"pod", 0>>>> /\ none = <<>>
          /\ recover = <<"recover", 0>>
  OBVIOUS
<1>5. end \in Seq(plain) /\ stop \in Seq(plain) /\ tasks \in Seq(plain) /\ none \in Seq(plain)
  <2>1. PICK one, two, three, four, five :
            /\ one = <<"stop", 0>> /\ two = <<"claim", "rows">> /\ three = <<"claim", "art">>
            /\ four = <<"pod", 0>> /\ five = <<"sweep", 0>>
    OBVIOUS
  <2>2. plain = {one, two, three, four, five}
    BY <2>1
  <2>3. end = <<five>> /\ stop = <<one>> /\ tasks = <<two, three, four>>
    BY <1>4, <2>1
  <2> HIDE DEF plain
  <2> QED
    BY <1>4, <2>2, <2>3
<1>6. PICK todo, rest :
          /\ pass' = [todo |-> todo \o end, tpl |-> want.tpl, pods |-> seen.pods,
                      claims |-> seen.claims, stranded |-> rest]
          /\ todo \in {none, stop, none \o tasks, <<recover>> \o tasks}
  BY <1>4 DEF Screen!BeginPass, Screen!Begin, Screen!LastTask, Screen!StandTasks, Screen!Template,
     Screen!Rows, Screen!Art
<1>7. pass'.todo = todo \o end /\ pass'.tpl = want.tpl /\ {"todo", "tpl"} \subseteq DOMAIN pass'
  BY <1>6
<1>8. want.tpl \in {"one", "two"}
  BY ScreenShape DEF ScreenWants
<1> HIDE DEF plain
<1>9. /\ todo \o end \in Seq(ScreenTasks) /\ <<"recover", 0>> \notin Rest(todo \o end)
      /\ Entries(todo \o end) \cap Recovers = {}
  <2>1. ASSUME NEW list \in Seq(plain)
        PROVE  list \o end \in Seq(plain) /\ Entries(list \o end) \subseteq plain
               /\ Rest(list \o end) \subseteq plain
    <3>1. list \o end \in Seq(plain)
      BY <1>5, JoinOf
    <3> QED
      BY <3>1, RestIsOf
  <2>2. \A list \in Seq(plain) : list \in Seq(ScreenTasks)
    BY <1>2
  <2>3. CASE todo \in Seq(plain)
    BY <1>2, <2>1, <2>2, <2>3
  <2>4. CASE todo = <<recover>> \o tasks
    <3>1. PICK later : later = tasks \o end
      OBVIOUS
    <3>2. later \in Seq(plain) /\ later \in Seq(ScreenTasks) /\ Entries(later) \subseteq plain
      BY <1>5, <2>1, <2>2, <3>1
    <3>3. todo \o end = <<recover>> \o later
      BY <1>5, <2>4, <3>1
    <3>4. /\ <<recover>> \o later \in Seq(ScreenTasks) /\ Rest(<<recover>> \o later) = Entries(later)
          /\ Entries(<<recover>> \o later) = {recover} \cup Entries(later)
      BY <1>3, <1>4, <3>2, PutBefore
    <3> QED
      BY <1>2, <1>3, <1>4, <3>2, <3>3, <3>4
  <2>5. none \o tasks \in Seq(plain)
    BY <1>5
  <2> QED
    BY <1>5, <1>6, <2>3, <2>4, <2>5
<1>10. ScreenPass'
  BY <1>7, <1>8, <1>9 DEF ScreenPass
<1>11. ScreenWorld'
  BY <1>1, ScreenSame
<1> QED
  BY <1>10, <1>11 DEF ScreenInvariant

LEMMA ScreenStarts ==
  ASSUME Screen!Init
  PROVE  ScreenInvariant
<1>1. /\ want \in [stands : {TRUE}, tpl : {"one"}, copies : {1}, on : {{n} : n \in Nodes},
                   perNode : BOOLEAN]
      /\ pods = [c \in {0} |-> {}] /\ claims = [k \in {"rows", "art"} |-> {}] /\ pass = Screen!Idle
  BY DEF Screen!Init, Screen!Nothing
<1>2. want \in ScreenWants
  BY <1>1 DEF ScreenWants
<1>3. pods \in [{0} -> AtMostOne(Pods)] /\ claims \in [Names -> AtMostOne(ClaimStates)]
      /\ pods[0] = {}
  BY <1>1 DEF AtMostOne, Names
<1>4. ScreenWorld
  BY <1>2, <1>3 DEF ScreenWorld
<1>5. PICK none : none = <<>>
  OBVIOUS
<1>6. none \in Seq(ScreenTasks) /\ Entries(none) = {} /\ Rest(none) = {}
  BY <1>5 DEF Entries, Rest
<1>7. Screen!Idle.todo = none /\ {"todo", "tpl"} \subseteq DOMAIN Screen!Idle
  BY <1>5 DEF Screen!Idle
<1>8. ScreenPass
  BY <1>1, <1>5, <1>6, <1>7 DEF ScreenPass
<1> QED
  BY <1>4, <1>8 DEF ScreenInvariant

LEMMA ScreenStep ==
  ASSUME ScreenInvariant, Screen!Next
  PROVE  ScreenInvariant'
<1>1. CASE Screen!PassSteps
  BY <1>1, ScreenBegins, StopKeeps, ScreenRecovers, ScreenRequests, CreateKeeps, StandKeeps
     DEF Screen!PassSteps, Screen!StandSteps
<1>2. CASE Screen!Controllers
  BY <1>2, PlaceKeeps, EndKeeps, ScreenMarks, ClaimEndsKeeps, BindKeeps DEF Screen!Controllers, Names
<1>3. CASE Screen!Mishaps
  BY <1>3, ScreenMarks, ScreenRequests DEF Screen!Mishaps
<1>4. CASE Screen!Deliver \/ Screen!Refuse(0) \/ Screen!DisplayMoves \/ Screen!Delegate
  BY <1>4, ScreenMarks, RefuseKeeps
<1> QED
  BY <1>1, <1>2, <1>3, <1>4 DEF Screen!Next

LEMMA ScreenStutters ==
  ASSUME ScreenInvariant, UNCHANGED Screen!vars
  PROVE  ScreenInvariant'
<1>1. UNCHANGED <<want, pods, claims, pass>>
  BY DEF Screen!vars
<1> QED
  BY <1>1, ScreenSame, ScreenStays DEF ScreenInvariant

LEMMA ScreenPlays ==
  ASSUME ScreenInvariant
  PROVE  Screen!PlayingScreenIsKept
BY DEF ScreenInvariant, ScreenWorld, Screen!PlayingScreenIsKept, Names

\* What a pass of a store rests on: a heal that has the claim to take (storeheal.go) read
\* no copy that runs, in every state.
THEOREM StoreInductive == WorkloadsAssumption => (Spec => [](OfAStore => StoreInvariant))
<1> SUFFICES ASSUME WorkloadsAssumption PROVE Spec => [](OfAStore => StoreInvariant)
  OBVIOUS
<1> USE DEF WorkloadsAssumption
<1>1. Init => (OfAStore => StoreInvariant)
  BY StoreOnly, StoreStarts
<1>2. (OfAStore => StoreInvariant) /\ [Next]_vars => (OfAStore => StoreInvariant)'
  <2> SUFFICES ASSUME OfAStore => StoreInvariant, [Next]_vars, OfAStore' PROVE StoreInvariant'
    OBVIOUS
  <2>1. OfAStore /\ (Store!Next \/ UNCHANGED Store!vars)
    BY StoreOnly
  <2> QED
    BY <2>1, StoreStep, StoreStutters
<1> QED
  BY <1>1, <1>2, PTL DEF Spec

\* What standPerNodeVolume rests on, where no pass meets the binder half-way: a volume
\* that is deleted as spent has no claim, and a claim is created on one that has no uid,
\* though the claims were read from a store that lags, at the start of the pass.
THEOREM VolumeInductive ==
  WorkloadsAssumption /\ NoRaces => (Spec => [](OfAStore => StoreInvariant /\ UnracedInvariant))
<1> SUFFICES ASSUME WorkloadsAssumption, NoRaces
             PROVE  Spec => [](OfAStore => StoreInvariant /\ UnracedInvariant)
  OBVIOUS
<1> USE DEF WorkloadsAssumption
<1>1. Init => (OfAStore => StoreInvariant /\ UnracedInvariant)
  BY StoreOnly, StoreStarts, UnracedStarts
<1>2. (OfAStore => StoreInvariant /\ UnracedInvariant) /\ [Next]_vars
      => (OfAStore => StoreInvariant /\ UnracedInvariant)'
  <2> SUFFICES ASSUME OfAStore => StoreInvariant /\ UnracedInvariant, [Next]_vars, OfAStore'
               PROVE  (StoreInvariant /\ UnracedInvariant)'
    OBVIOUS
  <2>1. OfAStore /\ (Store!Next \/ UNCHANGED Store!vars)
    BY StoreOnly
  <2> QED
    BY <2>1, StoreStep, StoreStutters, UnracedStep
<1> QED
  BY <1>1, <1>2, PTL DEF Spec

\* What the recovery of a screen rests on: it goes on to the claims (screenclaim.go) only
\* once the pod is going, in every state.
THEOREM ScreenInductive == WorkloadsAssumption => (Spec => [](OfAScreen => ScreenInvariant))
<1>1. Init => (OfAScreen => ScreenInvariant)
  BY ScreenOnly, ScreenStarts
<1>2. (OfAScreen => ScreenInvariant) /\ [Next]_vars => (OfAScreen => ScreenInvariant)'
  <2> SUFFICES ASSUME OfAScreen => ScreenInvariant, [Next]_vars, OfAScreen' PROVE ScreenInvariant'
    OBVIOUS
  <2>1. OfAScreen /\ (Screen!Next \/ UNCHANGED Screen!vars)
    BY ScreenOnly
  <2> QED
    BY <2>1, ScreenStep, ScreenStutters
<1> QED
  BY <1>1, <1>2, PTL DEF Spec

\* InUseIsKept without the volumes: a forced delete takes only the pod of a node that was
\* lost, no claim goes that a copy that runs mounts, and the recovery takes the claims of
\* no screen that plays (storeheal.go, screenclaim.go).
HeldIsKept ==
    [][/\ OfAStore => Store!HealTakesTheStranded /\ Store!MountedClaimIsKept
       /\ OfAScreen => Screen!PlayingScreenIsKept]_vars

\* No pod and no claim that is in use is taken, under any number of nodes, copies, losses,
\* edits, failures and restarts, and wherever a pass meets the binder (storeheal.go).
THEOREM HeldTheorem == WorkloadsAssumption => (Spec => HeldIsKept)
<1> SUFFICES ASSUME WorkloadsAssumption PROVE Spec => HeldIsKept
  OBVIOUS
<1> USE DEF WorkloadsAssumption
<1> DEFINE Kept == /\ OfAStore => Store!HealTakesTheStranded /\ Store!MountedClaimIsKept
                   /\ OfAScreen => Screen!PlayingScreenIsKept
<1>1. /\ OfAStore => StoreInvariant
      /\ OfAScreen => ScreenInvariant
      /\ [Next]_vars
      => [Kept]_vars
  <2> SUFFICES ASSUME OfAStore => StoreInvariant, OfAScreen => ScreenInvariant, Next
               PROVE  Kept
    BY DEF Kept
  <2>1. OfAStore => OfAStore'
    BY DEF Next, OfTitle, OfReport, OfCounts, OfStand, OfTemplate, About, OfAStore
  <2>2. ASSUME OfAStore PROVE Store!HealTakesTheStranded /\ Store!MountedClaimIsKept
    <3>1. Store!Next \/ UNCHANGED Store!vars
      BY <2>1, <2>2, StoreOnly
    <3>2. CASE Store!Next
      BY <2>2, <3>2, HealStep, MountedStays
    <3>3. CASE UNCHANGED Store!vars
      BY <2>2, <3>3, MountedStays DEF Store!vars, Store!HealTakesTheStranded
    <3> QED
      BY <3>1, <3>2, <3>3
  <2> QED
    BY <2>2, ScreenPlays
<1> QED
  BY <1>1, StoreInductive, ScreenInductive, PTL DEF Spec, HeldIsKept

\* And a claim keeps the volume of its name, where no pass meets the binder half-way:
\* InUseIsKept of Stores and Screens.
THEOREM InUseTheorem == WorkloadsAssumption /\ NoRaces => (Spec => InUseIsKept)
<1> SUFFICES ASSUME WorkloadsAssumption, NoRaces PROVE Spec => InUseIsKept
  OBVIOUS
<1>1. (OfAStore => StoreInvariant /\ UnracedInvariant) => (OfAStore => Store!NamedVolumeStays)
  BY VolumeStays
<1> DEFINE Kept == /\ OfAStore => Store!HealTakesTheStranded /\ Store!MountedClaimIsKept
                   /\ OfAScreen => Screen!PlayingScreenIsKept
<1>2. [Kept]_vars /\ (OfAStore => Store!NamedVolumeStays)
      => [/\ focus \in {"store", "roughstore", "spread", "again"} =>
                 /\ Store!HealTakesTheStranded /\ Store!MountedClaimIsKept
                 /\ Store!NamedVolumeStays
          /\ focus \in {"screen", "roughscreen"} =>
                 Screen!PlayingScreenIsKept]_vars
  BY DEF OfAStore, OfAScreen
<1> QED
  BY <1>1, <1>2, VolumeInductive, HeldTheorem, PTL DEF HeldIsKept, InUseIsKept

-----------------------------------------------------------------------------
(* The types of the parts.                                                 *)

\* What the containers, the report and the operator hold of the runs, where several
\* namespaces hold the name as well.
RunsTyped ==
    /\ run \in [Homes -> 0..MaxRun] /\ held \in [Homes -> SUBSET (0..MaxTotal)]
    /\ rows \in [Homes -> Totals] /\ desk \in [Homes -> Totals] /\ last \in [Homes -> Totals]

LEMMA RunsStart ==
  ASSUME Counts!TalliesAssumption, Counts!Init
  PROVE  RunsTyped
<1>1. MaxRun \in Nat /\ MaxTotal \in Nat
  BY DEF Counts!TalliesAssumption
<1>2. Counts!Nothing \in [Homes -> Totals]
  BY <1>1 DEF Counts!Nothing, Totals
<1> QED
  BY <1>1, <1>2 DEF Counts!Init, RunsTyped

LEMMA RunsKeep ==
  ASSUME Counts!TalliesAssumption, RunsTyped, NEW h \in Homes,
         Counts!Starts(h) \/ Counts!Adds(h) \/ Counts!Flushes(h) \/ Counts!Ends(h)
           \/ Counts!Reports(h) \/ Counts!Observes(h)
  PROVE  RunsTyped'
<1>1. /\ MaxRun \in Nat /\ MaxTotal \in Nat
      /\ run[h] \in 0..MaxRun /\ held[h] \in SUBSET (0..MaxTotal) /\ rows[h] \in Totals
  BY DEF Counts!TalliesAssumption, RunsTyped
<1>2. CASE Counts!Starts(h)
  <2>1. PICK swept \in {{}, 1..run[h]} :
            rows' = [rows EXCEPT ![h] = [r \in Counts!Runs |-> IF r \in swept THEN 0 ELSE @[r]]]
    BY <1>2 DEF Counts!Starts
  <2>2. [r \in Counts!Runs |-> IF r \in swept THEN 0 ELSE rows[h][r]] \in Totals
    BY <1>1 DEF Totals
  <2>3. rows' \in [Homes -> Totals]
    BY <2>1, <2>2 DEF RunsTyped
  <2>4. run[h] + 1 \in 0..MaxRun /\ {0} \in SUBSET (0..MaxTotal)
    BY <1>1, <1>2 DEF Counts!Starts
  <2> QED
    BY <1>2, <2>3, <2>4 DEF Counts!Starts, RunsTyped
<1>3. CASE Counts!Adds(h)
  <2>1. PICK total \in held[h] : total < MaxTotal /\ held' = [held EXCEPT ![h] = {total + 1}]
    BY <1>3 DEF Counts!Adds
  <2>2. {total + 1} \in SUBSET (0..MaxTotal)
    BY <1>1, <2>1
  <2> QED
    BY <1>3, <2>1, <2>2 DEF Counts!Adds, RunsTyped
<1>4. ASSUME held[h] # {}, Counts!Flushed(h) PROVE rows' \in [Homes -> Totals]
  <2>1. Counts!Total(h) \in 0..MaxTotal
    BY <1>1, <1>4 DEF Counts!Total
  <2>2. rows' = [rows EXCEPT ![h] = [rows[h] EXCEPT ![run[h]] = Counts!Total(h)]]
    BY <1>4 DEF Counts!Flushed
  <2>3. [rows[h] EXCEPT ![run[h]] = Counts!Total(h)] \in Totals
    BY <1>1, <2>1 DEF Totals
  <2> QED
    BY <2>2, <2>3 DEF RunsTyped
<1>5. CASE Counts!Flushes(h)
  BY <1>4, <1>5 DEF Counts!Flushes, RunsTyped
<1>6. CASE Counts!Ends(h)
  <2>1. rows' \in [Homes -> Totals]
    BY <1>4, <1>6 DEF Counts!Ends, RunsTyped
  <2> QED
    BY <1>6, <2>1 DEF Counts!Ends, RunsTyped
<1>7. CASE Counts!Reports(h)
  <2>1. Counts!Window(rows[h]) \in Totals
    BY <1>1 DEF Counts!Window, Totals
  <2> QED
    BY <1>7, <2>1 DEF Counts!Reports, RunsTyped
<1>8. CASE Counts!Observes(h)
  <2>1. Counts!Nothing \in [Homes -> Totals] /\ desk[h] \in Totals
    BY <1>1 DEF Counts!Nothing, Totals, RunsTyped
  <2> QED
    BY <1>8, <2>1 DEF Counts!Observes, RunsTyped
<1> QED
  BY <1>2, <1>3, <1>5, <1>6, <1>7, <1>8

\* The types of the counts: Tallies!TypeOK.
THEOREM CountsTypes == WorkloadsAssumption => (Spec => [](focus = "counts" => Counts!TypeOK))
<1> SUFFICES ASSUME WorkloadsAssumption PROVE Spec => [](focus = "counts" => Counts!TypeOK)
  OBVIOUS
<1> USE DEF WorkloadsAssumption
<1>1. Init => (focus = "counts" => RunsTyped)
  BY CountsOnly, RunsStart
<1>2. (focus = "counts" => RunsTyped) /\ [Next]_vars => (focus = "counts" => RunsTyped)'
  <2> SUFFICES ASSUME focus = "counts" => RunsTyped, [Next]_vars, focus' = "counts"
               PROVE  RunsTyped'
    OBVIOUS
  <2>1. RunsTyped /\ [Counts!Next]_(Counts!vars)
    BY CountsOnly
  <2>2. CASE Counts!Restart
    <3>1. Counts!Nothing \in [Homes -> Totals]
      BY DEF Counts!Nothing, Totals, Counts!TalliesAssumption
    <3> QED
      BY <2>1, <2>2, <3>1 DEF Counts!Restart, RunsTyped
  <2>3. CASE UNCHANGED Counts!vars
    BY <2>1, <2>3 DEF Counts!vars, RunsTyped
  <2> QED
    BY <2>1, <2>2, <2>3, RunsKeep DEF Counts!Next
<1>3. RunsTyped => Counts!TypeOK
  BY DEF RunsTyped, Totals, Counts!TypeOK
<1> QED
  BY <1>1, <1>2, <1>3, PTL DEF Spec

\* A node that answers is left, whatever dies.
SomeNodes == up \subseteq Nodes /\ up # {}

LEMMA StoreNodes ==
  ASSUME SomeNodes, [Store!Next]_(Store!vars)
  PROVE  SomeNodes'
<1>1. CASE Store!PassSteps \/ Store!HealFails \/ Store!Deliver
  <2>1. UNCHANGED up
    BY <1>1 DEF Store!PassSteps, Store!BeginPass, Store!Begin, Store!HealPod, Store!HealClaim,
         Store!Retire, Store!StandSteps, Store!StandClaim, Store!WriteVolume, Store!GetVolume,
         Store!DeleteSpent, Store!RewriteVolume, Store!CreateClaim, Store!StandPod, Store!Sweep,
         Store!HealFails, Store!Deliver
  <2> QED
    BY <2>1 DEF SomeNodes
<1>2. CASE Store!Controllers
  <2>1. UNCHANGED up
    BY <1>2 DEF Store!Controllers, Store!Schedule, Store!PodEnds, Store!CollectPod,
         Store!ClaimEnds, Store!MarkVolume, Store!Bind, Store!ReleaseVolume, Store!VolumeEnds, Store!CollectClaim
  <2> QED
    BY <2>1 DEF SomeNodes
<1>3. CASE Store!Edit \/ Store!Undeclare \/ Store!Declare \/ Store!Fail \/ Store!Restart
  <2>1. UNCHANGED up
    BY <1>3 DEF Store!Edit, Store!Undeclare, Store!Declare, Store!Fail, Store!Restart
  <2> QED
    BY <2>1 DEF SomeNodes
<1>4. ASSUME NEW n \in Nodes, Store!NodeDies(n) \/ Store!NodeReturns(n) PROVE SomeNodes'
  BY <1>4 DEF Store!NodeDies, Store!NodeReturns, SomeNodes
<1>5. CASE UNCHANGED Store!vars
  BY <1>5 DEF Store!vars, SomeNodes
<1> QED
  BY <1>1, <1>2, <1>3, <1>4, <1>5 DEF Store!Next, Store!Mishaps

LEMMA StoreIsTyped ==
  ASSUME StoreInvariant, SomeNodes
  PROVE  Store!TypeOK
<1>1. \A S : Store!Cardinality(S) = Cardinality(S)
  BY DEF Store!Cardinality, Cardinality
<1>2. /\ want \in [stands : BOOLEAN, tpl : {"one", "two"}, copies : 0..Cardinality(Copies),
                   on : SUBSET Nodes, perNode : BOOLEAN]
      /\ \A c \in Copies : pods[c] \in AtMostOne(Pods)
      /\ claims["rows"] \in AtMostOne(ClaimStates) /\ volumes["rows"] \in AtMostOne(VolumeStates)
      /\ seen.claims \subseteq {"rows"} /\ pass.claims \subseteq {"rows"}
  BY DEF StoreInvariant, StandTyped, PassTyped
<1>3. /\ \A c \in Copies : Cardinality(pods[c]) <= 1
      /\ Cardinality(claims["rows"]) <= 1 /\ Cardinality(volumes["rows"]) <= 1
  BY <1>2, AtMostOneCounts
<1> QED
  BY <1>1, <1>2, <1>3 DEF Store!TypeOK, SomeNodes

\* The types of a store: Stand!TypeOK of Stores.
THEOREM StoreTypes == WorkloadsAssumption => (Spec => [](OfAStore => Store!TypeOK))
<1> SUFFICES ASSUME WorkloadsAssumption PROVE Spec => [](OfAStore => Store!TypeOK)
  OBVIOUS
<1>1. Init => (OfAStore => SomeNodes)
  BY StoreOnly DEF Store!Init, Store!Nothing, SomeNodes, WorkloadsAssumption,
     Store!StoresAssumption, Store!StandAssumption
<1>2. (OfAStore => SomeNodes) /\ [Next]_vars => (OfAStore => SomeNodes)'
  BY StoreOnly, StoreNodes
<1>3. Spec => [](OfAStore => SomeNodes)
  BY <1>1, <1>2, PTL DEF Spec
<1>4. (OfAStore => StoreInvariant) /\ (OfAStore => SomeNodes) => (OfAStore => Store!TypeOK)
  BY StoreIsTyped
<1> QED
  BY <1>3, <1>4, StoreInductive, PTL

\* What a screen has beside what its recovery rests on.
VolumeSets == [Names -> AtMostOne(VolumeStates)]
ScreenTyped ==
    /\ SomeNodes /\ volumes \in VolumeSets
    /\ "claims" \in DOMAIN seen /\ seen.claims \subseteq Names
    /\ "claims" \in DOMAIN pass /\ pass.claims \subseteq Names

\* A field of each of at most one, and a volume or none.
LEMMA SetVolumes ==
  ASSUME NEW all \in VolumeSets, NEW name, NEW field \in {"phase", "of", "going"},
         NEW value, field = "phase" => value \in {"available", "bound", "released"},
         field = "of" => value \in {"none", "claim", "gone"}, field = "going" => value \in BOOLEAN
  PROVE  Screen!Set(all, name, field, value) \in VolumeSets
<1>1. ASSUME name \in Names
      PROVE  {[v EXCEPT ![field] = value] : v \in all[name]} \in AtMostOne(VolumeStates)
  <2>1. all[name] \in AtMostOne(VolumeStates)
    BY <1>1 DEF VolumeSets
  <2>2. \A vs \in AtMostOne(VolumeStates) :
            {[v EXCEPT ![field] = value] : v \in vs} \in AtMostOne(VolumeStates)
    BY FieldOfVolumes
  <2> QED
    BY <2>1, <2>2, Zenon
<1> QED
  BY <1>1 DEF Screen!Set, VolumeSets

LEMMA PutVolumes ==
  ASSUME volumes \in VolumeSets, NEW name
  PROVE  /\ [volumes EXCEPT ![name] = {}] \in VolumeSets
         /\ [volumes EXCEPT ![name] = {Screen!NewVolume}] \in VolumeSets
<1>1. {} \in AtMostOne(VolumeStates) /\ {Screen!NewVolume} \in AtMostOne(VolumeStates)
  BY DEF AtMostOne, Screen!NewVolume, VolumeStates
<1> QED
  BY <1>1 DEF VolumeSets

\* A pass goes on with another list, or is over.
LEMMA PassHolds ==
  ASSUME "claims" \in DOMAIN pass, pass.claims \subseteq Names, NEW todo
  PROVE  /\ "claims" \in DOMAIN Screen!Left(todo) /\ Screen!Left(todo).claims \subseteq Names
         /\ "claims" \in DOMAIN [pass EXCEPT !.todo = todo]
         /\ [pass EXCEPT !.todo = todo].claims \subseteq Names
BY DEF Screen!Left, Screen!Idle

LEMMA ScreenPassTypes ==
  ASSUME ScreenTyped, Screen!PassSteps
  PROVE  ScreenTyped'
<1> USE DEF ScreenTyped
<1>1. CASE Screen!BeginPass
  <2>1. UNCHANGED <<up, volumes, seen>>
    BY <1>1 DEF Screen!BeginPass, Screen!Begin, Screen!objects
  <2>2. \E list : pass' = [todo |-> list, tpl |-> Screen!Template, pods |-> seen.pods,
                          claims |-> seen.claims, stranded |-> Nodes \ up]
    BY <1>1 DEF Screen!BeginPass, Screen!Begin
  <2>3. "claims" \in DOMAIN pass' /\ pass'.claims = seen.claims
    BY <2>2
  <2> QED
    BY <2>1, <2>3 DEF SomeNodes
<1>2. ASSUME UNCHANGED <<up, seen>>, volumes' \in VolumeSets,
             \E todo : pass' = Screen!Left(todo) \/ pass' = [pass EXCEPT !.todo = todo]
      PROVE  ScreenTyped'
  <2>1. "claims" \in DOMAIN pass' /\ pass'.claims \subseteq Names
    BY <1>2, PassHolds
  <2> QED
    BY <1>2, <2>1 DEF SomeNodes
<1>3. \A kind : \E todo : Screen!Then(kind) = [pass EXCEPT !.todo = todo]
  BY DEF Screen!Then
<1>4. Screen!Done \/ Screen!Abandoned => \E todo : pass' = Screen!Left(todo)
  BY DEF Screen!Done, Screen!Abandoned
<1>5. CASE Screen!Stop \/ Screen!RecoverRows \/ Screen!RecoverArt \/ Screen!CreateClaim
           \/ Screen!StandPod
  <2>1. UNCHANGED <<up, seen, volumes>> /\ Screen!Done
    BY <1>5 DEF Screen!Stop, Screen!RecoverRows, Screen!RecoverArt, Screen!CreateClaim,
         Screen!StandPod
  <2> QED
    BY <1>2, <1>4, <2>1
<1>6. CASE Screen!Recover
  <2>1. UNCHANGED <<up, seen, volumes>>
    BY <1>6 DEF Screen!Recover
  <2>2. Screen!Done \/ \E todo : pass' = [pass EXCEPT !.todo = todo]
    BY <1>6 DEF Screen!Recover
  <2> QED
    BY <1>2, <1>4, <2>1, <2>2
<1>7. CASE Screen!StandClaim \/ Screen!GetVolume
  <2>1. UNCHANGED <<up, seen, volumes>>
    BY <1>7 DEF Screen!StandClaim, Screen!GetVolume, Screen!objects
  <2>2. Screen!Done \/ \E kind : pass' = Screen!Then(kind)
    BY <1>7 DEF Screen!StandClaim, Screen!GetVolume
  <2> QED
    BY <1>2, <1>3, <1>4, <2>1, <2>2
<1>8. CASE Screen!WriteVolume \/ Screen!RewriteVolume
  <2>1. UNCHANGED <<up, seen>>
    BY <1>8 DEF Screen!WriteVolume, Screen!RewriteVolume
  <2>2. Screen!Abandoned \/ \E kind : pass' = Screen!Then(kind)
    BY <1>8 DEF Screen!WriteVolume, Screen!RewriteVolume
  <2>3. UNCHANGED volumes \/ volumes' = [volumes EXCEPT ![Screen!Of] = {Screen!NewVolume}]
    BY <1>8 DEF Screen!WriteVolume, Screen!RewriteVolume
  <2> QED
    BY <1>2, <1>3, <1>4, <2>1, <2>2, <2>3, PutVolumes
<1>9. CASE Screen!DeleteSpent
  <2>1. /\ UNCHANGED <<up, seen>> /\ pass' = Screen!Then("rewrite")
        /\ volumes' = Screen!Set(volumes, Screen!Of, "going", TRUE)
    BY <1>9 DEF Screen!DeleteSpent
  <2> QED
    BY <1>2, <1>3, <2>1, SetVolumes
<1>10. CASE Screen!Sweep
  <2>1. /\ UNCHANGED <<up, seen>> /\ Screen!Done
        /\ volumes' = [k \in Names |-> {[v EXCEPT !.going = @ \/ Screen!Taken(k)] : v \in volumes[k]}]
    BY <1>10 DEF Screen!Sweep, Names
  <2>2. ASSUME NEW k \in Names PROVE volumes'[k] \in AtMostOne(VolumeStates)
    <3>1. volumes'[k] = {[v EXCEPT !.going = @ \/ Screen!Taken(k)] : v \in volumes[k]}
      BY <2>1
    <3>2. ASSUME NEW v \in VolumeStates
          PROVE  [v EXCEPT !.going = @ \/ Screen!Taken(k)] \in VolumeStates
      <4>1. (v.going \/ Screen!Taken(k)) \in BOOLEAN
        OBVIOUS
      <4> QED
        BY <4>1 DEF VolumeStates
    <3>3. CASE volumes[k] = {}
      BY <3>1, <3>3 DEF AtMostOne
    <3>4. ASSUME NEW v \in VolumeStates, volumes[k] = {v} PROVE volumes'[k] \in AtMostOne(VolumeStates)
      <4>1. volumes'[k] = {[v EXCEPT !.going = @ \/ Screen!Taken(k)]}
        BY <3>1, <3>4
      <4> QED
        BY <3>2, <4>1 DEF AtMostOne
    <3> QED
      BY <3>3, <3>4 DEF VolumeSets, AtMostOne
  <2>3. volumes' \in VolumeSets
    BY <2>1, <2>2 DEF VolumeSets
  <2> QED
    BY <1>2, <1>4, <2>1, <2>3
<1> QED
  BY <1>1, <1>5, <1>6, <1>7, <1>8, <1>9, <1>10 DEF Screen!PassSteps, Screen!StandSteps

LEMMA ScreenWorldTypes ==
  ASSUME ScreenTyped,
         Screen!Deliver \/ Screen!Controllers \/ Screen!Refuse(0) \/ Screen!Mishaps
           \/ Screen!DisplayMoves \/ Screen!Delegate
  PROVE  ScreenTyped'
<1> USE DEF ScreenTyped
<1>1. CASE Screen!Deliver
  <2>1. UNCHANGED <<up, volumes, pass>>
    BY <1>1 DEF Screen!Deliver, Screen!objects
  <2>2. "claims" \in DOMAIN seen' /\ seen'.claims \subseteq Names
    BY <1>1 DEF Screen!Deliver, Screen!Held, Names
  <2> QED
    BY <2>1, <2>2 DEF SomeNodes
<1>2. ASSUME NEW c, Screen!Schedule(c) \/ Screen!CollectPod(c) \/ Screen!Refuse(c)
      PROVE  ScreenTyped'
  <2>1. UNCHANGED <<up, volumes, seen, pass>>
    BY <1>2 DEF Screen!Schedule, Screen!CollectPod, Screen!Refuse
  <2> QED
    BY <2>1 DEF SomeNodes
<1>3. ASSUME NEW c, Screen!PodEnds(c) PROVE ScreenTyped'
  <2>1. UNCHANGED <<up, volumes>>
    BY <1>3 DEF Screen!PodEnds
  <2>2. "claims" \in DOMAIN seen' /\ seen'.claims = seen.claims
    BY <1>3 DEF Screen!PodEnds, Screen!PodGoes
  <2>3. "claims" \in DOMAIN pass' /\ pass'.claims = pass.claims
    BY <1>3 DEF Screen!PodEnds
  <2> QED
    BY <2>1, <2>2, <2>3 DEF SomeNodes
<1>4. ASSUME NEW k, Screen!ClaimEnds(k) \/ Screen!MarkVolume(k) \/ Screen!Bind(k)
                      \/ Screen!ReleaseVolume(k) \/ Screen!CollectClaim(k)
      PROVE  ScreenTyped'
  <2>1. UNCHANGED <<up, seen, pass>>
    BY <1>4 DEF Screen!ClaimEnds, Screen!MarkVolume, Screen!Bind, Screen!ReleaseVolume,
       Screen!CollectClaim
  <2>2. \/ UNCHANGED volumes
        \/ volumes' = Screen!Set(volumes, k, "of", "gone")
        \/ volumes' = Screen!Set(volumes, k, "of", "claim")
        \/ volumes' = Screen!Set(volumes, k, "phase", "bound")
        \/ volumes' = Screen!Set(volumes, k, "phase", "released")
    BY <1>4 DEF Screen!ClaimEnds, Screen!MarkVolume, Screen!Bind, Screen!ReleaseVolume,
       Screen!CollectClaim
  <2>3. volumes' \in VolumeSets
    BY <2>2, SetVolumes
  <2> QED
    BY <2>1, <2>3 DEF SomeNodes
<1>5. ASSUME NEW k, Screen!VolumeEnds(k) PROVE ScreenTyped'
  <2>1. UNCHANGED <<up, pass>> /\ volumes' \in VolumeSets
    BY <1>5, PutVolumes DEF Screen!VolumeEnds
  <2>2. "claims" \in DOMAIN seen' /\ seen'.claims = seen.claims
    BY <1>5 DEF Screen!VolumeEnds
  <2> QED
    BY <2>1, <2>2 DEF SomeNodes
<1>6. CASE Screen!Controllers
  BY <1>2, <1>3, <1>4, <1>5, <1>6 DEF Screen!Controllers
<1>7. CASE \/ Screen!Edit \/ Screen!Undeclare \/ Screen!Declare
           \/ Screen!DisplayMoves \/ Screen!Delegate
  <2>1. UNCHANGED <<up, volumes, seen, pass>>
    BY <1>7 DEF Screen!Edit, Screen!Undeclare, Screen!Declare, Screen!DisplayMoves,
         Screen!Delegate, Screen!objects
  <2> QED
    BY <2>1 DEF SomeNodes
<1>8. ASSUME NEW n \in Nodes, Screen!NodeDies(n) \/ Screen!NodeReturns(n) PROVE ScreenTyped'
  <2>1. UNCHANGED <<volumes, seen, pass>>
    BY <1>8 DEF Screen!NodeDies, Screen!NodeReturns, Screen!objects
  <2>2. SomeNodes'
    BY <1>8 DEF Screen!NodeDies, Screen!NodeReturns, SomeNodes
  <2> QED
    BY <2>1, <2>2
<1>9. CASE Screen!Fail
  <2>1. UNCHANGED <<up, volumes, seen>> /\ \E todo : pass' = Screen!Left(todo)
    BY <1>9 DEF Screen!Fail, Screen!Abandoned, Screen!objects
  <2>2. "claims" \in DOMAIN pass' /\ pass'.claims \subseteq Names
    BY <2>1, PassHolds
  <2> QED
    BY <2>1, <2>2 DEF SomeNodes
<1>10. CASE Screen!Restart
  <2>1. UNCHANGED <<up, volumes>> /\ pass' = Screen!Idle /\ seen' = Screen!Everything
    BY <1>10 DEF Screen!Restart, Screen!objects
  <2>2. "claims" \in DOMAIN seen' /\ seen'.claims \subseteq Names
    BY <2>1 DEF Screen!Everything, Screen!Held, Names
  <2>3. "claims" \in DOMAIN pass' /\ pass'.claims \subseteq Names
    BY <2>1 DEF Screen!Idle
  <2> QED
    BY <2>1, <2>2, <2>3 DEF SomeNodes
<1> QED
  BY <1>1, <1>2, <1>6, <1>7, <1>8, <1>9, <1>10 DEF Screen!Mishaps

LEMMA ScreenIsTyped ==
  ASSUME ScreenInvariant, ScreenTyped
  PROVE  Screen!TypeOK
<1>1. \A S : Screen!Cardinality(S) = Cardinality(S)
  BY DEF Screen!Cardinality, Cardinality
<1>2. Screen!Cardinality({0}) = 1
  BY <1>1, FS_Singleton
<1>3. want \in [stands : BOOLEAN, tpl : {"one", "two"}, copies : 0..Screen!Cardinality({0}),
                 on : SUBSET Nodes, perNode : BOOLEAN]
  BY <1>2 DEF ScreenInvariant, ScreenWorld, ScreenWants
<1>4. /\ \A c \in {0} : Cardinality(pods[c]) <= 1
      /\ \A k \in Names : Cardinality(claims[k]) <= 1 /\ Cardinality(volumes[k]) <= 1
  <2>1. /\ \A c \in {0} : pods[c] \in AtMostOne(Pods)
        /\ \A k \in Names : claims[k] \in AtMostOne(ClaimStates) /\ volumes[k] \in AtMostOne(VolumeStates)
    BY DEF ScreenInvariant, ScreenWorld, ScreenTyped, VolumeSets
  <2> QED
    BY <2>1, AtMostOneCounts
<1> QED
  BY <1>1, <1>3, <1>4 DEF Screen!TypeOK, ScreenTyped, SomeNodes, Names

\* The types of a screen: Stand!TypeOK of Screens.
THEOREM ScreenTypes == WorkloadsAssumption => (Spec => [](OfAScreen => Screen!TypeOK))
<1> SUFFICES ASSUME WorkloadsAssumption PROVE Spec => [](OfAScreen => Screen!TypeOK)
  OBVIOUS
<1>1. Init => (OfAScreen => ScreenTyped)
  <2> SUFFICES ASSUME Screen!Init PROVE ScreenTyped
    BY ScreenOnly
  <2>1. /\ up = Nodes /\ volumes = [k \in {"rows", "art"} |-> {}] /\ pass = Screen!Idle
        /\ seen = [pods |-> pods, claims |-> {}, volumes |-> volumes]
    BY DEF Screen!Init, Screen!Nothing
  <2>2. volumes \in VolumeSets
    BY <2>1 DEF VolumeSets, AtMostOne, Names
  <2>3. Nodes # {}
    BY DEF WorkloadsAssumption, Screen!StandAssumption
  <2>4. "claims" \in DOMAIN pass /\ pass.claims \subseteq Names
    BY <2>1 DEF Screen!Idle
  <2> QED
    BY <2>1, <2>2, <2>3, <2>4 DEF ScreenTyped, SomeNodes
<1>2. (OfAScreen => ScreenTyped) /\ [Next]_vars => (OfAScreen => ScreenTyped)'
  <2> SUFFICES ASSUME OfAScreen => ScreenTyped, [Next]_vars, OfAScreen' PROVE ScreenTyped'
    OBVIOUS
  <2>1. ScreenTyped /\ [Screen!Next]_(Screen!vars)
    BY ScreenOnly
  <2>2. CASE UNCHANGED Screen!vars
    BY <2>1, <2>2 DEF Screen!vars, ScreenTyped, SomeNodes
  <2> QED
    BY <2>1, <2>2, ScreenPassTypes, ScreenWorldTypes DEF Screen!Next
<1>3. Spec => [](OfAScreen => ScreenTyped)
  BY <1>1, <1>2, PTL DEF Spec
<1>4. (OfAScreen => ScreenInvariant) /\ (OfAScreen => ScreenTyped) => (OfAScreen => Screen!TypeOK)
  BY ScreenIsTyped
<1> QED
  BY <1>3, <1>4, ScreenInductive, PTL

\* The behaviours of a report.
OfAReport == focus \in {"reporter", "hurried"}

LEMMA ReportOnly ==
  /\ Init /\ OfAReport => Reporter!Init
  /\ [Next]_vars /\ OfAReport' => OfAReport /\ [Reporter!Next]_(Reporter!vars)
<1>1. Init /\ OfAReport => Reporter!Init
  BY DEF Init, OfAReport
<1>2. ASSUME [Next]_vars, OfAReport' PROVE OfAReport /\ [Reporter!Next]_(Reporter!vars)
  <2>1. CASE UNCHANGED vars
    <3>1. UNCHANGED <<focus, reportVars, job, run, desk, budget>>
      BY <2>1 DEF vars
    <3> QED
      BY <1>2, <3>1 DEF reportVars, OfAReport, Reporter!vars, Reporter!cluster,
         Reporter!catalog, Reporter!threads, Reporter!bus
  <2>2. CASE Next
    BY <1>2, <2>2 DEF Next, OfTitle, OfReport, OfCounts, OfStand, OfTemplate, About, OfAReport
  <2> QED
    BY <1>2, <2>1, <2>2
<1> QED
  BY <1>1, <1>2

\* A report is what was read of the catalog, wherever it is.
RunRows == [job : 0..MaxJob, state : {"none", "open", "closed", "failed"}]
ReportTyped ==
    /\ job \in 0..MaxJob /\ run \in RunRows /\ count \in Nat
    /\ listed \in {{}, {"runs"}, {"succeeded"}, {"failed"}}
    /\ due \subseteq Reporter!Builders
    /\ report \in [Reporter!Threads -> Reporter!Report]
    /\ published \in AtMostOne(Reporter!Report)
    /\ retained \in AtMostOne(Reporter!Report) /\ desk \in AtMostOne(Reporter!Report)
    /\ phase \in {"Pending", "Scanning", "Failed", "Idle"}

LEMMA ReportIs ==
  ASSUME NEW row \in RunRows, NEW n \in Nat
  PROVE  [run |-> row, count |-> n] \in Reporter!Report
BY DEF RunRows, Reporter!Report

LEMMA NoneIs ==
  ASSUME Reporter!ReportsAssumption
  PROVE  Reporter!None \in Reporter!Report /\ Reporter!None.run \in RunRows
<1>1. [job |-> 0, state |-> "none"] \in RunRows
  BY DEF RunRows, Reporter!ReportsAssumption
<1> QED
  BY <1>1, ReportIs DEF Reporter!None

LEMMA JobTypes ==
  ASSUME Reporter!ReportsAssumption, ReportTyped,
         \/ Reporter!CreateJob \/ Reporter!JobMoves \/ Reporter!CountMoves \/ Reporter!JobDies
  PROVE  ReportTyped'
<1> USE DEF ReportTyped
<1>1. MaxJob \in Nat /\ job \in Nat
  BY DEF Reporter!ReportsAssumption
<1>2. ASSUME UNCHANGED <<run, count, due, report, published, retained, desk, phase>>,
             job' \in 0..MaxJob, listed' \in {{}, {"runs"}, {"succeeded"}, {"failed"}}
      PROVE  ReportTyped'
  BY <1>2
<1>3. CASE Reporter!CreateJob
  BY <1>1, <1>2, <1>3 DEF Reporter!CreateJob, Reporter!catalog, Reporter!threads, Reporter!bus
<1>4. CASE Reporter!JobEnds \/ Reporter!JobGoes \/ Reporter!JobDies
  BY <1>2, <1>4 DEF Reporter!JobEnds, Reporter!JobGoes, Reporter!JobDies, Reporter!catalog,
     Reporter!threads, Reporter!bus
<1>5. ASSUME Reporter!OpenRun \/ Reporter!EndRun PROVE ReportTyped'
  <2>1. UNCHANGED <<job, listed, count, report, published, retained, desk, phase>>
    BY <1>5 DEF Reporter!OpenRun, Reporter!EndRun, Reporter!cluster, Reporter!threads, Reporter!bus
  <2>2. PICK state \in {"open", "closed", "failed"} : Reporter!Row(state)
    BY <1>5 DEF Reporter!OpenRun, Reporter!EndRun
  <2>3. run' \in RunRows /\ due' \subseteq Reporter!Builders
    BY <2>2 DEF Reporter!Row, RunRows
  <2> QED
    BY <2>1, <2>3
<1>6. CASE Reporter!CountMoves
  <2>1. /\ UNCHANGED <<job, listed, run, report, published, retained, desk, phase>>
        /\ count' = count + 1 /\ due' = due \cup {"tables"}
    BY <1>6 DEF Reporter!CountMoves, Reporter!cluster, Reporter!threads, Reporter!bus
  <2> QED
    BY <2>1 DEF Reporter!Builders
<1> QED
  BY <1>3, <1>4, <1>5, <1>6 DEF Reporter!JobMoves

LEMMA ReporterTypes ==
  ASSUME Reporter!ReportsAssumption, ReportTyped, NEW t \in Reporter!Threads,
         \/ Reporter!Reporting(t) \/ Reporter!ReadFails(t, "down") \/ Reporter!ReadFails(t, "slow")
         \/ Reporter!Connects \/ Reporter!Refills \/ Reporter!LinkBreaks
         \/ Reporter!ReporterRestarts
  PROVE  ReportTyped'
<1> USE DEF ReportTyped
<1>1. ASSUME UNCHANGED <<job, listed, run, count, desk, phase>>, due' \subseteq Reporter!Builders,
             report' \in [Reporter!Threads -> Reporter!Report],
             published' \in AtMostOne(Reporter!Report), retained' \in AtMostOne(Reporter!Report)
      PROVE  ReportTyped'
  BY <1>1
<1> USE DEF Reporter!cluster, Reporter!catalog, Reporter!threads, Reporter!bus
<1>2. /\ Reporter!None \in Reporter!Report /\ {"link"} \subseteq Reporter!Threads
      /\ \A r \in Reporter!Report : {r} \in AtMostOne(Reporter!Report)
      /\ {} \in AtMostOne(Reporter!Report)
  BY NoneIs DEF AtMostOne, Reporter!Threads
<1>3. ASSUME NEW s \in Reporter!Threads, Reporter!Rests(s)
      PROVE  report' \in [Reporter!Threads -> Reporter!Report]
  BY <1>2, <1>3 DEF Reporter!Rests
<1>4. CASE Reporter!StartsBuild(t)
  <2>1. [run |-> run, count |-> 0] \in Reporter!Report
    BY ReportIs
  <2>2. report' \in [Reporter!Threads -> Reporter!Report]
    BY <1>4, <2>1 DEF Reporter!StartsBuild
  <2> QED
    BY <1>1, <1>4, <2>2 DEF Reporter!StartsBuild
<1>5. CASE Reporter!ReadsCounts(t)
  <2>1. [report[t] EXCEPT !.count = count] \in Reporter!Report
    BY DEF Reporter!Report
  <2>2. report' = [report EXCEPT ![t] = [report[t] EXCEPT !.count = count]]
    BY <1>5 DEF Reporter!ReadsCounts
  <2> QED
    BY <1>1, <1>5, <2>1, <2>2 DEF Reporter!ReadsCounts
<1>6. CASE Reporter!Publishes(t)
  BY <1>1, <1>2, <1>3, <1>6 DEF Reporter!Publishes
<1>7. CASE Reporter!ReadFails(t, "down") \/ Reporter!ReadFails(t, "slow")
  <2>1. Reporter!Rests(t) /\ UNCHANGED <<job, listed, run, count, published, retained, desk, phase>>
    BY <1>7 DEF Reporter!ReadFails
  <2>2. due' \subseteq Reporter!Builders
    BY <1>7 DEF Reporter!ReadFails, Reporter!Reread
  <2> QED
    BY <1>1, <1>3, <2>1, <2>2
<1>8. CASE Reporter!Connects
  <2>1. published = {} \/ (CHOOSE r \in published : TRUE) \in Reporter!Report
    BY DEF AtMostOne
  <2>2. report' \in [Reporter!Threads -> Reporter!Report]
    BY <1>2, <1>8, <2>1 DEF Reporter!Connects
  <2> QED
    BY <1>1, <1>8, <2>2 DEF Reporter!Connects
<1>9. CASE Reporter!Refills
  BY <1>1, <1>2, <1>3, <1>9 DEF Reporter!Refills
<1>10. CASE Reporter!LinkBreaks
  BY <1>1, <1>2, <1>10 DEF Reporter!LinkBreaks
<1>11. CASE Reporter!ReporterRestarts
  <2>1. report' \in [Reporter!Threads -> Reporter!Report]
    BY <1>2, <1>11 DEF Reporter!ReporterRestarts
  <2> QED
    BY <1>1, <1>2, <1>11, <2>1 DEF Reporter!ReporterRestarts, Reporter!Builders
<1> QED
  BY <1>4, <1>5, <1>6, <1>7, <1>8, <1>9, <1>10, <1>11 DEF Reporter!Reporting

LEMMA DeskTypes ==
  ASSUME ReportTyped, Reporter!Deliver \/ Reporter!OperatorRestarts \/ Reporter!Pass
  PROVE  ReportTyped'
<1> USE DEF ReportTyped, Reporter!cluster, Reporter!catalog, Reporter!threads, Reporter!bus
<1>1. CASE Reporter!Deliver \/ Reporter!OperatorRestarts
  <2>1. UNCHANGED <<job, listed, run, count, due, report, published, retained, phase>>
        /\ desk' \in {{}, retained}
    BY <1>1 DEF Reporter!Deliver, Reporter!OperatorRestarts
  <2>2. desk' \in AtMostOne(Reporter!Report)
    BY <2>1 DEF AtMostOne
  <2> QED
    BY <2>1, <2>2
<1>2. CASE Reporter!Pass
  <2>1. Reporter!PhaseOf(desk) \in {"Pending", "Scanning", "Failed", "Idle"}
    BY DEF Reporter!PhaseOf
  <2>2. UNCHANGED <<job, listed, run, count, due, report, published, retained, desk>>
        /\ phase' = Reporter!PhaseOf(desk)
    BY <1>2 DEF Reporter!Pass
  <2> QED
    BY <2>1, <2>2
<1> QED
  BY <1>1, <1>2

\* The types of a report: Reports!TypeOK.
THEOREM ReportTypes == WorkloadsAssumption => (Spec => [](OfAReport => Reporter!TypeOK))
<1> SUFFICES ASSUME WorkloadsAssumption PROVE Spec => [](OfAReport => Reporter!TypeOK)
  OBVIOUS
<1> USE DEF WorkloadsAssumption
<1>1. Init => (OfAReport => ReportTyped)
  <2> SUFFICES ASSUME Reporter!Init PROVE ReportTyped
    BY ReportOnly
  <2>1. 0 \in 0..MaxJob /\ Reporter!None \in Reporter!Report /\ Reporter!None.run \in RunRows
    BY NoneIs DEF Reporter!ReportsAssumption
  <2> QED
    BY <2>1 DEF Reporter!Init, ReportTyped, AtMostOne, Reporter!Builders
<1>2. (OfAReport => ReportTyped) /\ [Next]_vars => (OfAReport => ReportTyped)'
  <2> SUFFICES ASSUME OfAReport => ReportTyped, [Next]_vars, OfAReport' PROVE ReportTyped'
    OBVIOUS
  <2>1. ReportTyped /\ [Reporter!Next]_(Reporter!vars)
    BY ReportOnly
  <2>2. CASE UNCHANGED Reporter!vars
    BY <2>1, <2>2 DEF Reporter!vars, Reporter!cluster, Reporter!catalog, Reporter!threads,
       Reporter!bus, ReportTyped
  <2>3. Reporter!Builders \subseteq Reporter!Threads /\ "link" \in Reporter!Threads
    BY DEF Reporter!Builders, Reporter!Threads
  <2> QED
    BY <2>1, <2>2, <2>3, JobTypes, ReporterTypes, DeskTypes DEF Reporter!Next
<1>3. ASSUME ReportTyped PROVE Reporter!TypeOK
  <2>1. \A S : Reporter!Cardinality(S) = Cardinality(S)
    BY DEF Reporter!Cardinality, Cardinality
  <2>2. Reporter!True \in Reporter!Report
    BY <1>3, ReportIs DEF Reporter!True, ReportTyped
  <2>3. \A one \in {published, retained, desk} :
            one \subseteq Reporter!Report /\ Reporter!Cardinality(one) <= 1
    BY <1>3, <2>1, AtMostOneCounts DEF ReportTyped
  <2> QED
    BY <1>3, <2>2, <2>3 DEF Reporter!TypeOK, ReportTyped
<1> QED
  BY <1>1, <1>2, <1>3, PTL DEF Spec

\* The template as the API server, the watch and the pass have it.
LEMMA TemplateOnly ==
  /\ Init /\ focus = "template" => Template!Init
  /\ [Next]_vars /\ focus' = "template" => focus = "template" /\ [Template!Next]_(Template!vars)
<1>1. Init /\ focus = "template" => Template!Init
  BY DEF Init
<1>2. ASSUME [Next]_vars, focus' = "template"
      PROVE  focus = "template" /\ [Template!Next]_(Template!vars)
  <2>1. CASE UNCHANGED vars
    BY <1>2, <2>1 DEF vars, watchVars, Template!vars, Template!watched
  <2>2. CASE Next
    BY <1>2, <2>2 DEF Next, OfTitle, OfReport, OfCounts, OfStand, OfTemplate, About
  <2> QED
    BY <1>2, <2>1, <2>2
<1> QED
  BY <1>1, <1>2

Key == Template!Key
Templates == [ver : Nat, uid : Nat, gen : Nat, body : {"one", "two"}]
TemplateChanges == [at : Nat, obj : AtMostOne(Templates)]
Passes == [at : {"idle", "start", "look", "get", "create", "delete"},
           wants : AtMostOne({"one", "two"}), live : Nat]
TemplateTyped ==
    /\ clock \in Nat /\ wake \in BOOLEAN
    /\ obj \in [Keys -> AtMostOne(Templates)] /\ copy \in [Keys -> TemplateChanges]
    /\ queue \in [Keys -> Seq(TemplateChanges)]
    /\ memo \in [Keys -> AtMostOne(Nat)] /\ last \in [Keys -> Nat]
    /\ facts \in AtMostOne({"one", "two"}) /\ seen \in AtMostOne({"one", "two"})
    /\ pass \in Passes

\* No number is ahead of the clock, and the queue ends with the object as it stands.
Numbered ==
    /\ copy[Key].at <= clock /\ last[Key] <= clock
    /\ \A version \in memo[Key] : version <= clock
    /\ \A o \in obj[Key] : o.ver <= clock
    /\ \A i \in 1..Len(queue[Key]) : queue[Key][i].at <= clock
LastStands ==
    /\ queue[Key] = <<>> => copy[Key].obj = obj[Key]
    /\ queue[Key] # <<>> => queue[Key][Len(queue[Key])].obj = obj[Key]
TemplateInvariant == TemplateTyped /\ Numbered /\ LastStands

\* What a change leaves.
LEMMA TemplateChange ==
  ASSUME Keys = {Key}, TemplateInvariant, NEW objs \in AtMostOne(Templates),
         Template!Changes(Key, objs), copy' = copy
  PROVE  /\ clock' = clock + 1 /\ clock \in Nat
         /\ obj' \in [Keys -> AtMostOne(Templates)] /\ \A o \in obj'[Key] : o.ver <= clock'
         /\ queue' \in [Keys -> Seq(TemplateChanges)]
         /\ \A i \in 1..Len(queue'[Key]) : queue'[Key][i].at <= clock'
         /\ LastStands'
<1> DEFINE left == {Template!Version(o) : o \in objs}
           change == [at |-> clock + 1, obj |-> left]
<1>1. /\ obj' = [obj EXCEPT ![Key] = left]
      /\ queue' = [queue EXCEPT ![Key] = Append(@, change)]
      /\ clock' = clock + 1
  BY DEF Template!Changes
<1>2. left \in AtMostOne(Templates) /\ (\A o \in left : o.ver = clock + 1) /\ clock \in Nat
  <2>1. clock \in Nat
    BY DEF TemplateInvariant, TemplateTyped
  <2>2. CASE objs = {}
    BY <2>1, <2>2 DEF AtMostOne
  <2>3. ASSUME NEW o \in Templates, objs = {o}
        PROVE  left \in AtMostOne(Templates) /\ \A x \in left : x.ver = clock + 1
    <3>1. left = {Template!Version(o)}
      BY <2>3
    <3>2. Template!Version(o) \in Templates /\ Template!Version(o).ver = clock + 1
      BY <2>1 DEF Template!Version, Templates
    <3> QED
      BY <3>1, <3>2 DEF AtMostOne
  <2> QED
    BY <2>1, <2>2, <2>3 DEF AtMostOne
<1> HIDE DEF left
<1>3. change \in TemplateChanges /\ change.at = clock + 1 /\ change.obj = left
  BY <1>2 DEF TemplateChanges
<1> HIDE DEF change
<1>4. /\ obj \in [Keys -> AtMostOne(Templates)] /\ queue \in [Keys -> Seq(TemplateChanges)]
      /\ Key \in Keys /\ queue[Key] \in Seq(TemplateChanges) /\ Len(queue[Key]) \in Nat
  BY DEF TemplateInvariant, TemplateTyped
<1>5. obj' \in [Keys -> AtMostOne(Templates)] /\ obj'[Key] = left
  BY <1>1, <1>2, <1>4
<1>6. queue'[Key] = Append(queue[Key], change)
  BY <1>1, <1>4
<1>7. /\ queue'[Key] \in Seq(TemplateChanges) /\ Len(queue'[Key]) = Len(queue[Key]) + 1
      /\ queue'[Key][Len(queue[Key]) + 1] = change
      /\ \A i \in 1..Len(queue[Key]) : queue'[Key][i] = queue[Key][i]
  BY <1>3, <1>4, <1>6
<1>8. queue' \in [Keys -> Seq(TemplateChanges)]
  BY <1>1, <1>4, <1>6, <1>7
<1>9. ASSUME NEW i \in 1..Len(queue'[Key]) PROVE queue'[Key][i].at <= clock'
  <2>1. CASE i \in 1..Len(queue[Key])
    <3>1. queue[Key][i] \in TemplateChanges /\ queue[Key][i].at <= clock
      BY <1>4, <2>1 DEF TemplateInvariant, Numbered
    <3>2. queue[Key][i].at \in Nat
      BY <3>1 DEF TemplateChanges
    <3> QED
      BY <1>1, <1>2, <1>7, <2>1, <3>1, <3>2
  <2>2. CASE i = Len(queue[Key]) + 1
    BY <1>1, <1>2, <1>3, <1>7, <2>2
  <2> QED
    BY <1>4, <1>7, <2>1, <2>2
<1>10. LastStands'
  <2>1. queue'[Key] # <<>> /\ queue'[Key][Len(queue'[Key])].obj = obj'[Key]
    BY <1>3, <1>4, <1>5, <1>7
  <2> QED
    BY <2>1 DEF LastStands
<1>11. \A o \in obj'[Key] : o.ver <= clock'
  BY <1>1, <1>2, <1>5
<1> QED
  BY <1>1, <1>2, <1>5, <1>8, <1>9, <1>10, <1>11

\* A step that writes the object or leaves it, and no copy of it.
LEMMA TemplateMoves ==
  ASSUME Keys = {Key}, TemplateInvariant, copy' = copy, wake' \in BOOLEAN,
         facts' \in AtMostOne({"one", "two"}), seen' \in AtMostOne({"one", "two"}),
         pass' \in Passes,
         \/ UNCHANGED <<obj, queue, clock>>
         \/ \E objs \in AtMostOne(Templates) : Template!Changes(Key, objs),
         memo' \in [Keys -> AtMostOne(Nat)], last' \in [Keys -> Nat],
         last'[Key] <= clock', \A version \in memo'[Key] : version <= clock'
  PROVE  TemplateInvariant'
<1>1. copy[Key].at \in Nat /\ copy[Key].at <= clock /\ clock \in Nat
  BY DEF TemplateInvariant, TemplateTyped, TemplateChanges, Numbered
<1>2. CASE UNCHANGED <<obj, queue, clock>>
  <2>1. TemplateTyped'
    BY <1>2 DEF TemplateInvariant, TemplateTyped
  <2>2. Numbered'
    BY <1>1, <1>2 DEF TemplateInvariant, Numbered
  <2>3. LastStands'
    BY <1>2 DEF TemplateInvariant, LastStands
  <2> QED
    BY <2>1, <2>2, <2>3 DEF TemplateInvariant
<1>3. ASSUME NEW objs \in AtMostOne(Templates), Template!Changes(Key, objs)
      PROVE  TemplateInvariant'
  <2>1. /\ clock' = clock + 1 /\ obj' \in [Keys -> AtMostOne(Templates)]
        /\ queue' \in [Keys -> Seq(TemplateChanges)]
        /\ (\A o \in obj'[Key] : o.ver <= clock') /\ LastStands'
        /\ \A i \in 1..Len(queue'[Key]) : queue'[Key][i].at <= clock'
    BY <1>3, TemplateChange
  <2>2. TemplateTyped'
    BY <1>1, <2>1 DEF TemplateInvariant, TemplateTyped
  <2>3. Numbered'
    BY <1>1, <2>1 DEF Numbered
  <2> QED
    BY <2>1, <2>2, <2>3 DEF TemplateInvariant
<1> QED
  BY <1>2, <1>3

\* The pass goes on, or is over.
LEMMA PassGoes ==
  ASSUME TemplateInvariant
  PROVE  /\ \A next \in {"idle", "create", "get"} : Template!Goes(next) => pass' \in Passes
         /\ Template!Absent => pass' \in Passes
         /\ \A o \in Templates : Template!Found(o) => pass' \in Passes
         /\ [Template!Idle EXCEPT !.at = "start"] \in Passes
<1>1. pass \in Passes /\ {} \in AtMostOne({"one", "two"})
  BY DEF TemplateInvariant, TemplateTyped, AtMostOne
<1>2. Template!Idle \in Passes /\ [Template!Idle EXCEPT !.at = "start"] \in Passes
  BY <1>1 DEF Template!Idle, Passes
<1>3. \A next \in {"idle", "create", "get"} : Template!Goes(next) => pass' \in Passes
  BY <1>1, <1>2 DEF Template!Goes, Passes
<1>4. Template!Absent => pass' \in Passes
  BY <1>3 DEF Template!Absent
<1>5. ASSUME NEW o \in Templates, Template!Found(o) PROVE pass' \in Passes
  <2>1. o.ver \in Nat
    BY DEF Templates
  <2>2. Template!Goes("idle") \/ pass' = [pass EXCEPT !.at = "delete", !.live = o.ver]
    BY <1>5 DEF Template!Found
  <2>3. [pass EXCEPT !.at = "delete", !.live = o.ver] \in Passes
    BY <1>1, <2>1 DEF Passes
  <2> QED
    BY <1>3, <2>2, <2>3
<1> QED
  BY <1>2, <1>3, <1>4, <1>5

\* The version that the memo takes, and the write that the clock numbers.
LEMMA MemoTakes ==
  ASSUME Keys = {Key}, TemplateInvariant
  PROVE  /\ \A version \in Nat : Template!Note(Key, version) =>
                memo' \in [Keys -> AtMostOne(Nat)] /\ memo'[Key] = {version}
         /\ Template!Forget(Key) => memo' \in [Keys -> AtMostOne(Nat)] /\ memo'[Key] = {}
         /\ \A objs : Template!Writes(Key, objs) =>
                /\ last' \in [Keys -> Nat] /\ last'[Key] = clock'
                /\ Template!Changes(Key, objs) /\ clock' = clock + 1
<1>1. memo \in [Keys -> AtMostOne(Nat)] /\ last \in [Keys -> Nat] /\ clock \in Nat /\ Key \in Keys
  BY DEF TemplateInvariant, TemplateTyped
<1>2. \A version \in Nat : {version} \in AtMostOne(Nat) /\ {} \in AtMostOne(Nat)
  BY DEF AtMostOne
<1>3. ASSUME NEW version \in Nat, Template!Note(Key, version)
      PROVE  memo' \in [Keys -> AtMostOne(Nat)] /\ memo'[Key] = {version}
  BY <1>1, <1>2, <1>3 DEF Template!Note
<1>4. ASSUME Template!Forget(Key)
      PROVE  memo' \in [Keys -> AtMostOne(Nat)] /\ memo'[Key] = {}
  BY <1>1, <1>2, <1>4 DEF Template!Forget
<1>5. ASSUME NEW objs, Template!Writes(Key, objs)
      PROVE  /\ last' \in [Keys -> Nat] /\ last'[Key] = clock'
             /\ Template!Changes(Key, objs) /\ clock' = clock + 1
  BY <1>1, <1>5 DEF Template!Writes, Template!Changes
<1> QED
  BY <1>3, <1>4, <1>5

\* What the pass creates, and that nothing is an object too.
LEMMA WritesAre ==
  ASSUME TemplateInvariant
  PROVE  {Template!New(b) : b \in pass.wants} \in AtMostOne(Templates) /\ {} \in AtMostOne(Templates)
<1>1. pass.wants \in AtMostOne({"one", "two"})
  BY DEF TemplateInvariant, TemplateTyped, Passes
<1>2. CASE pass.wants = {}
  BY <1>2 DEF AtMostOne
<1>3. ASSUME NEW b \in {"one", "two"}, pass.wants = {b}
      PROVE  {Template!New(c) : c \in pass.wants} \in AtMostOne(Templates)
  <2>1. {Template!New(c) : c \in pass.wants} = {Template!New(b)}
    BY <1>3
  <2>2. Template!New(b) \in Templates
    BY DEF Template!New, Templates
  <2> QED
    BY <2>1, <2>2 DEF AtMostOne
<1>4. {} \in AtMostOne(Templates)
  BY DEF AtMostOne
<1> QED
  BY <1>1, <1>2, <1>3, <1>4 DEF AtMostOne

\* A request: it lands as one change of the object, or leaves it.
LEMMA RequestKeeps ==
  ASSUME Keys = {Key}, TemplateInvariant, UNCHANGED <<copy, wake, facts, seen>>, pass' \in Passes,
         \/ UNCHANGED <<obj, queue, clock, last>>
         \/ \E objs \in AtMostOne(Templates) : Template!Writes(Key, objs),
         \E version \in {0, clock'} : Template!Note(Key, version)
  PROVE  TemplateInvariant'
<1>1. /\ clock \in Nat /\ last \in [Keys -> Nat] /\ last[Key] <= clock /\ wake' \in BOOLEAN
      /\ facts' \in AtMostOne({"one", "two"}) /\ seen' \in AtMostOne({"one", "two"})
  BY DEF TemplateInvariant, TemplateTyped, Numbered
<1>2. /\ clock' \in Nat /\ last' \in [Keys -> Nat] /\ last'[Key] <= clock'
      /\ \/ UNCHANGED <<obj, queue, clock>>
         \/ \E objs \in AtMostOne(Templates) : Template!Changes(Key, objs)
  BY <1>1, MemoTakes
<1>3. PICK version \in {0, clock'} : Template!Note(Key, version)
  OBVIOUS
<1>4. memo' \in [Keys -> AtMostOne(Nat)] /\ memo'[Key] = {version} /\ version <= clock'
  BY <1>2, <1>3, MemoTakes
<1> QED
  BY <1>1, <1>2, <1>4, TemplateMoves

LEMMA TemplateRequests ==
  ASSUME Keys = {Key}, TemplateInvariant,
         Template!Create \/ Template!Delete \/ Template!RequestFails
  PROVE  TemplateInvariant'
<1>1. clock \in Nat
  BY DEF TemplateInvariant, TemplateTyped
<1>2. CASE Template!Create
  <2>1. UNCHANGED <<copy, wake, facts, seen>> /\ pass' \in Passes
    BY <1>2, PassGoes DEF Template!Create, Template!world, Template!Key, Key
  <2>2. CASE obj[Key] = {}
    <3>1. Template!Writes(Key, {Template!New(b) : b \in pass.wants}) /\ Template!Note(Key, clock + 1)
      BY <1>2, <2>2 DEF Template!Create, Key
    <3>2. clock' = clock + 1
      BY <3>1, MemoTakes
    <3> QED
      BY <2>1, <3>1, <3>2, WritesAre, RequestKeeps
  <2>3. CASE obj[Key] # {}
    BY <1>2, <2>1, <2>3, RequestKeeps DEF Template!Create, Key
  <2> QED
    BY <2>2, <2>3
<1>3. CASE Template!Delete
  <2>1. UNCHANGED <<copy, wake, facts, seen>> /\ pass' \in Passes
    BY <1>3, PassGoes DEF Template!Delete, Template!world
  <2>2. Template!Note(Key, 0)
        /\ (UNCHANGED <<obj, queue, clock, last>> \/ Template!Writes(Key, {}))
    BY <1>3 DEF Template!Delete, Key
  <2> QED
    BY <2>1, <2>2, WritesAre, RequestKeeps
<1>4. CASE Template!RequestFails
  <2>1. UNCHANGED <<copy, wake, facts, seen>> /\ pass' \in Passes
    BY <1>4, PassGoes DEF Template!RequestFails, Template!world
  <2>2. pass.at # "update"
    BY DEF TemplateInvariant, TemplateTyped, Passes
  <2>3. Template!Note(Key, 0)
        /\ \/ UNCHANGED <<obj, queue, clock, last>>
           \/ Template!Writes(Key, {Template!New(b) : b \in pass.wants})
           \/ Template!Writes(Key, {})
    BY <1>4, <2>2 DEF Template!RequestFails, Template!Lands, Key
  <2> QED
    BY <2>1, <2>3, WritesAre, RequestKeeps
<1> QED
  BY <1>2, <1>3, <1>4

LEMMA TemplateReads ==
  ASSUME Keys = {Key}, TemplateInvariant,
         \/ Template!FactsChange \/ Template!DeliverFacts \/ Template!OtherDeletes
         \/ Template!Take \/ Template!TickStarts \/ Template!ReadFacts \/ Template!Look
         \/ Template!Get
  PROVE  TemplateInvariant'
<1>1. /\ clock \in Nat /\ wake \in BOOLEAN /\ pass \in Passes
      /\ memo \in [Keys -> AtMostOne(Nat)] /\ last \in [Keys -> Nat] /\ last[Key] <= clock
      /\ (\A version \in memo[Key] : version <= clock /\ version \in Nat)
      /\ facts \in AtMostOne({"one", "two"}) /\ seen \in AtMostOne({"one", "two"})
      /\ obj[Key] \in AtMostOne(Templates) /\ copy[Key].obj \in AtMostOne(Templates)
  BY DEF TemplateInvariant, TemplateTyped, Numbered, AtMostOne, TemplateChanges
<1>2. \A objs \in AtMostOne(Templates) : objs # {} => Template!The(objs) \in Templates
                                                      /\ Template!The(objs) \in objs
  BY DEF AtMostOne, Template!The
<1>3. ASSUME UNCHANGED <<obj, copy, queue, memo, clock, last>>, wake' \in BOOLEAN,
             facts' \in AtMostOne({"one", "two"}), seen' \in AtMostOne({"one", "two"}),
             pass' \in Passes
      PROVE  TemplateInvariant'
  BY <1>1, <1>3, TemplateMoves
<1>4. CASE Template!FactsChange
  <2>1. facts' \in AtMostOne({"one", "two"})
    BY <1>4 DEF Template!FactsChange, Template!Bodies, AtMostOne
  <2> QED
    BY <1>1, <1>3, <1>4, <2>1 DEF Template!FactsChange
<1>5. CASE Template!DeliverFacts
  BY <1>1, <1>3, <1>5 DEF Template!DeliverFacts
<1>6. CASE Template!OtherDeletes
  <2>1. Template!Changes(Key, {}) /\ {} \in AtMostOne(Templates)
    BY <1>6 DEF Template!OtherDeletes, Key, AtMostOne
  <2>2. UNCHANGED <<copy, memo, last, wake, facts, seen, pass>>
    BY <1>6 DEF Template!OtherDeletes, Template!world
  <2>3. clock' = clock + 1
    BY <2>1 DEF Template!Changes
  <2>4. last'[Key] <= clock' /\ \A version \in memo'[Key] : version <= clock'
    BY <1>1, <2>2, <2>3
  <2>5. /\ wake' \in BOOLEAN /\ pass' \in Passes
        /\ facts' \in AtMostOne({"one", "two"}) /\ seen' \in AtMostOne({"one", "two"})
        /\ memo' \in [Keys -> AtMostOne(Nat)] /\ last' \in [Keys -> Nat]
    BY <1>1, <2>2
  <2>6. \E objs \in AtMostOne(Templates) : Template!Changes(Key, objs)
    BY <2>1
  <2> QED
    BY <2>2, <2>4, <2>5, <2>6, TemplateMoves
<1>7. CASE Template!Take \/ Template!TickStarts
  <2>1. pass' \in Passes
    BY <1>7, PassGoes DEF Template!Take, Template!TickStarts
  <2>2. UNCHANGED <<obj, copy, queue, memo, clock, last, facts, seen>> /\ wake' \in {wake, FALSE}
    BY <1>7 DEF Template!Take, Template!TickStarts, Template!world, Template!watched
  <2> QED
    BY <1>1, <1>3, <2>1, <2>2
<1>8. CASE Template!ReadFacts
  <2>1. [pass EXCEPT !.at = "look", !.wants = seen] \in Passes
    BY <1>1 DEF Passes
  <2> QED
    BY <1>1, <1>3, <1>8, <2>1 DEF Template!ReadFacts, Template!world, Template!watched
<1>9. CASE Template!Look
  <2>1. pass' \in Passes
    <3>1. \/ Template!Absent \/ Template!Goes("get")
          \/ copy[Key].obj # {} /\ Template!Found(Template!The(copy[Key].obj))
      BY <1>9 DEF Template!Look, Template!Current, Key
    <3> QED
      BY <1>1, <1>2, <3>1, PassGoes
  <2> QED
    BY <1>1, <1>3, <1>9, <2>1 DEF Template!Look, Template!world, Template!watched
<1>10. CASE Template!Get
  <2>1. UNCHANGED <<obj, copy, queue, clock, last, wake, facts, seen>>
    BY <1>10 DEF Template!Get, Template!world
  <2>2. CASE obj[Key] = {}
    <3>1. Template!Forget(Key) /\ pass' \in Passes
      BY <1>10, <2>2, PassGoes DEF Template!Get, Key
    <3>2. memo' \in [Keys -> AtMostOne(Nat)] /\ memo'[Key] = {}
      BY <3>1, MemoTakes
    <3> QED
      BY <1>1, <2>1, <3>1, <3>2, TemplateMoves
  <2>3. CASE obj[Key] # {}
    <3>1. Template!The(obj[Key]) \in Templates /\ Template!The(obj[Key]) \in obj[Key]
      BY <1>1, <1>2, <2>3
    <3>2. PICK version \in Nat : version = Template!The(obj[Key]).ver /\ version <= clock
      BY <3>1 DEF Templates, TemplateInvariant, Numbered
    <3>3. Template!Note(Key, version) /\ Template!Found(Template!The(obj[Key]))
      BY <1>10, <2>3, <3>2 DEF Template!Get, Key
    <3>4. memo' \in [Keys -> AtMostOne(Nat)] /\ memo'[Key] = {version} /\ pass' \in Passes
      BY <3>1, <3>3, MemoTakes, PassGoes
    <3> QED
      BY <1>1, <2>1, <3>2, <3>4, TemplateMoves
  <2> QED
    BY <2>2, <2>3
<1> QED
  BY <1>4, <1>5, <1>6, <1>7, <1>8, <1>9, <1>10

\* The watch delivers the first change of the queue, and the last one stays the object.
LEMMA TemplateDelivers ==
  ASSUME Keys = {Key}, TemplateInvariant, Template!DeliverObject
  PROVE  TemplateInvariant'
<1> DEFINE q == queue[Key]
<1>1. /\ q # <<>> /\ copy' = [copy EXCEPT ![Key] = Head(queue[Key])]
      /\ queue' = [queue EXCEPT ![Key] = Tail(@)]
      /\ UNCHANGED <<obj, memo, clock, last, facts, seen, pass>>
  BY DEF Template!DeliverObject, Template!Deliver, Template!world, Key
<1>2. wake' \in BOOLEAN
  <2>1. wake' = (wake \/ Template!Wakes(Key, copy[Key].obj, Head(queue[Key]).obj))
    BY DEF Template!DeliverObject, Template!Deliver, Key
  <2> QED
    BY <2>1 DEF Template!Wakes
<1>3. /\ Key \in Keys /\ q \in Seq(TemplateChanges) /\ copy \in [Keys -> TemplateChanges]
      /\ queue \in [Keys -> Seq(TemplateChanges)]
      /\ \A i \in 1..Len(q) : q[i].at <= clock
      /\ q[Len(q)].obj = obj[Key]
  BY <1>1 DEF TemplateInvariant, TemplateTyped, Numbered, LastStands
<1>4. /\ Len(q) \in Nat \ {0} /\ queue'[Key] = Tail(q) /\ copy'[Key] = q[1]
      /\ q[1] \in TemplateChanges /\ Tail(q) \in Seq(TemplateChanges)
      /\ Len(Tail(q)) = Len(q) - 1 /\ \A i \in 1..Len(q) - 1 : Tail(q)[i] = q[i + 1]
  BY <1>1, <1>3
<1>5. copy' \in [Keys -> TemplateChanges] /\ queue' \in [Keys -> Seq(TemplateChanges)]
  BY <1>1, <1>3, <1>4
<1>6. copy'[Key].at <= clock /\ \A i \in 1..Len(queue'[Key]) : queue'[Key][i].at <= clock
  <2>1. 1 \in 1..Len(q) /\ \A i \in 1..Len(q) - 1 : i + 1 \in 1..Len(q)
    BY <1>4
  <2> HIDE DEF q
  <2>2. copy'[Key].at <= clock
    BY <1>3, <1>4, <2>1
  <2>3. ASSUME NEW i \in 1..Len(queue'[Key]) PROVE queue'[Key][i].at <= clock
    <3>1. i \in 1..Len(q) - 1
      BY <1>4
    <3> QED
      BY <1>3, <1>4, <2>1, <3>1
  <2> QED
    BY <2>2, <2>3
<1>7. LastStands'
  <2> HIDE DEF q
  <2>1. CASE Len(q) = 1
    <3>1. Tail(q) = <<>>
      BY <1>4, <2>1
    <3> QED
      BY <1>1, <1>3, <1>4, <2>1, <3>1 DEF LastStands
  <2>2. CASE Len(q) # 1
    <3>1. Len(q) - 1 \in 1..Len(q) - 1 /\ (Len(q) - 1) + 1 = Len(q)
      BY <1>4, <2>2
    <3>2. Tail(q)[Len(Tail(q))] = q[Len(q)] /\ Tail(q) # <<>>
      <4> DEFINE n == Len(q) - 1
      <4>1. n \in 1..n /\ n + 1 = Len(q) /\ Len(Tail(q)) = n /\ n # 0
        BY <1>4, <2>2, <3>1
      <4>2. \A i \in 1..n : Tail(q)[i] = q[i + 1]
        BY <1>4
      <4> HIDE DEF n
      <4>3. Tail(q)[n] = q[n + 1]
        BY <4>1, <4>2
      <4>4. Tail(q) # <<>>
        BY <4>1
      <4> QED
        BY <4>1, <4>3, <4>4
    <3> QED
      BY <1>1, <1>3, <1>4, <3>2 DEF LastStands
  <2> QED
    BY <2>1, <2>2
<1>8. TemplateTyped'
  BY <1>1, <1>2, <1>5 DEF TemplateInvariant, TemplateTyped
<1>9. Numbered'
  BY <1>1, <1>6 DEF TemplateInvariant, Numbered
<1> QED
  BY <1>7, <1>8, <1>9 DEF TemplateInvariant

\* A new process lists what stands.
LEMMA TemplateRestarts ==
  ASSUME Keys = {Key}, TemplateInvariant, Template!Restart
  PROVE  TemplateInvariant'
<1>1. /\ copy' = [k \in Keys |-> [at |-> clock, obj |-> obj[k]]]
      /\ queue' = [k \in Keys |-> <<>>] /\ memo' = [k \in Keys |-> {}]
      /\ seen' = facts /\ wake' = FALSE /\ UNCHANGED <<obj, clock, last, facts>>
      /\ pass' \in Passes
  BY PassGoes DEF Template!Restart, Template!Settled
<1>2. PICK none : none = <<>>
  OBVIOUS
<1>3. /\ none \in Seq(TemplateChanges) /\ Len(none) = 0 /\ {} \in AtMostOne(Nat)
      /\ clock \in Nat /\ \A k \in Keys : obj[k] \in AtMostOne(Templates)
  BY <1>2 DEF AtMostOne, TemplateInvariant, TemplateTyped
<1>4. copy' \in [Keys -> TemplateChanges]
  BY <1>1, <1>3 DEF TemplateChanges
<1>5. TemplateTyped'
  BY <1>1, <1>2, <1>3, <1>4 DEF TemplateInvariant, TemplateTyped
<1>6. copy'[Key] = [at |-> clock, obj |-> obj[Key]] /\ queue'[Key] = none /\ memo'[Key] = {}
  BY <1>1, <1>2
<1>7. Numbered'
  BY <1>1, <1>3, <1>6 DEF TemplateInvariant, Numbered
<1>8. LastStands'
  BY <1>1, <1>2, <1>6 DEF LastStands
<1> QED
  BY <1>5, <1>7, <1>8 DEF TemplateInvariant

LEMMA TemplateStarts ==
  ASSUME Keys = {Key}, Template!Init
  PROVE  TemplateInvariant
<1>1. /\ obj = [k \in Keys |-> {}] /\ copy = [k \in Keys |-> [at |-> 1, obj |-> {}]]
      /\ queue = [k \in Keys |-> <<>>] /\ memo = [k \in Keys |-> {}] /\ clock = 1
      /\ last = [k \in Keys |-> 0] /\ wake = FALSE /\ facts = {"one"} /\ seen = {"one"}
      /\ pass = [Template!Idle EXCEPT !.at = "start"]
  BY DEF Template!Init, Template!Empty
<1>2. PICK none : none = <<>>
  OBVIOUS
<1>3. none \in Seq(TemplateChanges) /\ Len(none) = 0
  BY <1>2
<1>4. /\ {} \in AtMostOne(Nat) /\ {} \in AtMostOne(Templates) /\ {"one"} \in AtMostOne({"one", "two"})
      /\ {} \in AtMostOne({"one", "two"}) /\ [at |-> 1, obj |-> {}] \in TemplateChanges
  BY DEF AtMostOne, TemplateChanges
<1>5. pass \in Passes
  BY <1>1, <1>4 DEF Template!Idle, Passes
<1>6. TemplateTyped
  BY <1>1, <1>2, <1>3, <1>4, <1>5 DEF TemplateTyped
<1>7. /\ copy[Key] = [at |-> 1, obj |-> {}] /\ queue[Key] = none /\ memo[Key] = {}
      /\ last[Key] = 0 /\ obj[Key] = {}
  BY <1>1, <1>2
<1>8. Numbered /\ LastStands
  BY <1>1, <1>2, <1>3, <1>7 DEF Numbered, LastStands
<1> QED
  BY <1>6, <1>8 DEF TemplateInvariant

LEMMA TemplateStep ==
  ASSUME Keys = {Key}, TemplateInvariant, [Template!Next]_(Template!vars)
  PROVE  TemplateInvariant'
<1>1. CASE UNCHANGED Template!vars
  <2>1. UNCHANGED <<obj, copy, queue, memo, clock, last, wake, facts, seen, pass>>
    BY <1>1 DEF Template!vars, Template!watched
  <2> QED
    BY <2>1 DEF TemplateInvariant, TemplateTyped, Numbered, LastStands
<1>2. ~Template!OtherEdits /\ ~Template!Update
  BY DEF Template!OtherEdits, Template!Update, TemplateInvariant, TemplateTyped, Passes
<1> QED
  BY <1>1, <1>2, TemplateReads, TemplateRequests, TemplateDelivers, TemplateRestarts
     DEF Template!Next, Template!PassSteps

LEMMA TemplateIsTyped ==
  ASSUME Keys = {Key}, TemplateInvariant
  PROVE  Template!TypeOK
<1>1. \A S : Template!Cardinality(S) = Cardinality(S)
  BY DEF Template!Cardinality, Cardinality
<1>2. /\ obj[Key] \in AtMostOne(Templates) /\ memo[Key] \in AtMostOne(Nat)
      /\ facts \in AtMostOne({"one", "two"}) /\ seen \in AtMostOne({"one", "two"})
      /\ clock \in Nat /\ wake \in BOOLEAN /\ pass \in Passes
      /\ DOMAIN obj = Keys /\ DOMAIN copy = Keys
  BY DEF TemplateInvariant, TemplateTyped
<1>3. Cardinality(obj[Key]) <= 1 /\ Cardinality(memo[Key]) <= 1
  BY <1>2, AtMostOneCounts
<1>4. memo[Key] \subseteq 0..clock
  BY <1>2, AtMostOneCounts DEF TemplateInvariant, Numbered
<1>5. Template!WatchedTypeOK
  BY <1>1, <1>2, <1>3, <1>4 DEF Template!WatchedTypeOK, TemplateInvariant, Numbered
<1>6. Template!CopyCatchesUp
  BY DEF Template!CopyCatchesUp, TemplateInvariant, LastStands
<1>7. facts \subseteq Template!Bodies /\ seen \subseteq Template!Bodies
  BY <1>2, AtMostOneCounts DEF Template!Bodies
<1> QED
  BY <1>2, <1>5, <1>6, <1>7 DEF Template!TypeOK, Passes

\* The types of the template, and that the watch's copy of it catches up once every
\* change is delivered: Stood!TypeOK.
THEOREM TemplateTypes ==
    WorkloadsAssumption => (Spec => [](focus = "template" => Template!TypeOK))
<1> SUFFICES ASSUME WorkloadsAssumption
             PROVE  Spec => [](focus = "template" => Template!TypeOK)
  OBVIOUS
<1>1. Keys = {Key}
  BY DEF WorkloadsAssumption, Template!StoodAssumption, Key
<1>2. Init => (focus = "template" => TemplateInvariant)
  BY <1>1, TemplateOnly, TemplateStarts
<1>3. (focus = "template" => TemplateInvariant) /\ [Next]_vars
      => (focus = "template" => TemplateInvariant)'
  BY <1>1, TemplateOnly, TemplateStep
<1>4. TemplateInvariant => Template!TypeOK
  BY <1>1, TemplateIsTyped
<1> QED
  BY <1>2, <1>3, <1>4, PTL DEF Spec

-----------------------------------------------------------------------------
\* Every part keeps its types, for every value of the constants: TypeOK of Workloads.
THEOREM TypeCorrect == WorkloadsAssumption => (Spec => []TypeOK)
<1> SUFFICES ASSUME WorkloadsAssumption PROVE Spec => []TypeOK
  OBVIOUS
<1>1. /\ focus = "title" => Title!TypeOK
      /\ OfAReport => Reporter!TypeOK
      /\ focus = "counts" => Counts!TypeOK
      /\ OfAStore => Store!TypeOK
      /\ OfAScreen => Screen!TypeOK
      /\ focus = "template" => Template!TypeOK
      => TypeOK
  BY DEF OfAReport, OfAStore, OfAScreen, TypeOK
<1> QED
  BY <1>1, TitleTypes, ReportTypes, CountsTypes, StoreTypes, ScreenTypes, TemplateTypes, PTL
=============================================================================
