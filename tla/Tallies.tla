------------------------------ MODULE Tallies ------------------------------
(***************************************************************************)
(* The counts of the Job containers on their way to Prometheus: the totals *)
(* that a container flushes into its rows (tally.go), the newest runs that *)
(* the reporter publishes (tallyreport.go), and the counters that the      *)
(* operator raises by what it did not read before (metricstallies.go).     *)
(*                                                                         *)
(* Homes are the namespaces that hold a Library of one name.  A run is a   *)
(* worker, a Job and a second, and no two runs share one.                  *)
(***************************************************************************)
EXTENDS Naturals, FiniteSets

CONSTANTS
    Homes,     \* the namespaces
    MaxRun,    \* bound: the runs of each
    MaxTotal,  \* bound: the total of a run
    Newest,    \* talliesPerWorker
    Faults     \* bounds: how often each kind of mishap may happen

TalliesAssumption ==
    /\ {MaxRun, MaxTotal, Newest} \subseteq Nat
    /\ \A bound \in Faults : \A kind \in DOMAIN bound : bound[kind] \in Nat

Runs == 1..MaxRun

VARIABLES
    run,      \* the newest run of each, 0 before the first
    held,     \* the totals of its container: {} once it has exited
    rows,     \* the tallies table; 0 is no row
    desk,     \* the rows of the report on the desk
    last,     \* metrics.lastTally: the rows the operator read, by run; 0 is none
    most,     \* history: the total that each run flushed last
    counter,  \* history: what this process added for each run
    budget

vars == <<run, held, rows, desk, last, most, counter, budget>>

Nothing == [h \in Homes |-> [r \in Runs |-> 0]]
Init ==
    /\ run = [h \in Homes |-> 0] /\ held = [h \in Homes |-> {}]
    /\ rows = Nothing /\ desk = Nothing /\ last = Nothing /\ most = Nothing /\ counter = Nothing
    /\ budget \in Faults

Spend(kind) == budget[kind] > 0 /\ budget' = [budget EXCEPT ![kind] = @ - 1]

-----------------------------------------------------------------------------
(* The containers.                                                         *)

\* sweepOldTallies, with the mark that a run started: the rows of the runs before
\* it may be past their retention.
Starts(h) ==
    /\ held[h] = {} /\ run[h] < MaxRun
    /\ run' = [run EXCEPT ![h] = @ + 1]
    /\ held' = [held EXCEPT ![h] = {0}]
    /\ \E swept \in {{}, 1..run[h]} :
           rows' = [rows EXCEPT ![h] = [r \in Runs |-> IF r \in swept THEN 0 ELSE @[r]]]
    /\ UNCHANGED <<desk, last, most, counter, budget>>

Adds(h) ==
    /\ \E total \in held[h] : total < MaxTotal /\ held' = [held EXCEPT ![h] = {total + 1}]
    /\ UNCHANGED <<run, rows, desk, last, most, counter, budget>>

\* A flush writes the whole total, on the interval and once at the end.  One that
\* fails leaves it to the next.
Total(h) == CHOOSE total \in held[h] : TRUE
Flushed(h) ==
    /\ rows' = [rows EXCEPT ![h][run[h]] = Total(h)]
    /\ most' = [most EXCEPT ![h][run[h]] = Total(h)]
Flushes(h) ==
    /\ held[h] # {}
    /\ Flushed(h)
    /\ UNCHANGED <<run, held, desk, last, counter, budget>>
Ends(h) ==
    /\ held[h] # {}
    /\ held' = [held EXCEPT ![h] = {}]
    /\ \/ Flushed(h) /\ UNCHANGED budget
       \/ Spend("flushes") /\ UNCHANGED <<rows, most>>
    /\ UNCHANGED <<run, desk, last, counter>>

-----------------------------------------------------------------------------
(* The report: the runs that left rows, newest first, and no more than     *)
(* Newest of them.                                                         *)

Left(table) == {r \in Runs : table[r] > 0}
OldestFirst(table) ==        \* mutant: the window ranks the oldest run first
    [r \in Runs |-> IF Cardinality({o \in Left(table) : o < r}) < Newest THEN table[r] ELSE 0]
Window(table) == [r \in Runs |-> IF Cardinality({o \in Left(table) : o > r}) < Newest THEN table[r] ELSE 0]
Reports(h) ==
    /\ desk[h] # Window(rows[h])
    /\ desk' = [desk EXCEPT ![h] = Window(rows[h])]
    /\ UNCHANGED <<run, held, rows, last, most, counter, budget>>

-----------------------------------------------------------------------------
(* observeTallies, on the pass that reconciles the Library of h.  A row is *)
(* known by the Library's name and its run, and every run of that name     *)
(* that this report does not hold is forgotten.                            *)

AddedWhole(new, old) ==      \* mutant: a row that grew adds its whole value
    IF new > old THEN new ELSE 0
Added(new, old) == IF new > old THEN new - old ELSE 0

Observes(h) ==
    /\ counter' = [counter EXCEPT ![h] = [r \in Runs |-> @[r] + Added(desk[h][r], last[h][r])]]
    /\ last' = [Nothing EXCEPT ![h] = desk[h]]
    /\ UNCHANGED <<run, held, rows, desk, most, budget>>

\* An operator that starts again counts from zero, and Prometheus reads a reset.
Restart ==
    /\ Spend("restarts")
    /\ last' = Nothing /\ counter' = Nothing
    /\ UNCHANGED <<run, held, rows, desk, most>>

-----------------------------------------------------------------------------
Next ==
    \/ \E h \in Homes : Starts(h) \/ Adds(h) \/ Flushes(h) \/ Ends(h) \/ Reports(h) \/ Observes(h)
    \/ Restart

Fairness == \A h \in Homes : WF_vars(Reports(h)) /\ WF_vars(Observes(h))
Spec == Init /\ [][Next]_vars /\ Fairness

-----------------------------------------------------------------------------
\* Types.
TypeOK ==
    /\ \A h \in Homes : run[h] \in 0..MaxRun /\ held[h] \subseteq 0..MaxTotal
    /\ {rows, desk, last} \subseteq [Homes -> [Runs -> 0..MaxTotal]]

\* metricstallies.go: a row that is read twice adds nothing, so no run is counted
\* beyond the total that its container flushed.
CountedOnce == \A h \in Homes, r \in Runs : counter[h][r] <= most[h][r]

\* The counts of the newest run reach the counter, whatever an earlier run of the
\* worker reached.
Behind(h) == \E r \in Runs : r = run[h] /\ counter[h][r] < rows[h][r]
CountsArrive == \A h \in Homes : Behind(h) ~> ~Behind(h)
=============================================================================
