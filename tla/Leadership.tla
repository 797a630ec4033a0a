----------------------------- MODULE Leadership -----------------------------
(***************************************************************************)
(* The copies of the operator and the Lease they compete for (leader.go),  *)
(* with the part of operator.run (operatorprocess.go) that starts when the *)
(* Lease is held and stops before it is released.  The election itself is  *)
(* client-go's.  A process is a candidate once: a container that starts    *)
(* again has a new identity.                                               *)
(*                                                                         *)
(* A tick is one retry period.  No time is absolute: age counts from the   *)
(* last renewal that was answered, seen from the last change of the Lease  *)
(* that the copy read.  An update carries the resourceVersion it read, so  *)
(* of a version the model holds only whether it is still the Lease's.      *)
(***************************************************************************)
EXTENDS Naturals, FiniteSets

CONSTANTS
    Procs,          \* the processes, one after the other or side by side
    Duration,       \* leaseTiming.duration, in retry periods
    RenewDeadline,  \* leaseTiming.renewDeadline, in retry periods
    Tries,          \* the tries of clearIfHeld
    Faults          \* bounds: crashes, refused requests, renewals and releases answered late

LeadershipAssumption ==
    /\ {Duration, RenewDeadline, Tries} \subseteq Nat \ {0}
    /\ Faults \subseteq [{"crash", "refused", "late", "lateRelease"} -> Nat]

VARIABLES
    holder,   \* the identity the Lease names: a set of at most one process
    proc,     \* each process: what it does, its clocks, its read of the Lease
    flight,   \* a renewal that was sent and did not land: "none", or its version
    budget

vars == <<holder, proc, flight, budget>>

\* client-go gives up when a renewal deadline passed after the retry period
\* that follows the last renewal, and its release is bounded by one more.
GiveUpAt == 1 + RenewDeadline
ExitBy == GiveUpAt + RenewDeadline

Unborn == [at |-> "unborn", age |-> 0, seen |-> 0, read |-> "none",
           tries |-> Tries, clean |-> FALSE]

Init ==
    /\ holder = {}
    /\ proc = [p \in Procs |-> Unborn]
    /\ flight = [p \in Procs |-> "none"]
    /\ budget \in Faults

Spend(kind) == budget[kind] > 0 /\ budget' = [budget EXCEPT ![kind] = @ - 1]
\* A process goes on to the next thing; of one that is gone, only how is kept.
Gone(clean) == [Unborn EXCEPT !.at = "gone", !.clean = clean]
At(state, at) == IF at = "gone" THEN Gone(state.clean) ELSE [state EXCEPT !.at = at]
Goes(p, at) == proc' = [proc EXCEPT ![p] = At(@, at)]

\* A write of the Lease: a version that was read, or that a renewal under way
\* carries, is the Lease's no more.  p is the writer, and own what it is now.
Old(version) == IF version = "none" THEN "none" ELSE "stale"
Overtaken(p, own) ==
    [q \in Procs |-> IF q = p THEN own ELSE [proc[q] EXCEPT !.read = Old(@)]]
Stale == [q \in Procs |-> Old(flight[q])]

-----------------------------------------------------------------------------
(* A waiting copy: operate up to await.                                    *)

Start(p) ==
    /\ proc[p].at = "unborn"
    /\ Goes(p, "waiting")
    /\ UNCHANGED <<holder, flight, budget>>

\* A read that finds the Lease changed starts the copy's own clock of it.
Look(p) ==
    /\ proc[p].at = "waiting" /\ proc[p].read # "fresh"
    /\ proc' = [proc EXCEPT ![p].read = "fresh", ![p].seen = 0]
    /\ UNCHANGED <<holder, flight, budget>>

\* The Lease is free, or it did not change for its whole duration of this
\* copy's clock.
TakeReleased(p) == holder = {}     \* mutant: an abandoned Lease is left alone
TakeEarly(p) ==                    \* mutant: client-go's duration of 15 seconds
    holder = {} \/ proc[p].seen = Duration \div 2
MayTake(p) == holder = {} \/ proc[p].seen = Duration

\* OnStartedLeading closes started, and operator.run starts the bus session,
\* the watches and the passes.
Take(p) ==
    /\ proc[p].at = "waiting" /\ proc[p].read = "fresh"
    /\ MayTake(p)
    /\ holder' = {p}
    /\ proc' = Overtaken(p, [proc[p] EXCEPT !.at = "leading", !.seen = 0, !.read = "none"])
    /\ flight' = Stale
    /\ UNCHANGED budget

\* await answers false when the stop signal comes first.
StopWaiting(p) ==
    /\ proc[p].at = "waiting"
    /\ Goes(p, "gone")
    /\ UNCHANGED <<holder, flight, budget>>

-----------------------------------------------------------------------------
(* The renewal loop, one renewal at a time.                                *)

Renews(p) == proc[p].at \in {"leading", "quieting"} /\ proc[p].age < GiveUpAt

Renew(p) ==
    /\ Renews(p) /\ flight[p] = "none" /\ holder = {p}
    /\ proc' = Overtaken(p, [proc[p] EXCEPT !.age = 0, !.read = "none"])
    /\ flight' = Stale
    /\ UNCHANGED <<holder, budget>>

\* A renewal that is still under way when the loop goes on without it.
SendRenewal(p) ==
    /\ Renews(p) /\ flight[p] = "none" /\ holder = {p}
    /\ Spend("late")
    /\ flight' = [flight EXCEPT ![p] = "fresh"]
    /\ UNCHANGED <<holder, proc>>

\* It lands: the Lease names its process as before, under a new version.  A
\* stale one meets a conflict.  Nobody waits for its answer.
LandRenewal(p) ==
    /\ flight[p] # "none"
    /\ IF flight[p] = "fresh"
       THEN /\ proc' = Overtaken(p, [proc[p] EXCEPT !.read = Old(@)])
            /\ flight' = [Stale EXCEPT ![p] = "none"]
       ELSE /\ flight' = [flight EXCEPT ![p] = "none"]
            /\ UNCHANGED proc
    /\ UNCHANGED <<holder, budget>>

\* The renewal deadline passed: client-go releases the Lease.
GiveUp(p) ==
    /\ proc[p].at \in {"leading", "quieting"} /\ proc[p].age >= GiveUpAt
    /\ Goes(p, "losing")
    /\ UNCHANGED <<holder, flight, budget>>

\* OnStoppedLeading ends the process, with the release answered or refused.
Lose(p) ==
    /\ proc[p].at = "losing"
    /\ \/ /\ Goes(p, "gone")
          /\ UNCHANGED <<holder, flight>>
       \/ /\ holder = {p} /\ holder' = {}
          /\ proc' = Overtaken(p, Gone(FALSE))
          /\ flight' = Stale
    /\ UNCHANGED budget

\* The release lands and its answer is under way: the process still runs.
ReleaseUnanswered(p) ==
    /\ proc[p].at = "losing" /\ holder = {p}
    /\ Spend("lateRelease")
    /\ holder' = {}
    /\ proc' = Overtaken(p, proc[p])
    /\ flight' = Stale

-----------------------------------------------------------------------------
(* stepDown, after the last pass of a process that was told to stop.       *)

\* quiet: the watches stop, then the bus session is told to.
Stop(p) ==
    /\ proc[p].at = "leading"
    /\ Goes(p, "quieting")
    /\ UNCHANGED <<holder, flight, budget>>

\* The session did not stop in busStopTimeout: the process exits and leaves
\* the Lease to expire.
LeaveLease(p) ==
    /\ proc[p].at = "quieting"
    /\ Goes(p, "gone")
    /\ UNCHANGED <<holder, flight, budget>>

\* The session ended.  end sets stepping, so that no loss ends the process from
\* here on, and cancels the renewal loop.
Quiet(p) ==
    /\ proc[p].at = "quieting"
    /\ proc' = [proc EXCEPT ![p] = [Unborn EXCEPT !.at = "releasing", !.clean = TRUE]]
    /\ UNCHANGED <<holder, flight, budget>>

\* client-go's release, then clearIfHeld: each reads the Lease, leaves one that
\* names another process or none, and writes no holder with the version it read.
Releasing(p) == proc[p].at \in {"releasing", "clearing"}
NoClear(p) == "gone"               \* mutant: client-go's release alone
AfterRelease(p) == IF proc[p].at = "releasing" THEN "clearing" ELSE "gone"

ReadLease(p) ==
    /\ Releasing(p) /\ proc[p].read = "none"
    /\ IF holder = {p} THEN proc' = [proc EXCEPT ![p].read = "fresh"]
       ELSE Goes(p, AfterRelease(p))
    /\ UNCHANGED <<holder, flight, budget>>

WriteLease(p) ==
    /\ Releasing(p) /\ proc[p].read = "fresh"
    /\ holder' = {}
    /\ proc' = Overtaken(p, At([proc[p] EXCEPT !.read = "none"], AfterRelease(p)))
    /\ flight' = Stale
    /\ UNCHANGED budget

\* The write meets a conflict.  client-go's release is over with it, and
\* clearIfHeld reads again.
Conflict(p) ==
    /\ Releasing(p) /\ proc[p].read = "stale"
    /\ LET again == [proc[p] EXCEPT !.read = "none"]
       IN  IF proc[p].at = "clearing" /\ proc[p].tries > 1
           THEN proc' = [proc EXCEPT ![p] = [again EXCEPT !.tries = @ - 1]]
           ELSE proc' = [proc EXCEPT ![p] = At(again, AfterRelease(p))]
    /\ UNCHANGED <<holder, flight, budget>>

\* A request fails: clearIfHeld follows client-go's release, and ends with its
\* own.  Where client-go's release does not end in time, end does not go on.
Refused(p) ==
    /\ Releasing(p)
    /\ Spend("refused")
    /\ proc' = [proc EXCEPT
           ![p] = At([@ EXCEPT !.clean = FALSE, !.read = "none"], AfterRelease(p))]
    /\ UNCHANGED <<holder, flight>>

\* The process dies, or does not get a Lease back in time.
Crash(p) ==
    /\ proc[p].at \in {"leading", "quieting", "losing", "releasing", "clearing"}
    /\ Spend("crash")
    /\ proc' = [proc EXCEPT ![p] = Gone(FALSE)]
    /\ UNCHANGED <<holder, flight>>

-----------------------------------------------------------------------------
\* A retry period passes, and no clock runs past what it must end.
Tick ==
    /\ \A p \in Procs :
           /\ proc[p].at \in {"leading", "quieting"} => proc[p].age < GiveUpAt
           /\ proc[p].at = "losing" => proc[p].age < ExitBy
    /\ proc' = [p \in Procs |->
           IF proc[p].at = "waiting" /\ proc[p].read # "none"
           THEN [proc[p] EXCEPT !.seen = IF @ < Duration THEN @ + 1 ELSE @]
           ELSE IF proc[p].at \in {"leading", "quieting", "losing"}
           THEN [proc[p] EXCEPT !.age = @ + 1] ELSE proc[p]]
    /\ UNCHANGED <<holder, flight, budget>>

Waits(p) == Start(p) \/ Look(p) \/ Take(p) \/ StopWaiting(p)
Leads(p) ==
    \/ Renew(p) \/ SendRenewal(p) \/ LandRenewal(p) \/ GiveUp(p) \/ Lose(p)
    \/ ReleaseUnanswered(p)
StepsDown(p) ==
    \/ Stop(p) \/ LeaveLease(p) \/ Quiet(p) \/ ReadLease(p) \/ WriteLease(p)
    \/ Conflict(p) \/ Refused(p)
Next == Tick \/ \E p \in Procs : Waits(p) \/ Leads(p) \/ StepsDown(p) \/ Crash(p)

\* Time passes, a waiting copy polls, a loss ends the process, and a process that
\* was told to stop goes through the steps of it.
Fairness ==
    /\ WF_vars(Tick)
    /\ \A p \in Procs :
           /\ WF_vars(Look(p)) /\ WF_vars(Take(p)) /\ WF_vars(GiveUp(p)) /\ WF_vars(Lose(p))
           /\ WF_vars(Quiet(p)) /\ WF_vars(ReadLease(p)) /\ WF_vars(WriteLease(p))
           /\ WF_vars(Conflict(p))

Spec == Init /\ [][Next]_vars /\ Fairness

-----------------------------------------------------------------------------
\* Types.
TypeOK ==
    /\ holder \subseteq Procs /\ Cardinality(holder) <= 1
    /\ proc \in [Procs ->
           [at : {"unborn", "waiting", "leading", "losing", "quieting", "releasing",
                  "clearing", "gone"},
            age : 0..ExitBy, seen : 0..Duration, read : {"none", "fresh", "stale"},
            tries : 0..Tries, clean : BOOLEAN]]
    /\ flight \in [Procs -> {"none", "fresh", "stale"}]

\* Two processes never act at once: no pass, no watch and no bus session of one
\* beside those of another.  A process acts from the Lease until its exit, or
\* until its session ended.
Acts(p) == proc[p].at \in {"leading", "losing", "quieting"}
OneActs == Cardinality({p \in Procs : Acts(p)}) <= 1

\* A process that stepped down quietly, and whose requests were answered, leaves
\* no Lease that names it: a renewal that lands late, before or after the
\* release, does not take it back.
SteppedDownIsFree ==
    \A p \in Procs : proc[p].at = "gone" /\ proc[p].clean => holder # {p}

\* While a process waits, some process comes to lead, or the waiting one stops.
SomeoneWaits == \E p \in Procs : proc[p].at = "waiting"
SomeoneLeads == SomeoneWaits ~> (~SomeoneWaits \/ \E p \in Procs : Acts(p))
=============================================================================
