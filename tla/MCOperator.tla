----------------------------- MODULE MCOperator -----------------------------
(* The bounds under which TLC checks the operator's parts.                   *)
EXTENDS Operator

\* A release whose answer is late comes by itself: OneActs is not of it.
NoTrouble == [x \in {"crash", "refused", "late", "lateRelease"} |-> 0]
MCLeaderFaults == {[NoTrouble EXCEPT !.crash = 1, !.refused = 1, !.late = 1]}
MCLateFaults == {[NoTrouble EXCEPT !.lateRelease = 1]}

\* One object under every mishap; and one that only the wakes of the watch bring a
\* pass to.
NoMishap == [x \in {"facts", "edits", "deletes", "fails", "restarts"} |-> 0]
MCObjectFaults ==
    {[NoMishap EXCEPT !.facts = 1, !.edits = 1, !.deletes = 1, !.restarts = 1],
     [NoMishap EXCEPT !.facts = 1, !.edits = 1, !.fails = 1, !.restarts = 1],
     [NoMishap EXCEPT !.facts = 1, !.deletes = 1, !.fails = 1, !.restarts = 1]}
MCWakedFaults == {[NoMishap EXCEPT !.facts = 2, !.deletes = 1]}

\* A provider; and the same where the read of it may fail while the watch lags.
NoChange == [x \in {"changes", "edits", "deletes", "creates", "fails", "reads", "restarts"} |-> 0]
MCProviderFaults ==
    {[NoChange EXCEPT !.deletes = 1, !.creates = 1, !.fails = 1],
     [NoChange EXCEPT !.edits = 1, !.fails = 1, !.restarts = 1],
     [NoChange EXCEPT !.changes = 1, !.fails = 1, !.restarts = 1],
     [NoChange EXCEPT !.changes = 1, !.fails = 2]}
MCUnreadFaults ==
    {[NoChange EXCEPT !.changes = 1, !.reads = 1, !.deletes = 1],
     [NoChange EXCEPT !.changes = 2, !.reads = 1]}
=============================================================================
