---------------------------- MODULE MCWorkloads -----------------------------
(* The bounds under which TLC checks what the operator stands.               *)
EXTENDS Workloads

Bounds(kinds) == [k \in kinds |-> 0]

\* One title with one fact beside the probe and the identity, under one mishap, or
\* a refresh that meets a newer answer.
NoMishap == Bounds({"dies", "refreshes", "changes", "edits", "asks", "writes", "ledgers", "catalog"})
MCTitleFaults ==
    {[NoMishap EXCEPT ![k] = 1] : k \in {"dies", "edits", "asks", "writes", "ledgers", "catalog"}}
    \cup {[NoMishap EXCEPT !.refreshes = 1, !.changes = 1]}

\* A count that changes, under what the builds recover from one at a time; and builds
\* that overlap, where the agent may be too slow to answer.
NoFault == Bounds({"counts", "overlaps", "dies", "down", "slow", "breaks", "restarts", "operators"})
MCReporterFaults ==
    {[NoFault EXCEPT !.counts = 1, !.dies = 1], [NoFault EXCEPT !.counts = 1, !.down = 1],
     [NoFault EXCEPT !.breaks = 1], [NoFault EXCEPT !.restarts = 1],
     [NoFault EXCEPT !.operators = 1]}
MCHurriedFaults ==
    {[NoFault EXCEPT !.overlaps = 2, !.dies = 1], [NoFault EXCEPT !.overlaps = 2, !.slow = 1]}

\* Two runs of one worker, of which the report holds the newest.
MCCountFaults == {[flushes |-> 1, restarts |-> 1]}

\* A node that is lost, and comes back; a store that is declared again; what stops a
\* heal; a display that moves; edits and a restart beside one.
NoLoss ==
    Bounds({"dies", "returns", "edits", "redeclares", "fails", "restarts", "moves", "races"})
MCStoreFaults == {[NoLoss EXCEPT !.dies = 1, !.returns = 1]}
MCRoughStoreFaults == {[NoLoss EXCEPT !.dies = 1, !.edits = 1, !.fails = 1]}
MCSpreadFaults == {[NoLoss EXCEPT !.dies = 1]}
MCAgainFaults == {[NoLoss EXCEPT !.redeclares = 1]}
MCScreenFaults == {[NoLoss EXCEPT !.moves = 1]}
MCRoughScreenFaults == {[NoLoss EXCEPT !.edits = 1, !.restarts = 1]}

\* A template whose Library changes, that somebody deletes, and a request that fails.
NoTrouble == Bounds({"facts", "edits", "deletes", "fails", "restarts"})
MCTemplateFaults == {[NoTrouble EXCEPT !.facts = 1, !.deletes = 1, !.fails = 1]}
=============================================================================
