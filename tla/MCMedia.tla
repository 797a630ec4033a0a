------------------------------ MODULE MCMedia ------------------------------
(* The bounds under which TLC checks the media side.                         *)
EXTENDS Media

CONSTANTS n1, n2, p1

\* One Play, of the first of two namespaces, and one Person of both.
MCHome == [p \in {p1} |-> n1]

NoFaults == [f \in {"opRestart", "opDrop", "roleDrop", "storeFails",
                    "brokerRestart", "late", "reborn"} |-> 0]
MCPlayFaults == {[NoFaults EXCEPT !.opRestart = 1, !.roleDrop = 1, !.late = 1]}
MCRoughFaults ==
    {[NoFaults EXCEPT !.late = 1, !.opDrop = 1, !.brokerRestart = 1, !.storeFails = 1]}
MCPersonFaults == {[NoFaults EXCEPT !.opRestart = 1, !.roleDrop = 1]}
MCRebornFaults == {[NoFaults EXCEPT !.reborn = 1, !.storeFails = 1]}
MCBridgeFaults == [restart |-> 1, fails |-> 1, late |-> 1, ages |-> 1]
MCBackfillFaults == [edits |-> 2, fails |-> 1, conflicts |-> 1, flaps |-> 1]
=============================================================================
