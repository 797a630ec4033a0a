---------------------------- MODULE DurableRows ----------------------------
(***************************************************************************)
(* What the hand-off promises.  A Job writes rows on its own copy of the   *)
(* catalog; a standing pod's copy receives them in any order; and the Job  *)
(* succeeds only when the standing copy holds every one of them, so that   *)
(* the Job's agent, and its claim, may go.                                 *)
(***************************************************************************)
CONSTANT Rows

VARIABLES
    written,   \* the rows the Job's pods wrote
    standing,  \* the rows the standing copy holds
    succeeded  \* whether the Job ended on a pod that exited zero

rowVars == <<written, standing, succeeded>>

RowsInit ==
    /\ written = {}
    /\ standing = {}
    /\ succeeded = FALSE

WriteRow ==
    /\ ~succeeded
    /\ \E r \in Rows \ written : written' = written \cup {r}
    /\ UNCHANGED <<standing, succeeded>>

ReceiveRow ==
    /\ \E r \in written \ standing : standing' = standing \cup {r}
    /\ UNCHANGED <<written, succeeded>>

Succeed ==
    /\ written \subseteq standing
    /\ succeeded' = TRUE
    /\ UNCHANGED <<written, standing>>

RowsNext == WriteRow \/ ReceiveRow \/ Succeed

RowsSpec == RowsInit /\ [][RowsNext]_rowVars

=============================================================================
