---------------------------- MODULE MCDeparture ----------------------------
(* One Library with two rows in the catalog.                               *)
EXTENDS Departure, TLC

\* Safety is checked up to renaming the rows.
RowSymmetry == Permutations(Rows)
=============================================================================
