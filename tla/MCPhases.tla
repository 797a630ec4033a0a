----------------------------- MODULE MCPhases -----------------------------
(* A walk with trickplay beside it, and a Job that fills gaps with the     *)
(* probe and with trickplay, which needs the probe.                        *)
EXTENDS Phases, TLC

CONSTANTS probe, trickplay

MCNeeds == (probe :> {Scan}) @@ (trickplay :> {Scan, probe})
MCPlans == {<<Scan, trickplay>>, <<probe, trickplay>>}
=============================================================================
