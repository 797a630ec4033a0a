---------------------------- MODULE MCWalkPrune ----------------------------
(* Two titles: one that a fact illustrates and that comes and goes, and    *)
(* one that the identity role identifies.                                  *)
EXTENDS WalkPrune
=============================================================================
