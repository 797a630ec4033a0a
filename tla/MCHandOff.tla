----------------------------- MODULE MCHandOff -----------------------------
(* One Job of up to two pods, with one data row each and one renewal.      *)
EXTENDS HandOff
=============================================================================
