----------------------------- MODULE MCLoadAvg -----------------------------
(* Instances of LoadAvg for TLC.                                           *)
EXTENDS LoadAvg, TLC
=============================================================================
