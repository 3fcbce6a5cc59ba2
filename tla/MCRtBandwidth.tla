--------------------------- MODULE MCRtBandwidth ---------------------------
(* Instances of RtBandwidth for TLC.                                       *)
EXTENDS RtBandwidth, TLC
=============================================================================
