---------------------------- MODULE MCRtPushPull ----------------------------
(* Instances of RtPushPull for TLC.                                        *)
EXTENDS RtPushPull, TLC
=============================================================================
