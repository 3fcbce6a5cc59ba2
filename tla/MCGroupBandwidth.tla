-------------------------- MODULE MCGroupBandwidth --------------------------
(* Instances of GroupBandwidth for TLC.                                    *)
EXTENDS GroupBandwidth, TLC

CONSTANTS a, b, c, d

(* A chain of three groups below the root, and a sibling of the second.    *)
Tree == (a :> Root) @@ (b :> a) @@ (c :> b) @@ (d :> a)

WriterSymmetry == Permutations(Writers)
=============================================================================
