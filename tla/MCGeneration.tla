---------------------------- MODULE MCGeneration ----------------------------
(* Instances of Generation for TLC: a subscription and a one-time order of   *)
(* a branch, and one of each without.                                        *)
EXTENDS Generation, TLC

CONSTANTS s1, s2, o1, b1, i1, i2, a1, a2

MCBranchOf == s1 :> b1 @@ s2 :> None @@ o1 :> None
=============================================================================
