----------------------------- MODULE MCReferral -----------------------------
(* An instance of Referral for TLC. *)
EXTENDS Referral, TLC

CONSTANTS o1, o2, r1, r2, h1, h2

Symmetry == Permutations(Orders) \cup Permutations(Referrers) \cup Permutations(Handlers)
=============================================================================
