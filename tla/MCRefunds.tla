----------------------------- MODULE MCRefunds -----------------------------
(***************************************************************************)
(* Instances of Refunds for TLC, and what comments and a test of the code  *)
(* say of it that does not hold: the property of the run Refunds_review.   *)
(***************************************************************************)
EXTENDS Refunds, TLC

CONSTANTS r1, r2

\* Requests are interchangeable; no property names one.
Symmetry == Permutations(Requests)

\* "Anything not yet paid out is actionable: eligible and reviewed alike": a
\* candidate that nobody has paid or rejected is one that a payout accepts.
OpenIsPayable ==
  \A d \in Scheduled :
    candidate[d] \notin {"none", "refunded", "rejected"} => StillPayable({d})
=============================================================================
