------------------------------- MODULE Claims -------------------------------
(***************************************************************************)
(* What the refund candidates promise of a prepaid day that was missed: it *)
(* is claimed once it has come, decided once, and its money moves with the *)
(* decision ("two admins clicking approve at the same time cannot both pay *)
(* out"; "Safe to re-run").  The days of one payout are paid together.     *)
(***************************************************************************)
EXTENDS Naturals

CONSTANT Days

VARIABLES
  today,   \* the calendar
  claim,   \* the decision on each day
  paid     \* wallet credits, by day

Init ==
  /\ today = 1
  /\ claim = [d \in Days |-> "none"]
  /\ paid = [d \in Days |-> 0]

DayPasses ==
  /\ today' = today + 1
  /\ UNCHANGED <<claim, paid>>

Raise(d) ==
  /\ d <= today
  /\ claim[d] = "none"
  /\ claim' = [claim EXCEPT ![d] = "open"]
  /\ UNCHANGED <<today, paid>>

\* Decided claims were open, the others are as they were.  A review decides
\* nothing.
Decided(days, s) ==
  /\ \A d \in days : claim[d] = "open"
  /\ claim' = [d \in Days |-> IF d \in days THEN s ELSE claim[d]]
  /\ UNCHANGED today

\* Nothing is paid for a day that an admin rejects.
Close(days) == Decided(days, "rejected") /\ UNCHANGED paid

Pay(days) ==
  /\ Decided(days, "refunded")
  /\ paid' = [d \in Days |-> IF d \in days THEN 1 ELSE paid[d]]

Next ==
  \/ DayPasses
  \/ \E d \in Days : Raise(d)
  \/ \E days \in SUBSET Days : Pay(days) \/ Close(days)

Spec == Init /\ [][Next]_<<today, claim, paid>>
=============================================================================
