----------------------------- MODULE Settlement -----------------------------
(***************************************************************************)
(* What fulfil() and the checkouts promise of a payment, in the words of   *)
(* payment.service.ts: "Runs the side effect for a paid transaction        *)
(* exactly once".  Captured money moves the wallet or one bill, once, and  *)
(* pays for one order or subscription; an effect is never taken back.      *)
(***************************************************************************)
EXTENDS Naturals

CONSTANT Txns

VARIABLES
  captured,  \* transactions whose money was captured
  credits,   \* wallet credits, by transaction
  settled,   \* bill settlements, by transaction
  orders     \* orders and subscriptions, by transaction

Init ==
  /\ captured = {}
  /\ credits = [t \in Txns |-> 0]
  /\ settled = [t \in Txns |-> 0]
  /\ orders = [t \in Txns |-> 0]

Unsettled(t) == credits[t] = 0 /\ settled[t] = 0

Capture(t) ==
  /\ captured' = captured \cup {t}
  /\ UNCHANGED <<credits, settled, orders>>

CreditWallet(t) ==
  /\ t \in captured /\ Unsettled(t)
  /\ credits' = [credits EXCEPT ![t] = 1]
  /\ UNCHANGED <<captured, settled, orders>>

SettleBill(t) ==
  /\ t \in captured /\ Unsettled(t)
  /\ settled' = [settled EXCEPT ![t] = 1]
  /\ UNCHANGED <<captured, credits, orders>>

PlaceOrder(t) ==
  /\ t \in captured /\ orders[t] = 0
  /\ orders' = [orders EXCEPT ![t] = 1]
  /\ UNCHANGED <<captured, credits, settled>>

Next == \E t \in Txns :
          Capture(t) \/ CreditWallet(t) \/ SettleBill(t) \/ PlaceOrder(t)

Spec == Init /\ [][Next]_<<captured, credits, settled, orders>>
=============================================================================
