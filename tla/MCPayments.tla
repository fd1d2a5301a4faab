----------------------------- MODULE MCPayments -----------------------------
(***************************************************************************)
(* Instances of Payments for TLC, and what comments and replies of the     *)
(* code say of it that does not hold: each statement below is the property *)
(* of one run in which TLC finds it violated.                              *)
(***************************************************************************)
EXTENDS Payments, TLC

Symmetry == Permutations(Handlers)

\* cartAndCheckout.service.ts: the consumed payment "can only be used once".
\* A payment that pays for an order is not credited to the wallet as well.
PaymentUsedOnce == \A t \in Txns : orders[t] = 0 \/ credits[t] = 0

\* The refusal of consumeOrderPayment, "This payment has already been used for
\* another order/subscription": what consumed a payment is all that it pays.
PaymentBacksOneSubscription == \A t \in unbacked : orders[t] = 0

\* fulfil() rolls a claim back "so a retry (or the webhook) can fulfil it later",
\* and the webhook settles "so a customer who closed the app mid-payment still
\* gets their money".  A captured top-up or bill is settled or refunded.
CapturedIsSettled ==
  \A t \in Txns :
    "captured" \in gateway[t] /\ row[t].purpose \in {"wallet_topup", "bill"}
      ~> Settled(t) \/ "refunded" \in gateway[t]
=============================================================================
