------------------------------ MODULE MCWallet ------------------------------
(***************************************************************************)
(* Instances of Wallet for TLC.                                            *)
(***************************************************************************)
EXTENDS Wallet, TLC

\* Requests are interchangeable; no property names one.
Symmetry == Permutations(Handlers)

\* Orders and bills share nothing but the wallet, which the other entry points
\* move as well: an instance has orders or bills, not both at once.
OrdersOrBills == \/ \A o \in Orders : order[o].status = "none"
                 \/ \A b \in Bills : bill[b] = "none"

\* No guard reads the ledger, and the one property that does looks at its
\* distance from the balance, until a balance is overwritten.
View == <<balance, IF overwritten THEN 0 ELSE balance - ledger, order, bill,
          failRefunds, payments, atGateway, repaid, overwritten, handler, crashes>>
=============================================================================
