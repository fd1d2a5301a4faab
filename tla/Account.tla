------------------------------ MODULE Account -------------------------------
(***************************************************************************)
(* What WalletLedgerService promises of a customer's wallet: "Every credit *)
(* /debit goes through here so the balance and the ledger can never drift  *)
(* apart", and a debit is refused when it would go negative.               *)
(***************************************************************************)
EXTENDS Integers

VARIABLES
  balance,   \* customers.wallet_balance
  book       \* the sum of the customer's ledger entries

Init == balance = 0 /\ book = 0

\* One movement writes the balance and the entry that explains it.
Post == /\ balance' \in Nat
        /\ book' = book + (balance' - balance)

Spec == Init /\ [][Post]_<<balance, book>>
=============================================================================
