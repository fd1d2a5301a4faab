------------------------------- MODULE Wallet -------------------------------
(***************************************************************************)
(* The wallet of one customer and the rows that decide when it moves: the  *)
(* customer's one-time orders and bills.  WalletLedgerService is meant to  *)
(* be the only writer of customers.wallet_balance, but the cancellation of *)
(* an order, the admin panel and the subscription checkout write it too.   *)
(*                                                                         *)
(* One action is one autocommitted statement or one database transaction;  *)
(* a handler that makes several may be overtaken, or die, between them.    *)
(* Every movement is of one unit: an order, a bill and a top-up cost one.  *)
(***************************************************************************)
EXTENDS Integers, FiniteSets

CONSTANTS
  Orders,        \* one-time orders of the customer
  Bills,         \* bills of the customer
  Nothing,       \* a handler that works on no order or bill
  Handlers,      \* concurrently running request handlers
  Ops,           \* the entry points an instance calls
  CreditMayFail, \* may a ledger credit roll back?
  MaxBalance,    \* bound on the balance at which money is put in
  MaxEntries,    \* bound on the refunds of an order and payments of a bill
  MaxCrashes     \* bound on handlers that die between two statements

\* The entry points that move the wallet through WalletLedgerService or in
\* one transaction that locks it, and those that do not.
LockedOps   == {"topup", "checkout", "status", "bulk", "partner",
                "payBill", "adminPay", "online"}
UnlockedOps == {"cancel", "credit", "debit", "subscribe"}

ASSUME WalletAssumption ==
  /\ Nothing \notin Orders \cup Bills
  /\ Ops \subseteq LockedOps \cup UnlockedOps
  /\ CreditMayFail \in BOOLEAN
  /\ MaxBalance \in Nat
  /\ MaxEntries \in Nat
  /\ MaxCrashes \in Nat

VARIABLES
  balance,       \* customers.wallet_balance
  ledger,        \* the sum of the entries in customer_wallet_transactions
  order,         \* orders, by order
  bill,          \* customer_bills.status, by bill
  failRefunds,   \* ledger entries of type order_refund, by order
  payments,      \* payments of a bill from the wallet or in cash
  atGateway,     \* ghost: bills that a payment at the gateway was added to
  repaid,        \* ghost: orders that a report marked paid after their refund
  overwritten,   \* ghost: a balance was written that had been read before it changed
  handler,       \* where each handler is
  crashes

vars == <<balance, ledger, order, bill, failRefunds, payments, atGateway, repaid,
          overwritten, handler, crashes>>
wallet == <<balance, ledger>>
counts == <<failRefunds, payments>>
marks == <<atGateway, repaid, overwritten>>
trails == <<failRefunds, payments, atGateway, repaid, overwritten>>

\* underway stands for confirmed, assigned, packed and out_for_delivery.
OrderStatuses == {"placed", "underway", "delivered", "failed", "cancelled"}

\* status, payment_mode, payment_status; late: scheduled_date is in the past.
\* The modes prepaid and cash are treated as online and cod are.
Order == [status : OrderStatuses \cup {"none"},
          paidBy : {"wallet", "online", "cod", "upi"},
          pay    : {"paid", "pending", "refunded"},
          late   : BOOLEAN]

NoOrder == [status |-> "none", paidBy |-> "cod", pay |-> "pending",
            late |-> FALSE]

OrderLabels == {"readOrder", "cancel", "refund", "setStatus", "report"}
BillLabels == {"readBill", "debit", "markPaid", "recordCash"}
Labels == {"idle", "write", "entry"} \cup OrderLabels \cup BillLabels

Handler == [pc       : Labels,
            obj      : Orders \cup Bills \cup {Nothing},
            bal      : Nat,               \* the balance it has read
            delta    : {-1, 0, 1},        \* the movement it is making
            to       : OrderStatuses,     \* the status it is setting
            refunded : BOOLEAN,           \* isRefunded
            list     : SUBSET Orders,     \* orders a bulk run has left
            due      : SUBSET Orders]     \* those it found to be prepaid

Idle == [pc |-> "idle", obj |-> Nothing, bal |-> 0, delta |-> 0,
         to |-> "placed", refunded |-> FALSE, list |-> {}, due |-> {}]

TypeOK ==
  /\ balance \in Nat
  /\ ledger \in Int
  /\ order \in [Orders -> Order]
  /\ bill \in [Bills -> {"none", "unpaid", "paid"}]
  /\ failRefunds \in [Orders -> Nat]
  /\ payments \in [Bills -> Nat]
  /\ atGateway \subseteq Bills
  /\ repaid \subseteq Orders
  /\ overwritten \in BOOLEAN
  /\ handler \in [Handlers -> Handler]
  /\ crashes \in Nat
  /\ \A p \in Handlers :
       /\ handler[p].pc \in OrderLabels => handler[p].obj \in Orders
       /\ handler[p].pc \in BillLabels => handler[p].obj \in Bills

-----------------------------------------------------------------------------

At(p, label) == handler[p].pc = label
Obj(p) == handler[p].obj

\* Every request, those of one statement too, has a handler to itself.
Serve(p, op) == op \in Ops /\ At(p, "idle")

Begin(p, fields) == handler' = [handler EXCEPT ![p] = fields]
Goto(p, label) == handler' = [handler EXCEPT ![p].pc = label]
Done(p) == handler' = [handler EXCEPT ![p] = Idle]

\* Mutant: the debit is not refused when the balance is too low.
MoveUnchecked(d) == balance' = balance + d /\ ledger' = ledger + d

\* A movement: the balance and its ledger entry in one transaction.  It rolls
\* back if the balance would go negative, by the check of the debit, the
\* condition of the checkout's UPDATE or the CHECK on the column.
Move(d) == balance + d >= 0 /\ balance' = balance + d /\ ledger' = ledger + d

\* The balance is written from the one that the handler has read.
Overwrite(p, new) ==
  /\ balance' = new
  /\ overwritten' = (overwritten \/ handler[p].bal # balance)

-----------------------------------------------------------------------------
(* Requests of one transaction.                                            *)

\* A top-up, a referral reward or a captured Razorpay top-up.
TopUp(p) ==
  /\ Serve(p, "topup")
  /\ balance < MaxBalance
  /\ Move(1)
  /\ UNCHANGED <<order, bill, trails, handler, crashes>>

PlacedOrder(m) == [status |-> "placed", paidBy |-> m,
                   pay |-> IF m = "cod" THEN "pending" ELSE "paid",
                   late |-> FALSE]

\* The customer's row is locked, then debited; the order, the ledger entry and
\* the stock reservation commit with the debit.
CheckoutByWallet(p, o) ==
  /\ Serve(p, "checkout")
  /\ order[o].status = "none"
  /\ Move(-1)
  /\ order' = [order EXCEPT ![o] = PlacedOrder("wallet")]
  /\ UNCHANGED <<bill, trails, handler, crashes>>

\* Orders paid at the gateway or on delivery do not touch the wallet.
CheckoutOtherwise(p, o, m) ==
  /\ Serve(p, "checkout")
  /\ order[o].status = "none"
  /\ order' = [order EXCEPT ![o] = PlacedOrder(m)]
  /\ UNCHANGED <<wallet, bill, trails, handler, crashes>>

RaiseBill(b) ==
  /\ bill[b] = "none"
  /\ bill' = [bill EXCEPT ![b] = "unpaid"]
  /\ UNCHANGED <<wallet, order, trails, handler, crashes>>

\* A captured bill payment is added to the bill whatever its status is, so that
\* the gateway may be paid for a bill again and again.
SettleOnline(p, b) ==
  /\ Serve(p, "online")
  /\ bill[b] # "none"
  /\ atGateway' = atGateway \cup {b}
  /\ bill' = [bill EXCEPT ![b] = "paid"]
  /\ UNCHANGED <<wallet, order, counts, repaid, overwritten, handler, crashes>>

DatePasses(o) ==
  /\ order[o].status # "none"
  /\ ~order[o].late
  /\ order' = [order EXCEPT ![o].late = TRUE]
  /\ UNCHANGED <<wallet, bill, trails, handler, crashes>>

-----------------------------------------------------------------------------
(* The customer cancels an order: CustomerOrderController.cancelOrder.     *)

\* The customer's row, with its balance, is read first.
AskCancel(p, o) ==
  /\ Serve(p, "cancel")
  /\ order[o].status # "none"
  /\ balance < MaxBalance
  /\ Begin(p, [Idle EXCEPT !.pc = "readOrder", !.obj = o, !.bal = balance])
  /\ UNCHANGED <<wallet, order, bill, trails, crashes>>

Cancellable(r) == r.status = "placed" /\ ~r.late

\* An online checkout stores 'online'; 'upi' is what the partner collected.
RefundedOnCancel(r) == r.paidBy \in {"wallet", "upi"}

\* Then the order, whose payment_mode decides whether there is a refund.
ReadOrder(p) ==
  LET r == order[Obj(p)]
  IN /\ At(p, "readOrder")
     /\ \/ /\ Cancellable(r)
           /\ Begin(p, [handler[p] EXCEPT
                          !.pc = "cancel",
                          !.delta = IF RefundedOnCancel(r) THEN 1 ELSE 0])
        \/ Done(p)                     \* not cancellable, or cut off
     /\ UNCHANGED <<wallet, order, bill, trails, crashes>>

\* One transaction: the status is set and the balance is written from the
\* value read at the start.
Cancel(p) ==
  /\ At(p, "cancel")
  /\ order' = [order EXCEPT ![Obj(p)].status = "cancelled"]
  /\ IF handler[p].delta = 1
     THEN /\ Overwrite(p, handler[p].bal + 1)
          /\ ledger' = ledger + 1
     ELSE UNCHANGED <<wallet, overwritten>>
  /\ Done(p)
  /\ UNCHANGED <<bill, failRefunds, payments, atGateway, repaid, crashes>>

-----------------------------------------------------------------------------
(* Staff set the status of one order, or fail those left over from the     *)
(* days before; a prepaid one-time order that failed is refunded.          *)

\* Mutant: only what was paid at the start is looked at.
PrepaidByMode(r) == r.paidBy \in {"wallet", "online"} \/ r.pay = "paid"

Prepaid(r) == /\ r.paidBy \in {"wallet", "online"} \/ r.pay = "paid"
              /\ r.pay # "refunded"

SetStatus(p, o, s) ==
  /\ Serve(p, "status")
  /\ order[o].status # "none"
  /\ LET refund == s = "failed" /\ Prepaid(order[o])
     IN /\ refund => failRefunds[o] < MaxEntries
        /\ Begin(p, [Idle EXCEPT !.pc = IF refund THEN "refund" ELSE "setStatus",
                                 !.obj = o, !.to = s])
  /\ UNCHANGED <<wallet, order, bill, trails, crashes>>

\* The bulk run takes up an order of its list, refunding those that were
\* prepaid when the list was made.
TakeUp(p, o, list, due) ==
  Begin(p, [Idle EXCEPT !.pc = IF o \in due THEN "refund" ELSE "setStatus",
                        !.obj = o, !.to = "failed",
                        !.list = list \ {o}, !.due = due])

Undelivered == {o \in Orders : order[o].late
                                 /\ order[o].status \in {"placed", "underway"}}

BulkFail(p) ==
  /\ Serve(p, "bulk")
  /\ \A o \in Undelivered : failRefunds[o] < MaxEntries
  /\ \E o \in Undelivered :
       TakeUp(p, o, Undelivered, {u \in Undelivered : Prepaid(order[u])})
  /\ UNCHANGED <<wallet, order, bill, trails, crashes>>

\* Mutant: isRefunded is set although the credit failed.
RefundAssumed(p) ==
  /\ At(p, "refund")
  /\ handler' = [handler EXCEPT ![p].pc = "setStatus", ![p].refunded = TRUE]
  /\ \/ Move(1) /\ failRefunds' = [failRefunds EXCEPT ![Obj(p)] = @ + 1]
     \/ CreditMayFail /\ UNCHANGED <<wallet, failRefunds>>
  /\ UNCHANGED <<order, bill, payments, marks, crashes>>

\* WalletLedgerService.credit; a failed credit is logged, not reported.
Refund(p) ==
  /\ At(p, "refund")
  /\ \/ /\ Move(1)
        /\ failRefunds' = [failRefunds EXCEPT ![Obj(p)] = @ + 1]
        /\ handler' = [handler EXCEPT ![p].pc = "setStatus",
                                      ![p].refunded = TRUE]
     \/ /\ CreditMayFail
        /\ Goto(p, "setStatus")
        /\ UNCHANGED <<wallet, failRefunds>>
  /\ UNCHANGED <<order, bill, payments, marks, crashes>>

\* UPDATE orders by order_id alone.
WithStatus(r, s, refunded) ==
  [r EXCEPT !.status = s, !.pay = IF refunded THEN "refunded" ELSE @]

WriteStatus(p) ==
  LET h == handler[p]
  IN /\ At(p, "setStatus")
     /\ order' = [order EXCEPT ![h.obj] = WithStatus(@, h.to, h.refunded)]
     /\ IF h.list = {} THEN Done(p)
                       ELSE \E o \in h.list : TakeUp(p, o, h.list, h.due)
     /\ UNCHANGED <<wallet, bill, trails, crashes>>

-----------------------------------------------------------------------------
(* The delivery partner reports on the orders of a stop.                   *)

\* An order is passed over only if it was delivered or failed when it was read.
ReportStop(p, o) ==
  /\ Serve(p, "partner")
  /\ order[o].status \notin {"none", "delivered", "failed"}
  /\ Begin(p, [Idle EXCEPT !.pc = "report", !.obj = o])
  /\ UNCHANGED <<wallet, order, bill, trails, crashes>>

\* The app sends how a delivered stop was paid, and that it was.
Reported(r, s, m) == IF s = "delivered"
                     THEN [r EXCEPT !.status = s, !.paidBy = m, !.pay = "paid"]
                     ELSE [r EXCEPT !.status = s]

WriteReport(p) ==
  LET o == Obj(p)
  IN /\ At(p, "report")
     /\ \E s \in OrderStatuses, m \in {"cod", "upi", "online"} :
          order' = [order EXCEPT ![o] = Reported(@, s, m)]
     /\ repaid' = IF order[o].pay = "refunded" /\ order'[o].pay = "paid"
                    THEN repaid \cup {o} ELSE repaid
     /\ Done(p)
     /\ UNCHANGED <<wallet, bill, counts, atGateway, overwritten, crashes>>

-----------------------------------------------------------------------------
(* A bill is paid from the wallet, or an admin records cash for it.        *)

AskPayBill(p, b) ==
  /\ Serve(p, "payBill")
  /\ payments[b] < MaxEntries
  /\ Begin(p, [Idle EXCEPT !.pc = "readBill", !.obj = b, !.bal = balance])
  /\ UNCHANGED <<wallet, order, bill, trails, crashes>>

\* Found unpaid, and the balance read before covers it.
ReadBill(p) ==
  /\ At(p, "readBill")
  /\ IF bill[Obj(p)] = "unpaid" /\ handler[p].bal >= 1
     THEN Goto(p, "debit")
     ELSE Done(p)
  /\ UNCHANGED <<wallet, order, bill, trails, crashes>>

\* Mutant: the refusal of the debit is swallowed.
DebitSwallowed(p) ==
  /\ At(p, "debit")
  /\ Goto(p, "markPaid")
  /\ \/ Move(-1) /\ payments' = [payments EXCEPT ![Obj(p)] = @ + 1]
     \/ balance < 1 /\ UNCHANGED <<wallet, payments>>
  /\ UNCHANGED <<order, bill, failRefunds, marks, crashes>>

\* WalletLedgerService.debit, which refuses what the balance does not cover.
Debit(p) ==
  /\ At(p, "debit")
  /\ \/ /\ Move(-1)
        /\ payments' = [payments EXCEPT ![Obj(p)] = @ + 1]
        /\ Goto(p, "markPaid")
     \/ /\ balance < 1
        /\ Done(p)
        /\ UNCHANGED <<wallet, payments>>
  /\ UNCHANGED <<order, bill, failRefunds, marks, crashes>>

\* Mutant: the bill is left as it is.
MarkBillNothing(p) ==
  /\ At(p, "markPaid")
  /\ Done(p)
  /\ UNCHANGED <<wallet, order, bill, trails, crashes>>

MarkBillPaid(p) ==
  /\ At(p, "markPaid")
  /\ bill' = [bill EXCEPT ![Obj(p)] = "paid"]
  /\ Done(p)
  /\ UNCHANGED <<wallet, order, trails, crashes>>

AdminPays(p, b) ==
  /\ Serve(p, "adminPay")
  /\ payments[b] < MaxEntries
  /\ bill[b] = "unpaid"
  /\ Begin(p, [Idle EXCEPT !.pc = "recordCash", !.obj = b])
  /\ UNCHANGED <<wallet, order, bill, trails, crashes>>

RecordCash(p) ==
  /\ At(p, "recordCash")
  /\ payments' = [payments EXCEPT ![Obj(p)] = @ + 1]
  /\ bill' = [bill EXCEPT ![Obj(p)] = "paid"]
  /\ Done(p)
  /\ UNCHANGED <<wallet, order, failRefunds, marks, crashes>>

-----------------------------------------------------------------------------
(* Writers that update the balance and insert the entry in two statements. *)

\* CustomersService.creditWallet and debitWallet read the balance ...
AskAdjust(p, op, d) ==
  /\ Serve(p, op)
  /\ d = 1 => balance < MaxBalance
  /\ Begin(p, [Idle EXCEPT !.pc = "write", !.bal = balance, !.delta = d])
  /\ UNCHANGED <<wallet, order, bill, trails, crashes>>

\* ... write what they computed from it ...
Adjust(p) ==
  LET new == handler[p].bal + handler[p].delta
  IN /\ At(p, "write")
     /\ \/ new >= 0 /\ Overwrite(p, new) /\ Goto(p, "entry")
        \/ new < 0  /\ Done(p) /\ UNCHANGED <<balance, overwritten>>
     /\ UNCHANGED <<ledger, order, bill, counts, atGateway, repaid, crashes>>

\* Mutant: the entry of a debit is inserted as a credit.
AddEntryAsCredit(p) ==
  /\ At(p, "entry")
  /\ ledger' = ledger + 1
  /\ Done(p)
  /\ UNCHANGED <<balance, order, bill, trails, crashes>>

\* ... and add the entry.
AddEntry(p) ==
  /\ At(p, "entry")
  /\ ledger' = ledger + handler[p].delta
  /\ Done(p)
  /\ UNCHANGED <<balance, order, bill, trails, crashes>>

\* The subscription checkout, once the subscription exists.  The UPDATE subtracts
\* from whatever the balance is; the CHECK of migration 010 refuses the rest.
Subscribe(p) ==
  /\ Serve(p, "subscribe")
  /\ balance >= 1
  /\ balance' = balance - 1
  /\ Begin(p, [Idle EXCEPT !.pc = "entry", !.delta = -1])
  /\ UNCHANGED <<ledger, order, bill, trails, crashes>>

-----------------------------------------------------------------------------

Crash(p) ==
  /\ ~At(p, "idle")
  /\ crashes < MaxCrashes
  /\ crashes' = crashes + 1
  /\ Done(p)
  /\ UNCHANGED <<wallet, order, bill, trails>>

Init ==
  /\ balance = 0 /\ ledger = 0
  /\ order = [o \in Orders |-> NoOrder]
  /\ bill = [b \in Bills |-> "none"]
  /\ failRefunds = [o \in Orders |-> 0]
  /\ payments = [b \in Bills |-> 0]
  /\ atGateway = {} /\ repaid = {} /\ overwritten = FALSE
  /\ handler = [p \in Handlers |-> Idle]
  /\ crashes = 0

OneStep(p) ==
  \/ TopUp(p)
  \/ \E o \in Orders :
       \/ CheckoutByWallet(p, o)
       \/ \E m \in {"online", "cod"} : CheckoutOtherwise(p, o, m)
  \/ \E b \in Bills : SettleOnline(p, b)

OrderStep(p) ==
  \/ \E o \in Orders :
       AskCancel(p, o) \/ \E s \in OrderStatuses : SetStatus(p, o, s)
  \/ ReadOrder(p) \/ Cancel(p)
  \/ BulkFail(p) \/ Refund(p) \/ WriteStatus(p)

PartnerStep(p) ==
  \/ \E o \in Orders : ReportStop(p, o)
  \/ WriteReport(p)

BillStep(p) ==
  \/ \E b \in Bills : AskPayBill(p, b) \/ AdminPays(p, b)
  \/ ReadBill(p) \/ Debit(p) \/ MarkBillPaid(p) \/ RecordCash(p)

UnlockedStep(p) ==
  \/ AskAdjust(p, "credit", 1) \/ AskAdjust(p, "debit", -1)
  \/ Adjust(p) \/ AddEntry(p) \/ Subscribe(p)

Next ==
  \/ \E o \in Orders : DatePasses(o)
  \/ \E b \in Bills : RaiseBill(b)
  \/ \E p \in Handlers :
       \/ OneStep(p) \/ OrderStep(p) \/ PartnerStep(p) \/ BillStep(p)
       \/ UnlockedStep(p) \/ Crash(p)

Spec == Init /\ [][Next]_vars

-----------------------------------------------------------------------------
(* Properties.                                                             *)

\* The single-writer promise: through WalletLedgerService, and the transactions
\* that lock the wallet, it is an account whose every movement has its entry
\* and which never goes negative.
Ledger == INSTANCE Account WITH book <- ledger
AccountSpec == Ledger!Spec

\* What WalletReconciliationService.findLedgerDrift looks for: outside the
\* window between an update and its entry, the balance is the ledger's sum.
LedgerMatches ==
  (\A p \in Handlers : ~At(p, "entry")) => balance = ledger

\* A bill that payBillFromWallet, the gateway or an admin marked paid was paid.
PaidBillHasMoney ==
  \A b \in Bills : bill[b] = "paid" => payments[b] > 0 \/ b \in atGateway

\* An order whose payment_status is refunded has its ledger entry, although
\* the credit and the status are separate transactions and the credit may fail.
RefundedOrderHasCredit ==
  \A o \in Orders : order[o].pay = "refunded" => failRefunds[o] > 0

\* The inductive invariant of the proofs.  A handler about to mark a bill paid
\* has paid it; one that holds isRefunded is about to write the status of an
\* order it has credited.
IInv ==
  /\ TypeOK
  /\ PaidBillHasMoney
  /\ \A p \in Handlers : At(p, "markPaid") => payments[Obj(p)] > 0
  /\ RefundedOrderHasCredit
  /\ \A p \in Handlers : handler[p].refunded
                           => At(p, "setStatus") /\ failRefunds[Obj(p)] > 0

\* When requests do not overlap, an order is not refunded again by staff who
\* fail it, singly or in bulk, for as long as it says refunded.
RefundedNotAgain ==
  [][\A o \in Orders : order[o].pay = "refunded"
                          => failRefunds'[o] = failRefunds[o]]_vars

\* Nothing locks a bill between the check that it is unpaid and the debit: all
\* the requests that overlap may pay it.  No more than that is lost: once one of
\* them, or the gateway, has marked it no other begins, and a handler pays again
\* only if it died between payment and mark.  Requests that do not overlap pay it
\* once.
BillPaidPerHandler ==
  \A b \in Bills : payments[b] <= Cardinality(Handlers) + crashes

\* The same of refunds: staff who fail an order at once, singly or in bulk, may
\* each refund it, from the status or the list they read.  Unless a partner's
\* report marks it paid again, it is refunded no more often than that.
RefundedPerHandler ==
  \A o \in Orders \ repaid : failRefunds[o] <= Cardinality(Handlers) + crashes

\* However the writers of the balance overlap, those that bypass the service and
\* add their entry in a second statement too: it differs from the ledger by one
\* entry per crash at most, until one writes a balance that it had read before
\* another moved it.
DriftOnlyByCrash ==
  ~overwritten /\ (\A p \in Handlers : ~At(p, "entry"))
    => balance - ledger \in (0 - crashes)..crashes
=============================================================================
