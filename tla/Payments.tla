------------------------------ MODULE Payments ------------------------------
(***************************************************************************)
(* The life of a row of payment_transactions in the API process:           *)
(* CustomerPaymentService (payment.service.ts), the reconciliation cron    *)
(* and the two callers that spend an online payment, the cart checkout and *)
(* the subscription checkout.                                              *)
(*                                                                         *)
(* Every handler is a sequence of awaited SQL statements and gateway       *)
(* calls.  One action is one of them: between two actions of a handler     *)
(* any other handler may run, the process may die and the gateway may      *)
(* change its mind.  A statement is atomic, and so is what runs inside one *)
(* database transaction.                                                   *)
(***************************************************************************)
EXTENDS Naturals, FiniteSets

CONSTANTS
  Txns,            \* payment transactions (one Razorpay order each), numbered
                   \* in the order their rows are created
  Handlers,        \* concurrently running request handlers and cron runs
  NoTxn,           \* a handler that works on no transaction
  Purposes,        \* the purposes an instance creates
  Ops,             \* the entry points an instance calls
  Timers,          \* the deadlines an instance lets pass
  FailedAttempts,  \* may an attempt fail, or be presented while unpaid?
  Refunds,         \* may a captured payment be refunded at the gateway?
  CreditMayFail,   \* may a settlement transaction roll back?
  BatchSize,       \* the LIMIT of the cron's two queries
  MaxCrashes       \* bound on handlers that die between two statements

AllPurposes == {"wallet_topup", "bill", "order", "subscription"}
AllOps      == {"verify", "check", "webhook", "checkout", "subscribe", "cron"}
AllTimers   == {"created10m", "created20m", "created48h", "paid20m"}
EventKinds  == {"authorized", "captured", "failed", "refunded"}

ASSUME ConstantsAssumption ==
  /\ Txns \subseteq Nat
  /\ NoTxn \notin Txns
  /\ Purposes \subseteq AllPurposes
  /\ Ops \subseteq AllOps
  /\ Timers \subseteq AllTimers
  /\ FailedAttempts \in BOOLEAN
  /\ Refunds \in BOOLEAN
  /\ CreditMayFail \in BOOLEAN
  /\ BatchSize \in Nat \ {0}
  /\ MaxCrashes \in Nat

VARIABLES
  row,       \* payment_transactions, by transaction
  gateway,   \* what Razorpay did with the order of a transaction
  elapsed,   \* the deadlines that have passed, by transaction
  events,    \* payment_webhook_events: the <<transaction, kind>> seen
  credits,   \* wallet ledger entries that carry the transaction's id
  settled,   \* bill settlements that carry the transaction's id
  orders,    \* orders and subscriptions that consumed the transaction
  unbacked,  \* transactions some paid subscription names without having
             \* consumed them
  failures,  \* history: transactions one of whose settlements failed
  handler,   \* where each handler is
  crashes

vars == <<row, gateway, elapsed, events, credits, settled, orders, unbacked,
          failures, handler, crashes>>

ledgers == <<credits, settled, orders, unbacked>>
customer == <<gateway, elapsed, events>>
outside == <<customer, failures, crashes>>

Statuses == {"absent", "created", "paid", "fulfilled", "failed", "refunded"}

Row == [status  : Statuses,
        purpose : AllPurposes,
        ref     : {"none", "named", "pending", "order"},
        pid     : {"none", "failed", "captured"},   \* provider_payment_id
        paidAt  : BOOLEAN]                          \* paid_at IS NOT NULL

Labels == {"idle", "ask", "markPaid", "reread", "markFailed", "markRefunded",
           "read", "claim", "settle", "unclaim", "consume", "order", "create",
           "attach", "poll", "pollMark", "scan", "sweep", "sweepCredit"}

Handler == [pc   : Labels,
            op   : AllOps,
            cur  : Txns \cup {NoTxn},  \* the row the next statement is about
            list : SUBSET Txns]        \* rows a cron or sweep loop has left

Idle == [pc |-> "idle", op |-> "cron", cur |-> NoTxn, list |-> {}]

DataType ==
  /\ row \in [Txns -> Row]
  /\ gateway \in [Txns -> SUBSET {"failed", "captured", "refunded"}]
  /\ elapsed \in [Txns -> SUBSET AllTimers]
  /\ events \in SUBSET (Txns \X EventKinds)
  /\ credits \in [Txns -> Nat]
  /\ settled \in [Txns -> Nat]
  /\ orders \in [Txns -> Nat]
  /\ unbacked \in SUBSET Txns
  /\ failures \in SUBSET Txns
  /\ crashes \in Nat

\* At these labels a handler need not be at work on a row.
Free == {"idle", "poll", "scan", "sweep"}

HandlerType ==
  /\ handler \in [Handlers -> Handler]
  /\ \A p \in Handlers : handler[p].pc \notin Free => handler[p].cur \in Txns

TypeOK == DataType /\ HandlerType

-----------------------------------------------------------------------------
(* Control of a handler.                                                   *)

At(p, label) == handler[p].pc = label
Cur(p) == handler[p].cur

Start(p, o, t, label) ==
  handler' = [handler EXCEPT ![p] = [pc |-> label, op |-> o, cur |-> t,
                                     list |-> {}]]

Goto(p, label) == handler' = [handler EXCEPT ![p].pc = label]

\* A loop turns to the next row of its list, or goes on to a new list.
TakeUp(p, t, label) ==
  handler' = [handler EXCEPT
               ![p] = [@ EXCEPT !.pc = label, !.cur = t,
                                !.list = handler[p].list \ {t}]]

Skip(p, t) == handler' = [handler EXCEPT ![p].list = @ \ {t}]

Enumerate(p, label, set) ==
  handler' = [handler EXCEPT ![p] = [@ EXCEPT !.pc = label, !.list = set]]

\* The request is answered, or its exception propagates to the client.  A
\* cron run logs the error and turns to its next transaction; the subscription
\* checkout swallows the error of the payment gate and creates the
\* subscription all the same.
Leave(p) ==
  IF handler[p].op = "cron" THEN Goto(p, "poll")
  ELSE handler' = [handler EXCEPT ![p] = Idle]

Reject(p) ==
  IF handler[p].op = "subscribe" THEN Goto(p, "create") ELSE Leave(p)

-----------------------------------------------------------------------------
(* What the code reads in a row and at the gateway.                        *)

\* Not settled by fulfil(): the checkout that creates the order consumes it.
AwaitsCheckout(r) ==
  \/ r.purpose = "order"
  \/ r.purpose = "subscription" /\ r.ref = "none"

\* fetchPayment / fetchOrderPayments show a captured or authorized payment.
Captured(t) == "captured" \in gateway[t] /\ "refunded" \notin gateway[t]

\* items.length > 0 and every item failed.
AllFailed(t) == gateway[t] = {"failed"}

\* Mutation: the sweep forgets which reference a fulfilled row carries.
SweepableAny(r) ==
  /\ r.purpose = "order"
  /\ \/ r.status = "paid" /\ r.ref = "none"
     \/ r.status = "fulfilled"

Sweepable(r) ==
  /\ r.purpose = "order"
  /\ \/ r.status = "paid" /\ r.ref = "none"
     \/ r.status = "fulfilled" /\ r.ref = "pending"

Stranded == {t \in Txns : Sweepable(row[t]) /\ "paid20m" \in elapsed[t]}

\* LIMIT without an order: the whole set, or any BatchSize of its rows.
Batches(set) ==
  {batch \in SUBSET set : \/ batch = set /\ Cardinality(set) <= BatchSize
                          \/ Cardinality(batch) = BatchSize}

Unanswered == {t \in Txns : /\ row[t].status = "created"
                            /\ "created10m" \in elapsed[t]
                            /\ "created48h" \notin elapsed[t]}

\* The BatchSize oldest of them.
PollBatch ==
  {t \in Unanswered : Cardinality({u \in Unanswered : u < t}) < BatchSize}

(* The statements that change a row.                                       *)

Final == {"fulfilled", "refunded"}

FirstId(old, new) == IF old = "none" THEN new ELSE old

\* Mutation: a late callback sets 'paid' whatever the status is.
PaidRowAlways(r) == [r EXCEPT !.status = "paid", !.pid = FirstId(@, "captured"),
                              !.paidAt = TRUE]

PaidRow(r) == [r EXCEPT !.status = IF @ \in Final THEN @ ELSE "paid",
                        !.pid    = FirstId(@, "captured"),
                        !.paidAt = TRUE]

\* Mutation: a failure event reopens what is settled.
FailedRowAlways(r, id) == [r EXCEPT !.status = "failed", !.pid = FirstId(@, id)]

FailedRow(r, id) == [r EXCEPT !.status = IF @ \in Final THEN @ ELSE "failed",
                              !.pid    = FirstId(@, id)]

\* Mutation: the claim leaves the row claimable.
ClaimedRowOpen(r) == [r EXCEPT !.paidAt = TRUE]

ClaimedRow(r) == [r EXCEPT !.status = "fulfilled"]

\* Mutation: the claim is not rolled back.
UnclaimedRowKept(r) == [r EXCEPT !.pid = "captured"]

UnclaimedRow(r) == [r EXCEPT !.status = "paid"]

\* Mutation: the reference is set but not the status.
ConsumedRowOpen(r) == [r EXCEPT !.ref = "pending"]

ConsumedRow(r) == [r EXCEPT !.status = "fulfilled", !.ref = "pending"]

\* Mutation: a status the table's CHECK constraint does not know.
SweptRowUnknown(r) == [r EXCEPT !.status = "swept", !.purpose = "wallet_topup"]

SweptRow(r) == [r EXCEPT !.status  = "fulfilled",
                         !.purpose = "wallet_topup",
                         !.ref     = "none"]

Update(t, r) == row' = [row EXCEPT ![t] = r]

-----------------------------------------------------------------------------
(* The customer and the gateway.                                           *)

Init ==
  /\ row = [t \in Txns |-> [status |-> "absent", purpose |-> "wallet_topup",
                            ref |-> "none", pid |-> "none",
                            paidAt |-> FALSE]]
  /\ gateway = [t \in Txns |-> {}]
  /\ elapsed = [t \in Txns |-> {}]
  /\ events = {}
  /\ credits = [t \in Txns |-> 0]
  /\ settled = [t \in Txns |-> 0]
  /\ orders = [t \in Txns |-> 0]
  /\ unbacked = {}
  /\ failures = {}
  /\ handler = [p \in Handlers |-> Idle]
  /\ crashes = 0

\* createOrder: the Razorpay order exists before the row is inserted, but the
\* client learns its id only afterwards, so no payment can precede the row.  A
\* client may name a reference for any purpose and must name the bill it pays.
CreateOrder(t, purpose, ref) ==
  /\ row[t].status = "absent"
  /\ \A u \in Txns : u < t => row[u].status # "absent"
  /\ purpose \in Purposes
  /\ purpose = "bill" => ref = "named"
  /\ Update(t, [row[t] EXCEPT !.status = "created", !.purpose = purpose,
                              !.ref = ref])
  /\ UNCHANGED <<ledgers, handler, outside>>

AttemptFails(t) ==
  /\ FailedAttempts
  /\ row[t].status # "absent"
  /\ gateway[t] = {}
  /\ gateway' = [gateway EXCEPT ![t] = {"failed"}]
  /\ UNCHANGED <<row, elapsed, events, ledgers, failures, handler, crashes>>

Capture(t) ==
  /\ row[t].status # "absent"
  /\ "captured" \notin gateway[t]
  /\ gateway' = [gateway EXCEPT ![t] = @ \cup {"captured"}]
  /\ UNCHANGED <<row, elapsed, events, ledgers, failures, handler, crashes>>

RefundAtGateway(t) ==
  /\ Refunds
  /\ Captured(t)
  /\ gateway' = [gateway EXCEPT ![t] = @ \cup {"refunded"}]
  /\ UNCHANGED <<row, elapsed, events, ledgers, failures, handler, crashes>>

\* Time passes: created_at and paid_at fall behind the intervals of the code,
\* created_at of an older row no later than that of a younger one.
Elapse(t, timer) ==
  /\ timer \in Timers \ elapsed[t]
  /\ row[t].status # "absent"
  /\ timer = "created20m" => "created10m" \in elapsed[t]
  /\ timer = "created48h" => "created20m" \in elapsed[t]
  /\ IF timer = "paid20m"
       THEN row[t].paidAt /\ "created20m" \in elapsed[t]
       ELSE \A u \in Txns : u < t => timer \in elapsed[u]
  /\ elapsed' = [elapsed EXCEPT ![t] = @ \cup {timer}]
  /\ UNCHANGED <<row, gateway, events, ledgers, failures, handler, crashes>>

-----------------------------------------------------------------------------
(* The entry points: the first read of each handler.                       *)

\* What a client presents: a captured payment with its signature, or one that
\* fails the checks.
Presented(t) == Captured(t) \/ FailedAttempts \/ gateway[t] # {}

\* Mutation: the signature is trusted and the payment is not fetched.
VerdictTrusting(t) == "markPaid"

Verdict(t) == IF Captured(t) THEN "markPaid" ELSE "markFailed"

\* verifyPayment: every check that fails ends in markFailed.
StartVerify(p, t) ==
  /\ At(p, "idle") /\ "verify" \in Ops
  /\ row[t].status # "absent" /\ Presented(t)
  /\ Start(p, "verify", t, Verdict(t))
  /\ UNCHANGED <<row, ledgers, outside>>

\* checkOrderStatus.  A fulfilled, failed or refunded row is answered at once.
StartCheck(p, t) ==
  /\ At(p, "idle") /\ "check" \in Ops
  /\ \/ row[t].status = "paid" /\ ~AwaitsCheckout(row[t]) /\ Start(p, "check", t, "read")
     \/ row[t].status = "created" /\ Start(p, "check", t, "ask")
  /\ UNCHANGED <<row, ledgers, outside>>

Emitted(t, kind) ==
  IF kind = "authorized" THEN "captured" \in gateway[t] ELSE kind \in gateway[t]

\* handleWebhook.  The unique index turns a second delivery of an event into
\* a no-op; a first delivery is recorded before it is acted upon.
StartWebhook(p, t, kind) ==
  /\ At(p, "idle") /\ "webhook" \in Ops
  /\ Emitted(t, kind)
  /\ <<t, kind>> \notin events
  /\ events' = events \cup {<<t, kind>>}
  /\ Start(p, "webhook", t, CASE kind = "failed"   -> "markFailed"
                              [] kind = "refunded" -> "markRefunded"
                              [] OTHER             -> "markPaid")
  /\ UNCHANGED <<row, gateway, elapsed, ledgers, failures, crashes>>

\* consumeOrderPayment, called by the cart checkout ("checkout") or by the
\* subscription checkout ("subscribe").  A row that is not 'paid' yet is
\* verified at the gateway first.
StartConsume(p, o, t) ==
  /\ At(p, "idle") /\ o \in Ops \cap {"checkout", "subscribe"}
  /\ row[t].status # "absent"
  /\ \/ /\ row[t].purpose \in {"order", "subscription"}
        /\ row[t].status # "fulfilled"
        /\ row[t].status # "paid" => Presented(t)
        /\ Start(p, o, t, IF row[t].status = "paid" THEN "consume"
                          ELSE Verdict(t))
     \/ \* refused before anything is written
        /\ o = "subscribe"
        /\ \/ row[t].purpose \notin {"order", "subscription"}
           \/ row[t].status # "paid"
        /\ Start(p, o, t, "create")
  /\ UNCHANGED <<row, ledgers, outside>>

\* sweepStrandedPayments: first the rows to poll, then the stranded orders.
StartCron(p) ==
  /\ At(p, "idle") /\ "cron" \in Ops
  /\ Enumerate(p, "poll", PollBatch)
  /\ UNCHANGED <<row, ledgers, outside>>

-----------------------------------------------------------------------------
(* Status transitions.                                                     *)

\* checkOrderStatus and the poll ask the gateway for the order's payments.
AskGateway(p) ==
  /\ At(p, "ask")
  /\ IF Captured(Cur(p))
       THEN Goto(p, IF handler[p].op = "cron" THEN "pollMark" ELSE "markPaid")
       ELSE IF AllFailed(Cur(p)) THEN Goto(p, "markFailed") ELSE Leave(p)
  /\ UNCHANGED <<row, ledgers, outside>>

MarkPaid(p) ==
  LET t == Cur(p) IN
  /\ At(p, "markPaid")
  /\ Update(t, PaidRow(row[t]))
  /\ CASE handler[p].op \in {"checkout", "subscribe"} -> Goto(p, "consume")
       [] handler[p].op = "check"                     -> Goto(p, "reread")
       [] handler[p].op = "webhook" /\ row[t].purpose = "order" -> Leave(p)
       [] OTHER                                       -> Goto(p, "read")
  /\ UNCHANGED <<ledgers, outside>>

\* checkOrderStatus re-reads the row it just marked.  An order older than
\* twenty minutes makes it run the sweep of stranded orders.
Reread(p) ==
  LET t == Cur(p) IN
  /\ At(p, "reread")
  /\ CASE ~AwaitsCheckout(row[t]) -> Goto(p, "read")
       [] row[t].purpose = "order" /\ "created20m" \in elapsed[t] ->
            Goto(p, "scan")
       [] OTHER -> Leave(p)
  /\ UNCHANGED <<row, ledgers, outside>>

MarkFailed(p) ==
  LET t == Cur(p) IN
  /\ At(p, "markFailed")
  /\ \E id \in {"failed", "captured"} :
       \* a client may present an attempt that is captured later
       /\ id = "captured" => handler[p].op \in {"verify", "checkout", "subscribe"}
       /\ Update(t, FailedRow(row[t], id))
  /\ Reject(p)
  /\ UNCHANGED <<ledgers, outside>>

\* refund.processed is matched by the captured payment's id.
MarkRefunded(p) ==
  LET t == Cur(p) IN
  /\ At(p, "markRefunded")
  /\ IF row[t].pid = "captured"
       THEN Update(t, [row[t] EXCEPT !.status = "refunded"])
       ELSE UNCHANGED row
  /\ Leave(p)
  /\ UNCHANGED <<ledgers, outside>>

-----------------------------------------------------------------------------
(* fulfil: claim the row, run the side effect, or roll the claim back.     *)

FulfilRead(p) ==
  /\ At(p, "read")
  /\ IF AwaitsCheckout(row[Cur(p)]) THEN Leave(p) ELSE Goto(p, "claim")
  /\ UNCHANGED <<row, ledgers, outside>>

Claim(p) ==
  LET t == Cur(p) IN
  /\ At(p, "claim")
  /\ IF row[t].status = "paid"
       THEN /\ Update(t, ClaimedRow(row[t]))
            /\ Goto(p, "settle")
       ELSE /\ Leave(p)
            /\ UNCHANGED row
  /\ UNCHANGED <<ledgers, outside>>

\* fulfilWalletTopup or fulfilBillPayment, each one database transaction.
Settle(p) ==
  LET t == Cur(p) IN
  /\ At(p, "settle")
  /\ row[t].purpose # "order"
  /\ IF row[t].purpose = "wallet_topup"
       THEN /\ credits' = [credits EXCEPT ![t] = @ + 1]
            /\ UNCHANGED settled
       ELSE /\ settled' = [settled EXCEPT ![t] = @ + 1]
            /\ UNCHANGED credits
  /\ Leave(p)
  /\ UNCHANGED <<row, orders, unbacked, outside>>

SettleFails(p) ==
  /\ At(p, "settle")
  /\ CreditMayFail \/ row[Cur(p)].purpose = "order"
  /\ failures' = failures \cup {Cur(p)}
  /\ Goto(p, "unclaim")
  /\ UNCHANGED <<row, ledgers, customer, crashes>>

Unclaim(p) ==
  /\ At(p, "unclaim")
  /\ Update(Cur(p), UnclaimedRow(row[Cur(p)]))
  /\ Leave(p)
  /\ UNCHANGED <<ledgers, outside>>

-----------------------------------------------------------------------------
(* Checkout: consume the payment, write the order, attach its id.          *)

Consume(p) ==
  LET t == Cur(p) IN
  /\ At(p, "consume")
  /\ \/ /\ row[t].status = "paid"
        /\ Update(t, ConsumedRow(row[t]))
        /\ Goto(p, "order")
     \/ \* the row is not 'paid' any more, or the price has gone up
        /\ Reject(p)
        /\ UNCHANGED row
  /\ UNCHANGED <<ledgers, outside>>

\* The order (or subscription) transaction commits ...
PlaceOrder(p) ==
  LET t == Cur(p) IN
  /\ At(p, "order")
  /\ orders' = [orders EXCEPT ![t] = @ + 1]
  /\ Goto(p, "attach")
  /\ UNCHANGED <<row, credits, settled, unbacked, outside>>

\* ... or rolls back: out of stock, a failed insert.  Nobody releases the
\* payment; the sweep is left to find it.
OrderFails(p) ==
  /\ At(p, "order")
  /\ Leave(p)
  /\ UNCHANGED <<row, ledgers, outside>>

AttachReference(p) ==
  LET t == Cur(p) IN
  /\ At(p, "attach")
  /\ Update(t, [row[t] EXCEPT !.ref = "order"])
  /\ Leave(p)
  /\ UNCHANGED <<ledgers, outside>>

\* The subscription checkout after a payment gate that threw: a subscription
\* with a bill marked paid by this transaction.
CreateUnbacked(p) ==
  /\ At(p, "create")
  /\ unbacked' = unbacked \cup {Cur(p)}
  /\ Leave(p)
  /\ UNCHANGED <<row, credits, settled, orders, outside>>

-----------------------------------------------------------------------------
(* The cron: poll the gateway, then sweep stranded orders.                 *)

PollNext(p) ==
  /\ At(p, "poll")
  /\ IF handler[p].list = {} THEN Goto(p, "scan")
     ELSE \E t \in handler[p].list : TakeUp(p, t, "ask")
  /\ UNCHANGED <<row, ledgers, outside>>

\* Mutation: the poll leaves the settlement to the callback.
PollMarkOnly(p) ==
  LET t == Cur(p) IN
  /\ At(p, "pollMark")
  /\ IF row[t].status = "created" THEN Update(t, PaidRow(row[t])) ELSE UNCHANGED row
  /\ Goto(p, "poll")
  /\ UNCHANGED <<ledgers, outside>>

PollMark(p) ==
  LET t == Cur(p) IN
  /\ At(p, "pollMark")
  /\ IF row[t].status = "created"
       THEN /\ Update(t, PaidRow(row[t]))
            /\ Goto(p, IF AwaitsCheckout(row[t]) THEN "poll" ELSE "read")
       ELSE /\ Goto(p, "poll")
            /\ UNCHANGED row
  /\ UNCHANGED <<ledgers, outside>>

SweepScan(p) ==
  /\ At(p, "scan")
  /\ \E batch \in Batches(Stranded) : Enumerate(p, "sweep", batch)
  /\ UNCHANGED <<row, ledgers, outside>>

SweepClaim(p) ==
  /\ At(p, "sweep")
  /\ \E t \in handler[p].list :
       IF Sweepable(row[t])
         THEN Update(t, SweptRow(row[t])) /\ TakeUp(p, t, "sweepCredit")
         ELSE Skip(p, t) /\ UNCHANGED row
  /\ UNCHANGED <<ledgers, outside>>

SweepCredit(p) ==
  LET t == Cur(p) IN
  /\ At(p, "sweepCredit")
  /\ credits' = [credits EXCEPT ![t] = @ + 1]
  /\ Goto(p, "sweep")
  /\ UNCHANGED <<row, settled, orders, unbacked, outside>>

\* The error is logged and the loop goes on; the claim stays.
SweepCreditFails(p) ==
  /\ At(p, "sweepCredit")
  /\ CreditMayFail
  /\ failures' = failures \cup {Cur(p)}
  /\ Goto(p, "sweep")
  /\ UNCHANGED <<row, ledgers, customer, crashes>>

\* The handler goes on; checkOrderStatus only replies.
SweepDone(p) ==
  /\ At(p, "sweep")
  /\ handler[p].list = {}
  /\ handler' = [handler EXCEPT ![p] = Idle]
  /\ UNCHANGED <<row, ledgers, outside>>

-----------------------------------------------------------------------------
\* The process dies, or a statement outside any try block fails.
Crash(p) ==
  /\ ~At(p, "idle")
  /\ crashes < MaxCrashes
  /\ crashes' = crashes + 1
  /\ handler' = [handler EXCEPT ![p] = Idle]
  /\ UNCHANGED <<row, customer, ledgers, failures>>

Customer(t) ==
  \/ \E purpose \in AllPurposes, ref \in {"none", "named"} :
       CreateOrder(t, purpose, ref)
  \/ AttemptFails(t)
  \/ Capture(t)
  \/ RefundAtGateway(t)

Request(p) ==
  \E t \in Txns :
    \/ StartVerify(p, t)
    \/ StartCheck(p, t)
    \/ \E kind \in EventKinds : StartWebhook(p, t, kind)
    \/ \E o \in {"checkout", "subscribe"} : StartConsume(p, o, t)

\* One statement of a running handler.
Step(p) ==
  \/ AskGateway(p) \/ MarkPaid(p) \/ Reread(p)
  \/ MarkFailed(p) \/ MarkRefunded(p)
  \/ FulfilRead(p) \/ Claim(p)
  \/ Settle(p) \/ SettleFails(p) \/ Unclaim(p)
  \/ Consume(p) \/ PlaceOrder(p) \/ OrderFails(p)
  \/ AttachReference(p) \/ CreateUnbacked(p)
  \/ PollNext(p) \/ PollMark(p)
  \/ SweepScan(p) \/ SweepClaim(p)
  \/ SweepCredit(p) \/ SweepCreditFails(p) \/ SweepDone(p)

Next ==
  \/ \E t \in Txns : Customer(t)
  \/ \E t \in Txns, timer \in AllTimers : Elapse(t, timer)
  \/ \E p \in Handlers : Request(p) \/ StartCron(p) \/ Step(p) \/ Crash(p)

Spec == Init /\ [][Next]_vars

\* The event loop resumes every handler, the cron ticks for ever, Razorpay
\* delivers its events until they are answered, and time passes.  No customer
\* need come back.
Fairness ==
  /\ \A p \in Handlers : WF_vars(Step(p)) /\ SF_vars(StartCron(p))
  /\ \A t \in Txns, kind \in EventKinds :
       SF_vars(\E p \in Handlers : StartWebhook(p, t, kind))
  /\ \A t \in Txns, timer \in AllTimers : WF_vars(Elapse(t, timer))

FairSpec == Spec /\ Fairness

-----------------------------------------------------------------------------
(* Safety.                                                                 *)

CreditLabels == {"settle", "unclaim", "sweepCredit"}

Working(p, t) == Cur(p) = t /\ handler[p].pc \in CreditLabels

\* The payment's money is in the wallet or on its bill.
Settled(t) == credits[t] + settled[t] > 0

\* However the callback, the webhook, the status check, the cron and the sweep
\* race, retry, fail and die, one captured payment moves the wallet or a bill
\* at most once.
CreditedAtMostOnce == \A t \in Txns : credits[t] + settled[t] <= 1

\* No two checkouts, of a cart or of a subscription, consume one payment.
OrderedAtMostOnce == \A t \in Txns : orders[t] <= 1

\* Wallet credits, bill settlements and orders rest on captured money, though
\* each entry point checks the gateway long before the effect.
MoneyBehindEveryEffect ==
  \A t \in Txns : Settled(t) \/ orders[t] > 0 => "captured" \in gateway[t]

\* The promise of fulfil(), "Runs the side effect for a paid transaction exactly
\* once", and of the checkouts: every step of every handler is one of Settlement
\* or none.  What a step adds is the first effect of captured money, and no
\* failure, rollback or refund takes one back.
Money == INSTANCE Settlement
           WITH captured <- {t \in Txns : "captured" \in gateway[t]}
SettlementSpec == Money!Spec

\* A claim without its side effect is the work of a live handler: while no
\* process dies, a fulfilled bill, or a top-up that no sweep can have made of
\* an order, is settled or about to be settled or released.
ClaimIsBacked ==
  crashes = 0 =>
    \A t \in Txns :
      /\ row[t].status = "fulfilled"
      /\ \/ row[t].purpose = "bill"
         \/ row[t].purpose = "wallet_topup" /\ "paid20m" \notin elapsed[t]
      => Settled(t) \/ \E p \in Handlers : Working(p, t)

\* An order whose payment carries its id keeps that payment, although a sweep
\* may have listed the payment as stranded before the id was attached.
AttachedOrderStays ==
  [][\A t \in Txns : row[t].purpose = "order" /\ row[t].ref = "order"
                       => row'[t].purpose = "order"]_vars

\* Captured money that has been neither used nor given back.
Outstanding(t) ==
  /\ "captured" \in gateway[t] /\ "refunded" \notin gateway[t]
  /\ ~Settled(t) /\ orders[t] = 0

\* The poll asks for the row, for two days, or the sweep will take it up.
InSight(t) == row[t].status = "created" \/ Sweepable(row[t])

\* A handler is on its way to the effect of the payment.
InHand(t) ==
  \E p \in Handlers :
    /\ Cur(p) = t
    /\ handler[p].pc \in {"reread", "read", "claim", "settle", "sweepCredit"}

\* The cron looks for two kinds of rows only.  No race of callbacks, checkouts
\* and sweeps leaves the captured money of an order that named no reference
\* outside them, whoever dies, unless the row says that an attempt failed.
\* Nor that of a top-up or a bill, if nobody dies, unless a handler is about to
\* settle it, the row says failed, or a settlement or sweep has failed.
OrdersInSight ==
  \A t \in Txns :
    Outstanding(t) /\ row[t].purpose = "order" /\ row[t].ref # "named"
      => InSight(t) \/ row[t].status = "failed"

TopupsInSight ==
  crashes = 0 =>
    \A t \in Txns :
      Outstanding(t) /\ row[t].purpose \in {"wallet_topup", "bill"}
        => InSight(t) \/ InHand(t) \/ row[t].status = "failed" \/ t \in failures

NothingStranded == OrdersInSight /\ TopupsInSight

\* A settled payment can only be refunded: no late callback, failure event or
\* check reopens it.
SettledStaysClosed ==
  [][\A t \in Txns : Settled(t) => row'[t].status \in Final]_vars

-----------------------------------------------------------------------------
(* Why it is safe.  A row outside its final states has had no effect; a     *)
(* handler about to have one holds the row alone, and the row is closed to  *)
(* every statement that could hand it to somebody else.                     *)

RowSound(t) ==
  /\ row[t].status = "absent" => row[t].ref = "none" /\ gateway[t] = {}
  /\ row[t].status \in {"paid", "fulfilled"} => "captured" \in gateway[t]
  /\ row[t].status \notin Final => ~Settled(t) /\ orders[t] = 0
  /\ row[t].purpose = "order" => ~Settled(t)

\* What a handler may rely on at the statement it has reached.
HandlerSound(p) ==
  /\ \A t \in handler[p].list : row[t].status # "absent"
  /\ \A t \in Txns :
       Cur(p) = t =>
         /\ row[t].status # "absent"
         /\ handler[p].pc \in CreditLabels \cup {"markPaid", "pollMark", "order"}
              => "captured" \in gateway[t]
         /\ handler[p].pc \in CreditLabels \cup {"order"}
              => row[t].status \in Final
         /\ handler[p].pc \in CreditLabels \cup {"claim"}
              => row[t].purpose # "order"
         /\ handler[p].pc \in CreditLabels => ~Settled(t)
         /\ handler[p].pc \in {"settle", "unclaim", "order"} => orders[t] = 0

\* Two handlers that are both about to move the money of one payment.
Conflict(a, b) ==
  \/ a \in CreditLabels /\ b \in CreditLabels
  \/ a = "order" /\ b \in {"order", "settle", "unclaim"}

HoldersExclusive ==
  \A p, q \in Handlers :
    Cur(p) \in Txns /\ Cur(p) = Cur(q) /\ Conflict(handler[p].pc, handler[q].pc)
      => p = q

\* The inductive invariant of the module: with the three facts above, no
\* payment has two effects of one kind and none without captured money.
IInv ==
  /\ TypeOK
  /\ \A t \in Txns : RowSound(t)
  /\ \A p \in Handlers : HandlerSound(p)
  /\ HoldersExclusive
  /\ MoneyBehindEveryEffect
  /\ CreditedAtMostOnce
  /\ OrderedAtMostOnce

=============================================================================
