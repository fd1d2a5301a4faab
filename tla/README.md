# Formal model of the F2H backend

TLA+ modules for the parts of the F2H platform (`src/apps/api`, a NestJS
process over PostgreSQL, Redis and Razorpay) in which money moves and in which
a customer can lose a delivery or be charged twice; TLC configurations that
check them on small instances; and TLAPS proofs of what matters most, for every
value of the constants. `PROJECT.json` is the machine-readable index: every
component, run, mutant, source line, finding, hazard and theorem.

Paths below are relative to `src/apps/api/src/` unless they start with `apps/`.

## 1. The system

F2H delivers milk and groceries. Customers buy one-time orders from a cart or
hold a subscription that is turned into one order per scheduled day. They pay
from a prepaid wallet, online (Razorpay), on delivery, or monthly by a bill.
Staff work in an admin panel, drivers in a partner app, and seven crons keep
the rest going.

| Component | State it keeps | Operations | Hard behaviour | What makes it correct | Module |
|---|---|---|---|---|---|
| Online payments (`panels/customer/payment`) | `payment_transactions`, `payment_webhook_events` | create an order, verify the callback, poll the status, webhook, consume for a checkout, two reconciliations every 10 min | five entry points race for one captured payment; claim, effect and roll-back are separate statements; the process may die between them; webhooks come late, twice, out of order | one effect per payment, none without money, captured money is used, settled is final | `Payments`, `Settlement` |
| Wallet ledger (`shared/payments/wallet-ledger.service.ts`) | `customers.wallet_balance`, `customer_wallet_transactions` | credit, debit, locked by row | four other writers bypass it | balance and ledger move together, never negative | `Wallet`, `Account` |
| One-time orders (`panels/customer/orders`, `panels/admin/customers-orders/orders`, `panels/admin/delivery`, `panels/delivery-partner/orders`) | `orders.status`, `payment_status` | checkout, cancel, staff status, bulk failure, reports of a run | the refund and the status are separate transactions of five writers | what says refunded was refunded, and not twice | `Wallet` |
| Bills (`customer-billing`, `payment.service.ts`) | `customer_bills` | monthly run, pay by wallet, online, by admin | unlocked read before the debit; check-then-insert of the run | a paid bill was paid, once | `Wallet` |
| Pausing (`customers-orders/subscriptions/subscriptions.service.ts`) | `subscriptions.pause_*`, `subscription_pauses` | pause, resume, automatic resume | two tables for one fact, reads without locks, dates that pass meanwhile | both tables say the same of the days to come | `Refunds` |
| Order generation (`subscriptions/cron-job`, `shared/scheduling`, `shared/redis`) | `orders`, `order_items`, Redis cron and run locks with a TTL | the tick of every instance; a run per date, slot and branch, by the cron or an admin | crash between its steps, overlapping scopes, a TTL that passes under its run, a skipped tick | at most one run per lock, an order's items once per overlap, whatever is due is ordered | `Generation`; as two steps in `Refunds` |
| Subscription refunds (`subscriptions/refund-candidates`) | `subscription_refund_candidates`, payouts, `is_refunded` | scan, review, reject, approve, pay | concurrent admins and scans on lists read earlier | a missed day is credited once and finally, and stays payable until then | `Refunds`, `Claims` |
| Subscription lifecycle (`subscriptions/status`) | `subscriptions.status`, `end_date`, renewal attempts | daily run: renew, remind, postpaid fallback, expire | every renewal rolls back (see 6) | a renewal is paid, an unpaid one expires | not modelled (see 7) |
| Stock (`shared/services/stock-availability.service.ts`, `catalog-inventory/inventory`, `delivery-dispatch.service.ts`) | `available`, `reserved`, movements | reserve, dispatch, return, purchase, manual movement | one pool, many reservers, give-back by amount, an unlocked writer | never negative, the balance is the sum of its movements | `Stock`, `Delivery` |
| Delivery runs, dispatch and partner app (`panels/admin/delivery`, `catalog-inventory/warehouse/dispatch`, `panels/delivery-partner`) | runs, orders on them, dispatches and their items | create, optimise, load, pick up, start, report, close, hand over, return | staff, warehouse, app and optimiser on one run; edited handovers; polls that write | the balance is the sum of its movements, the stock is charged for what is loaded, only staff reopen a run that was handed over | `Delivery` |
| Referrals (`panels/customer/referral`, `auth`, `customer-bootstrap.controller.ts`) | `referrals`, `users.referred_by`, `first_order_completed` | refer at login, registration or the app's start; detect the first order, unlock the code, reward | check-then-write by concurrent deliveries, the app and staff write the detector's flag, a transaction that waits for a row another one pays | a referrer is credited once, and when nobody is there is a reason | `Referral`; its credit in `Wallet` |
| Discounts, catalogue, warehouse, branches, vendors, authentication, notifications, maps, finance and analytics pages, web and mobile clients | rows of their own | single statements, reads, I/O | little over time, or outside the core | | not modelled (reasons in `PROJECT.json`) |

How they interact: the cart and the subscription checkout call
`consumeOrderPayment` before and `attachOrderReference` after their own
transaction (shared row: `payment_transactions`); `fulfil`, the sweep, the
refunds of failed orders and the payout of candidates call
`WalletLedgerService` (shared row: the customer); orders are written by five
services that share nothing but the row; pausing, generation and the refund
scan share `subscription_pauses` and `orders` and meet only through dates. There
is no message bus: every interaction is a call, a row or the clock, so the
models have rows, handlers that run statement by statement, and a calendar.
`Delivery` composes with `Generation` and the checkout through the row of the
order (`Generate`, `Place`, `ConfirmOneTimeOrders`) and with the stock through
`Stock`, which it extends.

Conventions of every module: an action is one autocommitted statement, one
database transaction, or one read in a transaction that locks nothing
(PostgreSQL at READ COMMITTED). A handler is a record with a program counter;
between two of its actions any other handler may run, and the process may die.
Amounts are units: every order, bill and top-up costs one, because no property
below tells amounts apart. Names of actions follow the methods they model.
Operators whose comment begins with "Mutant" or "Mutation" are wrong variants
kept beside the definitions they vary, to show that a property would notice.

## 2. The modules

### Payments (`Payments.tla`, `Settlement.tla`, `MCPayments.tla`, `PaymentsProofs.tla`)

`row` is the table, one row per transaction: status, purpose, `reference_id`
(none, named by the client, `CHECKOUT_PENDING`, an order id), which attempt's
id is stored, and whether `paid_at` is set. `gateway` is what Razorpay did with
the order, `elapsed` the deadlines (10 and 20 minutes, 48 hours, 20 minutes
after `paid_at`) that have passed, `events` the webhook events on record.
`credits`, `settled`, `orders` and `unbacked` count effects and `failures`
collects the payments whose settlement or sweep credit has failed; none of them
is read by any action. Handlers start as a callback (`StartVerify`), a status check
(`StartCheck`), a webhook (`StartWebhook`), a cart or subscription checkout
(`StartConsume`) or the cron (`StartCron`), and walk through the labels of
`Labels`: `fulfil` is `FulfilRead`, `Claim`, `Settle`, `SettleFails`,
`Unclaim`; the sweep is `SweepScan` to `SweepDone`. The cron's two queries end in
`LIMIT 50`, `BatchSize` here: the poll takes the oldest `created` rows
(`PollBatch`; payments are numbered in the order of their rows), the sweep, which
does not order, any (`Batches`). A webhook event is recorded before it is acted
upon, so a second delivery of it does nothing. Abstracted: amounts and
signatures (a forged callback is one that is presented while nothing is
captured), the gateway's errors (the handler leaves, `Leave`), the bill
arithmetic of `fulfilBillPayment`.

`Settlement` is the abstract specification, without rows or handlers: captured
money moves the wallet or one bill, once, and pays for one order. `Payments`
implements it through `Money`, which maps the gateway to the captured payments
and the counters to themselves. `Outstanding`, `InSight` and `InHand` say of a
captured payment without effect where it is: in a row that the poll or the sweep
asks for, or with a handler that is alive; `NothingStranded` puts them together,
and names what it excuses. `InSight` is about the query's condition: that the
row also gets past the limit, and within the 48 hours, is not part of it.

### Wallet (`Wallet.tla`, `Account.tla`, `MCWallet.tla`, `WalletProofs.tla`,
`WalletOverlapProofs.tla`)

One customer with orders and bills. `balance` and `ledger` are the column and
the sum of its entries; `Move` is the transaction of `credit` and `debit`.
Orders have status, mode, `payment_status` and whether their day is past; a
bill is none, unpaid or paid. `failRefunds` and `payments` count what an order was
credited and a bill was paid; `atGateway` are the bills that a payment at the
gateway was added to, `repaid` the orders that a report marked paid after their
refund, and `overwritten` says that a balance was written which had been read
before another request moved it. None of the five is read by any action but for
the bounds. `LockedOps` are the entry points that
move the wallet under its row lock, `UnlockedOps` those that do not: the
cancellation of an order (`AskCancel`, `ReadOrder`, `Cancel`), the adjustment by
an admin (`AskAdjust`, `Adjust`, `AddEntry`) and the subscription checkout
(`Subscribe`, `AddEntry`), whose UPDATE subtracts from whatever the balance is
and is refused below zero by the CHECK of migration 010. `Account` is the
abstract specification: a balance that is never negative and a book that moves
with it. With `LockedOps` alone `Wallet` implements it through `Ledger == INSTANCE Account WITH book <- ledger`.

### Refunds (`Refunds.tla`, `Claims.tla`, `MCRefunds.tla`, `RefundsProofs.tla`,
`RefundsSerialProofs.tla`)

One prepaid subscription with one item in one slot, on a calendar (`today`)
that ends at `LastDay`. `window` is the pair of dates on the subscription that
suspends deliveries, `pauses` the rows that record why, `order` and `itemised`
the order of each scheduled day and whether it has items, `candidate` the
refund row of each day, `paid` the credits given for it. `AskPause`,
`CommitPause`, `AskResume`, `FindPause`, `Resume` (`CallOff` before the pause
begins, `CutShort` within it), `AutoResume` and `CompletePauses` are the
statements of `subscriptions.service.ts`; the day may change between any two.
`GenerateOrder` and `GenerateItems` are the two steps of a run. A scan
(`Scan`, or the hooks after an admin's pause and a failed stop) runs its two
queries side by side and inserts what they found, day by day. `Review`,
`Reject`, `AskApprove` and `PayOut` are the admin's decisions. `Abandon` ends
any handler anywhere.

`Claims` is the abstract specification: a day is claimed once it has come,
decided once together with the days of the same decision, and its money moves
with the decision. `Refunds` implements it through `Claim`. `Standing` takes a
row for an open claim until it is refunded or rejected: a reviewed one, which
`reviewCandidates` stores as `approved`, is open too, as the comments of the
repository say. That the code then neither pays nor rejects it is `OpenIsPayable`
and the run `Refunds_review`.

### Generation (`Generation.tla`, `MCGeneration.tla`, `GenerationProofs.tla`)

One date and slot. `ordered` and `items` are the orders of subscriptions and
how often their items were inserted, `status` the one-time orders, `claimed` the
cron lock of the minute, `lock` the `order_processing` lock of each scope: a
branch, or `AllBranches` for a run that names none. `Tick` is the cron of an
instance, `Trigger` the request of an admin; a run then takes its lock
(`AcquireLock`), inserts the orders that are due (`InsertOrders`), the items of
the orders that have none (`FindItemless`, `InsertItems`, only if it inserted an
order), confirms the one-time orders (`ConfirmOneTime`) and releases its lock if
the token is still its own (`Release`). `active` and `scheduled` are what makes a
subscription due; customers change both at any time. `Fail`, `Die`, `MissTick`,
`Expire` and `Outlive` are the faults: a statement that fails, a process that
dies, an instance that is down in its minute, a TTL that passes with and without
a run. Abstracted: calendars and pauses (a subscription is due or not), prices,
the several items of an order, the audit log.

### Stock and Delivery (`Stock.tla`, `Delivery.tla`, `MCDelivery.tla`, `DeliveryProofs.tla`)

`Stock` is one row of `stock_balances` and what each call does to it while it
holds the row; `moved` is the sum of its movements and `twice` the goods that a
return adds a second time. `Delivery` has one partner, one day and
one slot: the orders (`status`, `run`, and whether the partner is theirs, `mine`),
the runs, a dispatch with one item for each run, and the stock. Admins make runs
(`CreateRun`), give an order to the partner or to another without a run
(`AssignPartner`) and approve the partner's leave (`ApproveLeave`); the optimiser
makes runs in three statements (`AskAssign`, `OpenRun`, `Attach`); the warehouse
loads and edits (`Dispatch`), books what comes back (`Return`), buys (`Purchase`)
and corrects by hand (`AskMovement`, `InsertMovement`, `WriteBalance`). The
partner picks up (`AskPickup`, then `PickUpNamed` if quantities are named and
`CheckItems`, `Collect` if not), starts, reports stops and single orders, sends
confirmed orders out (`AskOut`, `SendOut`), hands over; where the code says
`delivery_run_id = $1 OR delivery_partner_id = $2`, orders without a run are
among them (`OnRunOrMine`). A report writes the status its body names, one of
`Reports`. The app's poll closes (`AskClose`, `Close`); a server's start rewrites
runs (`Startup`). `clashed`, `out` and `recounted` are read by no action. Every
order wants one unit and is a stop of its own; one product variant.

### Referral (`Referral.tla`, `MCReferral.tla`, `ReferralProofs.tla`)

One friend with orders, and the referrers whose codes the friend used. `order` is
the status of the orders, `completed` the flag `first_order_completed`,
`referredBy` the column of the user, `referral` the row of each pair. A report
(`ReportStop` of a partner or of the bulk update, `ReportOrder`) asks the
detector for each order: `ReadFlag`, `LookForOthers`, then `MarkSilently` or
`MarkFirst`. The reward engine is one transaction, cut where other sessions
matter: `ReadProfile`, `FindReferrals` (what the statement sees), `LockReferral`
(the row it gets, looked at again after the wait) or `FindNone`, then
`PayReward`, or `CreateReferral` under the unique pair. `OpenPage` and `Unlock`
are the app that sets the flag, `AskSync` and `InsertReferral` the insertion of a
referral at login or at the app's start, `Register` the completion of an account,
`SetCompleted` and `SetStatus` the staff. `Fail` and `Die` end a request in any
of its statements. `rewards`, `reported` and `forfeits` are read by no action;
`forfeits` collects what has cost a reward (`Causes`). Abstracted: the amount,
the difference between a customer's wallet and a partner's bonus, notifications.

## 3. The runs

All finish well within five minutes with two workers. Deadlock is checked
except where the calendar or the supply of payments really ends.

| Run | Expected | What it asks | Bounds, and why they are enough |
|---|---|---|---|
| `Payments_safety` | holds | `TypeOK`, `CreditedAtMostOnce`, `OrderedAtMostOnce`, `MoneyBehindEveryEffect`, `ClaimIsBacked`, `NothingStranded`, `SettledStaysClosed`, `AttachedOrderStays`, `SettlementSpec` | one payment, two handlers, one crash, every entry point, failing attempts, failing settlements and refunds at the gateway, three deadlines (the fourth, 48 hours, ends the poll, and no safety property speaks of it). Rows do not share state, so one payment shows what handlers do to each other, and with one the limit of a batch does not bite; a third handler adds nothing two cannot do to one row, and the proofs cover any number of both and any limit |
| `Payments_rolled_back` | violated | `CapturedIsSettled` | `FairSpec`, one top-up, one handler; the callback, every webhook and the cron; settlements may fail; no failed attempt, no crash, no 48 hours, and room in the batch: nothing else is in the way |
| `Payments_used_twice` | violated | `PaymentUsedOnce` | a checkout and the sweep |
| `Payments_second_subscription` | violated | `PaymentBacksOneSubscription` | two subscription checkouts on one payment |
| `Wallet_safety` | holds | `TypeOK`, `PaidBillHasMoney`, `RefundedOrderHasCredit`, `BillPaidPerHandler`, `RefundedPerHandler`, `DriftOnlyByCrash` | two handlers over all twelve entry points, one order, one bill, a crash, credits that fail. The bounds of the per-handler properties are three and `MaxEntries` is four, so that a fourth payment or refund would be seen. `CONSTRAINT OrdersOrBills`: an instance has the order or the bill, since they share nothing but the wallet, which the other entry points move as well. `VIEW` keeps the distance of ledger and balance in place of the ledger, which no guard reads. The proofs take any number of everything, together |
| `Wallet_drift` | violated | `LedgerMatches` | cancellation and top-up overlap |
| `Refunds_safety` | holds | `TypeOK`, `RefundMatches`, `NoDayAheadIsRaised`, `ClaimSpec` | two requests out of every entry point but the expiry of pauses and the customer's own pause (the admin's is the same with a scan after it; `Refunds_pauses` has both), one scheduled day with a day before and after it, one pause. Days are independent but for the pause that covers them; more days, more pauses and all entry points together are left to the proofs |
| `Refunds_review` | violated | `OpenIsPayable` | the same instance without symmetry |
| `Refunds_pauses` | holds | `SuspendedAsPaused` | one request at a time, five days, three pause rows: a pause cut short, called off or expired and a new one after it |
| `Generation_overlap` | holds | `TypeOK`, `RunHoldsLock`, `ItemsPerOverlap`, `ItemlessHasCause`, `DueIsServed`, `PlacedIsConfirmed` | `FairSpec`; the cron and one admin, so that two runs overlap with the same lock and with different ones; a subscription of a branch whose schedule is edited, one and a one-time order without a branch; one lock that lapses under its run, which makes the bound of `ItemsPerOverlap` tight at three. The proofs take any number of each |
| `Delivery_safety` | holds | `TypeOK`, `LedgerAgrees`, `DispatchedAsLoaded`, `HandedOverStays` | one run, one order and one request between its read and its write, while admins, staff, warehouse, partner and server starts act at once around it; stock up to 2, loads up to 1, so that a reservation, a shortage and a repeated return all happen; reports name `delivered` and `out_for_delivery`, staff fail orders and cancel runs. With one handler the poll never races a handover; the proofs take any number of handlers, and every status. `VIEW` drops ghosts once no property looks at them |
| `Referral_reward` | holds | `TypeOK`, `RewardedOnce`, `UnrewardedHasCause` | two orders, since the detector asks of one whether there is another; two referrers, since a friend may use one code at login and another at registration; two requests at once of every kind. Staff, registration and failures come at any time. The proofs take any number |

Bounds are constants of the modules and guards name them: `MaxCrashes`,
`MaxBalance`, `MaxEntries`, `MaxPauses`, `LastDay`, `MaxOutlived`, `MaxLoad`,
`MaxStock`, `MaxTwice`. `BatchSize` is no bound of a run but the code's limit.
Symmetry is used for sets
whose members no property names, never in a run with liveness.

Fairness. `FairSpec` of `Payments` serves the violated run: it grants the code
everything it could hope for, that the event loop resumes every handler
(`WF(Step)`), that the cron starts again and again (`SF(StartCron)`: the Nest
scheduler ticks every ten minutes and skips a tick while its lock is held), that
Razorpay repeats every event until it was answered (`SF(StartWebhook)`), and that
time passes. It assumes no request of the customer. `FairSpec` of
`Generation` assumes that the minute comes for every instance (`WF(Tick)`) and
that the event loop resumes every run (`WF(Step)`), and nothing of admins or
customers; its two properties promise nothing once something broke.

## 4. What is proved

For any constants that satisfy each module's assumption: any number of
payments, orders, bills, days, handlers and crashes.

| Theorem | States |
|---|---|
| `TypeCorrect`, `WalletTypeCorrect`, `RefundsTypeCorrect`, `GenerationTypeCorrect`, `DeliveryTypeCorrect`, `ReferralTypeCorrect` | `[]TypeOK` of each module |
| `NoDoubleCredit`, `NoDoubleOrder`, `NoFreeEffect`, `SettledIsFinal` | `CreditedAtMostOnce`, `OrderedAtMostOnce`, `MoneyBehindEveryEffect`, `SettledStaysClosed` |
| `AttachedIsKept`, `ClaimsAreBacked` | `AttachedOrderStays`, `ClaimIsBacked` |
| `PaymentsImplementSettlement` | `SettlementSpec`: the handlers of `Payments` implement `Settlement` |
| `OrdersStayInSight` | `OrdersInSight`: captured money of an order that named no reference is used, given back, or in a row that the poll or the sweep asks for or that says `failed` |
| `NothingIsStranded` | `NothingStranded`: the same, and of top-ups and bills as long as nobody died, with a handler at work and a failed settlement as further cases |
| `PaymentsAreSound`, `WalletIsSound`, `RefundsAreSound` | the inductive invariants `IInv` of the three modules |
| `LockedImplementsAccount`, `LockedNeverDrifts` | `LockedOnly` (`Ops \subseteq LockedOps`) implies `AccountSpec`, and that balance and ledger agree |
| `PaidBillsArePaid`, `RefundedOrdersAreCredited` | `PaidBillHasMoney`, `RefundedOrderHasCredit` |
| `BillsArePaidPerHandler`, `OrdersAreRefundedPerHandler`, `DriftIsByCrash` | for any finite set of handlers and every entry point, `BillPaidPerHandler`, `RefundedPerHandler` and `DriftOnlyByCrash` |
| `BillsArePaidOnce`, `RefundedOrdersStayRefunded` | `OneAtATime` (one handler) implies that a bill is paid once and once more per crash, and `RefundedNotAgain` |
| `SuspendedWhilePaused` | `OneAtATime` implies `SuspendedAsPaused` |
| `RefundedOnce`, `OnlyDaysThatCame`, `DecidedIsFinal` | `RefundMatches`, `NoDayAheadIsRaised`, `DecidedStays` (what is refunded or rejected never changes) |
| `RefundsImplementClaims` | `ClaimSpec`: the requests of `Refunds` implement `Claims` |
| `LocksAreHeld`, `OrdersHaveItems`, `ItemsAreBounded` | `RunHoldsLock`, `ItemlessHasCause`, `ItemsPerOverlap` |
| `PlacedIsNotLeft`, `DueIsNotLeft` | the safety halves of `PlacedIsConfirmed` and `DueIsServed`: when every run is over and nothing broke (with at least one instance), a one-time order has left `placed`, and a subscription that was due all along has its order with items |
| `BalanceIsLedger`, `StockChargedAsLoaded` | `LedgerAgrees`, `DispatchedAsLoaded` |
| `HandedOverIsKept` | `HandedOverStays` |
| `ReferrersArePaidOnce`, `RewardsAreAccounted` | `RewardedOnce`, `UnrewardedHasCause` |

The arguments:

- Payments. That a payment is credited once does not follow from the row alone:
  a handler past its claim has the effect still to make. `IInv` adds `RowSound`
  (a row that is not final has had no effect; one that is paid or fulfilled has
  money behind it), `HandlerSound` (what each label may rely on: a handler about
  to credit works on a final row that has no effect yet) and `HoldersExclusive`
  (no two handlers are about to make effects of one payment). A claim
  establishes the second because a row that is still `paid` has, by the first,
  no effect, and by the third nobody at work on it.
  A purpose changes only when a row is inserted and when a sweep finds it still
  sweepable, which an attached order is not: that is `AttachedOrderStays`.
  `ClaimIsBacked` needs `HandlersInv` beside it: a sweep's list holds only
  payments that are twenty minutes old, and a checkout consumes orders and
  subscriptions, or a payment such a sweep has turned into a top-up. So a young
  top-up or a bill was claimed by the handler that owes its effect, which
  leaves only after making the effect or giving the claim back.
  `SettlementSpec` needs `IInv` alone: the statements that make an effect stand at
  labels of which `HandlerSound` says that the payment is captured and has none
  yet, so each is a first effect; all others leave the three counters alone.
  `OrdersStayInSight` adds `Clean`: an order that no checkout has consumed carries
  at most what the client named, and a row says `refunded` only after a refund at
  the gateway, so every way to a final status leaves `CHECKOUT_PENDING`, which the
  sweep takes up, or is a failure. It holds through crashes. For a top-up or a
  bill, `TopupsKept` says by the status of the row which handler is on its way
  (`paid`: one before the claim; `fulfilled`: one at the effect), unless a
  settlement of it failed: who dies leaves nobody on the way, and `unclaim` leaves
  a `paid` row that the poll, which asks for `created` ones, does not list.
  `Unreleased` ties the second to `failures`: whoever stands at `unclaim` has
  failed. The three causes are part of the statement, not assumed away; that the
  second one loses money is finding 2.
- Wallet. A bill is marked in a statement after its debit, an order in one after
  its credit, so `IInv` says of the handlers in between that the payment or the
  credit exists. With the locked entry points the handlers at `entry`, `cancel`
  and `adjust` do not arise and every step is a `Post` of `Account` or a stutter.
- Wallet, requests that overlap. Both bounds count, by one family of lemmas
  (`Overlap`): something was done `c` times, `D` are the handlers that have done
  it and not yet told the row, `W` those that are about to do it, and none joins
  `W` once the row is closed. While it is open, `c` is at most `D` plus the
  crashes; always, `c` and `W` together are at most the handlers plus the
  crashes. A handler that tells the row closes it, one that dies adds a crash
  when it leaves `D`. For a bill, `D` stands at `markPaid` and `W` at `debit`
  or `recordCash`; for an order, `D` has refunded it and stands at `setStatus`,
  and `W` holds it as an order to refund, from the status it read or on the
  list of a bulk run. A gateway payment closes the bill and counts for none of the
  three (`atGateway` remembers it); a report that writes `paid` over `refunded`
  opens the order again and puts it in `repaid`, of which the bound says nothing.
  With one handler the bound is one and the crashes: `BillsArePaidOnce`.
- Wallet, drift. `DriftBounded` says that, until a balance is overwritten, ledger
  and balance differ by the entries that handlers have still to add and by at most
  one per crash. The subscription checkout subtracts in its UPDATE; the
  cancellation and the adjustment write what they computed from an earlier read,
  which is a movement like any other if nothing moved in between and sets
  `overwritten` if something did. That this happens is `Wallet_drift`.
- Wallet, one request at a time. `RefundsSerial`, for `RefundedNotAgain`, says that
  neither the order at hand nor those a bulk run has left to refund say refunded.
- Refunds. `IInv` adds `ListsAreOver`: what a scan holds had come when it looked,
  and days do not go back. `RefundMatches` needs no more, because the payout
  checks the statuses again under the lock, and the only other writers of a
  status move it from `pending` or from nothing. That every step is one of
  `Claims` uses all of `IInv`: an insertion is a `Raise` because of
  `ListsAreOver`, or no change at all; a review leaves the claims open, a rejection
  closes the pending days of its list and leaves the rest; a payout credits days
  that, by `RefundMatches`, had no credit.
- Refunds, one request at a time. `PausesMatch`: a pause on record that is not
  over is the window and the latest that is paused, and a window that is not
  over is such a pause. That the latest is the one the window was written with
  is what lets a resume, which looks for the latest, cut both short alike. Days
  may pass between its statements: if the pause ended meanwhile, so has what is
  left of it, and `RequestMatch` keeps the requested day within the window.
- Generation. `ItemsPerOverlap` counts, so its invariant does: the items inserted
  for an order and the runs that found it without items and are about to insert
  them are together bounded by the scopes that cover the order plus the locks
  that lapsed. It rests on `RunHoldsLock` (of the runs of one scope only one
  that has not lapsed is at work) and on the number of lapsed runs being at most
  `outlived`: a run that finds an order without items starts from a count of
  none, and cannot be more than one per scope and lapse. The cardinalities are
  those of `FiniteSetTheorems`.
- Generation, that no run is needed twice. A run that finds its lock taken, or
  that an instance has claimed the minute, simply leaves. That is safe because of
  `OwnersWork`: a lock that is set belongs to a run at work on that scope, or its
  owner died. So whoever is turned away leaves behind a run that will do the same
  work, and `PlacedIsAwaited` and `DueIsAwaited` are inductive: as long as nothing
  broke, an order still placed (a due subscription not ordered) has the cron
  still to come or a run on its way that covers it. With `ItemlessHasCause` the
  order of a due subscription has items. What `PlacedIsConfirmed` and
  `DueIsServed` leave to fairness is that the runs end.
- Delivery. `LedgerAgrees` is inductive with `TypeOK` and the fact that an
  unclashed manual movement still holds the balance it read; `DispatchedAsLoaded`
  because every approval moves the difference to the item on record.
  `HandedOverStays` goes through every action that writes a run: those it does not
  name keep `handed_over`, or write it.
- Referral. `RewardedOnce` says that the credit and the status go together; that
  no two requests pay for one row is `LockInv`: a request about to pay holds an
  open row that nobody else holds. It survives the wait because the row is looked
  at again under the lock. `UnrewardedHasCause` follows from `CauseInv`: once the
  flag is set, the reward is made, somebody is in the engine, or a cause is on
  record; once a delivery is reported, so is a request still on its way. A request
  that finds the flag set may leave because of the first half, and one whose
  insertion is turned down because of `RewardedOnce`.

Only model-checked: the liveness of `Generation` (`DueIsServed`,
`PlacedIsConfirmed`). Liveness and `ENABLED` are outside what TLAPS proves; what
can be proved of the two without fairness are `PlacedIsNotLeft` and
`DueIsNotLeft`. Nothing here is recursive. Every safety property of a passing
run is a theorem. What a theorem assumes of the constants (the entry points in
`Ops`, how many handlers there are) stands in its statement.

## 5. What the runs found

1. `Payments_used_twice`: a checkout that has consumed a payment carries
   `CHECKOUT_PENDING` until its order id is attached; the sweep takes a row that
   has it for a dead checkout twenty minutes after `paid_at`. A payment resumed
   late is credited to the wallet and spent on the order.
2. `Payments_rolled_back`: a settlement that fails gives its claim back "so a retry
   (or the webhook) can fulfil it later" and leaves a `paid` row. The webhook's
   event was recorded before it was processed, so Razorpay's retry is dropped as a
   duplicate; the poll asks for `created` rows and the sweep for orders. A captured
   top-up or bill then waits for the customer to come back and ask.
3. `Payments_second_subscription`: the subscription checkout logs the refusal of
   a used payment and creates the subscription and its paid bill all the same.
4. `Wallet_drift`: `cancelOrder` writes a balance it computed from an earlier
   read; a movement in between is lost from the balance and kept in the ledger.
5. `Refunds_review`: `reviewCandidates` stores `approved`, the payout accepts
   `pending` and `reviewed`, the rejection `pending`: a review, "the checkpoint
   before money moves", leaves a day that can be neither paid nor rejected.

## 6. What was seen besides

Behaviour of the models that no run states, because no text of the repository
says what is wanted, or that lies outside them.

Payments.
- A process that dies between claim and credit leaves a `fulfilled` row without
  effect; nothing looks for it (`ClaimIsBacked` speaks of the time before a crash). The
  sweep has the same window.
- `markFailed` overwrites `paid`: a failure event of an earlier attempt that is
  handled between `markPaid` and the claim leaves captured money in a `failed`
  row, which nothing asks for again. `NothingStranded` excuses it by the row's
  status.
- A sweep whose credit fails logs the error and leaves a `fulfilled` top-up without
  its credit (payment.service.ts:1298); `NothingStranded` excuses it by `failures`.
- The poll takes the 50 oldest `created` rows (payment.service.ts:1159), abandoned
  ones included, which stay `created`: with 50 of them a younger captured payment
  is not asked about until they are 48 hours old, and may be 48 hours old itself by
  then. The sweep's 50 (1262) leave the list as they are claimed.
- `checkOrderStatus` takes the age of an order from `created_at` and answers
  'credited to your wallet balance'; the sweep it called went by `paid_at`, which
  had just been set, and skipped the row.
- A refund at the gateway is matched by the stored attempt id, which stays that
  of the first attempt when that one failed.
- A first charge whose subscription checkout never comes is credited to nobody.

Wallet and orders.
- A run's addresses store their `order_ids` as text, so `Array.isArray` in
  `updateAddressStatus` (delivery-run.service.ts:1020) is false: the report of a
  run admin never reaches the orders of the stop, nor `onDeliveryFailed` at 1145.
  The models have no such report.
- A customer who cancels an order paid online is not refunded: the condition is
  `payment_mode` `wallet` or `upi`, and the cart stores `online`
  (customer.order.controller.ts:717).
- Cancelling leaves `payment_status` at `paid`; staff who later fail the order
  refund it again. So do two staff members who fail one order at once.
- A partner's report may deliver a cancelled order, and writes `paid` over
  `refunded`.
- Two concurrent payments of one bill from the wallet debit twice
  (`BillPaidPerHandler` says that no more than that is lost).
- The subscription checkout debits after the subscription exists; a refused debit
  leaves it unpaid.

Refunds.
- Overlapping resumes: a resume that read its pause, and meanwhile another that
  ends the pause and a request that starts a new one, leave days suspended that
  no pause covers (two requests, `LastDay` 5, `MaxPauses` 2 violate
  `SuspendedAsPaused`).
- The scan after a pause never finds anything, since a pause starts tomorrow at
  the earliest and the scan ends today; nor does the one after a failed stop,
  which looks at days before today only. Both wait for the monthly scan.
- A day paused after its order exists can be raised on that day, delivered, and
  paid out.
- The payout bumps `updated_at` of a resumed pause, which the scan reads as the
  day of its resume.
- An order whose run died before its items is found by no scan, which joins
  the items.
- The monthly scan computes the closed month in the server's zone although it is
  scheduled in Asia/Kolkata: at 00:20 on the first, UTC is a month behind.
- `analytics.service.ts` (`processRefund`) is an older way to refund pauses that
  does not know the candidates.

Order generation.
- snapshot.service.ts:65 calls all steps idempotent. Each is, but a run that
  broke off after its orders leaves them without items, and the run after it
  inserts items only if it creates an order itself (`missed` in the model).
  cron-lock.service.ts:11 says that generation is not idempotent.
- A run of all branches and one of a branch hold different locks and may both
  insert the items of an order: twice, and once more for each lock that lapses.
- A tick that meets a manual run's lock is skipped, and what became due or was
  placed after that run's statement stays unordered or unconfirmed.
- A crash within the minute is not retried although the cron ticks again, since
  the lock of the minute stays.
- The audit log's NOT EXISTS compares a `subscription_id` that its INSERT leaves
  NULL: every run that creates orders logs all orders of the slot again.

Stock and delivery.
- An approval draws whatever is reserved for the variant, the units of other
  orders included (delivery-dispatch.service.ts:130). A cancelled order releases
  nothing.
- A return adds the goods and books a movement that adds them again, and may be
  repeated; damaged goods are booked out though they never came in.
- A run's draft says its planned units are loaded, so the first approval of the
  planned quantity moves no stock. A pickup overwrites `loaded_qty`.
- An accepted zero counts as the planned quantity, though the pickup validates
  after the update so that no client may "confirm short by sending lower quantities"
  (delivery.order.service.ts:2305) and planned "stands in only while nothing has
  been loaded" (497).
- A manual movement overwrites a balance it read unlocked two statements before.
- A stop reported with any status but `delivered` does not look at the dispatch
  and takes one that is only loaded to `in_progress`, which dispatch-status.ts:1-18
  keeps for goods the partner has taken over. The status in the body of a report is
  written as it comes.
- `markOrdersOutForDelivery` sends confirmed orders out without a dispatch;
  `assignPartnerToOrder` gives an order to another partner and leaves it on the run.
- A run that is completed cannot be handed over, and every server start sets the
  completed runs of the day back to in progress.
- The optimiser may assign an order that was cancelled since it was listed; a run
  is made of orders whatever their status; a report delivers a cancelled order.
- The poll that completes a run and the request that starts one do not look again
  and may overwrite `handed_over`; `HandedOverStays` names both.
- Orders at an address of a run are packed with it though they have none.
- The approved leave of a partner takes the run from orders that stay `assigned`
  or `packed`, which the optimiser does not list.
- `markDeliveryDelivered` does not select `address_id`, so its stop is never
  updated.

Referrals.
- Two orders of a friend delivered together, at one stop or by one bulk report,
  each see the other: the flag is set silently and nobody is rewarded.
- A friend who opens the app between the delivery and the detector sets the flag
  and costs the reward. The partner's report sends the push notification of the
  delivery before it asks the detector (delivery.order.service.ts:1562).
- The flag is set before the engine runs: a reward that fails is not tried again.
  Nor is one whose automatic referral meets the app's own insertion of the pair.
- A report of a stop asks the detector for the stop's failed orders too, so an
  order that was never delivered can bring the reward.
- The detector's "single-trigger execution" (first-order-detector.service.ts:16)
  rests on an unlocked read: it may say yes twice. The engine still pays each row
  once, but a friend with two open referrals, one from the login and one from the
  registration, then rewards both referrers.
- `updateOrderStatus` of the staff (orders.service.ts:520) delivers an order and
  never asks the detector.
- `createReferral` stores the status `completed` without a referred customer; the
  table's constraints turn both down. Nothing emits `order.delivered`, so its
  listener never runs.

Elsewhere.
- subscription-status.repository.ts:267 inserts a bill without its
  `payment_method`, a column that may not be NULL and has no default
  (001-init-unified-schema.sql:682): every renewal, prepaid or postpaid, rolls back.
- `settlePostpaidBill` marks all open bills of a customer as paid.

## 7. Not modelled

- Subscription lifecycle: with every renewal rolling back, what is left is a
  daily change of status by date, one statement per subscription. `active` in
  `Generation` and the end of a subscription in it stand for its effect.
- Billing: the monthly consolidation, part payments and the settlement of all
  bills turn on amounts and periods; bills here are units. Two runs of the
  consolidation at once would bill a period twice
  (customer-billing.repository.ts:60).
- Of referrals: the payment of partners' bonuses with their salary, and the pages
  that list who was referred.
- Of delivery: the runs of other partners, days and slots, moves and swaps between
  runs, containers, cash, the quantities dispatched and damaged, which only reports
  read.
- Of stock: `transferStock`, `confirmDispatch`, `reserveStock` and
  `releaseQuantities` have no caller; `saveAdd` and `reverseAndCorrectMovement`
  of the inventory write columns the migrations do not create.
- The schema is taken to accept the statuses the code writes: the CHECK of
  001 on `delivery_runs.status` lacks `pending` and `handed_over`, and 009 calls
  the live schema the authority.
- Authentication, discounts, catalogue, warehouse forms, branches, vendors,
  notifications, maps, finance pages and the clients: see `PROJECT.json`.
