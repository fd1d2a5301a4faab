------------------------------ MODULE Refunds ------------------------------
(***************************************************************************)
(* The delivery days of one prepaid subscription with one item in one      *)
(* slot: orders are generated for its scheduled days, pauses suspend them, *)
(* and every prepaid day that was not delivered is to be raised as a       *)
(* refund candidate, decided by an admin and paid into the wallet once.    *)
(*                                                                         *)
(* One action is one autocommitted statement, one database transaction, or *)
(* one read inside a transaction that locks nothing.                       *)
(***************************************************************************)
EXTENDS Integers, Sequences

CONSTANTS
  LastDay,    \* bound on the calendar
  Scheduled,  \* days with a quantity in the schedule of the subscription
  Requests,   \* concurrently running request handlers and cron jobs
  Ops,        \* the entry points an instance calls
  MaxPauses   \* bound on the rows of subscription_pauses

Days == 1 .. LastDay
NoDay == 0    \* NULL

ASSUME RefundsAssumption ==
  /\ LastDay \in Nat \ {0}
  /\ Scheduled \subseteq Days
  /\ Ops \subseteq {"pause", "adminPause", "resume", "autoResume", "generate",
                    "status", "scan", "review", "reject", "approve"}
  /\ MaxPauses \in Nat

VARIABLES
  today,      \* CURRENT_DATE
  window,     \* subscriptions.pause_from_date, pause_to_date
  pauses,     \* subscription_pauses, in the order of their creation
  order,      \* orders.status, by scheduled_date
  itemised,   \* days whose order has its rows in order_items
  candidate,  \* subscription_refund_candidates.status, by scheduled_date
  paid,       \* payouts that credited the wallet for a day
  request     \* where each handler is

vars == <<today, window, pauses, order, itemised, candidate, paid, request>>
subscription == <<window, pauses>>
deliveries == <<order, itemised>>
refunds == <<candidate, paid>>

Window == [from : 0 .. LastDay, to : 0 .. LastDay]
NoWindow == [from |-> NoDay, to |-> NoDay]

Pause == [from    : Days,
          to      : Days,
          status  : {"paused", "resumed", "completed"},
          updated : Days,
          settled : BOOLEAN]                 \* is_refunded

\* open stands for confirmed, assigned, packed and out_for_delivery.
OrderStatuses == {"open", "delivered", "failed", "cancelled"}

\* The CHECK on the column; none is a day without a row.
CandidateStatuses == {"pending", "reviewed", "approved", "refunded", "rejected"}
Payable == {"pending", "reviewed"}

Reads == {"paused", "failed"}

Request == [pc   : {"idle", "pause", "findPause", "resume", "complete", "items",
                    "scan", "create", "payOut"},
            day  : 0 .. LastDay,             \* the day it generates or resumes on
            from : 0 .. LastDay,             \* the pause it makes or ends
            to   : 0 .. LastDay,
            row  : Nat,                      \* the pause it resumes
            hook : BOOLEAN,                  \* does a scan follow the pause?
            todo : SUBSET Reads,             \* queries of the scan not answered
            range : SUBSET Scheduled,        \* days in the range of the scan
            list : SUBSET Scheduled]         \* days it found or was given

Idle == [pc |-> "idle", day |-> NoDay, from |-> NoDay, to |-> NoDay, row |-> 0,
         hook |-> FALSE, todo |-> {}, range |-> {}, list |-> {}]

\* What each label says of the fields, when there are n pauses.
Typed(q, n) ==
  /\ q \in Request
  /\ q.pc = "pause" => q.from \in Days /\ q.to \in Days
  /\ q.pc \in {"findPause", "resume"} => q.day # 1
  /\ q.pc = "resume" => q.row \in 1 .. n /\ q.to \in Days
  /\ q.pc = "items" => q.day \in Scheduled

TypeOK ==
  /\ today \in Days
  /\ window \in Window
  /\ pauses \in Seq(Pause)
  /\ order \in [Scheduled -> OrderStatuses \cup {"none"}]
  /\ itemised \subseteq Scheduled
  /\ candidate \in [Scheduled -> CandidateStatuses \cup {"none"}]
  /\ paid \in [Scheduled -> Nat]
  /\ request \in [Requests -> Request]
  /\ \A r \in Requests : Typed(request[r], Len(pauses))

-----------------------------------------------------------------------------

At(r, label) == request[r].pc = label
Serve(r, op) == op \in Ops /\ At(r, "idle")
Begin(r, fields) == request' = [request EXCEPT ![r] = fields]
Done(r) == Begin(r, Idle)

\* Deliveries are suspended on d: neither date is NULL and d lies between.
Suspended(d) == window.from # NoDay /\ d \in window.from .. window.to

AlreadyPaused == window.to >= today

StartOfScan(from, to) ==
  [Idle EXCEPT !.pc = "scan", !.todo = Reads,
               !.range = Scheduled \cap (from .. to)]

\* pauseSubscription reads the subscription and checks the dates.
AskPause(r, from, to, op) ==
  /\ Serve(r, op)
  /\ ~AlreadyPaused
  /\ Len(pauses) < MaxPauses
  /\ today < from
  /\ from <= to
  /\ Begin(r, [Idle EXCEPT !.pc = "pause", !.from = from, !.to = to,
                           !.hook = (op = "adminPause")])
  /\ UNCHANGED <<today, subscription, deliveries, refunds>>

\* It writes both tables in the transaction it read in.  The admin's version
\* then scans the paused range.
CommitPause(r) ==
  LET q == request[r]
  IN /\ At(r, "pause")
     /\ window' = [from |-> q.from, to |-> q.to]
     /\ pauses' = Append(pauses, [from |-> q.from, to |-> q.to,
                                  status |-> "paused", updated |-> today,
                                  settled |-> FALSE])
     /\ IF q.hook
          THEN Begin(r, StartOfScan(q.from, q.to))
          ELSE Done(r)
     /\ UNCHANGED <<today, deliveries, refunds>>

\* resumeSubscription reads the subscription.  Before the pause begins the
\* requested date is ignored: the whole pause is called off.
AskResume(r, day) ==
  /\ Serve(r, "resume")
  /\ window.from # NoDay
  /\ AlreadyPaused
  /\ \/ today < window.from /\ day = NoDay
     \/ window.from <= today /\ today < day /\ day <= window.to
  /\ Begin(r, [Idle EXCEPT !.pc = "findPause", !.day = day])
  /\ UNCHANGED <<today, subscription, deliveries, refunds>>

\* Then the latest pause that is still paused; without one it is refused.
IsLatestPaused(i) ==
  /\ pauses[i].status = "paused"
  /\ \A j \in DOMAIN pauses : j > i => pauses[j].status # "paused"

FindPause(r) ==
  /\ At(r, "findPause")
  /\ \/ \E i \in DOMAIN pauses :
          /\ IsLatestPaused(i)
          /\ Begin(r, [request[r] EXCEPT !.pc = "resume", !.row = i,
                                         !.to = pauses[i].to])
     \/ /\ \A i \in DOMAIN pauses : pauses[i].status # "paused"
        /\ Done(r)
  /\ UNCHANGED <<today, subscription, deliveries, refunds>>

\* Mutant: the pause that is called off is ended yesterday.
CallOffYesterday(row) ==
  /\ window' = NoWindow
  /\ pauses' = [pauses EXCEPT ![row].to = today - 1, ![row].updated = today]

\* Mutant: the subscription keeps the old end of the pause.
CutRowShort(row, day, end) ==
  /\ window' = window
  /\ pauses' = Append([pauses EXCEPT ![row].to = day - 1, ![row].updated = today],
                      [from |-> day, to |-> end, status |-> "resumed",
                       updated |-> today, settled |-> FALSE])

\* Both rows in one transaction.  Within the pause the row is cut short on the
\* eve of the resume, and a row 'resumed' records the days given up.  (The
\* code's third case, a resume on the pause's first day, cannot arise here.)
CallOff(row) ==
  /\ window' = NoWindow
  /\ pauses' = [pauses EXCEPT ![row].status = "resumed", ![row].updated = today]

CutShort(row, day, end) ==
  /\ window' = [window EXCEPT !.to = day - 1]
  /\ pauses' = Append([pauses EXCEPT ![row].to = day - 1, ![row].updated = today],
                      [from |-> day, to |-> end, status |-> "resumed",
                       updated |-> today, settled |-> FALSE])

Resume(r) ==
  LET q == request[r]
  IN /\ At(r, "resume")
     /\ IF q.day = NoDay THEN CallOff(q.row) ELSE CutShort(q.row, q.day, q.to)
     /\ Done(r)
     /\ UNCHANGED <<today, deliveries, refunds>>

\* Listing subscriptions ends the pauses that are over, in two statements.
AutoResume(r) ==
  /\ Serve(r, "autoResume")
  /\ window' = IF window.to # NoDay /\ window.to < today THEN NoWindow ELSE window
  /\ Begin(r, [Idle EXCEPT !.pc = "complete"])
  /\ UNCHANGED <<today, pauses, deliveries, refunds>>

CompletePauses(r) ==
  /\ At(r, "complete")
  /\ pauses' = [i \in DOMAIN pauses |->
                  IF pauses[i].status = "paused" /\ pauses[i].to < today
                    THEN [pauses[i] EXCEPT !.status = "completed",
                                           !.updated = today]
                    ELSE pauses[i]]
  /\ Done(r)
  /\ UNCHANGED <<today, window, deliveries, refunds>>

-----------------------------------------------------------------------------

\* Step 1 of the generation, by the cron or by an admin for any date.  Step 2
\* follows if any subscription got an order, this one or another.
GenerateOrder(r, d) ==
  /\ Serve(r, "generate")
  /\ order' = IF order[d] = "none" /\ ~Suspended(d)
                THEN [order EXCEPT ![d] = "open"] ELSE order
  /\ Begin(r, [Idle EXCEPT !.pc = "items", !.day = d])
  /\ UNCHANGED <<today, subscription, itemised, refunds>>

\* Step 2: every order of the day that has no items gets them.
GenerateItems(r) ==
  LET d == request[r].day
  IN /\ At(r, "items")
     /\ itemised' = IF order[d] = "none" THEN itemised ELSE itemised \cup {d}
     /\ Done(r)
     /\ UNCHANGED <<today, subscription, order, refunds>>

\* Staff may set any order to any status; a subscription's order moves no money.
SetStatus(r, d, s) ==
  /\ Serve(r, "status")
  /\ order[d] # "none"
  /\ order' = [order EXCEPT ![d] = s]
  /\ UNCHANGED <<today, subscription, itemised, refunds, request>>

NextDay ==
  /\ today < LastDay
  /\ today' = today + 1
  /\ UNCHANGED <<subscription, deliveries, refunds, request>>

-----------------------------------------------------------------------------

\* The pause covers d, a resumed one up to the eve of its last update.
Covers(p, d) == d \in p.from .. p.to /\ (p.status = "resumed" => d < p.updated)

\* Mutant: days of the pause that are still to come are raised at once.
PausedDaysAhead(range) ==
  {d \in range : /\ \E i \in DOMAIN pauses : Covers(pauses[i], d)
                 /\ order[d] # "delivered"}

\* findPausedDays: up to and including today.
PausedDays(range) ==
  {d \in range : /\ d <= today
                 /\ \E i \in DOMAIN pauses : Covers(pauses[i], d)
                 /\ order[d] # "delivered"}

\* findFailedOrders: orders of a day that is over, by their own status.
FailedDays(range) ==
  {d \in range \cap itemised : /\ d < today
                               /\ order[d] \notin {"none", "delivered", "cancelled"}}

Scan(r, from, to) ==
  /\ Serve(r, "scan")
  /\ Begin(r, StartOfScan(from, to))
  /\ UNCHANGED <<today, subscription, deliveries, refunds>>

\* The two queries run side by side.
Answer(r, read, rows) ==
  LET q == request[r]
      found == q.list \cup rows
  IN /\ At(r, "scan")
     /\ read \in q.todo
     /\ IF q.todo = {read}
          THEN Begin(r, [Idle EXCEPT !.pc = "create", !.list = found])
          ELSE Begin(r, [q EXCEPT !.todo = @ \ {read}, !.list = found])
     /\ UNCHANGED <<today, subscription, deliveries, refunds>>

ReadPausedDays(r) ==
  Answer(r, "paused", PausedDays(request[r].range))

ReadFailedOrders(r) ==
  Answer(r, "failed", FailedDays(request[r].range))

\* Mutant: the conflicting row is written again.
Upserted(d) == [candidate EXCEPT ![d] = "pending"]

\* INSERT ... ON CONFLICT DO NOTHING: one row for an item, date and slot.
Inserted(d) ==
  [candidate EXCEPT ![d] = IF @ = "none" THEN "pending" ELSE @]

\* The days are inserted one by one; their order makes no difference here.
CreateCandidate(r) ==
  /\ At(r, "create")
  /\ \E d \in request[r].list :
       /\ candidate' = Inserted(d)
       /\ Begin(r, [request[r] EXCEPT !.list = @ \ {d}])
  /\ UNCHANGED <<today, subscription, deliveries, paid>>

EndScan(r) ==
  /\ At(r, "create")
  /\ request[r].list = {}
  /\ Done(r)
  /\ UNCHANGED <<today, subscription, deliveries, refunds>>

-----------------------------------------------------------------------------

\* The status of those among the given days that are pending is set to s.
Decide(r, days, op, s) ==
  /\ Serve(r, op)
  /\ candidate' = [d \in Scheduled |->
                     IF d \in days /\ candidate[d] = "pending"
                       THEN s ELSE candidate[d]]
  /\ UNCHANGED <<today, subscription, deliveries, paid, request>>

\* reviewCandidates stores 'approved'.
Review(r, days) == Decide(r, days, "review", "approved")

Reject(r, days) == Decide(r, days, "reject", "rejected")

\* groupByCustomer: one refunded row refuses the call, rows that are not
\* payable are left out.
AskApprove(r, days) ==
  LET payable == {d \in days : candidate[d] \in Payable}
  IN /\ Serve(r, "approve")
     /\ \A d \in days : candidate[d] # "refunded"
     /\ payable # {}
     /\ Begin(r, [Idle EXCEPT !.pc = "payOut", !.list = payable])
     /\ UNCHANGED <<today, subscription, deliveries, refunds>>

\* Mutant: the rows are not checked again under the lock.
AssumedPayable(days) == TRUE

\* Under the row locks every status is checked again.
StillPayable(days) == \A d \in days : candidate[d] \in Payable

\* A pause is settled when a day of it is refunded and none is outstanding.
IsSettledBy(p, status) ==
  /\ ~p.settled
  /\ \E d \in Scheduled : d \in p.from .. p.to /\ status[d] = "refunded"
  /\ \A d \in Scheduled :
       d \in p.from .. p.to => status[d] \notin {"pending", "reviewed", "approved"}

\* processCustomer: payout, credit, statuses and pauses in one transaction.
PayOut(r) ==
  LET days == request[r].list
      status == [d \in Scheduled |->
                   IF d \in days THEN "refunded" ELSE candidate[d]]
  IN /\ At(r, "payOut")
     /\ IF StillPayable(days)
          THEN /\ candidate' = status
               /\ paid' = [d \in Scheduled |->
                             IF d \in days THEN paid[d] + 1 ELSE paid[d]]
               /\ pauses' = [i \in DOMAIN pauses |->
                               IF IsSettledBy(pauses[i], status)
                                 THEN [pauses[i] EXCEPT !.settled = TRUE,
                                                        !.updated = today]
                                 ELSE pauses[i]]
          ELSE UNCHANGED <<refunds, pauses>>
     /\ Done(r)
     /\ UNCHANGED <<today, window, deliveries>>

\* A statement fails, the credit is refused, or the process dies: what has been
\* committed stays and nothing follows.
Abandon(r) ==
  /\ ~At(r, "idle")
  /\ Done(r)
  /\ UNCHANGED <<today, subscription, deliveries, refunds>>

-----------------------------------------------------------------------------

Init ==
  /\ today = 1
  /\ window = NoWindow
  /\ pauses = <<>>
  /\ order = [d \in Scheduled |-> "none"]
  /\ itemised = {}
  /\ candidate = [d \in Scheduled |-> "none"]
  /\ paid = [d \in Scheduled |-> 0]
  /\ request = [r \in Requests |-> Idle]

PauseStep(r) ==
  \/ \E from, to \in Days, op \in {"pause", "adminPause"} : AskPause(r, from, to, op)
  \/ CommitPause(r)
  \/ \E day \in Days \cup {NoDay} : AskResume(r, day)
  \/ FindPause(r) \/ Resume(r) \/ AutoResume(r) \/ CompletePauses(r)

DeliveryStep(r) ==
  \/ \E d \in Scheduled :
       \/ GenerateOrder(r, d)
       \/ \E s \in OrderStatuses : SetStatus(r, d, s)
  \/ GenerateItems(r)

ScanStep(r) ==
  \/ \E from, to \in Days : from <= to /\ Scan(r, from, to)
  \/ ReadPausedDays(r) \/ ReadFailedOrders(r)
  \/ CreateCandidate(r) \/ EndScan(r)

RefundStep(r) ==
  \/ \E days \in SUBSET Scheduled :
       Review(r, days) \/ Reject(r, days) \/ AskApprove(r, days)
  \/ PayOut(r)

Next ==
  \/ NextDay
  \/ \E r \in Requests :
       PauseStep(r) \/ DeliveryStep(r) \/ ScanStep(r) \/ RefundStep(r) \/ Abandon(r)

Spec == Init /\ [][Next]_vars

-----------------------------------------------------------------------------

\* A day is credited once when its candidate says refunded and never otherwise,
\* however many admins approve, reject or review it and scans raise it at the
\* same time (approveAndProcess: "two admins clicking approve at the same time
\* cannot both pay out").
RefundMatches ==
  \A d \in Scheduled : paid[d] = IF candidate[d] = "refunded" THEN 1 ELSE 0

\* A refunded or rejected candidate is decided: no scan revives the day, no
\* decision taken on a list read earlier changes it (scan: "Safe to re-run").
DecidedStays ==
  [][\A d \in Scheduled : candidate[d] \in {"refunded", "rejected"} =>
                            candidate'[d] = candidate[d]]_vars

\* Only days that have come are raised ("a future paused day has not been
\* missed yet"), whatever the range of the scan and whoever resumes meanwhile.
NoDayAheadIsRaised ==
  \A d \in Scheduled : candidate[d] # "none" => d <= today

\* Deliveries of a day to come are suspended exactly when a pause on record
\* covers it, so that a skipped day can be refunded and a served one is not:
\* pausing, ending early, calling off and expiring keep the two tables together.
\* It takes requests that do not overlap (see README).
SuspendedAsPaused ==
  \A d \in today .. LastDay :
    Suspended(d) <=> \E i \in DOMAIN pauses : /\ pauses[i].status = "paused"
                                             /\ d \in pauses[i].from .. pauses[i].to

\* What a scan holds has come when it is inserted, at whatever later time.
ListsAreOver ==
  \A r \in Requests : \A d \in request[r].list :
    request[r].pc \in {"scan", "create"} => d <= today

\* The module implements Claims: whatever requests overlap, fail or die, each day
\* is claimed when it has come, decided once and paid with the decision.  A row
\* that is neither paid nor rejected is an open claim, reviewed or not; that a
\* payout accepts it is another matter (OpenIsPayable in MCRefunds).
Standing == [d \in Scheduled |-> IF candidate[d] \in Payable \cup {"approved"}
                                   THEN "open" ELSE candidate[d]]
Claim == INSTANCE Claims WITH Days <- Scheduled, claim <- Standing
ClaimSpec == Claim!Spec

\* The inductive invariant: a payout preserves RefundMatches because what it
\* pays is payable under the lock, and a scan NoDayAheadIsRaised because what it
\* has found was over when it looked.
IInv == TypeOK /\ RefundMatches /\ NoDayAheadIsRaised /\ ListsAreOver

=============================================================================
