------------------------------ MODULE Delivery ------------------------------
(***************************************************************************)
(* The delivery runs of one partner for one day and slot: orders are given *)
(* to the partner or to a run, the warehouse loads one product variant for *)
(* the run and takes it out of stock, the partner confirms the pickup,     *)
(* reports the stops, hands the run over, and what is left returns.  Every *)
(* order wants one unit and is a stop of its own; placed stands for        *)
(* pending as well.                                                        *)
(*                                                                         *)
(* One action is one database transaction that reads what it decides on,   *)
(* or one statement or read outside of one; a transaction that decides on  *)
(* what was read before it is two actions.                                 *)
(***************************************************************************)
EXTENDS Stock, FiniteSets

CONSTANTS
  Runs, NoRun,    \* rows of delivery_runs, and NULL
  Orders,         \* rows of orders
  Handlers,       \* concurrently running request handlers and cron jobs
  StaffOrder,     \* statuses that staff give an order in an instance
  StaffRun,       \* and a run
  Reports,        \* statuses that the bodies of delivery reports name
  MaxLoad,        \* bound on the units of a dispatch item or a movement
  MaxStock,       \* bound on the goods on record in the warehouse
  MaxTwice        \* bound on the goods counted twice

ASSUME DeliveryAssumption ==
  /\ NoRun \notin Runs
  /\ IsFiniteSet(Orders)
  /\ Reports \subseteq {"placed", "confirmed", "assigned", "packed",
                        "out_for_delivery", "delivered", "failed", "cancelled"}
  /\ MaxLoad \in Nat /\ MaxStock \in Nat /\ MaxTwice \in Nat

VARIABLES
  stock,      \* the stock_balances row of the variant
  clashed,    \* ghost: it changed under a manual movement that had read it
  order,      \* orders.status, delivery_run_id, and whether
              \* delivery_partner_id is the partner (mine)
  run,        \* delivery_runs.status
  dispatch,   \* delivery_dispatch.status, by run
  item,       \* delivery_dispatch_items of the dispatch, for the variant
  out,        \* ghost: units that dispatches of the run took out of stock
  recounted,  \* ghost: runs whose loaded_qty was written without a movement
  handler     \* where each handler is

vars == <<stock, clashed, order, run, dispatch, item, out, recounted, handler>>
warehouse == <<stock, clashed>>
loading == <<dispatch, item, out, recounted>>

OrderStatuses == {"placed", "confirmed", "assigned", "packed",
                  "out_for_delivery", "delivered", "failed", "cancelled"}

Waiting == {"placed", "confirmed", "packed", "assigned"}
Over == {"delivered", "failed", "cancelled"}

RunStatuses == {"pending", "assigned", "in_progress", "completed",
                "handed_over", "cancelled", "partial"}

DispatchStatuses == {"draft", "loaded", "collected", "in_progress",
                     "return_pending", "completed"}
HandedOver == {"collected", "in_progress", "return_pending", "completed"}

Order == [status : OrderStatuses \cup {"none"}, run : Runs \cup {NoRun},
          mine   : BOOLEAN]

Line == [there : BOOLEAN, planned : Nat, loaded : Nat]
NoLine == [there |-> FALSE, planned |-> 0, loaded |-> 0]

Unnamed == -1   \* a pickup whose body names no quantity

Handler == [pc    : {"idle", "cancel", "open", "attach", "pickup", "collect",
                     "start", "stop", "single", "out", "close", "handover",
                     "returning", "insert", "write"},
            run   : Runs \cup {NoRun},
            order : SUBSET Orders,                  \* those it will write
            verdict : OrderStatuses,                \* of a report
            need  : Nat,                            \* units ordered, or the balance
            qty   : Int]                            \* units named by the request

Idle == [pc |-> "idle", run |-> NoRun, order |-> {}, verdict |-> "delivered",
         need |-> 0, qty |-> 0]

\* The handlers that act on a run have one.
OnRun == {"open", "attach", "pickup", "collect", "start", "stop", "close",
          "handover", "returning"}

TypeOK ==
  /\ stock \in Balance
  /\ clashed \in BOOLEAN
  /\ order \in [Orders -> Order]
  /\ run \in [Runs -> RunStatuses \cup {"none"}]
  /\ dispatch \in [Runs -> DispatchStatuses \cup {"none"}]
  /\ item \in [Runs -> Line]
  /\ out \in [Runs -> Int]
  /\ recounted \subseteq Runs
  /\ handler \in [Handlers -> Handler]
  /\ \A h \in Handlers :
       /\ handler[h].pc \in OnRun => handler[h].run \in Runs
       /\ handler[h].pc = "pickup" => handler[h].qty \in Nat \cup {Unnamed}
       /\ handler[h].pc \in {"insert", "write"} => handler[h].need + handler[h].qty \in Nat

-----------------------------------------------------------------------------

At(h, label) == handler[h].pc = label
Begin(h, fields) == handler' = [handler EXCEPT ![h] = fields]
Done(h) == Begin(h, Idle)

Ask(h, label, r, s) ==
  /\ At(h, "idle")
  /\ Begin(h, [Idle EXCEPT !.pc = label, !.run = r, !.order = s])

Exists(r) == run[r] # "none"
Ordered(o) == order[o].status # "none"
OrdersOf(r) == {o \in Orders : order[o].run = r}
IsOpen(o) == order[o].status \notin Over

\* delivery_run_id = r OR delivery_partner_id = the partner.
OnRunOrMine(o, r) == order[o].run = r \/ order[o].mine

\* UPDATE orders SET status = s for those of S whose status is in from.
Advanced(S, from, s) ==
  [o \in Orders |-> IF o \in S /\ order[o].status \in from
                      THEN [order[o] EXCEPT !.status = s]
                      ELSE order[o]]

\* A movement typed in by hand is between its read and its write.
Moving(h) == handler[h].pc \in {"insert", "write"}

SetStock(s) ==
  /\ Goods(s) <= MaxStock
  /\ stock' = s
  /\ clashed' = (\/ clashed
                 \/ s.available # stock.available /\ \E h \in Handlers : Moving(h))

-----------------------------------------------------------------------------

\* The checkout reserves in the transaction that writes the order, if the
\* branch has a warehouse.
Place(o) ==
  /\ order[o].status = "none"
  /\ order' = [order EXCEPT ![o].status = "placed"]
  /\ \/ CanReserve(stock, 1) /\ SetStock(Reserved(stock, 1))
     \/ UNCHANGED warehouse
  /\ UNCHANGED <<run, loading, handler>>

\* The order of a subscription's day is not reserved.
Generate(o) ==
  /\ order[o].status = "none"
  /\ order' = [order EXCEPT ![o].status = "confirmed"]
  /\ UNCHANGED <<warehouse, run, loading, handler>>

ConfirmOneTimeOrders ==
  /\ \E o \in Orders : order[o].status = "placed"
  /\ order' = Advanced(Orders, {"placed"}, "confirmed")
  /\ UNCHANGED <<warehouse, run, loading, handler>>

\* updateOrderStatus, by staff.
SetOrderStatus(o, s) ==
  /\ s \in StaffOrder
  /\ Ordered(o)
  /\ order' = [order EXCEPT ![o].status = s]
  /\ UNCHANGED <<warehouse, run, loading, handler>>

\* assignPartnerToOrder, by staff: to the partner or to another one, whatever
\* the order's status and run, which stay.
AssignPartner(o, mine) ==
  /\ Ordered(o)
  /\ order' = [order EXCEPT ![o].mine = mine]
  /\ UNCHANGED <<warehouse, run, loading, handler>>

\* cancelOrder reads the status before the transaction that overwrites it.  It
\* releases nothing.
AskCancel(h, o) ==
  /\ order[o].status = "placed"
  /\ Ask(h, "cancel", NoRun, {o})
  /\ UNCHANGED <<warehouse, order, run, loading>>

Cancel(h) ==
  /\ At(h, "cancel")
  /\ order' = [o \in Orders |-> IF o \in handler[h].order
                                  THEN [order[o] EXCEPT !.status = "cancelled"]
                                  ELSE order[o]]
  /\ Done(h)
  /\ UNCHANGED <<warehouse, run, loading>>

-----------------------------------------------------------------------------

\* An order given to a run goes to the run's partner.
Assigned(r) == [status |-> "assigned", run |-> r, mine |-> TRUE]

\* A run made by an admin from a list of orders, whatever their status.  Its
\* draft dispatch says the planned units are loaded; no stock has moved.
CreateRun(r, S) ==
  /\ ~Exists(r)
  /\ S # {}
  /\ \A o \in S : Ordered(o)
  /\ run' = [run EXCEPT ![r] = "pending"]
  /\ order' = [o \in Orders |-> IF o \in S THEN Assigned(r) ELSE order[o]]
  /\ dispatch' = [dispatch EXCEPT ![r] = "draft"]
  /\ item' = [item EXCEPT ![r] = [there |-> TRUE, planned |-> Cardinality(S),
                                  loaded |-> Cardinality(S)]]
  /\ recounted' = recounted \cup {r}
  /\ UNCHANGED <<warehouse, out, handler>>

\* createOptimizedRuns lists the orders without run and partner, then finds or
\* makes a run for each and updates the order: three statements on their own.
AskAssign(h, r, o) ==
  /\ order[o].status \in {"placed", "confirmed"}
  /\ order[o].run = NoRun /\ ~order[o].mine
  /\ Ask(h, "open", r, {o})
  /\ UNCHANGED <<warehouse, order, run, loading>>

OpenRun(h) ==
  LET r == handler[h].run
  IN /\ At(h, "open")
     /\ run' = [run EXCEPT ![r] = IF @ \in {"none", "completed", "cancelled"}
                                    THEN "assigned" ELSE @]
     /\ Begin(h, [handler[h] EXCEPT !.pc = "attach"])
     /\ UNCHANGED <<warehouse, order, loading>>

Attach(h) ==
  /\ At(h, "attach")
  /\ order' = [o \in Orders |->
                 IF o \in handler[h].order /\ order[o].run = NoRun
                   THEN Assigned(handler[h].run)
                   ELSE order[o]]
  /\ Done(h)
  /\ UNCHANGED <<warehouse, run, loading>>

\* Leave of the partner: the orders lose partner and run and keep their status.
ApproveLeave ==
  /\ order' = [o \in Orders |-> IF order[o].mine /\ IsOpen(o)
                                  THEN [order[o] EXCEPT !.run = NoRun, !.mine = FALSE]
                                  ELSE order[o]]
  /\ UNCHANGED <<warehouse, run, loading, handler>>

\* updateRunStatus, by staff.
SetRunStatus(r, s) ==
  /\ Exists(r)
  /\ s \in {"assigned", "in_progress", "completed", "cancelled", "partial"} \cap StaffRun
  /\ run' = [run EXCEPT ![r] = s]
  /\ UNCHANGED <<warehouse, order, loading, handler>>

-----------------------------------------------------------------------------

\* Mutant: an approval does not look at what it loaded before.
AddedAnew(r, line) == line.loaded

\* Units the approval takes beyond those the dispatch holds already.
Added(r, line) == line.loaded - item[r].loaded

\* dispatchToDeliveryPartner: the handover is approved, again or for the first
\* time, with the line of the variant or without one.  near are other orders at
\* an address of the run.
Dispatch(r, line, near) ==
  LET q == Added(r, line)
  IN /\ Exists(r)
     /\ CanLoad(stock, q)
     /\ SetStock(Loaded(stock, q))
     /\ out' = [out EXCEPT ![r] = @ + q]
     /\ item' = [item EXCEPT ![r] = line]
     /\ dispatch' = [dispatch EXCEPT ![r] = "loaded"]
     /\ run' = [run EXCEPT ![r] = IF @ \in {"pending", "assigned"}
                                    THEN "in_progress" ELSE @]
     /\ order' = Advanced(OrdersOf(r) \cup near,
                          {"placed", "confirmed", "assigned"}, "packed")
     /\ UNCHANGED <<recounted, handler>>

\* processDeliveryReturn: what came back and what was damaged, both booked
\* though the damaged goods never came back to available.  A variant it does
\* not name or find is passed over; the run and its dispatch end in any case.
Return(r, returned, damaged) ==
  /\ Exists(r)
  /\ IF item[r].there
       THEN LET s == TakenBack(stock, returned)
            IN /\ CanMove(s, -damaged)
               /\ s.twice <= MaxTwice
               /\ SetStock(Moved(s, -damaged))
       ELSE UNCHANGED warehouse
  /\ run' = [run EXCEPT ![r] = "completed"]
  /\ dispatch' = [dispatch EXCEPT ![r] = IF @ = "none" THEN @ ELSE "completed"]
  /\ UNCHANGED <<order, item, out, recounted, handler>>

-----------------------------------------------------------------------------

\* Units the orders of the run and of the partner require.
Needed(r) == Cardinality({o \in Orders :
                            /\ OnRunOrMine(o, r)
                            /\ order[o].status \notin {"none", "cancelled", "failed"}})

\* What an item holds: the planned quantity if nothing was loaded.
EffectiveLoaded(line) == IF line.loaded > 0 THEN line.loaded ELSE line.planned

\* confirmPickup reads the status of the dispatch and the orders before its
\* transaction.  qty is what the partner accepted, if the body says so.
AskPickup(h, r, qty) ==
  /\ dispatch[r] = "loaded"
  /\ At(h, "idle")
  /\ Begin(h, [Idle EXCEPT !.pc = "pickup", !.run = r, !.need = Needed(r),
                           !.qty = qty])
  /\ UNCHANGED <<warehouse, order, run, loading>>

\* An order that leaves with a run is the run's and its partner's.
OnTheWay(r) == [status |-> "out_for_delivery", run |-> r, mine |-> TRUE]

\* The rest of the transaction, when the quantities are sufficient.
TakeCustody(r) ==
  /\ dispatch' = [dispatch EXCEPT ![r] = "collected"]
  /\ run' = [run EXCEPT ![r] = IF @ \in {"completed", "handed_over", "cancelled"}
                                 THEN @ ELSE "in_progress"]
  /\ order' = [o \in Orders |->
                 IF /\ order[o].status \in Waiting
                    /\ order[o].run = r \/ (order[o].mine /\ order[o].run = NoRun)
                   THEN OnTheWay(r)
                   ELSE order[o]]

Suffices(h, line) == EffectiveLoaded(line) >= handler[h].need

\* The UPDATE of the named item holds its row until the commit, and every edit
\* of the dispatch deletes that row: check and confirmation are one step.
PickUpNamed(h) ==
  LET r == handler[h].run
      accepted == [item[r] EXCEPT !.loaded = handler[h].qty]
  IN /\ At(h, "pickup")
     /\ handler[h].qty # Unnamed
     /\ item[r].there
     /\ \/ /\ Suffices(h, accepted)
           /\ item' = [item EXCEPT ![r] = accepted]
           /\ recounted' = IF accepted = item[r] THEN recounted
                                                 ELSE recounted \cup {r}
           /\ TakeCustody(r)
        \/ /\ ~Suffices(h, accepted)
           /\ UNCHANGED <<run, order, dispatch, item, recounted>>
     /\ Done(h)
     /\ UNCHANGED <<warehouse, out>>

\* Without one, the items are read unlocked ...
CheckItems(h) ==
  LET r == handler[h].run
  IN /\ At(h, "pickup")
     /\ handler[h].qty = Unnamed \/ ~item[r].there
     /\ IF Suffices(h, item[r])
          THEN Begin(h, [handler[h] EXCEPT !.pc = "collect"])
          ELSE Done(h)
     /\ UNCHANGED <<warehouse, order, run, loading>>

\* ... and the dispatch is confirmed whatever has become of them.
Collect(h) ==
  /\ At(h, "collect")
  /\ TakeCustody(handler[h].run)
  /\ Done(h)
  /\ UNCHANGED <<warehouse, item, out, recounted>>

\* startTodayRun reads the status of the run before its transaction.
AskStart(h, r) ==
  /\ run[r] \in {"pending", "assigned"}
  /\ Ask(h, "start", r, {})
  /\ UNCHANGED <<warehouse, order, run, loading>>

Start(h) ==
  LET r == handler[h].run
  IN /\ At(h, "start")
     /\ run' = [run EXCEPT ![r] = "in_progress"]
     /\ dispatch' = [dispatch EXCEPT ![r] = IF @ = "collected" THEN "in_progress" ELSE @]
     /\ order' = [o \in Orders |->
                    IF /\ dispatch[r] \in HandedOver \ {"completed"}
                       /\ order[o].run = r /\ order[o].status \in Waiting
                      THEN OnTheWay(r)
                      ELSE order[o]]
     /\ Done(h)
     /\ UNCHANGED <<warehouse, item, out, recounted>>

-----------------------------------------------------------------------------

\* The app may report a delivery unless the dispatch waits to be picked up; a
\* draft does not count as one.
MayDeliver(r) == dispatch[r] # "loaded"

\* markStopDelivered reads the orders of the stop and, for a delivery only, the
\* dispatch; those it read as reported are skipped.  The body names any status.
AskStop(h, r, o, verdict) ==
  /\ Exists(r)
  /\ Ordered(o) /\ OnRunOrMine(o, r)
  /\ verdict = "delivered" => MayDeliver(r)
  /\ At(h, "idle")
  /\ Begin(h, [Idle EXCEPT !.pc = "stop", !.run = r, !.verdict = verdict,
                           !.order = IF order[o].status \in {"delivered", "failed"}
                                       THEN {} ELSE {o}])
  /\ UNCHANGED <<warehouse, order, run, loading>>

Reported(h) ==
  [o \in Orders |-> IF o \in handler[h].order
                      THEN [order[o] EXCEPT !.status = handler[h].verdict]
                      ELSE order[o]]

\* Mutant: the synchronisation also completes a run handed over.
SyncedAnew(s) == {"completed", IF s = "assigned" THEN "in_progress" ELSE s}

\* delivery_runs.status after the counters are synchronised: completed if no
\* stop is left, which is open here since staff mark stops as well.
Synced(s) == IF s = "handed_over"
               THEN {s}
               ELSE {"completed", IF s = "assigned" THEN "in_progress" ELSE s}

\* Then the run is completed if none of its orders is open.
Ended(r, s) == IF s # "handed_over" /\ \A o \in Orders :
                    order'[o].run = r => order'[o].status \in Over
                 THEN "completed" ELSE s

ReportStop(h) ==
  LET r == handler[h].run
  IN /\ At(h, "stop")
     /\ order' = Reported(h)
     /\ \E s \in IF handler[h].order = {} THEN {run[r]} ELSE Synced(run[r]) :
          run' = [run EXCEPT ![r] = Ended(r, s)]
     /\ dispatch' = [dispatch EXCEPT ![r] = IF @ \in {"collected", "loaded"}
                                              THEN "in_progress" ELSE @]
     /\ Done(h)
     /\ UNCHANGED <<warehouse, item, out, recounted>>

\* markDeliveryDelivered: one order.  Without a run of its own it is held to
\* the dispatch of any run of the partner, unless it is out already.
AskDelivered(h, o, verdict) ==
  /\ order[o].status \notin {"none", "delivered", "failed"}
  /\ \/ order[o].run # NoRun /\ MayDeliver(order[o].run)
     \/ order[o].run = NoRun /\ order[o].status = "out_for_delivery"
     \/ order[o].run = NoRun /\ LET Active == {r \in Runs : run[r] \notin {"none", "cancelled"}}
                               IN Active = {} \/ \E r \in Active : MayDeliver(r)
  /\ At(h, "idle")
  /\ Begin(h, [Idle EXCEPT !.pc = "single", !.run = order[o].run, !.order = {o},
                           !.verdict = verdict])
  /\ UNCHANGED <<warehouse, order, run, loading>>

ReportDelivered(h) ==
  LET r == handler[h].run
  IN /\ At(h, "single")
     /\ order' = Reported(h)
     /\ IF r = NoRun
          THEN UNCHANGED run
          ELSE \E s \in Synced(run[r]) : run' = [run EXCEPT ![r] = Ended(r, s)]
     /\ Done(h)
     /\ UNCHANGED <<warehouse, loading>>

\* markOrdersOutForDelivery reads the partner's confirmed orders, then sends
\* them out as they are by then, with or without a dispatch.
AskOut(h) ==
  LET mine == {o \in Orders : order[o].mine /\ order[o].status = "confirmed"}
  IN /\ mine # {}
     /\ Ask(h, "out", NoRun, mine)
     /\ UNCHANGED <<warehouse, order, run, loading>>

SendOut(h) ==
  /\ At(h, "out")
  /\ order' = [o \in Orders |->
                 IF /\ o \in handler[h].order
                    /\ order[o].status \notin Over \cup {"out_for_delivery"}
                   THEN [order[o] EXCEPT !.status = "out_for_delivery", !.mine = TRUE]
                   ELSE order[o]]
  /\ Done(h)
  /\ UNCHANGED <<warehouse, run, loading>>

\* The app's poll reads the run and its orders, then completes it without
\* looking again; that its list of orders must not be empty is left out.
AskClose(h, r) ==
  /\ run[r] = "in_progress"
  /\ \A o \in OrdersOf(r) : ~IsOpen(o)
  /\ Ask(h, "close", r, {})
  /\ UNCHANGED <<warehouse, order, run, loading>>

Close(h) ==
  /\ At(h, "close")
  /\ run' = [run EXCEPT ![handler[h].run] = "completed"]
  /\ Done(h)
  /\ UNCHANGED <<warehouse, order, loading>>

\* handoverRun: isRunHandedOver is true of completed runs, so they are refused.
AskHandover(h, r) ==
  /\ Exists(r)
  /\ run[r] # "completed"
  /\ Ask(h, "handover", r, {})
  /\ UNCHANGED <<warehouse, order, run, loading>>

Handover(h) ==
  /\ At(h, "handover")
  /\ run' = [run EXCEPT ![handler[h].run] = "handed_over"]
  /\ Begin(h, [handler[h] EXCEPT !.pc = "returning"])
  /\ UNCHANGED <<warehouse, order, loading>>

ReturnsPending(r) ==
  dispatch' = [dispatch EXCEPT ![r] = IF @ \in {"none", "completed"}
                                        THEN @ ELSE "return_pending"]

EndHandover(h) ==
  /\ At(h, "returning")
  /\ ReturnsPending(handler[h].run)
  /\ Done(h)
  /\ UNCHANGED <<warehouse, order, run, item, out, recounted>>

\* returnProductsToHub.
ReturnToHub(r) ==
  /\ ReturnsPending(r)
  /\ UNCHANGED <<warehouse, order, run, item, out, recounted, handler>>

\* The UPDATEs that run when a server starts; the runs here are of today.
Startup ==
  /\ dispatch' = [r \in Runs |-> IF dispatch[r] = "return_pending"
                                    /\ run[r] # "handed_over"
                                   THEN "in_progress" ELSE dispatch[r]]
  /\ run' = [r \in Runs |-> IF run[r] = "completed" THEN "in_progress" ELSE run[r]]
  /\ UNCHANGED <<warehouse, order, item, out, recounted, handler>>

-----------------------------------------------------------------------------

\* createPurchaseEntry.
Purchase(q) ==
  /\ SetStock(Moved(stock, q))
  /\ UNCHANGED <<order, run, loading, handler>>

\* saveStockMovement reads the balance unlocked, inserts the movement, and
\* writes the balance it computed: three statements on their own.
AskMovement(h, q) ==
  /\ CanMove(stock, q)
  /\ Goods(stock) + q <= MaxStock
  /\ At(h, "idle")
  /\ Begin(h, [Idle EXCEPT !.pc = "insert", !.need = stock.available, !.qty = q])
  /\ clashed' = (clashed \/ \E g \in Handlers : Moving(g))
  /\ UNCHANGED <<stock, order, run, loading>>

InsertMovement(h) ==
  /\ At(h, "insert")
  /\ stock' = [stock EXCEPT !.moved = @ + handler[h].qty]
  /\ Begin(h, [handler[h] EXCEPT !.pc = "write"])
  /\ UNCHANGED <<clashed, order, run, loading>>

WriteBalance(h) ==
  LET q == handler[h].need + handler[h].qty
  IN /\ At(h, "write")
     /\ q + stock.reserved <= MaxStock
     /\ stock' = [stock EXCEPT !.available = q]
     /\ clashed' = (\/ clashed
                    \/ q # stock.available /\ \E g \in Handlers \ {h} : Moving(g))
     /\ Done(h)
     /\ UNCHANGED <<order, run, loading>>

\* A statement fails or the process dies.
Abandon(h) ==
  /\ ~At(h, "idle")
  /\ clashed' = (clashed \/ At(h, "write"))
  /\ Done(h)
  /\ UNCHANGED <<stock, order, run, loading>>

-----------------------------------------------------------------------------

Init ==
  /\ stock \in {[available |-> q, reserved |-> 0, moved |-> q, twice |-> 0]
                  : q \in 0 .. MaxStock}
  /\ clashed = FALSE
  /\ order = [o \in Orders |-> [status |-> "none", run |-> NoRun, mine |-> FALSE]]
  /\ run = [r \in Runs |-> "none"]
  /\ dispatch = [r \in Runs |-> "none"]
  /\ item = [r \in Runs |-> NoLine]
  /\ out = [r \in Runs |-> 0]
  /\ recounted = {}
  /\ handler = [h \in Handlers |-> Idle]

Units == 0 .. MaxLoad
Lines == {NoLine} \cup [there : {TRUE}, planned : Units, loaded : Units]

OrderStep(o) ==
  \/ Place(o) \/ Generate(o)
  \/ \E s \in OrderStatuses : SetOrderStatus(o, s)
  \/ \E mine \in BOOLEAN : AssignPartner(o, mine)

RunStep(r) ==
  \/ \E S \in SUBSET Orders : CreateRun(r, S)
  \/ \E s \in RunStatuses : SetRunStatus(r, s)
  \/ \E line \in Lines, near \in SUBSET {o \in Orders : order[o].run # r} :
       Dispatch(r, line, near)
  \/ \E returned, damaged \in Units : Return(r, returned, damaged)
  \/ ReturnToHub(r)

Request(h) ==
  \/ \E o \in Orders : AskCancel(h, o) \/ \E r \in Runs : AskAssign(h, r, o)
  \/ \E o \in Orders, v \in Reports : \/ AskDelivered(h, o, v)
                                      \/ \E r \in Runs : AskStop(h, r, o, v)
  \/ AskOut(h)
  \/ \E r \in Runs : \/ AskStart(h, r) \/ AskClose(h, r) \/ AskHandover(h, r)
                     \/ \E q \in Units \cup {Unnamed} : AskPickup(h, r, q)
  \/ \E q \in -MaxLoad .. MaxLoad : q # 0 /\ AskMovement(h, q)

Proceed(h) ==
  \/ Cancel(h) \/ OpenRun(h) \/ Attach(h)
  \/ PickUpNamed(h) \/ CheckItems(h) \/ Collect(h) \/ Start(h)
  \/ ReportStop(h) \/ ReportDelivered(h) \/ SendOut(h) \/ Close(h)
  \/ Handover(h) \/ EndHandover(h)
  \/ InsertMovement(h) \/ WriteBalance(h)
  \/ Abandon(h)

Next ==
  \/ ConfirmOneTimeOrders \/ ApproveLeave \/ Startup
  \/ \E o \in Orders : OrderStep(o)
  \/ \E r \in Runs : RunStep(r)
  \/ \E q \in Units \ {0} : Purchase(q)
  \/ \E h \in Handlers : Request(h) \/ Proceed(h)

Spec == Init /\ [][Next]_vars

-----------------------------------------------------------------------------

\* Whatever is reserved, drawn by dispatches, taken back, damaged or corrected,
\* the balance is the sum of its movements and of what returns count twice,
\* unless it changed under a manual movement (or one died before its write).
LedgerAgrees ==
  ~clashed =>
    /\ (\A h \in Handlers : ~At(h, "write")) =>
         Goods(stock) = stock.moved + stock.twice
    /\ \A h \in Handlers : At(h, "write") =>
         Goods(stock) + handler[h].qty = stock.moved + stock.twice

\* The stock was charged for exactly what a dispatch says is loaded, however
\* often its handover was edited, unless a pickup or the draft wrote loaded_qty.
DispatchedAsLoaded == \A r \in Runs \ recounted : out[r] = item[r].loaded

\* A run handed over is reopened by staff, or by a request that read it before.
HandedOverStays ==
  [][\A r \in Runs : run[r] = "handed_over" /\ run'[r] # "handed_over" =>
       \/ \E s \in RunStatuses : SetRunStatus(r, s)
       \/ \E returned, damaged \in Units : Return(r, returned, damaged)
       \/ \E h \in Handlers : handler[h].run = r /\ (Start(h) \/ Close(h))]_vars
=============================================================================
