--------------------------- MODULE DeliveryProofs ---------------------------
(***************************************************************************)
(* Theorems of Delivery, for any set of runs, orders and handlers and      *)
(* every value of the bounds.                                              *)
(***************************************************************************)
EXTENDS Delivery, FiniteSetTheorems, TLAPS

-----------------------------------------------------------------------------
(* The stock operators: types and sums.                                    *)

\* The fields of a balance.
LEMMA Fields ==
  ASSUME NEW s \in Balance
  PROVE  /\ s.available \in Nat /\ s.reserved \in Nat
         /\ s.moved \in Int /\ s.twice \in Nat
BY DEF Balance

LEMMA MovedType ==
  ASSUME NEW s \in Balance, NEW q \in Int, CanMove(s, q)
  PROVE  Moved(s, q) \in Balance
<1> DEFINE x == s.available + q
           z == s.moved + q
<1>1. x \in Nat /\ z \in Int
  BY Fields DEF CanMove
<1>2. Moved(s, q) = [s EXCEPT !.available = x, !.moved = z]
  BY DEF Moved
<1> HIDE DEF x, z
<1> QED BY <1>1, <1>2 DEF Balance

LEMMA MovedSum ==
  ASSUME NEW s \in Balance, NEW q \in Int
  PROVE  /\ Goods(Moved(s, q)) = Goods(s) + q
         /\ Moved(s, q).moved = s.moved + q
         /\ Moved(s, q).twice = s.twice
         /\ Moved(s, q).available = s.available + q
BY DEF Balance, Moved, Goods

LEMMA ReservedType ==
  ASSUME NEW s \in Balance, CanReserve(s, 1)
  PROVE  /\ Reserved(s, 1) \in Balance
         /\ Goods(Reserved(s, 1)) = Goods(s)
         /\ Reserved(s, 1).moved = s.moved
         /\ Reserved(s, 1).twice = s.twice
<1> DEFINE x == s.available - 1
           y == s.reserved + 1
<1>1. x \in Nat /\ y \in Nat
  BY Fields DEF CanReserve
<1>2. Reserved(s, 1) = [s EXCEPT !.available = x, !.reserved = y]
  BY DEF Reserved
<1>3. Reserved(s, 1) \in Balance
  <2> HIDE DEF x, y
  <2> QED BY <1>1, <1>2 DEF Balance
<1> QED BY <1>3 DEF Balance, Reserved, Goods

LEMMA DrawnBounds ==
  ASSUME NEW s \in Balance, NEW q \in Int
  PROVE  Drawn(s, q) \in Nat /\ Drawn(s, q) <= s.reserved
BY Fields DEF Drawn, Least

\* What is drawn was reserved: releasing it moves goods, it makes none.
LEMMA ReleasedSum ==
  ASSUME NEW s \in Balance, NEW q \in Nat, q <= s.reserved
  PROVE  /\ Released(s, q) \in Balance
         /\ Goods(Released(s, q)) = Goods(s)
         /\ Released(s, q).moved = s.moved
         /\ Released(s, q).twice = s.twice
<1> DEFINE x == s.available + q
           y == s.reserved - q
<1>1. x \in Nat /\ y \in Nat
  BY Fields
<1>2. Released(s, q) = [s EXCEPT !.available = x, !.reserved = y]
  BY DEF Released
<1>3. Released(s, q) \in Balance
  <2> HIDE DEF x, y
  <2> QED BY <1>1, <1>2 DEF Balance
<1> QED BY <1>3 DEF Balance, Released, Goods

LEMMA LoadedSum ==
  ASSUME NEW s \in Balance, NEW q \in Int, CanLoad(s, q)
  PROVE  /\ Loaded(s, q) \in Balance
         /\ Goods(Loaded(s, q)) = Goods(s) - q
         /\ Loaded(s, q).moved = s.moved - q
         /\ Loaded(s, q).twice = s.twice
<1> DEFINE r == Released(s, Drawn(s, q))
<1>1. /\ r \in Balance
      /\ Goods(r) = Goods(s) /\ r.moved = s.moved /\ r.twice = s.twice
  BY DrawnBounds, ReleasedSum
<1>2. CanMove(r, -q)
  BY DEF CanLoad
<1>3. Loaded(s, q) = Moved(r, -q)
  BY DEF Loaded
<1>4. Goods(s) \in Int /\ s.moved \in Int
  BY DEF Balance, Goods
<1> HIDE DEF r
<1>5. /\ Moved(r, -q) \in Balance
      /\ Goods(Moved(r, -q)) = Goods(r) + (-q)
      /\ Moved(r, -q).moved = r.moved + (-q)
      /\ Moved(r, -q).twice = r.twice
  BY <1>1, <1>2, MovedType, MovedSum
<1> QED BY <1>1, <1>3, <1>4, <1>5

\* The movement of a return and the addition beside it.
LEMMA TakenBackSum ==
  ASSUME NEW s \in Balance, NEW q \in Nat
  PROVE  /\ TakenBack(s, q) \in Balance
         /\ Goods(TakenBack(s, q)) = Goods(s) + 2 * q
         /\ TakenBack(s, q).moved = s.moved + q
         /\ TakenBack(s, q).twice = s.twice + q
<1> DEFINE x == s.available + q
           y == s.twice + q
           r == [s EXCEPT !.available = x, !.twice = y]
<1>1. x \in Nat /\ y \in Nat
  BY Fields
<1>2. r \in Balance
  <2> HIDE DEF x, y
  <2> QED BY <1>1 DEF Balance
<1>3. Goods(r) = Goods(s) + q /\ r.moved = s.moved /\ r.twice = s.twice + q
  BY DEF Balance, Goods
<1>4. CanMove(r, q)
  BY <1>2, Fields DEF CanMove
<1>5. TakenBack(s, q) = Moved(r, q)
  BY DEF TakenBack
<1>6. Goods(s) \in Int
  BY Fields DEF Goods
<1> HIDE DEF r
<1>7. /\ Moved(r, q) \in Balance
      /\ Goods(Moved(r, q)) = Goods(r) + q
      /\ Moved(r, q).moved = r.moved + q
      /\ Moved(r, q).twice = r.twice
  BY <1>2, <1>4, MovedType, MovedSum
<1> QED BY <1>3, <1>5, <1>6, <1>7

-----------------------------------------------------------------------------
(* Types.                                                                  *)

\* What each label says of the run and the quantities of its handler.
Placed(f) ==
  /\ f \in Handler
  /\ f.pc \in OnRun => f.run \in Runs
  /\ f.pc = "pickup" => f.qty \in Nat \cup {Unnamed}
  /\ f.pc \in {"insert", "write"} => f.need + f.qty \in Nat

HandlersPlaced == /\ handler \in [Handlers -> Handler]
                  /\ \A h \in Handlers : Placed(handler[h])

WarehouseTyped == stock \in Balance /\ clashed \in BOOLEAN

RowsTyped == /\ order \in [Orders -> Order]
             /\ run \in [Runs -> RunStatuses \cup {"none"}]

LoadingTyped == /\ dispatch \in [Runs -> DispatchStatuses \cup {"none"}]
                /\ item \in [Runs -> Line]
                /\ out \in [Runs -> Int]
                /\ recounted \subseteq Runs

LEMMA TypeSplit ==
  TypeOK <=> WarehouseTyped /\ RowsTyped /\ LoadingTyped /\ HandlersPlaced
BY DEF TypeOK, WarehouseTyped, RowsTyped, LoadingTyped, HandlersPlaced, Placed

LEMMA TypeJoin ==
  WarehouseTyped' /\ RowsTyped' /\ LoadingTyped' /\ HandlersPlaced' => TypeOK'
BY DEF TypeOK, WarehouseTyped, RowsTyped, LoadingTyped, HandlersPlaced, Placed

LEMMA IdlePlaced == Placed(Idle)
BY DEF Placed, Idle, Handler, OrderStatuses, OnRun

LEMMA BeginPlaced ==
  ASSUME HandlersPlaced, NEW h \in Handlers, NEW f, Placed(f), Begin(h, f)
  PROVE  HandlersPlaced'
BY DEF HandlersPlaced, Begin, Placed

LEMMA DonePlaced ==
  ASSUME HandlersPlaced, NEW h \in Handlers, Done(h)
  PROVE  HandlersPlaced'
BY IdlePlaced, BeginPlaced DEF Done

LEMMA SameHandlers == HandlersPlaced /\ UNCHANGED handler => HandlersPlaced'
BY DEF HandlersPlaced, Placed

LEMMA SameWarehouse == WarehouseTyped /\ UNCHANGED warehouse => WarehouseTyped'
BY DEF WarehouseTyped, warehouse

LEMMA SameLoading == LoadingTyped /\ UNCHANGED loading => LoadingTyped'
BY DEF LoadingTyped, loading

LEMMA SetStockType ==
  ASSUME WarehouseTyped, NEW s \in Balance, SetStock(s)
  PROVE  WarehouseTyped'
BY DEF WarehouseTyped, SetStock

LEMMA AdvancedType ==
  ASSUME RowsTyped, NEW S, NEW from, NEW s \in OrderStatuses
  PROVE  Advanced(S, from, s) \in [Orders -> Order]
BY DEF RowsTyped, Advanced, Order

LEMMA CountType ==
  ASSUME NEW S \in SUBSET Orders
  PROVE  Cardinality(S) \in Nat
BY DeliveryAssumption, FS_Subset, FS_CardinalityType DEF DeliveryAssumption

LEMMA NeededType == \A r \in Runs : Needed(r) \in Nat
BY CountType DEF Needed

LEMMA InitType == Init => TypeOK
<1> SUFFICES ASSUME Init PROVE TypeOK
  OBVIOUS
<1>1. WarehouseTyped
  <2>1. PICK q \in 0 .. MaxStock :
          stock = [available |-> q, reserved |-> 0, moved |-> q, twice |-> 0]
    BY DEF Init
  <2>2. q \in Nat
    BY DeliveryAssumption DEF DeliveryAssumption
  <2>3. stock \in Balance
    BY <2>1, <2>2 DEF Balance
  <2> QED BY <2>3 DEF Init, WarehouseTyped
<1>2. RowsTyped
  BY DEF Init, RowsTyped, Order
<1>3. LoadingTyped
  BY DEF Init, LoadingTyped, NoLine, Line
<1>4. HandlersPlaced
  BY IdlePlaced DEF Init, HandlersPlaced, Placed
<1> QED BY <1>1, <1>2, <1>3, <1>4, TypeSplit

LEMMA OrderStepType ==
  ASSUME TypeOK, NEW o \in Orders, OrderStep(o)
  PROVE  TypeOK'
<1>0. WarehouseTyped /\ RowsTyped /\ LoadingTyped /\ HandlersPlaced
  BY TypeSplit
<1>1. CASE Place(o)
  <2>1. WarehouseTyped'
    BY <1>0, <1>1, ReservedType, SetStockType, SameWarehouse
       DEF Place, WarehouseTyped
  <2>2. RowsTyped'
    BY <1>0, <1>1 DEF Place, RowsTyped, Order, OrderStatuses
  <2>3. LoadingTyped' /\ HandlersPlaced'
    BY <1>0, <1>1, SameLoading, SameHandlers DEF Place
  <2> QED BY <2>1, <2>2, <2>3, TypeJoin
<1>2. ASSUME \/ Generate(o)
             \/ \E s \in OrderStatuses : SetOrderStatus(o, s)
             \/ \E mine \in BOOLEAN : AssignPartner(o, mine)
      PROVE  TypeOK'
  <2>1. RowsTyped'
    BY <1>0, <1>2
       DEF Generate, SetOrderStatus, AssignPartner, RowsTyped, Order, OrderStatuses
  <2>2. WarehouseTyped' /\ LoadingTyped' /\ HandlersPlaced'
    BY <1>0, <1>2, SameWarehouse, SameLoading, SameHandlers
       DEF Generate, SetOrderStatus, AssignPartner
  <2> QED BY <2>1, <2>2, TypeJoin
<1> QED BY <1>1, <1>2 DEF OrderStep

LEMMA AddedType ==
  ASSUME LoadingTyped, NEW r \in Runs, NEW line \in Lines
  PROVE  line \in Line /\ Added(r, line) \in Int
<1>1. Units \subseteq Nat
  BY DeliveryAssumption DEF Units, DeliveryAssumption
<1>2. line \in Line
  <2>1. CASE line = NoLine
    BY <2>1 DEF Line, NoLine
  <2>2. CASE line \in [there : {TRUE}, planned : Units, loaded : Units]
    BY <1>1, <2>2 DEF Line
  <2> QED BY <2>1, <2>2 DEF Lines
<1>3. item[r] \in Line
  BY DEF LoadingTyped
<1>4. line.loaded \in Int /\ item[r].loaded \in Int
  BY <1>2, <1>3 DEF Line
<1> QED BY <1>2, <1>4 DEF Added

LEMMA RunStepType ==
  ASSUME TypeOK, NEW r \in Runs, RunStep(r)
  PROVE  TypeOK'
<1>0. WarehouseTyped /\ RowsTyped /\ LoadingTyped /\ HandlersPlaced
  BY TypeSplit
<1>1. ASSUME NEW S \in SUBSET Orders, CreateRun(r, S) PROVE TypeOK'
  <2>1. RowsTyped'
    BY <1>0, <1>1 DEF CreateRun, Assigned, RowsTyped, Order, OrderStatuses, RunStatuses
  <2>2. LoadingTyped'
    BY <1>0, <1>1, CountType DEF CreateRun, LoadingTyped, Line, DispatchStatuses
  <2>3. WarehouseTyped' /\ HandlersPlaced'
    BY <1>0, <1>1, SameWarehouse, SameHandlers DEF CreateRun
  <2> QED BY <2>1, <2>2, <2>3, TypeJoin
<1>2. ASSUME \E s \in RunStatuses : SetRunStatus(r, s) PROVE TypeOK'
  <2>1. RowsTyped'
    BY <1>0, <1>2 DEF SetRunStatus, RowsTyped, RunStatuses
  <2>2. WarehouseTyped' /\ LoadingTyped' /\ HandlersPlaced'
    BY <1>0, <1>2, SameWarehouse, SameLoading, SameHandlers DEF SetRunStatus
  <2> QED BY <2>1, <2>2, TypeJoin
<1>3. ASSUME NEW line \in Lines, NEW near, Dispatch(r, line, near) PROVE TypeOK'
  <2>1. line \in Line /\ Added(r, line) \in Int
    BY <1>0, AddedType
  <2>2. WarehouseTyped'
    BY <1>0, <1>3, <2>1, LoadedSum, SetStockType DEF Dispatch, WarehouseTyped
  <2>3. order' \in [Orders -> Order]
    BY <1>0, <1>3, AdvancedType DEF Dispatch, OrderStatuses
  <2>4. RowsTyped'
    BY <1>0, <1>3, <2>3 DEF Dispatch, RowsTyped, RunStatuses
  <2>5. LoadingTyped'
    BY <1>0, <1>3, <2>1 DEF Dispatch, LoadingTyped, DispatchStatuses
  <2>6. HandlersPlaced'
    BY <1>0, <1>3, SameHandlers DEF Dispatch
  <2> QED BY <2>2, <2>4, <2>5, <2>6, TypeJoin
<1>4. ASSUME NEW returned \in Units, NEW damaged \in Units,
             Return(r, returned, damaged)
      PROVE  TypeOK'
  <2>1. returned \in Nat /\ damaged \in Nat
    BY DeliveryAssumption DEF Units, DeliveryAssumption
  <2>2. WarehouseTyped'
    <3>1. CASE item[r].there
      <4>1. TakenBack(stock, returned) \in Balance
        BY <1>0, <2>1, TakenBackSum DEF WarehouseTyped
      <4>2. Moved(TakenBack(stock, returned), -damaged) \in Balance
        BY <1>4, <2>1, <3>1, <4>1, MovedType DEF Return
      <4> QED BY <1>0, <1>4, <3>1, <4>2, SetStockType DEF Return
    <3> QED BY <1>0, <1>4, <3>1, SameWarehouse DEF Return
  <2>3. RowsTyped'
    BY <1>0, <1>4 DEF Return, RowsTyped, RunStatuses
  <2>4. LoadingTyped'
    BY <1>0, <1>4 DEF Return, LoadingTyped, DispatchStatuses
  <2>5. HandlersPlaced'
    BY <1>0, <1>4, SameHandlers DEF Return
  <2> QED BY <2>2, <2>3, <2>4, <2>5, TypeJoin
<1>5. CASE ReturnToHub(r)
  <2>1. WarehouseTyped' /\ HandlersPlaced'
    BY <1>0, <1>5, SameWarehouse, SameHandlers DEF ReturnToHub
  <2>2. RowsTyped' /\ LoadingTyped'
    BY <1>0, <1>5
       DEF ReturnToHub, ReturnsPending, RowsTyped, LoadingTyped, DispatchStatuses
  <2> QED BY <2>1, <2>2, TypeJoin
<1> QED BY <1>1, <1>2, <1>3, <1>4, <1>5 DEF RunStep

\* The statuses of reports are those of orders.
LEMMA ReportedStatuses == Reports \subseteq OrderStatuses
BY DeliveryAssumption DEF DeliveryAssumption, OrderStatuses

\* Whatever a request puts into the fields of a handler, it is in place.
LEMMA AskPlaced ==
  ASSUME HandlersPlaced, NEW h \in Handlers, NEW label, NEW r \in Runs \cup {NoRun},
         NEW s \in SUBSET Orders, Ask(h, label, r, s),
         label \in {"cancel", "open", "start", "out", "close", "handover"},
         label \notin {"cancel", "out"} => r \in Runs
  PROVE  HandlersPlaced'
<1> DEFINE f == [Idle EXCEPT !.pc = label, !.run = r, !.order = s]
<1>1. Placed(f)
  <2>1. f \in Handler
    BY IdlePlaced DEF Placed, Handler
  <2>2. f.pc = label /\ f.run = r
    BY DEF Idle
  <2> HIDE DEF f
  <2> QED BY <2>1, <2>2 DEF Placed, OnRun
<1>2. Begin(h, f)
  BY DEF Ask
<1> QED BY <1>1, <1>2, BeginPlaced

LEMMA RequestType ==
  ASSUME TypeOK, NEW h \in Handlers, Request(h)
  PROVE  TypeOK'
<1>0. WarehouseTyped /\ RowsTyped /\ LoadingTyped /\ HandlersPlaced
  BY TypeSplit
<1>1. ASSUME NEW o \in Orders, AskCancel(h, o) PROVE TypeOK'
  <2>1. HandlersPlaced'
    BY <1>0, <1>1, AskPlaced DEF AskCancel
  <2> QED BY <1>0, <1>1, <2>1, SameWarehouse, SameLoading, TypeJoin
          DEF AskCancel, RowsTyped
<1>2. ASSUME NEW o \in Orders, NEW r \in Runs, AskAssign(h, r, o) PROVE TypeOK'
  <2>1. HandlersPlaced'
    BY <1>0, <1>2, AskPlaced DEF AskAssign
  <2> QED BY <1>0, <1>2, <2>1, SameWarehouse, SameLoading, TypeJoin
          DEF AskAssign, RowsTyped
<1>3. ASSUME NEW r \in Runs, NEW o \in Orders, NEW v \in Reports, AskStop(h, r, o, v)
      PROVE  TypeOK'
  <2> DEFINE s == IF order[o].status \in {"delivered", "failed"} THEN {} ELSE {o}
             f == [Idle EXCEPT !.pc = "stop", !.run = r, !.verdict = v, !.order = s]
  <2>1. Placed(f)
    <3>1. s \in SUBSET Orders
      OBVIOUS
    <3>2. f.pc = "stop" /\ f.run = r
      BY DEF Idle
    <3>3. f \in Handler
      <4> HIDE DEF s
      <4> QED BY <3>1, ReportedStatuses, IdlePlaced DEF Placed, Handler
    <3> HIDE DEF f
    <3> QED BY <3>2, <3>3 DEF Placed
  <2>2. HandlersPlaced'
    BY <1>0, <1>3, <2>1, BeginPlaced DEF AskStop
  <2> QED BY <1>0, <1>3, <2>2, SameWarehouse, SameLoading, TypeJoin
          DEF AskStop, RowsTyped
<1>4. ASSUME NEW o \in Orders, NEW v \in Reports, AskDelivered(h, o, v)
      PROVE  TypeOK'
  <2> DEFINE f == [Idle EXCEPT !.pc = "single", !.run = order[o].run, !.order = {o},
                               !.verdict = v]
  <2>1. order[o].run \in Runs \cup {NoRun}
    BY <1>0 DEF RowsTyped, Order
  <2>2. Placed(f)
    <3>1. f \in Handler
      BY <2>1, ReportedStatuses, IdlePlaced DEF Placed, Handler
    <3>2. f.pc = "single"
      BY DEF Idle
    <3> HIDE DEF f
    <3> QED BY <3>1, <3>2 DEF Placed, OnRun
  <2>3. HandlersPlaced'
    BY <1>0, <1>4, <2>2, BeginPlaced DEF AskDelivered
  <2> QED BY <1>0, <1>4, <2>3, SameWarehouse, SameLoading, TypeJoin
          DEF AskDelivered, RowsTyped
<1>5. ASSUME NEW r \in Runs, AskStart(h, r) \/ AskClose(h, r) \/ AskHandover(h, r)
      PROVE  TypeOK'
  <2>1. HandlersPlaced'
    BY <1>0, <1>5, AskPlaced DEF AskStart, AskClose, AskHandover
  <2> QED BY <1>0, <1>5, <2>1, SameWarehouse, SameLoading, TypeJoin
          DEF AskStart, AskClose, AskHandover, RowsTyped
<1>6. ASSUME NEW r \in Runs, NEW q \in Units \cup {Unnamed}, AskPickup(h, r, q)
      PROVE  TypeOK'
  <2> DEFINE f == [Idle EXCEPT !.pc = "pickup", !.run = r, !.need = Needed(r),
                               !.qty = q]
  <2>1. Needed(r) \in Nat /\ q \in Int
    BY NeededType, DeliveryAssumption DEF Units, Unnamed, DeliveryAssumption
  <2>2. Placed(f)
    <3>1. f \in Handler
      BY <2>1, IdlePlaced DEF Placed, Handler
    <3>2. f.pc = "pickup" /\ f.run = r /\ f.qty = q
      BY DEF Idle
    <3>3. q \in Nat \cup {Unnamed}
      BY DeliveryAssumption DEF Units, DeliveryAssumption
    <3> HIDE DEF f
    <3> QED BY <3>1, <3>2, <3>3 DEF Placed
  <2>3. HandlersPlaced'
    BY <1>0, <1>6, <2>2, BeginPlaced DEF AskPickup
  <2> QED BY <1>0, <1>6, <2>3, SameWarehouse, SameLoading, TypeJoin
          DEF AskPickup, RowsTyped
<1>7. ASSUME NEW q \in -MaxLoad .. MaxLoad, AskMovement(h, q) PROVE TypeOK'
  <2> DEFINE f == [Idle EXCEPT !.pc = "insert", !.need = stock.available, !.qty = q]
  <2>1. q \in Int /\ stock.available \in Nat /\ stock.available + q \in Nat
    BY <1>0, <1>7, Fields, DeliveryAssumption
       DEF DeliveryAssumption, WarehouseTyped, AskMovement, CanMove
  <2>2. Placed(f)
    <3>1. f \in Handler
      BY <2>1, IdlePlaced DEF Placed, Handler
    <3>2. f.pc = "insert" /\ f.need = stock.available /\ f.qty = q
      BY DEF Idle
    <3> HIDE DEF f
    <3> QED BY <2>1, <3>1, <3>2 DEF Placed, OnRun
  <2>3. HandlersPlaced'
    BY <1>0, <1>7, <2>2, BeginPlaced DEF AskMovement
  <2>4. WarehouseTyped'
    BY <1>0, <1>7 DEF AskMovement, WarehouseTyped
  <2> QED BY <1>0, <1>7, <2>3, <2>4, SameLoading, TypeJoin
          DEF AskMovement, RowsTyped
<1>8. CASE AskOut(h)
  <2>1. PICK s \in SUBSET Orders : Ask(h, "out", NoRun, s)
    BY <1>8 DEF AskOut
  <2>2. HandlersPlaced'
    BY <1>0, <2>1, AskPlaced
  <2> QED BY <1>0, <1>8, <2>2, SameWarehouse, SameLoading, TypeJoin
          DEF AskOut, RowsTyped
<1> QED BY <1>1, <1>2, <1>3, <1>4, <1>5, <1>6, <1>7, <1>8 DEF Request

\* A handler that acts on a run has one; one that writes a balance computes it.
LEMMA HandlerFields ==
  ASSUME HandlersPlaced, NEW h \in Handlers
  PROVE  /\ handler[h] \in Handler
         /\ handler[h].run \in Runs \cup {NoRun}
         /\ handler[h].pc \in OnRun => handler[h].run \in Runs
         /\ handler[h].order \subseteq Orders
         /\ handler[h].verdict \in OrderStatuses
         /\ handler[h].need \in Nat /\ handler[h].qty \in Int
         /\ handler[h].pc = "pickup" => handler[h].qty \in Nat \cup {Unnamed}
         /\ handler[h].pc \in {"insert", "write"} =>
              handler[h].need + handler[h].qty \in Nat
BY DEF HandlersPlaced, Placed, Handler

LEMMA CustodyType ==
  ASSUME RowsTyped, NEW r \in Runs, TakeCustody(r)
  PROVE  RowsTyped' /\ dispatch' = [dispatch EXCEPT ![r] = "collected"]
<1>1. order' \in [Orders -> Order]
  BY DEF TakeCustody, OnTheWay, RowsTyped, Order, OrderStatuses
<1> QED BY <1>1 DEF TakeCustody, RowsTyped, RunStatuses

LEMMA ReportedType ==
  ASSUME RowsTyped, HandlersPlaced, NEW h \in Handlers
  PROVE  Reported(h) \in [Orders -> Order]
BY HandlerFields DEF Reported, RowsTyped, Order

LEMMA EndedType ==
  ASSUME NEW r \in Runs, run[r] \in RunStatuses \cup {"none"}
  PROVE  /\ Synced(run[r]) \subseteq RunStatuses \cup {"none"}
         /\ \A s \in RunStatuses \cup {"none"} : Ended(r, s) \in RunStatuses \cup {"none"}
BY DEF Synced, Ended, RunStatuses

LEMMA StopType ==
  ASSUME TypeOK, NEW h \in Handlers, ReportStop(h) \/ ReportDelivered(h)
  PROVE  RowsTyped'
<1> DEFINE r == handler[h].run
<1>0. RowsTyped /\ HandlersPlaced
  BY TypeSplit
<1>1. order' \in [Orders -> Order]
  BY <1>0, ReportedType DEF ReportStop, ReportDelivered
<1>2. CASE r \in Runs
  <2>1. run[r] \in RunStatuses \cup {"none"}
    BY <1>0, <1>2 DEF RowsTyped
  <2>2. PICK s \in {run[r]} \cup Synced(run[r]) : run' = [run EXCEPT ![r] = Ended(r, s)]
               \/ UNCHANGED run
    BY <1>2 DEF ReportStop, ReportDelivered
  <2>3. s \in RunStatuses \cup {"none"}
    BY <1>2, <2>1, EndedType
  <2>4. Ended(r, s) \in RunStatuses \cup {"none"}
    BY <1>2, <2>1, <2>3, EndedType
  <2> QED BY <1>0, <1>1, <2>2, <2>4 DEF RowsTyped
<1>3. CASE r \notin Runs
  <2>1. handler[h].pc # "stop" /\ r = NoRun
    BY <1>0, <1>3, HandlerFields DEF OnRun
  <2>2. UNCHANGED run
    BY <2>1 DEF ReportStop, ReportDelivered, At
  <2> QED BY <1>0, <1>1, <2>2 DEF RowsTyped
<1> QED BY <1>2, <1>3

LEMMA ProceedType ==
  ASSUME TypeOK, NEW h \in Handlers, Proceed(h)
  PROVE  TypeOK'
<1> DEFINE f == handler[h]
<1>0. WarehouseTyped /\ RowsTyped /\ LoadingTyped /\ HandlersPlaced
  BY TypeSplit
<1>f. /\ f \in Handler /\ f.run \in Runs \cup {NoRun}
      /\ f.pc \in OnRun => f.run \in Runs
      /\ f.order \subseteq Orders /\ f.need \in Nat /\ f.qty \in Int
      /\ f.pc = "pickup" => f.qty \in Nat \cup {Unnamed}
      /\ f.pc \in {"insert", "write"} => f.need + f.qty \in Nat
  BY <1>0, HandlerFields
<1>1. CASE Cancel(h)
  <2>1. RowsTyped'
    BY <1>0, <1>1 DEF Cancel, RowsTyped, Order, OrderStatuses
  <2> QED BY <1>0, <1>1, <2>1, SameWarehouse, SameLoading, DonePlaced, TypeJoin
          DEF Cancel
<1>2. CASE OpenRun(h)
  <2>1. f.run \in Runs
    BY <1>2, <1>f DEF OpenRun, At, OnRun
  <2>2. RowsTyped'
    BY <1>0, <1>2, <2>1 DEF OpenRun, RowsTyped, RunStatuses
  <2>3. Placed([f EXCEPT !.pc = "attach"])
    BY <1>f, <2>1 DEF Placed, Handler
  <2> QED BY <1>0, <1>2, <2>2, <2>3, SameWarehouse, SameLoading, BeginPlaced, TypeJoin
          DEF OpenRun
<1>3. CASE Attach(h)
  <2>1. f.run \in Runs
    BY <1>3, <1>f DEF Attach, At, OnRun
  <2>2. RowsTyped'
    BY <1>0, <1>3, <2>1 DEF Attach, Assigned, RowsTyped, Order, OrderStatuses
  <2> QED BY <1>0, <1>3, <2>2, SameWarehouse, SameLoading, DonePlaced, TypeJoin
          DEF Attach
<1>4. CASE PickUpNamed(h)
  <2> DEFINE line == [item[f.run] EXCEPT !.loaded = f.qty]
  <2>1. f.run \in Runs
    BY <1>4, <1>f DEF PickUpNamed, At, OnRun
  <2>2. f.qty \in Nat
    BY <1>4, <1>f DEF PickUpNamed, At
  <2>3. line \in Line
    BY <1>0, <2>1, <2>2 DEF LoadingTyped, Line
  <2>4. RowsTyped' /\ LoadingTyped'
    <3>1. CASE Suffices(h, line)
      <4>1. TakeCustody(f.run) /\ item' = [item EXCEPT ![f.run] = line]
            /\ recounted' \subseteq recounted \cup {f.run} /\ UNCHANGED out
        BY <1>4, <3>1 DEF PickUpNamed
      <4>2. RowsTyped' /\ dispatch' = [dispatch EXCEPT ![f.run] = "collected"]
        BY <1>0, <2>1, <4>1, CustodyType
      <4> QED BY <1>0, <2>1, <2>3, <4>1, <4>2 DEF LoadingTyped, DispatchStatuses
    <3>2. CASE ~Suffices(h, line)
      BY <1>0, <1>4, <3>2 DEF PickUpNamed, RowsTyped, LoadingTyped
    <3> QED BY <3>1, <3>2
  <2> QED BY <1>0, <1>4, <2>4, SameWarehouse, DonePlaced, TypeJoin DEF PickUpNamed
<1>5. CASE CheckItems(h)
  <2>1. f.run \in Runs
    BY <1>5, <1>f DEF CheckItems, At, OnRun
  <2>2. Placed([f EXCEPT !.pc = "collect"])
    BY <1>f, <2>1 DEF Placed, Handler
  <2>3. HandlersPlaced'
    BY <1>0, <1>5, <2>2, BeginPlaced, DonePlaced DEF CheckItems
  <2>4. RowsTyped'
    BY <1>0, <1>5 DEF CheckItems, RowsTyped
  <2> QED BY <1>0, <1>5, <2>3, <2>4, SameWarehouse, SameLoading, TypeJoin
          DEF CheckItems
<1>6. CASE Collect(h)
  <2>1. f.run \in Runs
    BY <1>6, <1>f DEF Collect, At, OnRun
  <2>2. RowsTyped' /\ dispatch' = [dispatch EXCEPT ![f.run] = "collected"]
    BY <1>0, <1>6, <2>1, CustodyType DEF Collect
  <2>3. LoadingTyped'
    BY <1>0, <1>6, <2>2 DEF Collect, LoadingTyped, DispatchStatuses
  <2> QED BY <1>0, <1>6, <2>2, <2>3, SameWarehouse, DonePlaced, TypeJoin DEF Collect
<1>7. CASE Start(h)
  <2>1. f.run \in Runs
    BY <1>7, <1>f DEF Start, At, OnRun
  <2>2. order' \in [Orders -> Order]
    BY <1>0, <1>7, <2>1 DEF Start, OnTheWay, RowsTyped, Order, OrderStatuses
  <2>3. RowsTyped' /\ LoadingTyped'
    BY <1>0, <1>7, <2>1, <2>2
       DEF Start, RowsTyped, LoadingTyped, RunStatuses, DispatchStatuses
  <2> QED BY <1>0, <1>7, <2>3, SameWarehouse, DonePlaced, TypeJoin DEF Start
<1>8. CASE ReportStop(h)
  <2>1. RowsTyped'
    BY <1>8, StopType
  <2>2. LoadingTyped'
    BY <1>0, <1>8 DEF ReportStop, LoadingTyped, DispatchStatuses
  <2> QED BY <1>0, <1>8, <2>1, <2>2, SameWarehouse, DonePlaced, TypeJoin
          DEF ReportStop
<1>9. CASE ReportDelivered(h)
  <2>1. RowsTyped'
    BY <1>9, StopType
  <2> QED BY <1>0, <1>9, <2>1, SameWarehouse, SameLoading, DonePlaced, TypeJoin
          DEF ReportDelivered
<1>10. CASE Close(h)
  <2>1. RowsTyped'
    BY <1>0, <1>10 DEF Close, RowsTyped, RunStatuses
  <2> QED BY <1>0, <1>10, <2>1, SameWarehouse, SameLoading, DonePlaced, TypeJoin
          DEF Close
<1>11. CASE Handover(h)
  <2>1. f.run \in Runs
    BY <1>11, <1>f DEF Handover, At, OnRun
  <2>2. Placed([f EXCEPT !.pc = "returning"])
    BY <1>f, <2>1 DEF Placed, Handler
  <2>3. RowsTyped'
    BY <1>0, <1>11 DEF Handover, RowsTyped, RunStatuses
  <2> QED BY <1>0, <1>11, <2>2, <2>3, SameWarehouse, SameLoading, BeginPlaced, TypeJoin
          DEF Handover
<1>12. CASE EndHandover(h)
  <2>1. LoadingTyped' /\ RowsTyped'
    BY <1>0, <1>12
       DEF EndHandover, ReturnsPending, LoadingTyped, RowsTyped, DispatchStatuses
  <2> QED BY <1>0, <1>12, <2>1, SameWarehouse, DonePlaced, TypeJoin DEF EndHandover
<1>13. CASE InsertMovement(h)
  <2>1. Placed([f EXCEPT !.pc = "write"])
    BY <1>13, <1>f DEF Placed, Handler, InsertMovement, At, OnRun
  <2>2. stock.moved + f.qty \in Int
    BY <1>0, <1>f, Fields DEF WarehouseTyped
  <2>3. WarehouseTyped' /\ RowsTyped'
    BY <1>0, <1>13, <2>2 DEF InsertMovement, WarehouseTyped, RowsTyped, Balance
  <2> QED BY <1>0, <1>13, <2>1, <2>3, SameLoading, BeginPlaced, TypeJoin
          DEF InsertMovement
<1>14. CASE WriteBalance(h)
  <2>1. f.need + f.qty \in Nat
    BY <1>14, <1>f DEF WriteBalance, At
  <2>2. WarehouseTyped' /\ RowsTyped'
    BY <1>0, <1>14, <2>1 DEF WriteBalance, WarehouseTyped, RowsTyped, Balance
  <2> QED BY <1>0, <1>14, <2>2, SameLoading, DonePlaced, TypeJoin DEF WriteBalance
<1>15. CASE Abandon(h)
  BY <1>0, <1>15, SameLoading, DonePlaced, TypeJoin
     DEF Abandon, WarehouseTyped, RowsTyped
<1>16. CASE SendOut(h)
  <2>1. RowsTyped'
    BY <1>0, <1>16 DEF SendOut, RowsTyped, Order, OrderStatuses
  <2> QED BY <1>0, <1>16, <2>1, SameWarehouse, SameLoading, DonePlaced, TypeJoin
          DEF SendOut
<1> QED BY <1>1, <1>2, <1>3, <1>4, <1>5, <1>6, <1>7, <1>8, <1>9, <1>10, <1>11,
           <1>12, <1>13, <1>14, <1>15, <1>16 DEF Proceed

LEMMA NextType == TypeOK /\ [Next]_vars => TypeOK'
<1> SUFFICES ASSUME TypeOK, [Next]_vars PROVE TypeOK'
  OBVIOUS
<1>0. WarehouseTyped /\ RowsTyped /\ LoadingTyped /\ HandlersPlaced
  BY TypeSplit
<1>1. CASE ConfirmOneTimeOrders
  <2>1. order' \in [Orders -> Order]
    BY <1>0, <1>1, AdvancedType DEF ConfirmOneTimeOrders, OrderStatuses
  <2>2. RowsTyped'
    BY <1>0, <1>1, <2>1 DEF ConfirmOneTimeOrders, RowsTyped
  <2> QED BY <1>0, <1>1, <2>2, SameWarehouse, SameLoading, SameHandlers, TypeJoin
          DEF ConfirmOneTimeOrders
<1>2. CASE Startup
  <2>1. RowsTyped' /\ LoadingTyped'
    BY <1>0, <1>2
       DEF Startup, RowsTyped, LoadingTyped, RunStatuses, DispatchStatuses
  <2> QED BY <1>0, <1>2, <2>1, SameWarehouse, SameHandlers, TypeJoin DEF Startup
<1>3. ASSUME NEW q \in Units \ {0}, Purchase(q) PROVE TypeOK'
  <2>1. q \in Nat
    BY DeliveryAssumption DEF Units, DeliveryAssumption
  <2>2. CanMove(stock, q)
    BY <1>0, <2>1, Fields DEF CanMove, WarehouseTyped
  <2>3. WarehouseTyped'
    BY <1>0, <1>3, <2>1, <2>2, MovedType, SetStockType DEF Purchase, WarehouseTyped
  <2> QED BY <1>0, <1>3, <2>3, SameLoading, SameHandlers, TypeJoin
          DEF Purchase, RowsTyped
<1>4. CASE UNCHANGED vars
  BY <1>0, <1>4, SameHandlers, TypeJoin
     DEF vars, WarehouseTyped, RowsTyped, LoadingTyped
<1>5. CASE ApproveLeave
  <2>1. RowsTyped'
    BY <1>0, <1>5 DEF ApproveLeave, RowsTyped, Order
  <2> QED BY <1>0, <1>5, <2>1, SameWarehouse, SameLoading, SameHandlers, TypeJoin
          DEF ApproveLeave
<1> QED BY <1>1, <1>2, <1>3, <1>4, <1>5, OrderStepType, RunStepType, RequestType, ProceedType
        DEF Next

\* The statuses are those of the tables, quantities are never negative, and a
\* handler that acts on a run has one.
THEOREM DeliveryTypeCorrect == Spec => []TypeOK
<1>1. Init => TypeOK
  BY InitType
<1>2. TypeOK /\ [Next]_vars => TypeOK'
  BY NextType
<1> QED BY <1>1, <1>2, PTL DEF Spec

-----------------------------------------------------------------------------
(* The balance and its movements.                                          *)

\* While nothing clashed, one manual movement at most is under way, and the
\* balance is the one it read.
Alone ==
  \A h \in Handlers : Moving(h) => /\ handler[h].need = stock.available
                                  /\ \A g \in Handlers : Moving(g) => g = h

Sums ==
  /\ (\A h \in Handlers : ~At(h, "write")) => Goods(stock) = stock.moved + stock.twice
  /\ \A h \in Handlers : At(h, "write") =>
       Goods(stock) + handler[h].qty = stock.moved + stock.twice

LedgerInv == ~clashed => Alone /\ Sums

\* Steps that leave the manual movements where they are.
SameMovements ==
  \A h \in Handlers : /\ Moving(h)' <=> Moving(h)
                      /\ Moving(h) => handler'[h] = handler[h]

LEMMA StillMovements ==
  ASSUME HandlersPlaced, NEW h \in Handlers, NEW f, Begin(h, f),
         ~Moving(h), f.pc \notin {"insert", "write"}
  PROVE  SameMovements
BY DEF HandlersPlaced, Begin, Moving, At, SameMovements

LEMMA DoneMovements ==
  ASSUME HandlersPlaced, NEW h \in Handlers, Done(h), ~Moving(h)
  PROVE  SameMovements
BY StillMovements DEF Done, Idle

LEMMA LedgerKept ==
  ASSUME LedgerInv, SameMovements, UNCHANGED warehouse
  PROVE  LedgerInv'
BY DEF LedgerInv, Alone, Sums, SameMovements, warehouse, Moving, At, Goods

\* A write to the row that keeps the difference of goods and movements.
LEMMA LedgerShifted ==
  ASSUME LedgerInv, WarehouseTyped, HandlersPlaced, UNCHANGED handler,
         NEW s \in Balance, SetStock(s), NEW d \in Int,
         Goods(s) = Goods(stock) + d,
         s.moved + s.twice = stock.moved + stock.twice + d
  PROVE  LedgerInv'
<1> SUFFICES ASSUME ~clashed' PROVE Alone' /\ Sums'
  BY DEF LedgerInv
<1>1. /\ ~clashed /\ stock' = s
      /\ s.available = stock.available \/ \A h \in Handlers : ~Moving(h)
  BY DEF SetStock
<1>2. Alone /\ Sums
  BY <1>1 DEF LedgerInv
<1>3. Alone'
  BY <1>1, <1>2 DEF Alone, Moving, At
<1>4. /\ Goods(stock) \in Int /\ stock.moved + stock.twice \in Int
      /\ \A h \in Handlers : handler[h].qty \in Int
  BY Fields, HandlerFields DEF WarehouseTyped, Goods
<1>5. Goods(stock)' = Goods(stock) + d
      /\ (stock.moved + stock.twice)' = stock.moved + stock.twice + d
  BY <1>1 DEF Goods
<1>6. Sums'
  BY <1>2, <1>4, <1>5 DEF Sums, At
<1> QED BY <1>3, <1>6

LEMMA OrderStepLedger ==
  ASSUME LedgerInv, TypeOK, NEW o \in Orders, OrderStep(o)
  PROVE  LedgerInv'
<1>0. WarehouseTyped /\ HandlersPlaced
  BY TypeSplit
<1>1. CASE Place(o) /\ CanReserve(stock, 1) /\ SetStock(Reserved(stock, 1))
  <2>1. /\ Reserved(stock, 1) \in Balance
        /\ Goods(Reserved(stock, 1)) = Goods(stock) + 0
        /\ Reserved(stock, 1).moved + Reserved(stock, 1).twice
             = stock.moved + stock.twice + 0
    BY <1>0, <1>1, ReservedType, Fields DEF WarehouseTyped, Goods
  <2> QED BY <1>0, <1>1, <2>1, LedgerShifted DEF Place
<1>2. ASSUME UNCHANGED <<warehouse, handler>> PROVE LedgerInv'
  BY <1>2, LedgerKept DEF SameMovements, Moving, At
<1> QED BY <1>1, <1>2 DEF OrderStep, Place, Generate, SetOrderStatus, AssignPartner

LEMMA RunStepLedger ==
  ASSUME LedgerInv, TypeOK, NEW r \in Runs, RunStep(r)
  PROVE  LedgerInv'
<1>0. WarehouseTyped /\ LoadingTyped /\ HandlersPlaced
  BY TypeSplit
<1>1. ASSUME NEW line \in Lines, NEW near, Dispatch(r, line, near) PROVE LedgerInv'
  <2> DEFINE q == Added(r, line)
             s == Loaded(stock, q)
  <2>1. q \in Int
    BY <1>0, AddedType
  <2>2. /\ s \in Balance /\ Goods(s) = Goods(stock) - q
        /\ s.moved = stock.moved - q /\ s.twice = stock.twice
    BY <1>0, <1>1, <2>1, LoadedSum DEF Dispatch, WarehouseTyped
  <2>3. SetStock(s) /\ UNCHANGED handler
    BY <1>1 DEF Dispatch
  <2> HIDE DEF q, s
  <2>4. /\ -q \in Int /\ Goods(s) = Goods(stock) + (-q)
        /\ s.moved + s.twice = stock.moved + stock.twice + (-q)
    BY <1>0, <2>1, <2>2, Fields DEF WarehouseTyped, Goods
  <2> QED BY <1>0, <2>2, <2>3, <2>4, LedgerShifted
<1>2. ASSUME NEW returned \in Units, NEW damaged \in Units, item[r].there,
             Return(r, returned, damaged)
      PROVE  LedgerInv'
  <2> DEFINE b == TakenBack(stock, returned)
             s == Moved(b, -damaged)
             d == 2 * returned - damaged
  <2>1. returned \in Nat /\ damaged \in Nat
    BY DeliveryAssumption DEF Units, DeliveryAssumption
  <2>2. /\ b \in Balance /\ Goods(b) = Goods(stock) + 2 * returned
        /\ b.moved = stock.moved + returned /\ b.twice = stock.twice + returned
    BY <1>0, <2>1, TakenBackSum DEF WarehouseTyped
  <2>3. CanMove(b, -damaged) /\ SetStock(s) /\ UNCHANGED handler
    BY <1>2 DEF Return
  <2> HIDE DEF b
  <2>4. /\ s \in Balance /\ Goods(s) = Goods(b) + (-damaged)
        /\ s.moved = b.moved + (-damaged) /\ s.twice = b.twice
    BY <2>1, <2>2, <2>3, MovedType, MovedSum
  <2> HIDE DEF s
  <2>5. /\ d \in Int /\ Goods(s) = Goods(stock) + d
        /\ s.moved + s.twice = stock.moved + stock.twice + d
    BY <1>0, <2>1, <2>2, <2>4, Fields DEF WarehouseTyped, Goods
  <2> HIDE DEF d
  <2> QED BY <1>0, <2>3, <2>4, <2>5, LedgerShifted
<1>3. ASSUME UNCHANGED <<warehouse, handler>> PROVE LedgerInv'
  BY <1>3, LedgerKept DEF SameMovements, Moving, At
<1> QED BY <1>1, <1>2, <1>3
        DEF RunStep, CreateRun, SetRunStatus, Return, ReturnToHub

LEMMA RequestLedger ==
  ASSUME LedgerInv, TypeOK, NEW h \in Handlers, Request(h)
  PROVE  LedgerInv'
<1>0. WarehouseTyped /\ HandlersPlaced
  BY TypeSplit
<1>1. ASSUME NEW f, At(h, "idle"), Begin(h, f), f.pc \notin {"insert", "write"},
             UNCHANGED warehouse
      PROVE  LedgerInv'
  <2>1. ~Moving(h)
    BY <1>1 DEF Moving, At
  <2> QED BY <1>0, <1>1, <2>1, StillMovements, LedgerKept
<1>2. ASSUME NEW q \in -MaxLoad .. MaxLoad, AskMovement(h, q) PROVE LedgerInv'
  <2> SUFFICES ASSUME ~clashed' PROVE Alone' /\ Sums'
    BY DEF LedgerInv
  <2>1. ~clashed /\ (\A g \in Handlers : ~Moving(g)) /\ UNCHANGED stock
    BY <1>2 DEF AskMovement
  <2>2. /\ handler'[h].pc = "insert" /\ handler'[h].need = stock.available
        /\ \A g \in Handlers : g # h => handler'[g] = handler[g]
    BY <1>0, <1>2 DEF AskMovement, Begin, HandlersPlaced, Idle
  <2>3. Goods(stock) = stock.moved + stock.twice
    BY <2>1 DEF LedgerInv, Sums, Moving, At
  <2>4. Alone'
    BY <2>1, <2>2 DEF Alone, Moving, At
  <2>5. Sums'
    BY <2>1, <2>2, <2>3 DEF Sums, Moving, At, Goods
  <2> QED BY <2>4, <2>5
<1>3. CASE \E q \in -MaxLoad .. MaxLoad : AskMovement(h, q)
  BY <1>2, <1>3
<1>4. CASE \E o \in Orders : AskCancel(h, o) \/ \E r \in Runs : AskAssign(h, r, o)
  BY <1>1, <1>4 DEF AskCancel, AskAssign, Ask, Idle
<1>5. CASE \E o \in Orders, v \in Reports, r \in Runs : AskStop(h, r, o, v)
  BY <1>1, <1>5 DEF AskStop, Idle
<1>6. CASE \E o \in Orders, v \in Reports : AskDelivered(h, o, v)
  BY <1>1, <1>6 DEF AskDelivered, Idle
<1>7. CASE \E r \in Runs : AskStart(h, r) \/ AskClose(h, r) \/ AskHandover(h, r)
  BY <1>1, <1>7 DEF AskStart, AskClose, AskHandover, Ask, Idle
<1>8. CASE \E r \in Runs, q \in Units \cup {Unnamed} : AskPickup(h, r, q)
  BY <1>1, <1>8 DEF AskPickup, Idle
<1>9. CASE AskOut(h)
  BY <1>1, <1>9 DEF AskOut, Ask, Idle
<1> QED BY <1>3, <1>4, <1>5, <1>6, <1>7, <1>8, <1>9 DEF Request

LEMMA ProceedLedger ==
  ASSUME LedgerInv, TypeOK, NEW h \in Handlers, Proceed(h)
  PROVE  LedgerInv'
<1>0. WarehouseTyped /\ HandlersPlaced
  BY TypeSplit
<1>1. ASSUME ~Moving(h), UNCHANGED warehouse,
             Done(h) \/ \E f : Begin(h, f) /\ f.pc \notin {"insert", "write"}
      PROVE  LedgerInv'
  BY <1>0, <1>1, StillMovements, DoneMovements, LedgerKept
<1>2. CASE InsertMovement(h)
  <2> SUFFICES ASSUME ~clashed' PROVE Alone' /\ Sums'
    BY DEF LedgerInv
  <2>1. ~clashed /\ Moving(h) /\ ~At(h, "write")
    BY <1>2 DEF InsertMovement, Moving, At
  <2>2. Alone /\ Sums
    BY <2>1 DEF LedgerInv
  <2>3. \A g \in Handlers : g # h => ~Moving(g) /\ handler'[g] = handler[g]
    BY <1>0, <1>2, <2>1, <2>2 DEF Alone, InsertMovement, Begin, HandlersPlaced
  <2>4. Goods(stock) = stock.moved + stock.twice
    BY <2>1, <2>2, <2>3 DEF Sums, Moving, At
  <2>5. /\ handler'[h] = [handler[h] EXCEPT !.pc = "write"]
        /\ stock' = [stock EXCEPT !.moved = stock.moved + handler[h].qty]
    BY <1>0, <1>2 DEF InsertMovement, Begin, HandlersPlaced
  <2>6. handler[h] \in Handler
    BY <1>0 DEF HandlersPlaced
  <2>7. /\ handler'[h].pc = "write" /\ handler'[h].qty = handler[h].qty
        /\ handler'[h].need = handler[h].need /\ handler[h].qty \in Int
    BY <2>5, <2>6 DEF Handler
  <2>8. /\ stock'.moved = stock.moved + handler[h].qty
        /\ stock'.available = stock.available /\ stock'.twice = stock.twice
        /\ Goods(stock)' = Goods(stock)
    BY <1>0, <2>5 DEF WarehouseTyped, Balance, Goods
  <2>9. Alone'
    BY <2>1, <2>2, <2>3, <2>7, <2>8 DEF Alone, Moving, At
  <2>10. Sums'
    BY <1>0, <2>3, <2>4, <2>7, <2>8, Fields DEF Sums, Moving, At, WarehouseTyped
  <2> QED BY <2>9, <2>10
<1>3. CASE WriteBalance(h)
  <2> DEFINE q == handler[h].need + handler[h].qty
  <2> SUFFICES ASSUME ~clashed' PROVE Alone' /\ Sums'
    BY DEF LedgerInv
  <2>1. ~clashed /\ Moving(h) /\ At(h, "write")
    BY <1>3 DEF WriteBalance, Moving, At
  <2>2. Alone /\ Sums
    BY <2>1 DEF LedgerInv
  <2>3. \A g \in Handlers : ~Moving(g)'
    BY <1>0, <1>3, <2>1, <2>2
       DEF Alone, WriteBalance, Done, Begin, Idle, HandlersPlaced, Moving, At
  <2>4. /\ q = stock.available + handler[h].qty /\ handler[h].qty \in Int
        /\ Goods(stock) + handler[h].qty = stock.moved + stock.twice
    BY <1>0, <2>1, <2>2, HandlerFields DEF Alone, Sums
  <2>5. stock' = [stock EXCEPT !.available = q]
    BY <1>3 DEF WriteBalance
  <2> HIDE DEF q
  <2>6. /\ Goods(stock)' = q + stock.reserved
        /\ stock'.moved = stock.moved /\ stock'.twice = stock.twice
    BY <1>0, <2>5 DEF WarehouseTyped, Balance, Goods
  <2>7. Goods(stock)' = (stock.moved + stock.twice)'
    BY <1>0, <2>4, <2>6, Fields DEF Goods, WarehouseTyped
  <2>8. \A g \in Handlers : ~At(g, "write")'
    BY <2>3 DEF Moving, At
  <2> QED BY <2>3, <2>7, <2>8 DEF Alone, Sums
<1>4. CASE Abandon(h)
  <2>1. CASE ~Moving(h)
    <3>1. UNCHANGED warehouse /\ Done(h)
      BY <1>0, <1>4, <2>1 DEF Abandon, warehouse, Moving, At, WarehouseTyped
    <3> QED BY <1>1, <2>1, <3>1
  <2>2. CASE Moving(h)
    <3> SUFFICES ASSUME ~clashed' PROVE Alone' /\ Sums'
      BY DEF LedgerInv
    <3>1. ~clashed /\ ~At(h, "write") /\ UNCHANGED stock
      BY <1>4 DEF Abandon
    <3>2. Alone /\ Sums
      BY <3>1 DEF LedgerInv
    <3>3. \A g \in Handlers : ~Moving(g)' /\ ~At(g, "write") /\ ~At(g, "write")'
      BY <1>0, <1>4, <2>2, <3>1, <3>2
         DEF Alone, Abandon, Done, Begin, Idle, HandlersPlaced, Moving, At
    <3>4. Goods(stock)' = (stock.moved + stock.twice)'
      BY <3>1, <3>2, <3>3 DEF Sums, Goods
    <3> QED BY <3>3, <3>4 DEF Alone, Sums
  <2> QED BY <2>1, <2>2
<1>5. CASE Cancel(h) \/ Attach(h) \/ PickUpNamed(h) \/ Collect(h) \/ Start(h)
           \/ ReportStop(h) \/ ReportDelivered(h) \/ SendOut(h) \/ Close(h)
           \/ EndHandover(h)
  BY <1>1, <1>5 DEF Cancel, Attach, PickUpNamed, Collect, Start, ReportStop,
     ReportDelivered, SendOut, Close, EndHandover, Moving, At
<1>f. handler[h] \in Handler
  BY <1>0 DEF HandlersPlaced
<1>6. CASE OpenRun(h)
  <2>1. [handler[h] EXCEPT !.pc = "attach"].pc = "attach"
    BY <1>f DEF Handler
  <2> QED BY <1>1, <1>6, <2>1 DEF OpenRun, Moving, At
<1>7. CASE CheckItems(h)
  <2>1. [handler[h] EXCEPT !.pc = "collect"].pc = "collect"
    BY <1>f DEF Handler
  <2> QED BY <1>1, <1>7, <2>1 DEF CheckItems, Moving, At
<1>8. CASE Handover(h)
  <2>1. [handler[h] EXCEPT !.pc = "returning"].pc = "returning"
    BY <1>f DEF Handler
  <2> QED BY <1>1, <1>8, <2>1 DEF Handover, Moving, At
<1> QED BY <1>2, <1>3, <1>4, <1>5, <1>6, <1>7, <1>8 DEF Proceed

LEMMA LedgerStep == LedgerInv /\ TypeOK /\ [Next]_vars => LedgerInv'
<1> SUFFICES ASSUME LedgerInv, TypeOK, [Next]_vars PROVE LedgerInv'
  OBVIOUS
<1>0. WarehouseTyped /\ HandlersPlaced
  BY TypeSplit
<1>1. ASSUME NEW q \in Units \ {0}, Purchase(q) PROVE LedgerInv'
  <2> DEFINE s == Moved(stock, q)
  <2>1. q \in Int /\ CanMove(stock, q)
    <3>1. q \in Nat
      BY DeliveryAssumption DEF Units, DeliveryAssumption
    <3> QED BY <1>0, <3>1, Fields DEF CanMove, WarehouseTyped
  <2>2. /\ s \in Balance /\ Goods(s) = Goods(stock) + q
        /\ s.moved = stock.moved + q /\ s.twice = stock.twice
    BY <1>0, <2>1, MovedType, MovedSum DEF WarehouseTyped
  <2>3. SetStock(s) /\ UNCHANGED handler
    BY <1>1 DEF Purchase
  <2> HIDE DEF s
  <2>4. s.moved + s.twice = stock.moved + stock.twice + q
    BY <1>0, <2>1, <2>2, Fields DEF WarehouseTyped
  <2> QED BY <1>0, <2>1, <2>2, <2>3, <2>4, LedgerShifted
<1>2. ASSUME UNCHANGED <<warehouse, handler>> PROVE LedgerInv'
  BY <1>2, LedgerKept DEF SameMovements, Moving, At
<1>3. CASE ConfirmOneTimeOrders \/ ApproveLeave \/ Startup \/ UNCHANGED vars
  BY <1>2, <1>3 DEF ConfirmOneTimeOrders, ApproveLeave, Startup, vars, warehouse
<1> QED BY <1>1, <1>3, OrderStepLedger, RunStepLedger, RequestLedger, ProceedLedger
        DEF Next

\* The balance is the sum of its movements and of what returns count twice,
\* for any number of handlers, unless it changed under a manual movement.
THEOREM BalanceIsLedger == Spec => []LedgerAgrees
<1>1. Init => LedgerInv
  <2> SUFFICES ASSUME Init PROVE Alone /\ Sums
    BY DEF LedgerInv
  <2>1. PICK q \in 0 .. MaxStock :
          stock = [available |-> q, reserved |-> 0, moved |-> q, twice |-> 0]
    BY DEF Init
  <2>2. q \in Nat
    BY DeliveryAssumption DEF DeliveryAssumption
  <2>3. Goods(stock) = stock.moved + stock.twice
    BY <2>1, <2>2 DEF Goods
  <2>4. \A h \in Handlers : ~Moving(h) /\ ~At(h, "write")
    BY DEF Init, Idle, Moving, At
  <2> QED BY <2>3, <2>4 DEF Alone, Sums
<1>2. LedgerInv /\ TypeOK /\ [Next]_vars => LedgerInv'
  BY LedgerStep
<1>3. LedgerInv => LedgerAgrees
  BY DEF LedgerInv, Sums, LedgerAgrees
<1> QED BY <1>1, <1>2, <1>3, DeliveryTypeCorrect, PTL DEF Spec

-----------------------------------------------------------------------------
(* What a dispatch holds, and who reopens a run.                           *)

\* Editing a handover, in any order and with any number of lines dropped and
\* named anew, charges the stock for what it says is loaded.
THEOREM StockChargedAsLoaded == Spec => []DispatchedAsLoaded
<1>1. Init => DispatchedAsLoaded
  BY DEF Init, DispatchedAsLoaded, NoLine
<1>2. DispatchedAsLoaded /\ TypeOK /\ [Next]_vars => DispatchedAsLoaded'
  <2> SUFFICES ASSUME DispatchedAsLoaded, TypeOK, [Next]_vars
               PROVE  DispatchedAsLoaded'
    OBVIOUS
  <2>0. WarehouseTyped /\ RowsTyped /\ LoadingTyped /\ HandlersPlaced
    BY TypeSplit
  <2>1. ASSUME UNCHANGED <<item, out>>, recounted \subseteq recounted'
        PROVE  DispatchedAsLoaded'
    BY <2>1 DEF DispatchedAsLoaded
  <2>2. ASSUME NEW r \in Runs, NEW S \in SUBSET Orders, CreateRun(r, S)
        PROVE  DispatchedAsLoaded'
    BY <2>0, <2>2 DEF CreateRun, DispatchedAsLoaded, LoadingTyped
  <2>3. ASSUME NEW r \in Runs, NEW line \in Lines, NEW near, Dispatch(r, line, near)
        PROVE  DispatchedAsLoaded'
    <3>1. line.loaded \in Int /\ item[r].loaded \in Int /\ out[r] \in Int
      BY <2>0, AddedType DEF LoadingTyped, Line
    <3>2. /\ out' = [out EXCEPT ![r] = out[r] + (line.loaded - item[r].loaded)]
          /\ item' = [item EXCEPT ![r] = line] /\ UNCHANGED recounted
      BY <2>3 DEF Dispatch, Added
    <3> QED BY <2>0, <3>1, <3>2 DEF DispatchedAsLoaded, LoadingTyped
  <2>4. ASSUME NEW h \in Handlers, PickUpNamed(h) PROVE DispatchedAsLoaded'
    <3> DEFINE r == handler[h].run
               accepted == [item[r] EXCEPT !.loaded = handler[h].qty]
    <3>1. UNCHANGED out
      BY <2>4 DEF PickUpNamed
    <3>2. \/ UNCHANGED <<item, recounted>>
          \/ item' = [item EXCEPT ![r] = accepted]
             /\ recounted' = IF accepted = item[r] THEN recounted ELSE recounted \cup {r}
      BY <2>4 DEF PickUpNamed
    <3> HIDE DEF accepted
    <3> QED BY <2>0, <2>1, <3>1, <3>2 DEF DispatchedAsLoaded, LoadingTyped
  <2>5. ASSUME NEW h \in Handlers, Request(h) PROVE UNCHANGED loading
    BY <2>5 DEF Request, AskCancel, AskAssign, AskStop, AskDelivered, AskOut, AskStart,
                AskClose, AskHandover, AskPickup, AskMovement
  <2>6. ASSUME NEW h \in Handlers, Proceed(h), ~PickUpNamed(h)
        PROVE  UNCHANGED <<item, out, recounted>>
    BY <2>6 DEF Proceed, Cancel, OpenRun, Attach, CheckItems, Collect, Start,
                ReportStop, ReportDelivered, SendOut, Close, Handover, EndHandover,
                InsertMovement, WriteBalance, Abandon, loading
  <2>7. ASSUME NEW r \in Runs, RunStep(r), \A S \in SUBSET Orders : ~CreateRun(r, S),
               \A line \in Lines, near \in SUBSET {o \in Orders : order[o].run # r} :
                 ~Dispatch(r, line, near)
        PROVE  UNCHANGED <<item, out, recounted>>
    BY <2>7 DEF RunStep, SetRunStatus, Return, ReturnToHub, loading
  <2>8. ASSUME NEW o \in Orders, OrderStep(o) PROVE UNCHANGED loading
    BY <2>8 DEF OrderStep, Place, Generate, SetOrderStatus, AssignPartner
  <2>9. ASSUME \/ ConfirmOneTimeOrders \/ ApproveLeave \/ Startup \/ UNCHANGED vars
               \/ \E q \in Units \ {0} : Purchase(q)
        PROVE  UNCHANGED <<item, out, recounted>>
    BY <2>9 DEF ConfirmOneTimeOrders, ApproveLeave, Startup, Purchase, vars, loading
  <2>10. ASSUME UNCHANGED loading PROVE DispatchedAsLoaded'
    BY <2>1, <2>10 DEF loading
  <2> QED BY <2>1, <2>2, <2>3, <2>4, <2>5, <2>6, <2>7, <2>8, <2>9, <2>10 DEF Next
<1> QED BY <1>1, <1>2, DeliveryTypeCorrect, PTL DEF Spec

\* A run handed over is reopened by staff, or by a request that read it before.
THEOREM HandedOverIsKept == Spec => HandedOverStays
<1> DEFINE Named(r) ==
             \/ \E s \in RunStatuses : SetRunStatus(r, s)
             \/ \E returned, damaged \in Units : Return(r, returned, damaged)
             \/ \E h \in Handlers : handler[h].run = r /\ (Start(h) \/ Close(h))
           P == \A r \in Runs : run[r] = "handed_over" /\ run'[r] # "handed_over" =>
                  \/ \E s \in RunStatuses : SetRunStatus(r, s)
                  \/ \E returned, damaged \in Units : Return(r, returned, damaged)
                  \/ \E h \in Handlers : handler[h].run = r /\ (Start(h) \/ Close(h))
<1>1. TypeOK /\ [Next]_vars => [P]_vars
  <2> SUFFICES ASSUME TypeOK, Next, NEW r \in Runs, run[r] = "handed_over",
                      run'[r] # "handed_over"
               PROVE  Named(r)
    BY DEF vars
  <2>0. run \in [Runs -> RunStatuses \cup {"none"}] /\ HandlersPlaced
    BY TypeSplit DEF RowsTyped
  <2>1. ASSUME UNCHANGED run PROVE Named(r)
    BY <2>1
  <2>2. CASE ConfirmOneTimeOrders \/ ApproveLeave \/ \E q \in Units \ {0} : Purchase(q)
    BY <2>2 DEF ConfirmOneTimeOrders, ApproveLeave, Purchase
  <2>3. CASE Startup
    BY <2>3 DEF Startup
  <2>4. ASSUME NEW o \in Orders, OrderStep(o) PROVE UNCHANGED run
    BY <2>4 DEF OrderStep, Place, Generate, SetOrderStatus, AssignPartner
  <2>5. ASSUME NEW w \in Runs, RunStep(w) PROVE Named(r)
    <3>1. CASE \E returned, damaged \in Units : Return(w, returned, damaged)
      BY <2>0, <3>1 DEF Return
    <3>2. CASE \E s \in RunStatuses : SetRunStatus(w, s)
      BY <2>0, <3>2 DEF SetRunStatus
    <3>3. CASE \E S \in SUBSET Orders : CreateRun(w, S)
      BY <2>0, <3>3 DEF CreateRun, Exists
    <3>4. ASSUME NEW line, NEW near, Dispatch(w, line, near) PROVE Named(r)
      BY <2>0, <3>4 DEF Dispatch
    <3> QED BY <2>5, <3>1, <3>2, <3>3, <3>4 DEF RunStep, ReturnToHub
  <2>6. ASSUME NEW h \in Handlers, Request(h) PROVE UNCHANGED run
    BY <2>6 DEF Request, AskCancel, AskAssign, AskStop, AskDelivered, AskOut, AskStart,
                AskClose, AskHandover, AskPickup, AskMovement
  <2>7. ASSUME NEW h \in Handlers, Proceed(h) PROVE Named(r)
    <3>1. CASE OpenRun(h) \/ Handover(h)
      BY <2>0, <3>1 DEF OpenRun, Handover
    <3>2. CASE PickUpNamed(h) \/ Collect(h)
      BY <2>0, <3>2 DEF PickUpNamed, Collect, TakeCustody
    <3>3. CASE Start(h) \/ Close(h)
      BY <2>0, <3>3 DEF Start, Close
    <3>4. CASE ReportStop(h) \/ ReportDelivered(h)
      <4>1. UNCHANGED run \/ \E w, s : /\ run' = [run EXCEPT ![w] = Ended(w, s)]
                                       /\ s \in Synced(run[w]) \cup {run[w]}
        BY <3>4 DEF ReportStop, ReportDelivered
      <4>2. UNCHANGED run \/ run'[r] = run[r] \/ \E s : run'[r] = Ended(r, s)
                                                   /\ s \in Synced(run[r]) \cup {run[r]}
        BY <2>0, <4>1
      <4> QED BY <4>2 DEF Synced, Ended
    <3> QED BY <2>7, <3>1, <3>2, <3>3, <3>4
            DEF Proceed, Cancel, Attach, CheckItems, SendOut, EndHandover,
                InsertMovement, WriteBalance, Abandon
  <2> QED BY <2>1, <2>2, <2>3, <2>4, <2>5, <2>6, <2>7 DEF Next
<1> QED BY <1>1, DeliveryTypeCorrect, PTL DEF Spec, HandedOverStays
=============================================================================
