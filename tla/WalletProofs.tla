---------------------------- MODULE WalletProofs ----------------------------
(***************************************************************************)
(* Theorems of Wallet, for any set of orders, bills and handlers and every *)
(* value of the bounds.                                                    *)
(***************************************************************************)
EXTENDS Wallet, TLAPS

-----------------------------------------------------------------------------
(* Lemmas on the parts a step is made of.                                  *)

\* What each label says of the row its handler is at work on.
Placed(h) ==
  /\ h \in Handler
  /\ h.pc \in {"readOrder", "cancel", "refund", "setStatus", "report"} => h.obj \in Orders
  /\ h.pc \in {"readBill", "debit", "markPaid", "recordCash"} => h.obj \in Bills

HandlersPlaced == /\ handler \in [Handlers -> Handler]
                  /\ \A p \in Handlers : Placed(handler[p])

RowsTyped ==
  /\ balance \in Nat
  /\ ledger \in Int
  /\ order \in [Orders -> Order]
  /\ bill \in [Bills -> {"none", "unpaid", "paid"}]
  /\ failRefunds \in [Orders -> Nat]
  /\ payments \in [Bills -> Nat]
  /\ atGateway \subseteq Bills
  /\ repaid \subseteq Orders
  /\ overwritten \in BOOLEAN
  /\ crashes \in Nat

LEMMA TypeSplit == TypeOK <=> RowsTyped /\ HandlersPlaced
BY DEF TypeOK, RowsTyped, HandlersPlaced, Placed, OrderLabels, BillLabels

LEMMA TypeSplitNext == RowsTyped' /\ HandlersPlaced' => TypeOK'
BY DEF TypeOK, RowsTyped, HandlersPlaced, Placed, OrderLabels, BillLabels

LEMMA IdlePlaced == Placed(Idle)
BY DEF Placed, Idle, Handler, Labels, OrderLabels, BillLabels, OrderStatuses

LEMMA BeginPlaced ==
  ASSUME HandlersPlaced, NEW p \in Handlers, NEW h, Placed(h), Begin(p, h)
  PROVE  HandlersPlaced'
BY DEF HandlersPlaced, Begin, Placed

LEMMA DonePlaced ==
  ASSUME HandlersPlaced, NEW p \in Handlers, Done(p)
  PROVE  HandlersPlaced'
BY IdlePlaced DEF HandlersPlaced, Done, Placed

\* A label of the same kind of row keeps a handler placed.
LEMMA GotoPlaced ==
  ASSUME HandlersPlaced, NEW p \in Handlers, NEW label \in Labels,
         label \in {"readOrder", "cancel", "refund", "setStatus", "report"}
           => Obj(p) \in Orders,
         label \in {"readBill", "debit", "markPaid", "recordCash"}
           => Obj(p) \in Bills,
         Goto(p, label)
  PROVE  HandlersPlaced'
<1>1. Placed([handler[p] EXCEPT !.pc = label])
  BY DEF HandlersPlaced, Placed, Handler, Obj
<1>2. \A q \in Handlers : handler'[q] = IF q = p THEN [handler[p] EXCEPT !.pc = label]
                                                ELSE handler[q]
  BY DEF HandlersPlaced, Goto
<1>3. handler' \in [Handlers -> Handler]
  BY <1>1, <1>2 DEF HandlersPlaced, Goto, Placed
<1> QED BY <1>1, <1>2, <1>3 DEF HandlersPlaced, Placed

LEMMA TakeUpPlaced ==
  ASSUME HandlersPlaced, NEW p \in Handlers, NEW o \in Orders,
         NEW list \in SUBSET Orders, NEW due \in SUBSET Orders,
         TakeUp(p, o, list, due)
  PROVE  HandlersPlaced'
<1> DEFINE h == [Idle EXCEPT !.pc = IF o \in due THEN "refund" ELSE "setStatus",
                             !.obj = o, !.to = "failed",
                             !.list = list \ {o}, !.due = due]
<1>1. Placed(h)
  BY DEF Placed, Idle, Handler, Labels, OrderLabels, BillLabels, OrderStatuses
<1> QED BY <1>1, BeginPlaced DEF TakeUp

LEMMA OrderRows ==
  /\ NoOrder \in Order
  /\ \A m \in {"wallet", "online", "cod"} : PlacedOrder(m) \in Order
  /\ \A r \in Order, s \in OrderStatuses :
       /\ [r EXCEPT !.status = s] \in Order
       /\ \A f \in BOOLEAN : WithStatus(r, s, f) \in Order
  /\ \A r \in Order : [r EXCEPT !.late = TRUE] \in Order
BY DEF NoOrder, PlacedOrder, WithStatus, Order, OrderStatuses

-----------------------------------------------------------------------------
(* Types.                                                                  *)

LEMMA InitType == Init => TypeOK
<1> SUFFICES ASSUME Init PROVE TypeOK
  OBVIOUS
<1>a. atGateway \subseteq Bills /\ repaid \subseteq Orders /\ overwritten \in BOOLEAN
  BY DEF Init
<1>1. RowsTyped
  BY <1>a, OrderRows DEF Init, RowsTyped
<1>2. HandlersPlaced
  BY IdlePlaced DEF Init, HandlersPlaced, Placed
<1> QED BY <1>1, <1>2, TypeSplit

LEMMA MoveType ==
  ASSUME RowsTyped, NEW d \in {-1, 1}, Move(d)
  PROVE  balance' \in Nat /\ ledger' \in Int
BY DEF RowsTyped, Move

LEMMA OneStepType ==
  ASSUME TypeOK, NEW p \in Handlers, OneStep(p)
  PROVE  TypeOK'
<1> USE TypeSplit
<1>1. CASE TopUp(p)
  <2>1. RowsTyped'
    BY <1>1, MoveType DEF TopUp, RowsTyped, trails
  <2>2. HandlersPlaced'
    BY <1>1 DEF TopUp, HandlersPlaced, Placed
  <2> QED BY <2>1, <2>2, TypeSplitNext
<1>2. ASSUME NEW o \in Orders, CheckoutByWallet(p, o) PROVE TypeOK'
  <2>1. RowsTyped'
    BY <1>2, MoveType, OrderRows DEF CheckoutByWallet, RowsTyped, trails
  <2>2. HandlersPlaced'
    BY <1>2 DEF CheckoutByWallet, HandlersPlaced, Placed
  <2> QED BY <2>1, <2>2, TypeSplitNext
<1>3. ASSUME NEW o \in Orders, NEW m \in {"online", "cod"},
             CheckoutOtherwise(p, o, m)
      PROVE  TypeOK'
  <2>1. RowsTyped'
    BY <1>3, OrderRows DEF CheckoutOtherwise, RowsTyped, trails, wallet
  <2>2. HandlersPlaced'
    BY <1>3 DEF CheckoutOtherwise, HandlersPlaced, Placed
  <2> QED BY <2>1, <2>2, TypeSplitNext
<1>5. ASSUME NEW b \in Bills, SettleOnline(p, b) PROVE TypeOK'
  <2>1. RowsTyped'
    BY <1>5 DEF SettleOnline, RowsTyped, wallet, counts
  <2>2. HandlersPlaced'
    BY <1>5 DEF SettleOnline, HandlersPlaced, Placed
  <2> QED BY <2>1, <2>2, TypeSplitNext
<1> QED BY <1>1, <1>2, <1>3, <1>5 DEF OneStep

LEMMA OrderStepType ==
  ASSUME TypeOK, NEW p \in Handlers, OrderStep(p)
  PROVE  TypeOK'
<1>0. RowsTyped /\ HandlersPlaced
  BY TypeSplit
<1>1. ASSUME NEW o \in Orders, AskCancel(p, o) PROVE TypeOK'
  <2>1. RowsTyped'
    BY <1>0, <1>1 DEF AskCancel, RowsTyped, trails, wallet
  <2>2. Placed([Idle EXCEPT !.pc = "readOrder", !.obj = o, !.bal = balance])
    BY <1>0 DEF Placed, Idle, Handler, Labels, OrderLabels, BillLabels, OrderStatuses, RowsTyped
  <2> QED BY <1>0, <1>1, <2>1, <2>2, BeginPlaced, TypeSplitNext DEF AskCancel
<1>2. CASE ReadOrder(p)
  <2>1. RowsTyped'
    BY <1>0, <1>2 DEF ReadOrder, RowsTyped, trails, wallet
  <2> DEFINE d == IF RefundedOnCancel(order[Obj(p)]) THEN 1 ELSE 0
             h == [handler[p] EXCEPT !.pc = "cancel", !.delta = d]
  <2>2. Placed(h)
    BY <1>0, <1>2 DEF ReadOrder, HandlersPlaced, Placed, At, Handler, Labels,
       OrderLabels, BillLabels
  <2>3. HandlersPlaced'
    BY <1>0, <1>2, <2>2, BeginPlaced, DonePlaced DEF ReadOrder
  <2> QED BY <2>1, <2>3, TypeSplitNext
<1>3. CASE Cancel(p)
  <2>1. Obj(p) \in Orders /\ handler[p].bal \in Nat
    BY <1>0, <1>3 DEF Cancel, HandlersPlaced, Placed, At, Obj, Handler
  <2>2. order' \in [Orders -> Order]
    <3>1. [order[Obj(p)] EXCEPT !.status = "cancelled"] \in Order
      BY <1>0, <2>1, OrderRows DEF RowsTyped, OrderStatuses
    <3> QED BY <1>0, <1>3, <2>1, <3>1 DEF Cancel, RowsTyped
  <2>3. /\ UNCHANGED <<bill, failRefunds, payments, atGateway, repaid, crashes>>
        /\ balance' \in Nat /\ ledger' \in Int
    BY <1>0, <1>3, <2>1 DEF Cancel, Overwrite, RowsTyped, wallet
  <2>4. overwritten' \in BOOLEAN
    BY <1>0, <1>3 DEF Cancel, Overwrite, RowsTyped
  <2>5. RowsTyped'
    BY <1>0, <2>2, <2>3, <2>4 DEF RowsTyped
  <2> QED BY <1>0, <1>3, <2>5, DonePlaced, TypeSplitNext DEF Cancel
<1>4. ASSUME NEW o \in Orders, NEW s \in OrderStatuses, SetStatus(p, o, s)
      PROVE  TypeOK'
  <2> DEFINE refund == s = "failed" /\ Prepaid(order[o])
             h == [Idle EXCEPT !.pc = IF refund THEN "refund" ELSE "setStatus",
                               !.obj = o, !.to = s]
  <2>1. RowsTyped'
    BY <1>0, <1>4 DEF SetStatus, RowsTyped, trails, wallet
  <2>2. Placed(h)
    BY DEF Placed, Idle, Handler, Labels, OrderLabels, BillLabels, OrderStatuses
  <2>3. Begin(p, h)
    BY <1>4 DEF SetStatus
  <2> QED BY <1>0, <2>1, <2>2, <2>3, BeginPlaced, TypeSplitNext
<1>5. CASE BulkFail(p)
  <2>1. RowsTyped'
    BY <1>0, <1>5 DEF BulkFail, RowsTyped, trails, wallet
  <2>2. PICK o \in Undelivered :
          TakeUp(p, o, Undelivered, {u \in Undelivered : Prepaid(order[u])})
    BY <1>5 DEF BulkFail
  <2>3. Undelivered \in SUBSET Orders
    BY DEF Undelivered
  <2> QED BY <1>0, <2>1, <2>2, <2>3, TakeUpPlaced, TypeSplitNext
<1>6. CASE Refund(p)
  <2>1. Obj(p) \in Orders /\ "setStatus" \in Labels
    BY <1>0, <1>6 DEF Refund, HandlersPlaced, Placed, At, Obj, Labels, OrderLabels, BillLabels
  <2>2. RowsTyped'
    BY <1>0, <1>6, <2>1, MoveType DEF Refund, RowsTyped, wallet, marks
  <2>3. CASE handler' = [handler EXCEPT ![p].pc = "setStatus", ![p].refunded = TRUE]
    <3> DEFINE h == [handler[p] EXCEPT !.pc = "setStatus", !.refunded = TRUE]
    <3>1. Placed(h)
      BY <1>0, <2>1 DEF HandlersPlaced, Placed, Handler, Labels, OrderLabels, BillLabels, Obj
    <3>2. Begin(p, h)
      BY <1>0, <2>3 DEF Begin, HandlersPlaced
    <3> QED BY <1>0, <2>2, <3>1, <3>2, BeginPlaced, TypeSplitNext
  <2>4. CASE Goto(p, "setStatus")
    BY <1>0, <2>1, <2>2, <2>4, GotoPlaced, TypeSplitNext
  <2> QED BY <1>6, <2>3, <2>4 DEF Refund
<1>7. CASE WriteStatus(p)
  <2> DEFINE h == handler[p]
  <2>1. h.obj \in Orders /\ h \in Handler
    BY <1>0, <1>7 DEF WriteStatus, HandlersPlaced, Placed, At
  <2>2. h.to \in OrderStatuses /\ h.refunded \in BOOLEAN
        /\ h.list \in SUBSET Orders /\ h.due \in SUBSET Orders
    BY <2>1 DEF Handler
  <2>3. RowsTyped'
    BY <1>0, <1>7, <2>1, <2>2, OrderRows DEF WriteStatus, RowsTyped, trails, wallet
  <2>4. CASE Done(p)
    BY <1>0, <2>3, <2>4, DonePlaced, TypeSplitNext
  <2>5. CASE \E o \in h.list : TakeUp(p, o, h.list, h.due)
    BY <1>0, <2>2, <2>3, <2>5, TakeUpPlaced, TypeSplitNext
  <2> QED BY <1>7, <2>4, <2>5 DEF WriteStatus
<1> QED BY <1>1, <1>2, <1>3, <1>4, <1>5, <1>6, <1>7 DEF OrderStep

LEMMA PartnerStepType ==
  ASSUME TypeOK, NEW p \in Handlers, PartnerStep(p)
  PROVE  TypeOK'
<1>0. RowsTyped /\ HandlersPlaced
  BY TypeSplit
<1>1. ASSUME NEW o \in Orders, ReportStop(p, o)
      PROVE  TypeOK'
  <2>1. RowsTyped'
    BY <1>0, <1>1 DEF ReportStop, RowsTyped, trails, wallet
  <2>2. Placed([Idle EXCEPT !.pc = "report", !.obj = o])
    BY DEF Placed, Idle, Handler, Labels, OrderLabels, BillLabels, OrderStatuses
  <2> QED BY <1>0, <1>1, <2>1, <2>2, BeginPlaced, TypeSplitNext DEF ReportStop
<1>2. CASE WriteReport(p)
  <2> DEFINE h == handler[p]
  <2>1. h.obj \in Orders
    BY <1>0, <1>2 DEF WriteReport, HandlersPlaced, Placed, At
  <2>2. PICK s \in OrderStatuses, m \in {"cod", "upi", "online"} :
          order' = [order EXCEPT ![h.obj] = Reported(@, s, m)]
    BY <1>2 DEF WriteReport, Obj
  <2>3. Reported(order[h.obj], s, m) \in Order
    BY <1>0, <2>1 DEF Reported, RowsTyped, Order, OrderStatuses
  <2>4. repaid' \subseteq Orders
    BY <1>0, <1>2, <2>1 DEF WriteReport, RowsTyped, Obj
  <2>5. RowsTyped'
    BY <1>0, <1>2, <2>1, <2>2, <2>3, <2>4 DEF WriteReport, RowsTyped, counts, wallet
  <2> QED BY <1>0, <1>2, <2>5, DonePlaced, TypeSplitNext DEF WriteReport
<1> QED BY <1>1, <1>2 DEF PartnerStep

LEMMA BillStepType ==
  ASSUME TypeOK, NEW p \in Handlers, BillStep(p)
  PROVE  TypeOK'
<1>0. RowsTyped /\ HandlersPlaced
  BY TypeSplit
<1>1. ASSUME NEW b \in Bills, AskPayBill(p, b) PROVE TypeOK'
  <2>1. RowsTyped'
    BY <1>0, <1>1 DEF AskPayBill, RowsTyped, trails, wallet
  <2>2. Placed([Idle EXCEPT !.pc = "readBill", !.obj = b, !.bal = balance])
    BY <1>0 DEF Placed, Idle, Handler, Labels, OrderLabels, BillLabels, OrderStatuses, RowsTyped
  <2> QED BY <1>0, <1>1, <2>1, <2>2, BeginPlaced, TypeSplitNext DEF AskPayBill
<1>2. ASSUME NEW b \in Bills, AdminPays(p, b) PROVE TypeOK'
  <2>1. RowsTyped'
    BY <1>0, <1>2 DEF AdminPays, RowsTyped, trails, wallet
  <2>2. Placed([Idle EXCEPT !.pc = "recordCash", !.obj = b])
    BY DEF Placed, Idle, Handler, Labels, OrderLabels, BillLabels, OrderStatuses
  <2> QED BY <1>0, <1>2, <2>1, <2>2, BeginPlaced, TypeSplitNext DEF AdminPays
<1>3. CASE ReadBill(p)
  <2>1. RowsTyped'
    BY <1>0, <1>3 DEF ReadBill, RowsTyped, trails, wallet
  <2>2. Obj(p) \in Bills /\ "debit" \in Labels
    BY <1>0, <1>3 DEF ReadBill, HandlersPlaced, Placed, At, Obj, Labels, OrderLabels, BillLabels
  <2>3. HandlersPlaced'
    BY <1>0, <1>3, <2>2, GotoPlaced, DonePlaced DEF ReadBill
  <2> QED BY <2>1, <2>3, TypeSplitNext
<1>4. CASE Debit(p)
  <2>1. Obj(p) \in Bills /\ "markPaid" \in Labels
    BY <1>0, <1>4 DEF Debit, HandlersPlaced, Placed, At, Obj, Labels, OrderLabels, BillLabels
  <2>2. RowsTyped'
    BY <1>0, <1>4, <2>1, MoveType DEF Debit, RowsTyped, wallet, marks
  <2>3. HandlersPlaced'
    BY <1>0, <1>4, <2>1, GotoPlaced, DonePlaced DEF Debit
  <2> QED BY <2>2, <2>3, TypeSplitNext
<1>5. CASE MarkBillPaid(p)
  <2>1. Obj(p) \in Bills
    BY <1>0, <1>5 DEF MarkBillPaid, HandlersPlaced, Placed, At, Obj
  <2>2. RowsTyped'
    BY <1>0, <1>5, <2>1 DEF MarkBillPaid, RowsTyped, wallet, trails
  <2> QED BY <1>0, <1>5, <2>2, DonePlaced, TypeSplitNext DEF MarkBillPaid
<1>6. CASE RecordCash(p)
  <2>1. Obj(p) \in Bills
    BY <1>0, <1>6 DEF RecordCash, HandlersPlaced, Placed, At, Obj
  <2>2. RowsTyped'
    BY <1>0, <1>6, <2>1 DEF RecordCash, RowsTyped, wallet, marks
  <2> QED BY <1>0, <1>6, <2>2, DonePlaced, TypeSplitNext DEF RecordCash
<1> QED BY <1>1, <1>2, <1>3, <1>4, <1>5, <1>6 DEF BillStep

LEMMA UnlockedStepType ==
  ASSUME TypeOK, NEW p \in Handlers, UnlockedStep(p)
  PROVE  TypeOK'
<1>0. RowsTyped /\ HandlersPlaced
  BY TypeSplit
<1>1. ASSUME NEW op, NEW d \in {-1, 1}, AskAdjust(p, op, d) PROVE TypeOK'
  <2>1. RowsTyped'
    BY <1>0, <1>1 DEF AskAdjust, RowsTyped, trails, wallet
  <2>2. Placed([Idle EXCEPT !.pc = "write", !.bal = balance, !.delta = d])
    BY <1>0 DEF Placed, Idle, Handler, Labels, OrderLabels, BillLabels, OrderStatuses, RowsTyped
  <2> QED BY <1>0, <1>1, <2>1, <2>2, BeginPlaced, TypeSplitNext DEF AskAdjust
<1>2. CASE Adjust(p)
  <2>1. handler[p].bal + handler[p].delta \in Int /\ "entry" \in Labels
    BY <1>0 DEF HandlersPlaced, Handler, Labels, OrderLabels, BillLabels
  <2>a. balance' \in Nat
    BY <1>0, <1>2, <2>1 DEF Adjust, Overwrite, RowsTyped
  <2>b. overwritten' \in BOOLEAN
    BY <1>0, <1>2 DEF Adjust, Overwrite, RowsTyped
  <2>2. RowsTyped'
    BY <1>0, <1>2, <2>a, <2>b DEF Adjust, RowsTyped, counts
  <2>3. HandlersPlaced'
    BY <1>0, <1>2, <2>1, GotoPlaced, DonePlaced DEF Adjust
  <2> QED BY <2>2, <2>3, TypeSplitNext
<1>3. CASE AddEntry(p)
  <2>1. handler[p].delta \in Int
    BY <1>0 DEF HandlersPlaced, Handler
  <2>2. RowsTyped'
    BY <1>0, <1>3, <2>1 DEF AddEntry, RowsTyped, trails
  <2> QED BY <1>0, <1>3, <2>2, DonePlaced, TypeSplitNext DEF AddEntry
<1>4. CASE Subscribe(p)
  <2>1. RowsTyped'
    BY <1>0, <1>4 DEF Subscribe, RowsTyped, trails
  <2>2. Placed([Idle EXCEPT !.pc = "entry", !.delta = -1])
    BY DEF Placed, Idle, Handler, Labels, OrderLabels, BillLabels, OrderStatuses
  <2> QED BY <1>0, <1>4, <2>1, <2>2, BeginPlaced, TypeSplitNext DEF Subscribe
<1> QED BY <1>1, <1>2, <1>3, <1>4 DEF UnlockedStep

LEMMA NextType == TypeOK /\ [Next]_vars => TypeOK'
<1> SUFFICES ASSUME TypeOK, [Next]_vars PROVE TypeOK'
  OBVIOUS
<1>0. RowsTyped /\ HandlersPlaced
  BY TypeSplit
<1>1. CASE UNCHANGED vars
  <2>1. RowsTyped'
    BY <1>0, <1>1 DEF vars, RowsTyped
  <2>2. HandlersPlaced'
    BY <1>0, <1>1 DEF vars, HandlersPlaced, Placed
  <2> QED BY <2>1, <2>2, TypeSplitNext
<1>2. ASSUME NEW o \in Orders, DatePasses(o) PROVE TypeOK'
  <2>1. RowsTyped'
    BY <1>0, <1>2, OrderRows DEF DatePasses, RowsTyped, wallet, trails
  <2>2. HandlersPlaced'
    BY <1>0, <1>2 DEF DatePasses, HandlersPlaced, Placed
  <2> QED BY <2>1, <2>2, TypeSplitNext
<1>3. ASSUME NEW b \in Bills, RaiseBill(b) PROVE TypeOK'
  <2>1. RowsTyped'
    BY <1>0, <1>3 DEF RaiseBill, RowsTyped, wallet, trails
  <2>2. HandlersPlaced'
    BY <1>0, <1>3 DEF RaiseBill, HandlersPlaced, Placed
  <2> QED BY <2>1, <2>2, TypeSplitNext
<1>4. ASSUME NEW p \in Handlers, Crash(p) PROVE TypeOK'
  <2>1. RowsTyped'
    BY <1>0, <1>4 DEF Crash, RowsTyped, wallet, trails
  <2> QED BY <1>0, <1>4, <2>1, DonePlaced, TypeSplitNext DEF Crash
<1> QED
  BY <1>1, <1>2, <1>3, <1>4, OneStepType, OrderStepType, PartnerStepType,
     BillStepType, UnlockedStepType DEF Next

\* Whatever the handlers do, the variables keep their types.
THEOREM WalletTypeCorrect == Spec => []TypeOK
BY InitType, NextType, PTL DEF Spec

-----------------------------------------------------------------------------
(* Where a handler is after a step.                                        *)

\* Only p moves, and it comes to one of the labels.
Comes(p, labels) == /\ \A q \in Handlers \ {p} : handler'[q] = handler[q]
                    /\ handler'[p].pc \in labels

LEMMA BeginComes ==
  ASSUME HandlersPlaced, NEW p \in Handlers, NEW h, Begin(p, h)
  PROVE  handler'[p] = h /\ Comes(p, {h.pc})
BY DEF HandlersPlaced, Begin, Comes

LEMMA DoneComes ==
  ASSUME HandlersPlaced, NEW p \in Handlers, Done(p)
  PROVE  handler'[p] = Idle /\ Comes(p, {"idle"})
BY DEF HandlersPlaced, Done, Comes, Idle

LEMMA GotoComes ==
  ASSUME HandlersPlaced, NEW p \in Handlers, NEW label, Goto(p, label)
  PROVE  /\ handler'[p] = [handler[p] EXCEPT !.pc = label]
         /\ Comes(p, {label})
BY DEF HandlersPlaced, Goto, Comes, Handler

LEMMA TakeUpComes ==
  ASSUME HandlersPlaced, NEW p \in Handlers, NEW o, NEW list, NEW due,
         TakeUp(p, o, list, due)
  PROVE  Comes(p, {"refund", "setStatus"}) /\ ~handler'[p].refunded
<1> DEFINE h == [Idle EXCEPT !.pc = IF o \in due THEN "refund" ELSE "setStatus",
                             !.obj = o, !.to = "failed",
                             !.list = list \ {o}, !.due = due]
<1>1. handler'[p] = h /\ Comes(p, {h.pc})
  BY BeginComes DEF TakeUp
<1>2. h.pc \in {"refund", "setStatus"} /\ ~h.refunded
  BY DEF Idle
<1> QED BY <1>1, <1>2 DEF Comes

LEMMA SetStatusComes ==
  ASSUME HandlersPlaced, NEW p \in Handlers, NEW o \in Orders, NEW s,
         SetStatus(p, o, s)
  PROVE  Comes(p, {"refund", "setStatus"}) /\ ~handler'[p].refunded
<1> DEFINE h == [Idle EXCEPT !.pc = IF s = "failed" /\ Prepaid(order[o])
                                    THEN "refund" ELSE "setStatus",
                             !.obj = o, !.to = s]
<1>1. handler'[p] = h /\ Comes(p, {h.pc})
  BY BeginComes DEF SetStatus
<1>2. h.pc \in {"refund", "setStatus"} /\ ~h.refunded
  BY DEF Idle
<1> QED BY <1>1, <1>2 DEF Comes

LEMMA WriteStatusComes ==
  ASSUME HandlersPlaced, NEW p \in Handlers, WriteStatus(p)
  PROVE  /\ Comes(p, {"idle", "refund", "setStatus"})
         /\ ~handler'[p].refunded
<1>1. CASE Done(p)
  BY <1>1, DoneComes DEF Comes, Idle
<1>2. ASSUME NEW o \in handler[p].list,
             TakeUp(p, o, handler[p].list, handler[p].due)
      PROVE  /\ Comes(p, {"idle", "refund", "setStatus"})
             /\ ~handler'[p].refunded
  BY <1>2, TakeUpComes DEF Comes
<1> QED BY <1>1, <1>2 DEF WriteStatus

LEMMA BulkFailComes ==
  ASSUME HandlersPlaced, NEW p \in Handlers, BulkFail(p)
  PROVE  Comes(p, {"refund", "setStatus"}) /\ ~handler'[p].refunded
BY TakeUpComes DEF BulkFail

LEMMA RefundComes ==
  ASSUME HandlersPlaced, NEW p \in Handlers, Refund(p)
  PROVE  /\ Comes(p, {"setStatus"})
         /\ handler'[p].obj = Obj(p)
         /\ handler'[p].refunded =>
              \/ handler[p].refunded
              \/ Move(1) /\ failRefunds' = [failRefunds EXCEPT ![Obj(p)] = @ + 1]
<1>1. CASE Goto(p, "setStatus")
  <2>1. handler'[p] = [handler[p] EXCEPT !.pc = "setStatus"]
    BY <1>1, GotoComes
  <2>2. handler'[p].obj = Obj(p) /\ handler'[p].refunded = handler[p].refunded
    BY <2>1 DEF HandlersPlaced, Handler, Obj
  <2> QED BY <1>1, <2>2, GotoComes
<1>2. CASE handler' = [handler EXCEPT ![p].pc = "setStatus", ![p].refunded = TRUE]
  BY <1>2 DEF HandlersPlaced, Handler, Obj, Comes, Refund, Goto
<1> QED BY <1>1, <1>2 DEF Refund

-----------------------------------------------------------------------------
(* The wallet is an account as long as only its locked writers run.        *)

Bypassing == {"readOrder", "cancel", "write", "entry"}

\* No handler is inside a writer that bypasses the ledger service.
NoBypass == \A p \in Handlers : handler[p].pc \notin Bypassing

\* What a movement does, and what Account asks of a step.
Postable == balance' \in Nat /\ ledger' = ledger + (balance' - balance)

LEMMA MovePosts ==
  ASSUME RowsTyped, NEW d \in {-1, 1}, Move(d)
  PROVE  Postable
BY DEF RowsTyped, Move, Postable

LEMMA SameIsQuiet ==
  ASSUME UNCHANGED wallet
  PROVE  UNCHANGED <<balance, ledger>>
BY DEF wallet

LEMMA ComesKeepsNoBypass ==
  ASSUME NoBypass, NEW p \in Handlers, NEW labels, Comes(p, labels),
         labels \cap Bypassing = {}
  PROVE  NoBypass'
BY DEF NoBypass, Comes

LEMMA PartnerStepComes ==
  ASSUME TypeOK, NEW p \in Handlers, PartnerStep(p)
  PROVE  Comes(p, {"idle", "report"}) /\ ~handler'[p].refunded
<1>0. HandlersPlaced
  BY TypeSplit
<1>1. ASSUME NEW o \in Orders, ReportStop(p, o)
      PROVE  Comes(p, {"idle", "report"}) /\ ~handler'[p].refunded
  <2> DEFINE h == [Idle EXCEPT !.pc = "report", !.obj = o]
  <2>1. handler'[p] = h /\ Comes(p, {h.pc})
    BY <1>0, <1>1, BeginComes DEF ReportStop
  <2>2. h.pc = "report" /\ ~h.refunded
    BY DEF Idle
  <2> QED BY <2>1, <2>2 DEF Comes
<1>2. CASE WriteReport(p)
  BY <1>0, <1>2, DoneComes DEF WriteReport, Comes, Idle
<1> QED BY <1>1, <1>2 DEF PartnerStep

LEMMA NoBypassKept ==
  ASSUME Ops \subseteq LockedOps, TypeOK, NoBypass, [Next]_vars
  PROVE  NoBypass'
<1> USE DEF Bypassing
<1>0. HandlersPlaced /\ Idle.pc = "idle"
  BY TypeSplit DEF Idle
<1>1. CASE UNCHANGED handler
  BY <1>1 DEF NoBypass
<1>2. ASSUME NEW p \in Handlers, OrderStep(p) PROVE NoBypass'
  <2>1. ~ (\E o \in Orders : AskCancel(p, o))
    BY DEF AskCancel, Serve, LockedOps
  <2>2. ~ ReadOrder(p) /\ ~ Cancel(p)
    BY DEF ReadOrder, Cancel, NoBypass, At
  <2>3. Comes(p, {"idle", "refund", "setStatus"})
    BY <1>0, <1>2, <2>1, <2>2, SetStatusComes, BulkFailComes, RefundComes,
       WriteStatusComes DEF OrderStep, Comes
  <2> QED BY <2>3, ComesKeepsNoBypass
<1>3. ASSUME NEW p \in Handlers, BillStep(p) PROVE NoBypass'
  <2>1. ASSUME NEW b \in Bills, AskPayBill(p, b) PROVE NoBypass'
    <3> DEFINE h == [Idle EXCEPT !.pc = "readBill", !.obj = b, !.bal = balance]
    <3>1. Comes(p, {h.pc}) /\ h.pc = "readBill"
      BY <1>0, <2>1, BeginComes DEF AskPayBill, Idle
    <3> QED BY <3>1, ComesKeepsNoBypass
  <2>2. ASSUME NEW b \in Bills, AdminPays(p, b) PROVE NoBypass'
    <3> DEFINE h == [Idle EXCEPT !.pc = "recordCash", !.obj = b]
    <3>1. Comes(p, {h.pc}) /\ h.pc = "recordCash"
      BY <1>0, <2>2, BeginComes DEF AdminPays, Idle
    <3> QED BY <3>1, ComesKeepsNoBypass
  <2>3. CASE ReadBill(p) \/ Debit(p) \/ MarkBillPaid(p) \/ RecordCash(p)
    <3>1. Comes(p, {"idle", "debit", "markPaid"})
      BY <1>0, <2>3, DoneComes, GotoComes
         DEF ReadBill, Debit, MarkBillPaid, RecordCash, Comes
    <3> QED BY <3>1, ComesKeepsNoBypass
  <2> QED BY <1>3, <2>1, <2>2, <2>3 DEF BillStep
<1>4. ASSUME NEW p \in Handlers PROVE ~ UnlockedStep(p)
  BY DEF UnlockedStep, AskAdjust, Adjust, AddEntry, Subscribe, NoBypass, At,
         Serve, LockedOps
<1>5. ASSUME NEW p \in Handlers, Crash(p) PROVE NoBypass'
  BY <1>0, <1>5, DoneComes, ComesKeepsNoBypass DEF Crash
<1>6. ASSUME NEW p \in Handlers, OneStep(p) PROVE UNCHANGED handler
  BY <1>6 DEF OneStep, TopUp, CheckoutByWallet, CheckoutOtherwise,
     SettleOnline
<1>7. ASSUME NEW p \in Handlers, PartnerStep(p) PROVE NoBypass'
  BY <1>7, PartnerStepComes, ComesKeepsNoBypass
<1> QED
  BY <1>1, <1>2, <1>3, <1>4, <1>5, <1>6, <1>7
     DEF Next, vars, DatePasses, RaiseBill

LEMMA Posts ==
  ASSUME TypeOK, NoBypass, Ops \subseteq LockedOps, [Next]_vars
  PROVE  Postable \/ UNCHANGED wallet
<1>0. RowsTyped
  BY TypeSplit
<1>1. ASSUME NEW p \in Handlers, OneStep(p) PROVE Postable \/ UNCHANGED wallet
  BY <1>0, <1>1, MovePosts DEF OneStep, TopUp, CheckoutByWallet,
     CheckoutOtherwise,
     SettleOnline
<1>2. ASSUME NEW p \in Handlers, OrderStep(p) PROVE Postable \/ UNCHANGED wallet
  <2>1. ~ Cancel(p)
    BY DEF Cancel, NoBypass, At, Bypassing
  <2> QED BY <1>0, <1>2, <2>1, MovePosts DEF OrderStep, AskCancel, ReadOrder,
             SetStatus, BulkFail, Refund, WriteStatus, wallet
<1>3. ASSUME NEW p \in Handlers, BillStep(p) PROVE Postable \/ UNCHANGED wallet
  BY <1>0, <1>3, MovePosts DEF BillStep, AskPayBill, AdminPays, ReadBill,
     Debit, MarkBillPaid, RecordCash, wallet
<1>4. ASSUME NEW p \in Handlers PROVE ~ UnlockedStep(p)
  BY DEF UnlockedStep, AskAdjust, Adjust, AddEntry, Subscribe, NoBypass, At,
         Serve, LockedOps, Bypassing
<1>5. ASSUME NEW p \in Handlers, PartnerStep(p) PROVE UNCHANGED wallet
  BY <1>5 DEF PartnerStep, ReportStop, WriteReport
<1> QED
  BY <1>1, <1>2, <1>3, <1>4, <1>5
     DEF Next, vars, DatePasses, RaiseBill, Crash, wallet

LEMMA InitNoBypass == Init => NoBypass /\ balance = ledger
BY DEF Init, NoBypass, Bypassing, Idle

\* The instance calls locked entry points only.
LockedOnly == Ops \subseteq LockedOps

\* What holds of such an instance in every state.
AccountInv == LockedOnly /\ NoBypass /\ balance = ledger

LEMMA AccountInvInit == LockedOnly /\ Init => AccountInv
BY InitNoBypass DEF AccountInv

LEMMA AccountInvStep == TypeOK /\ AccountInv /\ [Next]_vars => AccountInv'
<1> SUFFICES ASSUME TypeOK, AccountInv, [Next]_vars PROVE AccountInv'
  OBVIOUS
<1>1. LockedOnly' /\ NoBypass'
  BY NoBypassKept DEF LockedOnly, AccountInv
<1>2. balance' = ledger'
  <2>1. balance \in Nat /\ ledger \in Int /\ balance = ledger
    BY DEF TypeOK, AccountInv
  <2> QED BY <2>1, Posts DEF Postable, wallet, AccountInv, LockedOnly
<1> QED BY <1>1, <1>2 DEF AccountInv

\* With the locked writers alone, in any number and however they interleave or
\* crash, the balance is the sum of the ledger: findLedgerDrift finds nothing.
THEOREM LockedNeverDrifts == LockedOnly /\ Spec => []LedgerMatches
<1>1. AccountInv => LedgerMatches
  BY DEF LedgerMatches, AccountInv
<1> QED
  BY <1>1, AccountInvInit, AccountInvStep, WalletTypeCorrect, PTL DEF Spec

\* With the locked writers alone the wallet implements the account: every step
\* is one posted movement, which leaves the balance non-negative, or a stutter.
THEOREM LockedImplementsAccount == LockedOnly /\ Spec => AccountSpec
<1>1. Init => Ledger!Init
  BY DEF Init, Ledger!Init
<1>2. TypeOK /\ AccountInv /\ [Next]_vars => [Ledger!Post]_<<balance, ledger>>
  BY Posts, SameIsQuiet DEF Postable, Ledger!Post, AccountInv, LockedOnly
<1> QED
  BY <1>1, <1>2, AccountInvInit, AccountInvStep, WalletTypeCorrect, PTL
     DEF Spec, AccountSpec, Ledger!Spec

-----------------------------------------------------------------------------
(* What is marked paid was paid, what is marked refunded was refunded.     *)

BillsBacked ==
  /\ PaidBillHasMoney
  /\ \A p \in Handlers : At(p, "markPaid") => payments[Obj(p)] > 0

RefundsBacked ==
  /\ RefundedOrderHasCredit
  /\ \A p \in Handlers : handler[p].refunded
                           => At(p, "setStatus") /\ failRefunds[Obj(p)] > 0

LEMMA IInvSplit == IInv <=> TypeOK /\ BillsBacked /\ RefundsBacked
BY DEF IInv, BillsBacked, RefundsBacked

LEMMA IInvJoin == TypeOK' /\ BillsBacked' /\ RefundsBacked' => IInv'
BY DEF IInv, BillsBacked, RefundsBacked, TypeOK, PaidBillHasMoney,
       RefundedOrderHasCredit, At, Obj

LEMMA InitIInv == Init => IInv
<1> SUFFICES ASSUME Init PROVE IInv
  OBVIOUS
<1>1. BillsBacked
  BY DEF Init, BillsBacked, PaidBillHasMoney, At, Idle
<1>2. RefundsBacked
  BY DEF Init, RefundsBacked, RefundedOrderHasCredit, NoOrder, Idle
<1> QED BY <1>1, <1>2, InitType, IInvSplit

\* Payments are only added; a bill becomes paid with one, or by a handler that
\* made one; a handler is to mark a bill paid only once it has paid it.
LEMMA BillsBackedBy ==
  ASSUME TypeOK, BillsBacked, TypeOK', NEW p \in Handlers,
         \A b \in Bills : payments'[b] >= payments[b],
         atGateway \subseteq atGateway',
         \A b \in Bills : bill'[b] = "paid"
           => bill[b] = "paid" \/ payments'[b] > 0 \/ b \in atGateway',
         \A q \in Handlers \ {p} : handler'[q] = handler[q],
         handler'[p].pc = "markPaid"
           => payments'[handler'[p].obj] > 0 \/ handler'[p] = handler[p]
  PROVE  BillsBacked'
<1>1. PaidBillHasMoney'
  BY DEF BillsBacked, PaidBillHasMoney, TypeOK
<1>2. ASSUME NEW q \in Handlers, At(q, "markPaid")' PROVE payments'[handler'[q].obj] > 0
  <2>1. CASE handler'[q] = handler[q]
    <3>1. Obj(q) \in Bills /\ payments[Obj(q)] > 0
      BY <1>2, <2>1 DEF BillsBacked, At, Obj, TypeOK, BillLabels
    <3> QED BY <2>1, <3>1 DEF TypeOK, Obj
  <2>2. CASE handler'[q] # handler[q]
    BY <1>2, <2>2 DEF At
  <2> QED BY <2>1, <2>2
<1> QED BY <1>1, <1>2 DEF BillsBacked, Obj

\* The same of refunds: an order becomes refunded by a handler that credited it.
LEMMA RefundsBackedBy ==
  ASSUME TypeOK, RefundsBacked, TypeOK', NEW p \in Handlers,
         \A o \in Orders : failRefunds'[o] >= failRefunds[o],
         \A o \in Orders : order'[o].pay = "refunded"
                             => order[o].pay = "refunded" \/ failRefunds'[o] > 0,
         \A q \in Handlers \ {p} : handler'[q] = handler[q],
         handler'[p].refunded
           => \/ handler'[p].pc = "setStatus" /\ failRefunds'[handler'[p].obj] > 0
              \/ handler'[p] = handler[p]
  PROVE  RefundsBacked'
<1>1. RefundedOrderHasCredit'
  BY DEF RefundsBacked, RefundedOrderHasCredit, TypeOK
<1>2. ASSUME NEW q \in Handlers, handler'[q].refunded
      PROVE  handler'[q].pc = "setStatus" /\ failRefunds'[handler'[q].obj] > 0
  <2>1. CASE handler'[q] = handler[q]
    <3>1. /\ handler[q].pc = "setStatus" /\ failRefunds[Obj(q)] > 0
          /\ Obj(q) \in Orders
      BY <1>2, <2>1 DEF RefundsBacked, At, Obj, TypeOK, OrderLabels
    <3> QED BY <2>1, <3>1 DEF TypeOK, Obj
  <2>2. CASE handler'[q] # handler[q]
    BY <1>2, <2>2
  <2> QED BY <2>1, <2>2
<1> QED BY <1>1, <1>2 DEF RefundsBacked, At, Obj

\* Only a handler whose order was credited holds isRefunded: others come to
\* their next label without it.
LEMMA GotoKeepsRefunded ==
  ASSUME TypeOK, RefundsBacked, NEW p \in Handlers, NEW from, At(p, from),
         from # "setStatus", NEW label, Goto(p, label) \/ Done(p)
  PROVE  Comes(p, {label, "idle"}) /\ ~handler'[p].refunded
<1>0. HandlersPlaced /\ ~handler[p].refunded
  BY TypeSplit DEF RefundsBacked, At
<1>1. CASE Goto(p, label)
  <2>1. handler'[p] = [handler[p] EXCEPT !.pc = label] /\ Comes(p, {label})
    BY <1>0, <1>1, GotoComes
  <2>2. handler'[p].refunded = handler[p].refunded
    BY <1>0, <2>1 DEF HandlersPlaced, Handler
  <2> QED BY <1>0, <2>1, <2>2 DEF Comes
<1>2. CASE Done(p)
  BY <1>0, <1>2, DoneComes DEF Comes, Idle
<1> QED BY <1>1, <1>2

LEMMA OrderStepComes ==
  ASSUME TypeOK, RefundsBacked, NEW p \in Handlers, OrderStep(p), ~Refund(p)
  PROVE  /\ Comes(p, {"idle", "readOrder", "cancel", "refund", "setStatus"})
         /\ ~handler'[p].refunded
<1>0. HandlersPlaced
  BY TypeSplit
<1>1. ASSUME NEW o \in Orders, AskCancel(p, o)
      PROVE  Comes(p, {"readOrder"}) /\ ~handler'[p].refunded
  <2> DEFINE h == [Idle EXCEPT !.pc = "readOrder", !.obj = o, !.bal = balance]
  <2>1. handler'[p] = h /\ Comes(p, {h.pc})
    BY <1>0, <1>1, BeginComes DEF AskCancel
  <2> QED BY <2>1 DEF Idle
<1>2. CASE ReadOrder(p)
  <2> DEFINE d == IF RefundedOnCancel(order[Obj(p)]) THEN 1 ELSE 0
             h == [handler[p] EXCEPT !.pc = "cancel", !.delta = d]
  <2>1. ~h.refunded /\ h.pc = "cancel"
    BY <1>0, <1>2 DEF ReadOrder, RefundsBacked, At, HandlersPlaced, Handler
  <2>2. CASE Begin(p, h)
    BY <1>0, <2>1, <2>2, BeginComes DEF Comes
  <2>3. CASE Done(p)
    BY <1>0, <2>3, DoneComes DEF Comes, Idle
  <2> QED BY <1>2, <2>2, <2>3 DEF ReadOrder
<1>3. CASE Cancel(p)
  BY <1>0, <1>3, DoneComes DEF Cancel, Comes, Idle
<1> QED
  BY <1>0, <1>1, <1>2, <1>3, SetStatusComes, BulkFailComes, WriteStatusComes
     DEF OrderStep, Comes

LEMMA UnlockedStepComes ==
  ASSUME TypeOK, RefundsBacked, NEW p \in Handlers, UnlockedStep(p)
  PROVE  Comes(p, {"idle", "write", "entry"}) /\ ~handler'[p].refunded
<1>0. HandlersPlaced
  BY TypeSplit
<1>1. ASSUME NEW op, NEW d, AskAdjust(p, op, d)
      PROVE  Comes(p, {"write"}) /\ ~handler'[p].refunded
  <2> DEFINE h == [Idle EXCEPT !.pc = "write", !.bal = balance, !.delta = d]
  <2>1. handler'[p] = h /\ Comes(p, {h.pc})
    BY <1>0, <1>1, BeginComes DEF AskAdjust
  <2> QED BY <2>1 DEF Idle
<1>2. CASE Adjust(p)
  BY <1>2, GotoKeepsRefunded DEF Adjust, Comes
<1>3. CASE AddEntry(p)
  BY <1>0, <1>3, DoneComes DEF AddEntry, Comes, Idle
<1>4. CASE Subscribe(p)
  <2> DEFINE h == [Idle EXCEPT !.pc = "entry", !.delta = -1]
  <2>1. handler'[p] = h /\ Comes(p, {h.pc})
    BY <1>0, <1>4, BeginComes DEF Subscribe
  <2> QED BY <2>1 DEF Idle, Comes
<1> QED BY <1>1, <1>2, <1>3, <1>4 DEF UnlockedStep, Comes

LEMMA BillStepComes ==
  ASSUME TypeOK, RefundsBacked, NEW p \in Handlers, BillStep(p)
  PROVE  /\ \A q \in Handlers \ {p} : handler'[q] = handler[q]
         /\ ~handler'[p].refunded
         /\ ~Debit(p) => handler'[p].pc # "markPaid"
<1>0. HandlersPlaced
  BY TypeSplit
<1>1. ASSUME NEW b \in Bills, AskPayBill(p, b)
      PROVE  Comes(p, {"readBill"}) /\ ~handler'[p].refunded
  <2> DEFINE h == [Idle EXCEPT !.pc = "readBill", !.obj = b, !.bal = balance]
  <2>1. handler'[p] = h /\ Comes(p, {h.pc})
    BY <1>0, <1>1, BeginComes DEF AskPayBill
  <2> QED BY <2>1 DEF Idle
<1>2. ASSUME NEW b \in Bills, AdminPays(p, b)
      PROVE  Comes(p, {"recordCash"}) /\ ~handler'[p].refunded
  <2> DEFINE h == [Idle EXCEPT !.pc = "recordCash", !.obj = b]
  <2>1. handler'[p] = h /\ Comes(p, {h.pc})
    BY <1>0, <1>2, BeginComes DEF AdminPays
  <2> QED BY <2>1 DEF Idle
<1>3. CASE ReadBill(p)
  BY <1>3, GotoKeepsRefunded DEF ReadBill, Comes
<1>4. CASE Debit(p)
  BY <1>4, GotoKeepsRefunded DEF Debit, Comes
<1>5. CASE MarkBillPaid(p) \/ RecordCash(p)
  BY <1>0, <1>5, DoneComes DEF MarkBillPaid, RecordCash, Comes, Idle
<1> QED BY <1>1, <1>2, <1>3, <1>4, <1>5 DEF BillStep, Comes

\* A step that leaves bills and payments alone, and no handler to mark one.
LEMMA BillsQuiet ==
  ASSUME IInv, TypeOK', NEW p \in Handlers,
         UNCHANGED <<bill, payments, atGateway>>,
         \A q \in Handlers \ {p} : handler'[q] = handler[q],
         handler'[p].pc # "markPaid" \/ handler'[p] = handler[p]
  PROVE  BillsBacked'
<1>1. \A b \in Bills : payments'[b] >= payments[b]
  BY IInvSplit DEF TypeOK
<1>2. TypeOK /\ BillsBacked
  BY IInvSplit
<1> QED BY <1>1, <1>2, BillsBackedBy

\* A step that makes no order refunded, and no handler hold isRefunded.
LEMMA RefundsQuiet ==
  ASSUME IInv, TypeOK', NEW p \in Handlers, UNCHANGED failRefunds,
         \A o \in Orders : order'[o].pay = "refunded" => order[o].pay = "refunded",
         \A q \in Handlers \ {p} : handler'[q] = handler[q],
         ~handler'[p].refunded \/ handler'[p] = handler[p]
  PROVE  RefundsBacked'
<1>1. \A o \in Orders : failRefunds'[o] >= failRefunds[o]
  BY IInvSplit DEF TypeOK
<1>2. TypeOK /\ RefundsBacked
  BY IInvSplit
<1> QED BY <1>1, <1>2, RefundsBackedBy

LEMMA OneStepIInv ==
  ASSUME IInv, TypeOK', NEW p \in Handlers, OneStep(p)
  PROVE  BillsBacked' /\ RefundsBacked'
<1>0. TypeOK /\ UNCHANGED handler
  BY IInvSplit DEF OneStep, TopUp, CheckoutByWallet, CheckoutOtherwise,
     SettleOnline
<1>1. ASSUME NEW b \in Bills, SettleOnline(p, b) PROVE BillsBacked'
  <2>1. \A c \in Bills : payments'[c] >= payments[c] /\ payments[c] \in Nat
    BY <1>0, <1>1 DEF SettleOnline, TypeOK, counts
  <2>2. /\ atGateway \subseteq atGateway'
        /\ \A c \in Bills : bill'[c] = "paid" => bill[c] = "paid" \/ c \in atGateway'
    BY <1>0, <1>1 DEF SettleOnline, TypeOK
  <2> QED BY <1>0, <2>1, <2>2, BillsBackedBy, IInvSplit
<1>2. BillsBacked'
  <2>1. CASE UNCHANGED <<bill, payments, atGateway>>
    BY <1>0, <2>1, BillsQuiet
  <2> QED BY <1>1, <2>1 DEF OneStep, TopUp, CheckoutByWallet,
             CheckoutOtherwise, trails
<1>3. /\ UNCHANGED failRefunds
      /\ \A o \in Orders : order'[o].pay = "refunded" => order[o].pay = "refunded"
  <2>1. CASE UNCHANGED order
    BY <2>1, <1>0 DEF OneStep, TopUp, CheckoutByWallet, CheckoutOtherwise,
       SettleOnline, trails, counts
  <2>2. ASSUME NEW u \in Orders, NEW m \in {"wallet", "online", "cod"},
               order' = [order EXCEPT ![u] = PlacedOrder(m)]
        PROVE  \A o \in Orders : order'[o].pay = "refunded" => order[o].pay = "refunded"
    BY <1>0, <2>2 DEF PlacedOrder, TypeOK
  <2>3. ASSUME NEW u \in Orders, NEW s, order' = [order EXCEPT ![u].status = s]
        PROVE  \A o \in Orders : order'[o].pay = "refunded" => order[o].pay = "refunded"
    BY <1>0, <2>3 DEF TypeOK, Order
  <2> QED BY <2>1, <2>2, <2>3 DEF OneStep, TopUp, CheckoutByWallet,
             CheckoutOtherwise, SettleOnline, trails, counts
<1> QED BY <1>0, <1>2, <1>3, RefundsQuiet

LEMMA OrderStepIInv ==
  ASSUME IInv, TypeOK', NEW p \in Handlers, OrderStep(p)
  PROVE  BillsBacked' /\ RefundsBacked'
<1>0. TypeOK /\ RefundsBacked /\ HandlersPlaced
  BY IInvSplit, TypeSplit
<1>1. UNCHANGED <<bill, payments, atGateway>>
  BY DEF OrderStep, AskCancel, ReadOrder, Cancel, SetStatus, BulkFail, Refund,
     WriteStatus, trails, marks
<1>2. CASE Refund(p)
  <2>1. Comes(p, {"setStatus"}) /\ handler'[p].obj = Obj(p) /\ Obj(p) \in Orders
    BY <1>0, <1>2, RefundComes DEF Refund, At, Obj, HandlersPlaced, Placed
  <2>2. BillsBacked'
    BY <1>1, <2>1, BillsQuiet DEF Comes
  <2>3. ~handler[p].refunded
    BY <1>0, <1>2 DEF RefundsBacked, Refund, At
  <2>4. \A o \in Orders : failRefunds'[o] >= failRefunds[o]
    BY <1>0, <1>2, <2>1 DEF Refund, TypeOK
  <2>5. handler'[p].refunded => failRefunds'[Obj(p)] > 0
    BY <1>0, <1>2, <2>1, <2>3, RefundComes DEF TypeOK
  <2>6. UNCHANGED order
    BY <1>2 DEF Refund
  <2>7. RefundsBacked'
    BY <1>0, <2>1, <2>4, <2>5, <2>6, RefundsBackedBy DEF Comes
  <2> QED BY <2>2, <2>7
<1>3. CASE ~Refund(p)
  <2>1. /\ Comes(p, {"idle", "readOrder", "cancel", "refund", "setStatus"})
        /\ ~handler'[p].refunded
    BY <1>0, <1>3, OrderStepComes
  <2>2. BillsBacked'
    BY <1>1, <2>1, BillsQuiet DEF Comes
  <2>3. UNCHANGED failRefunds
    BY <1>3 DEF OrderStep, AskCancel, ReadOrder, Cancel, SetStatus, BulkFail,
       WriteStatus, trails
  <2>4. CASE WriteStatus(p)
    <3> DEFINE h == handler[p]
    <3>1. h.obj \in Orders /\ order' = [order EXCEPT ![h.obj] = WithStatus(@, h.to, h.refunded)]
      BY <1>0, <2>4 DEF WriteStatus, HandlersPlaced, Placed, At
    <3>2. WithStatus(order[h.obj], h.to, h.refunded).pay = "refunded"
            => order[h.obj].pay = "refunded" \/ h.refunded
      BY <1>0, <3>1 DEF WithStatus, TypeOK, Order
    <3>3. h.refunded => failRefunds[h.obj] > 0
      BY <1>0 DEF RefundsBacked, Obj
    <3>4. \A o \in Orders : order'[o].pay = "refunded"
                              => order[o].pay = "refunded" \/ failRefunds'[o] > 0
      BY <1>0, <2>3, <3>1, <3>2, <3>3 DEF TypeOK
    <3>5. \A o \in Orders : failRefunds'[o] >= failRefunds[o]
      BY <1>0, <2>3 DEF TypeOK
    <3> QED BY <1>0, <2>1, <2>2, <3>4, <3>5, RefundsBackedBy DEF Comes
  <2>5. CASE UNCHANGED order
    BY <2>1, <2>2, <2>3, <2>5, RefundsQuiet DEF Comes
  <2>6. CASE Cancel(p)
    <3>1. \A o \in Orders : order'[o].pay = "refunded" => order[o].pay = "refunded"
      BY <1>0, <2>6 DEF Cancel, TypeOK, Order
    <3> QED BY <2>1, <2>2, <2>3, <3>1, RefundsQuiet DEF Comes
  <2> QED BY <1>3, <2>4, <2>5, <2>6 DEF OrderStep, AskCancel, ReadOrder,
             SetStatus, BulkFail
<1> QED BY <1>2, <1>3

LEMMA PartnerStepIInv ==
  ASSUME IInv, TypeOK', NEW p \in Handlers, PartnerStep(p)
  PROVE  BillsBacked' /\ RefundsBacked'
<1>0. TypeOK
  BY IInvSplit
<1>1. Comes(p, {"idle", "report"}) /\ ~handler'[p].refunded
  BY <1>0, PartnerStepComes
<1>2. UNCHANGED <<bill, payments, atGateway, failRefunds>>
  BY DEF PartnerStep, ReportStop, WriteReport, trails, counts
<1>3. \A o \in Orders : order'[o].pay = "refunded" => order[o].pay = "refunded"
  <2>1. CASE UNCHANGED order
    BY <2>1
  <2>2. CASE WriteReport(p)
    BY <1>0, <2>2 DEF WriteReport, Reported, TypeOK, Order
  <2> QED BY <2>1, <2>2 DEF PartnerStep, ReportStop
<1>4. BillsBacked'
  BY <1>1, <1>2, BillsQuiet DEF Comes
<1>5. RefundsBacked'
  BY <1>1, <1>2, <1>3, RefundsQuiet DEF Comes
<1> QED BY <1>4, <1>5

LEMMA BillStepIInv ==
  ASSUME IInv, TypeOK', NEW p \in Handlers, BillStep(p)
  PROVE  BillsBacked' /\ RefundsBacked'
<1>0. TypeOK /\ RefundsBacked /\ BillsBacked /\ HandlersPlaced
  BY IInvSplit, TypeSplit
<1>1. \A q \in Handlers \ {p} : handler'[q] = handler[q]
  BY <1>0, BillStepComes
<1>2. ~handler'[p].refunded
  BY <1>0, BillStepComes
<1>3. ~Debit(p) => handler'[p].pc # "markPaid"
  BY <1>0, BillStepComes
<1>4. RefundsBacked'
  <2>1. UNCHANGED <<order, failRefunds>>
    BY DEF BillStep, AskPayBill, AdminPays, ReadBill, Debit, MarkBillPaid,
       RecordCash, trails
  <2> QED BY <1>1, <1>2, <2>1, RefundsQuiet
<1> SUFFICES BillsBacked'
  BY <1>4
<1>a. UNCHANGED atGateway
  BY DEF BillStep, AskPayBill, AdminPays, ReadBill, Debit, MarkBillPaid,
     RecordCash, trails, marks
<1>5. ASSUME handler'[p].pc # "markPaid",
             \A b \in Bills : payments'[b] >= payments[b],
             \A b \in Bills : bill'[b] = "paid"
                                => bill[b] = "paid" \/ payments'[b] > 0
      PROVE  BillsBacked'
  BY <1>0, <1>1, <1>5, <1>a, BillsBackedBy
<1>6. ASSUME UNCHANGED <<bill, payments>>, handler'[p].pc # "markPaid"
      PROVE  BillsBacked'
  <2>1. \A b \in Bills : payments'[b] >= payments[b]
    BY <1>0, <1>6 DEF TypeOK
  <2>2. \A b \in Bills : bill'[b] = "paid"
                            => bill[b] = "paid" \/ payments'[b] > 0
    BY <1>6
  <2> QED BY <1>5, <1>6, <2>1, <2>2
<1>7. CASE Debit(p)
  <2>1. Obj(p) \in Bills /\ UNCHANGED bill
    BY <1>0, <1>7 DEF Debit, HandlersPlaced, Placed, At, Obj
  <2>2. CASE UNCHANGED payments /\ Done(p)
    <3>1. handler'[p].pc # "markPaid"
      BY <1>0, <2>2, DoneComes DEF Comes
    <3> QED BY <1>6, <2>1, <2>2, <3>1
  <2>3. CASE payments' = [payments EXCEPT ![Obj(p)] = @ + 1] /\ Goto(p, "markPaid")
    <3>0. handler'[p] = [handler[p] EXCEPT !.pc = "markPaid"]
      BY <1>0, <2>3, GotoComes
    <3>1. handler'[p].obj = Obj(p)
      BY <1>0, <3>0 DEF HandlersPlaced, Placed, Handler, Obj
    <3>2. payments'[Obj(p)] > 0
      BY <1>0, <2>1, <2>3 DEF TypeOK
    <3>3. \A b \in Bills : payments'[b] >= payments[b]
      BY <1>0, <2>1, <2>3 DEF TypeOK
    <3>4. payments'[handler'[p].obj] > 0
      BY <3>1, <3>2
    <3>5. \A b \in Bills : bill'[b] = "paid"
                              => bill[b] = "paid" \/ payments'[b] > 0
      BY <2>1
    <3> QED BY <1>0, <1>1, <1>a, <3>3, <3>4, <3>5, BillsBackedBy
  <2> QED BY <1>7, <2>2, <2>3 DEF Debit
<1>8. CASE MarkBillPaid(p)
  <2>1. Obj(p) \in Bills /\ payments[Obj(p)] > 0
    BY <1>0, <1>8 DEF MarkBillPaid, HandlersPlaced, Placed, At, Obj, BillsBacked
  <2>2. \A b \in Bills : bill'[b] = "paid" => bill[b] = "paid" \/ payments'[b] > 0
    BY <1>0, <1>8, <2>1 DEF MarkBillPaid, TypeOK, trails
  <2>3. \A b \in Bills : payments'[b] >= payments[b]
    BY <1>0, <1>8 DEF MarkBillPaid, TypeOK, trails
  <2>4. handler'[p].pc # "markPaid"
    BY <1>0, <1>8, DoneComes DEF MarkBillPaid, Comes
  <2> QED BY <1>5, <2>2, <2>3, <2>4
<1>9. CASE RecordCash(p)
  <2>1. \A b \in Bills : payments'[b] >= payments[b]
    BY <1>0, <1>9 DEF RecordCash, TypeOK
  <2>2. \A b \in Bills : bill'[b] = "paid" => bill[b] = "paid" \/ payments'[b] > 0
    BY <1>0, <1>9 DEF RecordCash, TypeOK
  <2>3. handler'[p].pc # "markPaid"
    BY <1>0, <1>9, DoneComes DEF RecordCash, Comes
  <2> QED BY <1>5, <2>1, <2>2, <2>3
<1>10. CASE UNCHANGED <<bill, payments>> /\ ~Debit(p)
  BY <1>3, <1>6, <1>10
<1>11. CASE ReadBill(p)
  <2>1. ~Debit(p)
    BY <1>11 DEF ReadBill, Debit, At
  <2> QED BY <1>10, <1>11, <2>1 DEF ReadBill, trails
<1>12. CASE \E b \in Bills : AskPayBill(p, b) \/ AdminPays(p, b)
  <2>1. ~Debit(p)
    BY <1>12 DEF AskPayBill, AdminPays, Serve, Debit, At
  <2> QED BY <1>10, <1>12, <2>1 DEF AskPayBill, AdminPays, trails
<1> QED BY <1>7, <1>8, <1>9, <1>11, <1>12 DEF BillStep

LEMMA NextIInv == IInv /\ [Next]_vars => IInv'
<1> SUFFICES ASSUME IInv, [Next]_vars PROVE IInv'
  OBVIOUS
<1>0. TypeOK /\ RefundsBacked /\ BillsBacked /\ HandlersPlaced /\ TypeOK'
  BY IInvSplit, TypeSplit, NextType
<1>1. ASSUME UNCHANGED vars PROVE BillsBacked' /\ RefundsBacked'
  BY <1>0, <1>1 DEF vars, BillsBacked, RefundsBacked, PaidBillHasMoney,
     RefundedOrderHasCredit, At, Obj
<1>2. ASSUME Next PROVE BillsBacked' /\ RefundsBacked'
  <2>1. ASSUME NEW o \in Orders, DatePasses(o)
        PROVE  BillsBacked' /\ RefundsBacked'
    <3>1. \A u \in Orders : order'[u].pay = order[u].pay
      BY <1>0, <2>1 DEF DatePasses, TypeOK, Order
    <3> QED BY <1>0, <2>1, <3>1 DEF DatePasses, trails, BillsBacked,
               RefundsBacked, PaidBillHasMoney, RefundedOrderHasCredit, At, Obj
  <2>2. ASSUME NEW b \in Bills, RaiseBill(b)
        PROVE  BillsBacked' /\ RefundsBacked'
    <3>1. \A c \in Bills : bill'[c] = "paid" => bill[c] = "paid"
      BY <1>0, <2>2 DEF RaiseBill, TypeOK
    <3> QED BY <1>0, <2>2, <3>1 DEF RaiseBill, trails, BillsBacked,
               RefundsBacked, PaidBillHasMoney, RefundedOrderHasCredit, At, Obj
  <2>3. ASSUME NEW p \in Handlers, UnlockedStep(p)
        PROVE  BillsBacked' /\ RefundsBacked'
    <3>1. Comes(p, {"idle", "write", "entry"}) /\ ~handler'[p].refunded
      BY <1>0, <2>3, UnlockedStepComes
    <3>2. UNCHANGED <<bill, payments, atGateway, order, failRefunds>>
      BY <2>3 DEF UnlockedStep, AskAdjust, Adjust, AddEntry, Subscribe, trails, counts
    <3> QED BY <1>0, <3>1, <3>2, BillsQuiet, RefundsQuiet DEF Comes
  <2>4. ASSUME NEW p \in Handlers, Crash(p)
        PROVE  BillsBacked' /\ RefundsBacked'
    <3>1. Comes(p, {"idle"}) /\ ~handler'[p].refunded
      BY <1>0, <2>4, DoneComes DEF Crash, Idle
    <3>2. UNCHANGED <<bill, payments, atGateway, order, failRefunds>>
      BY <2>4 DEF Crash, trails
    <3> QED BY <1>0, <3>1, <3>2, BillsQuiet, RefundsQuiet DEF Comes
  <2>5. ASSUME NEW p \in Handlers,
               OneStep(p) \/ OrderStep(p) \/ PartnerStep(p) \/ BillStep(p)
        PROVE  BillsBacked' /\ RefundsBacked'
    BY <1>0, <2>5, OneStepIInv, OrderStepIInv, PartnerStepIInv, BillStepIInv
  <2> QED BY <1>2, <2>1, <2>2, <2>3, <2>4, <2>5 DEF Next
<1>3. BillsBacked' /\ RefundsBacked'
  BY <1>1, <1>2
<1> QED BY <1>0, <1>3, IInvJoin

\* Whatever interleaves, fails or dies, who is about to mark a bill paid has paid
\* it, and who is about to write that an order is refunded has credited it.
THEOREM WalletIsSound == Spec => []IInv
BY InitIInv, NextIInv, PTL DEF Spec

\* A bill that is marked paid was paid, from the wallet, online or in cash,
\* whatever interleaves and whichever handler dies between debit and update.
THEOREM PaidBillsArePaid == Spec => []PaidBillHasMoney
<1>1. IInv => PaidBillHasMoney
  BY DEF IInv
<1> QED BY <1>1, WalletIsSound, PTL

\* An order whose payment_status says refunded was credited to the wallet.
THEOREM RefundedOrdersAreCredited == Spec => []RefundedOrderHasCredit
<1>1. IInv => RefundedOrderHasCredit
  BY DEF IInv
<1> QED BY <1>1, WalletIsSound, PTL
=============================================================================
