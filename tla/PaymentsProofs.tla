--------------------------- MODULE PaymentsProofs ---------------------------
(***************************************************************************)
(* Theorems of Payments, for any set of transactions and of handlers, any  *)
(* number of crashes and every choice of the other constants.              *)
(***************************************************************************)
EXTENDS Payments, TLAPS

-----------------------------------------------------------------------------
(* The statements on a row, by what they set.                              *)

LEMMA PaidRowFacts ==
  ASSUME NEW r \in Row
  PROVE  /\ PaidRow(r) \in Row
         /\ PaidRow(r).status = IF r.status \in Final THEN r.status ELSE "paid"
         /\ PaidRow(r).purpose = r.purpose
         /\ PaidRow(r).ref = r.ref
BY DEF PaidRow, FirstId, Row, Statuses

LEMMA FailedRowFacts ==
  ASSUME NEW r \in Row, NEW id \in {"failed", "captured"}
  PROVE  /\ FailedRow(r, id) \in Row
         /\ FailedRow(r, id).status = IF r.status \in Final THEN r.status ELSE "failed"
         /\ FailedRow(r, id).purpose = r.purpose
         /\ FailedRow(r, id).ref = r.ref
BY DEF FailedRow, FirstId, Row, Statuses

LEMMA ClaimFacts ==
  ASSUME NEW r \in Row
  PROVE  /\ ClaimedRow(r) \in Row
         /\ ClaimedRow(r).status = "fulfilled"
         /\ ClaimedRow(r).purpose = r.purpose
         /\ ClaimedRow(r).ref = r.ref
         /\ UnclaimedRow(r) \in Row
         /\ UnclaimedRow(r).status = "paid"
         /\ UnclaimedRow(r).purpose = r.purpose
         /\ UnclaimedRow(r).ref = r.ref
BY DEF ClaimedRow, UnclaimedRow, Row, Statuses

LEMMA ConsumeFacts ==
  ASSUME NEW r \in Row
  PROVE  /\ ConsumedRow(r) \in Row
         /\ ConsumedRow(r).status = "fulfilled"
         /\ ConsumedRow(r).purpose = r.purpose
         /\ SweptRow(r) \in Row
         /\ SweptRow(r).status = "fulfilled"
         /\ SweptRow(r).purpose = "wallet_topup"
BY DEF ConsumedRow, SweptRow, Row, Statuses, AllPurposes

-----------------------------------------------------------------------------
(* The moves of a handler.                                                 *)

\* Only p moves, and it takes up no row.
Retires(p, labels) ==
  /\ HandlerType'
  /\ \A q \in Handlers \ {p} : handler'[q] = handler[q]
  /\ handler'[p].pc \in labels
  /\ handler'[p].cur \in {handler[p].cur, NoTxn}
  /\ handler'[p].list \subseteq handler[p].list

\* A batch of a query consists of rows that the query asks for.
LEMMA BatchFacts ==
  ASSUME NEW set, NEW batch \in Batches(set)
  PROVE  batch \subseteq set
BY DEF Batches

LEMMA StartFacts ==
  ASSUME HandlerType, NEW p \in Handlers, NEW o \in AllOps, NEW t \in Txns,
         NEW label \in Labels, Start(p, o, t, label)
  PROVE  /\ HandlerType'
         /\ \A q \in Handlers \ {p} : handler'[q] = handler[q]
         /\ handler'[p].pc = label /\ handler'[p].cur = t
         /\ handler'[p].list = {}
BY DEF Start, HandlerType, Handler

LEMMA GotoFacts ==
  ASSUME HandlerType, NEW p \in Handlers, NEW label \in Labels,
         handler[p].pc \notin Free \/ label \in Free, Goto(p, label)
  PROVE  Retires(p, {label}) /\ handler'[p].cur = handler[p].cur
BY DEF Goto, HandlerType, Handler, Retires

LEMMA LeaveFacts ==
  ASSUME HandlerType, NEW p \in Handlers, Leave(p)
  PROVE  Retires(p, {"idle", "poll"})
<1>1. CASE handler[p].op = "cron"
  BY <1>1, GotoFacts DEF Leave, Free, Labels, Retires
<1>2. CASE handler[p].op # "cron"
  BY <1>2 DEF Leave, Idle, HandlerType, Handler, Free, Labels, AllOps, Retires
<1> QED BY <1>1, <1>2

LEMMA RejectFacts ==
  ASSUME HandlerType, NEW p \in Handlers, handler[p].pc \notin Free, Reject(p)
  PROVE  Retires(p, {"idle", "poll", "create"})
<1>1. CASE handler[p].op = "subscribe"
  BY <1>1, GotoFacts DEF Reject, Labels, Retires
<1>2. CASE handler[p].op # "subscribe"
  BY <1>2, LeaveFacts DEF Reject, Retires
<1> QED BY <1>1, <1>2

LEMMA TakeUpFacts ==
  ASSUME HandlerType, NEW p \in Handlers, NEW t \in handler[p].list,
         NEW label \in Labels, TakeUp(p, t, label)
  PROVE  /\ HandlerType'
         /\ \A q \in Handlers \ {p} : handler'[q] = handler[q]
         /\ t \in Txns
         /\ handler'[p].pc = label /\ handler'[p].cur = t
         /\ handler'[p].list \subseteq handler[p].list
<1>1. handler[p] \in Handler /\ t \in Txns
  BY DEF HandlerType, Handler
<1> QED BY <1>1 DEF TakeUp, HandlerType, Handler

LEMMA SkipFacts ==
  ASSUME HandlerType, NEW p \in Handlers, NEW t, Skip(p, t)
  PROVE  Retires(p, {handler[p].pc})
BY DEF Skip, HandlerType, Handler, Retires

LEMMA EnumerateFacts ==
  ASSUME HandlerType, NEW p \in Handlers, NEW label \in Free,
         NEW set \in SUBSET Txns, Enumerate(p, label, set)
  PROVE  /\ HandlerType'
         /\ \A q \in Handlers \ {p} : handler'[q] = handler[q]
         /\ handler'[p].pc = label /\ handler'[p].cur = handler[p].cur
         /\ handler'[p].list = set
<1> label \in Labels
  BY DEF Free, Labels
<1> QED BY DEF Enumerate, HandlerType, Handler

LEMMA IdleFacts ==
  ASSUME HandlerType, NEW p \in Handlers, handler' = [handler EXCEPT ![p] = Idle]
  PROVE  Retires(p, {"idle"})
BY DEF Idle, HandlerType, Handler, Free, Labels, AllOps, Retires

-----------------------------------------------------------------------------
(* Types.                                                                  *)

LEMMA InitType == Init => TypeOK
BY DEF Init, TypeOK, DataType, HandlerType, Free, Row, Statuses, AllPurposes, Handler, Idle, Labels, AllOps

LEMMA CustomerType ==
  ASSUME TypeOK, NEW t \in Txns, Customer(t)
  PROVE  TypeOK'
<1> USE DEF TypeOK, DataType, HandlerType, ledgers, outside, customer
<1>1. ASSUME NEW purpose \in AllPurposes, NEW ref \in {"none", "named"},
             CreateOrder(t, purpose, ref)
      PROVE  TypeOK'
  BY <1>1 DEF CreateOrder, Update, Row, Statuses
<1>2. CASE AttemptFails(t)
  BY <1>2 DEF AttemptFails
<1>3. CASE Capture(t)
  BY <1>3 DEF Capture
<1>4. CASE RefundAtGateway(t)
  BY <1>4 DEF RefundAtGateway
<1> QED BY <1>1, <1>2, <1>3, <1>4 DEF Customer

LEMMA ElapseType ==
  ASSUME TypeOK, NEW t \in Txns, NEW timer \in AllTimers, Elapse(t, timer)
  PROVE  TypeOK'
BY DEF Elapse, TypeOK, DataType, HandlerType, ledgers, outside, customer

LEMMA RequestType ==
  ASSUME TypeOK, NEW p \in Handlers, Request(p) \/ StartCron(p)
  PROVE  TypeOK'
<1> USE DEF TypeOK, DataType, ledgers, outside, customer
<1>1. ASSUME NEW t \in Txns, StartVerify(p, t)
      PROVE  TypeOK'
  BY <1>1, StartFacts DEF StartVerify, Verdict, Labels, AllOps
<1>2. ASSUME NEW t \in Txns, StartCheck(p, t)
      PROVE  TypeOK'
  <2>1. HandlerType'
    BY <1>2, StartFacts DEF StartCheck, Labels, AllOps, HandlerType
  <2> QED BY <1>2, <2>1 DEF StartCheck
<1>3. ASSUME NEW t \in Txns, NEW kind \in EventKinds, StartWebhook(p, t, kind)
      PROVE  TypeOK'
  <2>1. HandlerType'
    BY <1>3, StartFacts DEF StartWebhook, Labels, AllOps
  <2> QED BY <1>3, <2>1 DEF StartWebhook
<1>4. ASSUME NEW t \in Txns, NEW o \in {"checkout", "subscribe"},
             StartConsume(p, o, t)
      PROVE  TypeOK'
  BY <1>4, StartFacts DEF StartConsume, Verdict, Labels, AllOps
<1>5. CASE StartCron(p)
  <2>1. HandlerType'
    <3> PollBatch \subseteq Txns
      BY DEF PollBatch, Unanswered
    <3> QED BY <1>5, EnumerateFacts DEF StartCron, Free
  <2> QED BY <1>5, <2>1 DEF StartCron
<1> QED BY <1>1, <1>2, <1>3, <1>4, <1>5 DEF Request

LEMMA StepType ==
  ASSUME TypeOK, NEW p \in Handlers, Step(p) \/ Crash(p)
  PROVE  TypeOK'
<1> USE DEF TypeOK, DataType, ledgers, outside, customer
<1>0. handler[p].pc \notin Free => Cur(p) \in Txns
  BY DEF HandlerType, Cur
<1>1. CASE AskGateway(p)
  <2>1. HandlerType'
    BY <1>1, GotoFacts, LeaveFacts DEF AskGateway, At, Retires, Free, Labels
  <2>2. DataType'
    BY <1>1 DEF AskGateway, At
  <2> QED BY <2>1, <2>2 DEF TypeOK
<1>2. CASE MarkPaid(p)
  <2>1. HandlerType'
    BY <1>2, GotoFacts, LeaveFacts DEF MarkPaid, At, Retires, Free, Labels
  <2>2. DataType'
    BY <1>2, <1>0, PaidRowFacts DEF MarkPaid, At, Update, Free
  <2> QED BY <2>1, <2>2 DEF TypeOK
<1>3. CASE Reread(p)
  <2>1. HandlerType'
    BY <1>3, GotoFacts, LeaveFacts DEF Reread, At, Retires, Free, Labels
  <2>2. DataType'
    BY <1>3 DEF Reread, At
  <2> QED BY <2>1, <2>2 DEF TypeOK
<1>4. CASE MarkFailed(p)
  <2>1. HandlerType'
    BY <1>4, RejectFacts DEF MarkFailed, At, Retires, Free, Labels
  <2>2. DataType'
    BY <1>4, <1>0, FailedRowFacts DEF MarkFailed, At, Update, Free
  <2> QED BY <2>1, <2>2 DEF TypeOK
<1>5. CASE MarkRefunded(p)
  <2>1. HandlerType'
    BY <1>5, LeaveFacts DEF MarkRefunded, At, Retires, Free, Labels
  <2>2. DataType'
    BY <1>5, <1>0 DEF MarkRefunded, At, Update, Free, Row, Statuses
  <2> QED BY <2>1, <2>2 DEF TypeOK
<1>6. CASE FulfilRead(p)
  <2>1. HandlerType'
    BY <1>6, GotoFacts, LeaveFacts DEF FulfilRead, At, Retires, Free, Labels
  <2>2. DataType'
    BY <1>6 DEF FulfilRead, At
  <2> QED BY <2>1, <2>2 DEF TypeOK
<1>7. CASE Claim(p)
  <2>1. HandlerType'
    BY <1>7, GotoFacts, LeaveFacts DEF Claim, At, Retires, Free, Labels
  <2>2. DataType'
    BY <1>7, <1>0, ClaimFacts DEF Claim, At, Update, Free
  <2> QED BY <2>1, <2>2 DEF TypeOK
<1>8. CASE Settle(p)
  <2>1. HandlerType'
    BY <1>8, LeaveFacts DEF Settle, At, Retires, Free, Labels
  <2>2. DataType'
    BY <1>8, <1>0 DEF Settle, At, Free
  <2> QED BY <2>1, <2>2 DEF TypeOK
<1>9. CASE SettleFails(p)
  <2>1. HandlerType'
    BY <1>9, GotoFacts DEF SettleFails, At, Retires, Free, Labels
  <2>2. DataType'
    BY <1>0, <1>9 DEF SettleFails, At, Free, Cur
  <2> QED BY <2>1, <2>2 DEF TypeOK
<1>10. CASE Unclaim(p)
  <2>1. HandlerType'
    BY <1>10, LeaveFacts DEF Unclaim, At, Retires, Free, Labels
  <2>2. DataType'
    BY <1>10, <1>0, ClaimFacts DEF Unclaim, At, Update, Free
  <2> QED BY <2>1, <2>2 DEF TypeOK
<1>11. CASE Consume(p)
  <2>1. HandlerType'
    BY <1>11, GotoFacts, RejectFacts DEF Consume, At, Retires, Free, Labels
  <2>2. DataType'
    BY <1>11, <1>0, ConsumeFacts DEF Consume, At, Update, Free
  <2> QED BY <2>1, <2>2 DEF TypeOK
<1>12. CASE PlaceOrder(p)
  <2>1. HandlerType'
    BY <1>12, GotoFacts DEF PlaceOrder, At, Retires, Free, Labels
  <2>2. DataType'
    BY <1>12, <1>0 DEF PlaceOrder, At, Free
  <2> QED BY <2>1, <2>2 DEF TypeOK
<1>13. CASE OrderFails(p)
  <2>1. HandlerType'
    BY <1>13, LeaveFacts DEF OrderFails, At, Retires, Free, Labels
  <2>2. DataType'
    BY <1>13 DEF OrderFails, At
  <2> QED BY <2>1, <2>2 DEF TypeOK
<1>14. CASE AttachReference(p)
  <2>1. HandlerType'
    BY <1>14, LeaveFacts DEF AttachReference, At, Retires, Free, Labels
  <2>2. DataType'
    BY <1>14, <1>0 DEF AttachReference, At, Update, Free, Row
  <2> QED BY <2>1, <2>2 DEF TypeOK
<1>15. CASE CreateUnbacked(p)
  <2>1. HandlerType'
    BY <1>15, LeaveFacts DEF CreateUnbacked, At, Retires, Free, Labels
  <2>2. DataType'
    BY <1>15, <1>0 DEF CreateUnbacked, At, Free
  <2> QED BY <2>1, <2>2 DEF TypeOK
<1>16. CASE PollNext(p)
  <2>1. HandlerType'
    BY <1>16, GotoFacts, TakeUpFacts DEF PollNext, At, Retires, Free, Labels
  <2>2. DataType'
    BY <1>16 DEF PollNext, At
  <2> QED BY <2>1, <2>2 DEF TypeOK
<1>17. CASE PollMark(p)
  <2>1. HandlerType'
    BY <1>17, GotoFacts DEF PollMark, At, Retires, Free, Labels
  <2>2. DataType'
    BY <1>17, <1>0, PaidRowFacts DEF PollMark, At, Update, Free
  <2> QED BY <2>1, <2>2 DEF TypeOK
<1>18. CASE SweepScan(p)
  <2>1. HandlerType'
    <3> PICK batch \in Batches(Stranded) : Enumerate(p, "sweep", batch)
      BY <1>18 DEF SweepScan
    <3> batch \subseteq Txns
      BY BatchFacts DEF Stranded
    <3> QED BY EnumerateFacts DEF Free
  <2>2. DataType'
    BY <1>18 DEF SweepScan, At
  <2> QED BY <2>1, <2>2 DEF TypeOK
<1>19. CASE SweepClaim(p)
  <2>1. HandlerType'
    BY <1>19, TakeUpFacts, SkipFacts DEF SweepClaim, Retires, Labels
  <2>2. DataType'
    BY <1>19, ConsumeFacts DEF SweepClaim, At, Update, HandlerType, Handler
  <2> QED BY <2>1, <2>2 DEF TypeOK
<1>20. CASE SweepCredit(p)
  <2>1. HandlerType'
    BY <1>20, GotoFacts DEF SweepCredit, At, Retires, Free, Labels
  <2>2. DataType'
    BY <1>20, <1>0 DEF SweepCredit, At, Free
  <2> QED BY <2>1, <2>2 DEF TypeOK
<1>21. CASE SweepCreditFails(p)
  <2>1. HandlerType'
    BY <1>21, GotoFacts DEF SweepCreditFails, At, Retires, Free, Labels
  <2>2. DataType'
    BY <1>0, <1>21 DEF SweepCreditFails, At, Free, Cur
  <2> QED BY <2>1, <2>2 DEF TypeOK
<1>22. CASE SweepDone(p)
  <2>1. HandlerType'
    BY <1>22, IdleFacts DEF SweepDone, At, Retires, Free, Labels
  <2>2. DataType'
    BY <1>22 DEF SweepDone, At, HandlerType, Handler
  <2> QED BY <2>1, <2>2 DEF TypeOK
<1>23. CASE Crash(p)
  <2>1. HandlerType'
    BY <1>23, IdleFacts DEF Crash, At, Retires, Free, Labels
  <2>2. DataType'
    BY <1>23 DEF Crash, At
  <2> QED BY <2>1, <2>2 DEF TypeOK
<1> QED BY <1>1, <1>2, <1>3, <1>4, <1>5, <1>6, <1>7, <1>8, <1>9, <1>10, <1>11,
           <1>12, <1>13, <1>14, <1>15, <1>16, <1>17, <1>18, <1>19, <1>20, <1>21, <1>22, <1>23 DEF Step

LEMMA NextType == TypeOK /\ [Next]_vars => TypeOK'
<1> SUFFICES ASSUME TypeOK, [Next]_vars PROVE TypeOK'
  OBVIOUS
<1>1. CASE UNCHANGED vars
  BY <1>1 DEF vars, TypeOK, DataType, HandlerType
<1>2. ASSUME NEW p \in Handlers, Request(p) \/ StartCron(p) \/ Step(p) \/ Crash(p)
      PROVE  TypeOK'
  BY <1>2, RequestType, StepType
<1> QED BY <1>1, <1>2, CustomerType, ElapseType DEF Next

\* Whatever the handlers, the customer, the gateway and the clock do, the
\* ledgers, the rows and the handlers keep their types: a row never holds a
\* status, purpose or reference outside the CHECK constraints of its table.
THEOREM TypeCorrect == Spec => []TypeOK
BY InitType, NextType, PTL DEF Spec

-----------------------------------------------------------------------------
(* The inductive invariant.                                                *)

\* What the invariant says of one transaction.
Accounted(t) ==
  /\ RowSound(t)
  /\ Settled(t) \/ orders[t] > 0 => "captured" \in gateway[t]
  /\ credits[t] + settled[t] <= 1
  /\ orders[t] <= 1

LEMMA IInvParts ==
  IInv <=> /\ TypeOK
           /\ \A t \in Txns : Accounted(t)
           /\ \A p \in Handlers : HandlerSound(p)
           /\ HoldersExclusive
BY DEF IInv, Accounted, MoneyBehindEveryEffect, CreditedAtMostOnce,
       OrderedAtMostOnce

LEMMA IInvPartsNext ==
  ASSUME TypeOK', \A t \in Txns : Accounted(t)',
         \A p \in Handlers : HandlerSound(p)', HoldersExclusive'
  PROVE  IInv'
BY DEF IInv, Accounted, MoneyBehindEveryEffect, CreditedAtMostOnce,
       OrderedAtMostOnce

Holding == CreditLabels \cup {"order"}

Same(t) ==
  /\ row'[t] = row[t]
  /\ credits'[t] = credits[t]
  /\ settled'[t] = settled[t]
  /\ orders'[t] = orders[t]
  /\ gateway[t] \subseteq gateway'[t]
  /\ row[t].status = "absent" => gateway'[t] = gateway[t]

\* A transaction the step does not touch stays accounted for, and a handler
\* that does not move, on such a transaction, stays sound.
LEMMA SameAccounted ==
  ASSUME TypeOK, TypeOK', NEW t \in Txns, Accounted(t), Same(t)
  PROVE  Accounted(t)'
BY DEF Accounted, RowSound, Settled, Same

LEMMA SameSound ==
  ASSUME TypeOK, NEW q \in Handlers, HandlerSound(q), handler'[q] = handler[q],
         \A t \in Txns : row[t].status # "absent" => row'[t].status # "absent",
         \A t \in Txns : Cur(q) = t /\ handler[q].pc \in Holding
                             \cup {"markPaid", "pollMark", "claim"} => Same(t)
  PROVE  HandlerSound(q)'
<1>1. handler[q].list \subseteq Txns
  BY DEF TypeOK, HandlerType, Handler
<1> QED BY <1>1 DEF HandlerSound, Same, Settled, Cur, Holding, CreditLabels

\* Steps that write no row and no ledger: it is enough to look at the handler
\* that moves.
LEMMA QuietStep ==
  ASSUME IInv, TypeOK', NEW p \in Handlers, \A t \in Txns : Same(t),
         \A q \in Handlers \ {p} : handler'[q] = handler[q],
         HandlerSound(p)',
         \/ handler'[p].pc \notin Holding
         \/ handler[p].pc = "settle" /\ handler'[p].pc = "unclaim"
              /\ handler'[p].cur = handler[p].cur
  PROVE  IInv'
<1>1. \A t \in Txns : Accounted(t)'
  BY SameAccounted, IInvParts
<1>2. \A q \in Handlers : HandlerSound(q)'
  BY SameSound, IInvParts DEF Same
<1>3. HoldersExclusive'
  BY DEF IInv, HoldersExclusive, Conflict, Holding, CreditLabels, Cur
<1> QED BY <1>1, <1>2, <1>3, IInvPartsNext

\* The general step: p may write the row and the ledgers of the transaction t.
LEMMA WriteStep ==
  ASSUME IInv, TypeOK', NEW p \in Handlers, NEW t \in Txns,
         \A u \in Txns \ {t} : Same(u),
         \A q \in Handlers \ {p} : handler'[q] = handler[q],
         row'[t].status # "absent",
         Accounted(t)',
         HandlerSound(p)',
         \A q \in Handlers \ {p} :
           Cur(q) = t /\ handler[q].pc \in Holding \cup {"markPaid", "pollMark", "claim"}
             => HandlerSound(q)',
         handler'[p].pc \in Holding =>
           /\ handler'[p].cur = t
           /\ \A q \in Handlers \ {p} :
                Cur(q) = t => /\ ~Conflict(handler'[p].pc, handler[q].pc)
                              /\ ~Conflict(handler[q].pc, handler'[p].pc)
  PROVE  IInv'
<1>1. \A u \in Txns : Accounted(u)'
  BY SameAccounted, IInvParts
<1>2. \A u \in Txns : row[u].status # "absent" => row'[u].status # "absent"
  BY DEF Same
<1>3. ASSUME NEW q \in Handlers PROVE HandlerSound(q)'
  <2>1. CASE q = p
    BY <2>1
  <2>2. CASE /\ q # p /\ Cur(q) = t
             /\ handler[q].pc \in Holding \cup {"markPaid", "pollMark", "claim"}
    BY <2>2
  <2>3. CASE /\ q # p
             /\ ~(/\ Cur(q) = t
                  /\ handler[q].pc \in Holding \cup {"markPaid", "pollMark", "claim"})
    BY <1>2, <2>3, SameSound, IInvParts
  <2> QED BY <2>1, <2>2, <2>3
<1>4. HoldersExclusive'
  BY DEF IInv, HoldersExclusive, Conflict, Holding, CreditLabels, Cur
<1> QED BY <1>1, <1>3, <1>4, IInvPartsNext

Calm == Labels \ (Holding \cup {"claim", "markPaid", "pollMark"})

\* A handler that retires relies on nothing.
LEMMA RetireSound ==
  ASSUME IInv, NEW p \in Handlers, NEW labels \in SUBSET Calm, Retires(p, labels),
         \A t \in Txns : row[t].status # "absent" => row'[t].status # "absent"
  PROVE  /\ HandlerSound(p)'
         /\ handler'[p].pc \notin Holding
         /\ \A q \in Handlers \ {p} : handler'[q] = handler[q]
<1>1. handler[p].list \subseteq Txns
  BY DEF IInv, TypeOK, HandlerType, Handler
<1>2. handler'[p].pc \in Calm
  BY DEF Retires
<1>3. /\ \A t \in handler'[p].list : row'[t].status # "absent"
      /\ \A t \in Txns : handler'[p].cur = t => row'[t].status # "absent"
  BY <1>1, ConstantsAssumption DEF IInv, HandlerSound, Retires, Cur
<1> QED
  BY <1>2, <1>3 DEF HandlerSound, Retires, Cur, Calm, Holding, CreditLabels

LEMMA RetireStep ==
  ASSUME IInv, TypeOK', NEW p \in Handlers, NEW labels \in SUBSET Calm,
         Retires(p, labels), \A t \in Txns : Same(t)
  PROVE  IInv'
BY RetireSound, QuietStep DEF Same

\* A handler that does not move keeps what it relies on in a row that is
\* written, when the write keeps it.
LEMMA OtherSound ==
  ASSUME IInv, NEW q \in Handlers, NEW t \in Txns,
         handler'[q] = handler[q], Cur(q) = t, gateway[t] \subseteq gateway'[t],
         \A u \in Txns : row[u].status # "absent" => row'[u].status # "absent",
         handler[q].pc \in Holding /\ row[t].status \in Final => row'[t].status \in Final,
         row[t].purpose # "order" => row'[t].purpose # "order",
         handler[q].pc \in CreditLabels => ~Settled(t)',
         handler[q].pc \in {"settle", "unclaim", "order"} => orders'[t] = 0
  PROVE  HandlerSound(q)'
<1>1. handler[q].list \subseteq Txns
  BY DEF IInv, TypeOK, HandlerType, Handler
<1>2. Cur(q)' = t
  BY DEF Cur
<1>3. HandlerSound(q)
  BY DEF IInv
<1> QED BY <1>1, <1>2, <1>3 DEF HandlerSound, Holding, CreditLabels

\* A handler that keeps its row and goes on to a statement that relies on what
\* the handler has just read.
LEMMA ArriveStep ==
  ASSUME IInv, TypeOK', NEW p \in Handlers, \A t \in Txns : Same(t),
         NEW label \in {"markPaid", "pollMark", "claim"},
         Retires(p, {label}), handler'[p].cur = handler[p].cur, Cur(p) \in Txns,
         label = "claim" => row[Cur(p)].purpose # "order",
         label # "claim" => "captured" \in gateway[Cur(p)]
  PROVE  IInv'
<1>1. handler[p].list \subseteq Txns
  BY DEF IInv, TypeOK, HandlerType, Handler
<1>2. handler'[p].pc = label /\ handler'[p].list \subseteq handler[p].list
  BY DEF Retires
<1>3. \A t \in handler'[p].list : row'[t].status # "absent"
  BY <1>1, <1>2 DEF IInv, HandlerSound, Same
<1>4. /\ row'[Cur(p)].status # "absent"
      /\ label = "claim" => row'[Cur(p)].purpose # "order"
      /\ label # "claim" => "captured" \in gateway'[Cur(p)]
  BY DEF IInv, HandlerSound, Same
<1>5. HandlerSound(p)'
  BY <1>2, <1>3, <1>4 DEF HandlerSound, Cur, CreditLabels
<1> QED BY <1>2, <1>5, QuietStep DEF Retires, Holding, CreditLabels

LEMMA InitInv == Init => IInv
<1> SUFFICES ASSUME Init PROVE IInv
  OBVIOUS
<1>1. ASSUME NEW t \in Txns PROVE Accounted(t)
  <2>1. /\ credits[t] = 0 /\ settled[t] = 0 /\ orders[t] = 0
        /\ row[t].status = "absent" /\ row[t].ref = "none" /\ gateway[t] = {}
    BY DEF Init
  <2> QED BY <2>1 DEF Accounted, RowSound, Settled
<1>2. \A p \in Handlers : HandlerSound(p)
  BY ConstantsAssumption DEF Init, HandlerSound, Idle, Cur
<1>3. HoldersExclusive
  BY ConstantsAssumption DEF Init, HoldersExclusive, Idle, Cur
<1> QED BY <1>1, <1>2, <1>3, InitType, IInvParts

\* The customer, the gateway and the clock.
LEMMA CustomerInv ==
  ASSUME IInv, NEW t \in Txns, Customer(t) \/ \E timer \in AllTimers : Elapse(t, timer)
  PROVE  IInv'
<1> USE DEF ledgers, outside, customer
<1>1. TypeOK' /\ TypeOK
  BY CustomerType, ElapseType DEF IInv
<1>2. UNCHANGED <<handler, credits, settled, orders>>
  BY DEF Customer, CreateOrder, AttemptFails, Capture, RefundAtGateway, Elapse
<1>3. \A u \in Txns : gateway[u] \subseteq gateway'[u]
  BY <1>1 DEF Customer, CreateOrder, AttemptFails, Capture, RefundAtGateway, Elapse,
              TypeOK, DataType
<1>4. \A u \in Txns :
        row'[u] # row[u] => row[u].status = "absent" /\ row'[u].status = "created"
  <2>1. CASE \E purpose \in AllPurposes, ref \in {"none", "named"} :
               CreateOrder(t, purpose, ref)
    BY <1>1, <2>1 DEF CreateOrder, Update, TypeOK, DataType, Row
  <2>2. CASE UNCHANGED row
    BY <2>2
  <2> QED
    BY <2>1, <2>2 DEF Customer, AttemptFails, Capture, RefundAtGateway, Elapse
<1>5. \A u \in Txns :
        row[u].status = "absent" /\ gateway'[u] # gateway[u] => row'[u] # row[u]
  BY <1>1 DEF Customer, CreateOrder, AttemptFails, Capture, RefundAtGateway, Captured,
              Elapse, TypeOK, DataType, IInv, RowSound
<1>6. ASSUME NEW u \in Txns PROVE Accounted(u)'
  <2>1. CASE row'[u] = row[u]
    BY <2>1, <1>1, <1>2, <1>3, <1>5, SameAccounted, IInvParts DEF Same
  <2>2. CASE row'[u] # row[u]
    <3>1. ~Settled(u) /\ orders[u] = 0
      BY <2>2, <1>4 DEF IInv, RowSound, Final
    <3> QED
      BY <1>1, <1>2, <1>4, <2>2, <3>1
      DEF Accounted, RowSound, Settled, TypeOK, DataType
  <2> QED BY <2>1, <2>2
<1>7. ASSUME NEW q \in Handlers PROVE HandlerSound(q)'
  <2>1. \A u \in Txns : Cur(q) = u => Same(u)
    BY <1>2, <1>3, <1>4 DEF IInv, HandlerSound, Same
  <2> QED BY <1>1, <1>2, <1>4, <2>1, SameSound DEF IInv
<1>8. HoldersExclusive'
  BY <1>2 DEF IInv, HoldersExclusive, Cur
<1> QED BY <1>1, <1>6, <1>7, <1>8, IInvPartsNext

\* The first step of a request changes no row.
LEMMA RequestInv ==
  ASSUME IInv, NEW p \in Handlers, Request(p) \/ StartCron(p)
  PROVE  IInv'
<1> USE DEF ledgers, outside, customer
<1>1. TypeOK' /\ HandlerType
  BY RequestType DEF IInv, TypeOK
<1>2. \A t \in Txns : Same(t)
  BY DEF Request, StartCron, StartVerify, StartCheck, StartWebhook, StartConsume, Same
<1>3. ASSUME NEW t \in Txns, NEW o \in AllOps, NEW label \in Labels \ (Holding \cup {"claim"}),
             Start(p, o, t, label), row[t].status # "absent",
             label \in {"markPaid", "pollMark"} => "captured" \in gateway[t]
      PROVE  IInv'
  <2>1. HandlerSound(p)'
    BY <1>1, <1>2, <1>3, StartFacts
    DEF HandlerSound, Same, Cur, Holding, CreditLabels
  <2> QED BY <1>1, <1>2, <1>3, <2>1, StartFacts, QuietStep
<1>4. ASSUME NEW t \in Txns, StartVerify(p, t) PROVE IInv'
  BY <1>3, <1>4 DEF StartVerify, Verdict, Captured, Labels, AllOps, Holding, CreditLabels
<1>5. ASSUME NEW t \in Txns, StartCheck(p, t) PROVE IInv'
  <2>1. CASE UNCHANGED handler
    <3>1. HandlerSound(p)'
      BY <1>1, <1>2, <2>1, SameSound DEF IInv, Same
    <3> QED
      BY <1>1, <1>2, <1>5, <2>1, <3>1, QuietStep
      DEF StartCheck, At, Holding, CreditLabels
  <2>2. CASE /\ row[t].status # "absent"
             /\ \E label \in {"read", "ask"} : Start(p, "check", t, label)
    BY <1>3, <2>2 DEF Labels, AllOps, Holding, CreditLabels
  <2> QED BY <1>5, <2>1, <2>2 DEF StartCheck
<1>6. ASSUME NEW t \in Txns, NEW kind \in EventKinds, StartWebhook(p, t, kind)
      PROVE  IInv'
  <2>1. row[t].status # "absent" /\ (kind \in {"captured", "authorized"} => "captured" \in gateway[t])
    BY <1>6 DEF StartWebhook, Emitted, IInv, RowSound
  <2>2. \E label \in {"markPaid", "markFailed", "markRefunded"} :
          /\ Start(p, "webhook", t, label)
          /\ label = "markPaid" => kind \in {"captured", "authorized"}
    BY <1>6 DEF StartWebhook, EventKinds
  <2> QED BY <1>3, <2>1, <2>2 DEF Labels, AllOps, Holding, CreditLabels
<1>7. ASSUME NEW t \in Txns, NEW o \in {"checkout", "subscribe"},
             StartConsume(p, o, t)
      PROVE  IInv'
  <2>1. row[t].status # "absent"
    BY <1>7 DEF StartConsume
  <2>2. \E label \in {"markPaid", "markFailed", "consume", "create"} :
          Start(p, o, t, label) /\ (label = "markPaid" => "captured" \in gateway[t])
    BY <1>7 DEF StartConsume, Verdict, Captured
  <2> QED BY <1>3, <2>1, <2>2 DEF Labels, AllOps, Holding, CreditLabels
<1>8. CASE StartCron(p)
  <2>1. /\ handler'[p].pc = "poll" /\ handler'[p].cur = handler[p].cur
        /\ handler'[p].list = PollBatch
        /\ \A q \in Handlers \ {p} : handler'[q] = handler[q]
    <3> PollBatch \subseteq Txns
      BY DEF PollBatch, Unanswered
    <3> QED BY <1>1, <1>8, EnumerateFacts DEF StartCron, Free
  <2>2. HandlerSound(p)'
    BY <1>2, <2>1 DEF IInv, HandlerSound, PollBatch, Unanswered, Same, Cur, CreditLabels
  <2> QED BY <1>1, <1>2, <2>1, <2>2, QuietStep DEF Holding, CreditLabels
<1> QED BY <1>4, <1>5, <1>6, <1>7, <1>8 DEF Request

\* Steps of a running handler that write no row and no ledger.
LEMMA QuietSteps ==
  ASSUME IInv, NEW p \in Handlers,
         \/ AskGateway(p) \/ Reread(p) \/ FulfilRead(p) \/ SettleFails(p)
         \/ OrderFails(p) \/ CreateUnbacked(p) \/ PollNext(p) \/ SweepScan(p)
         \/ SweepCreditFails(p) \/ SweepDone(p) \/ Crash(p)
  PROVE  IInv'
<1> USE DEF ledgers, outside, customer, At
<1>1. TypeOK' /\ HandlerType
  BY StepType DEF IInv, TypeOK, Step
<1>2. \A t \in Txns : Same(t)
  BY DEF AskGateway, Reread, FulfilRead, SettleFails, OrderFails, CreateUnbacked,
         PollNext, SweepScan, SweepCreditFails, SweepDone, Crash, Same
<1>3. {"idle", "poll", "scan", "read", "markFailed", "sweep"} \subseteq Calm
  BY DEF Calm, Labels, Holding, CreditLabels
<1>4. CASE AskGateway(p)
  <2>1. CASE Captured(Cur(p))
    <3> DEFINE label == IF handler[p].op = "cron" THEN "pollMark" ELSE "markPaid"
    <3>1. Retires(p, {label}) /\ handler'[p].cur = handler[p].cur
      BY <1>1, <1>4, <2>1, GotoFacts DEF AskGateway, Free, Labels
    <3>2. label \in {"markPaid", "pollMark"} /\ Cur(p) \in Txns
      BY <1>1, <1>4 DEF AskGateway, HandlerType, Free, Cur
    <3> HIDE DEF label
    <3> QED BY <1>1, <1>2, <2>1, <3>1, <3>2, ArriveStep DEF Captured
  <2>2. CASE ~Captured(Cur(p))
    <3>1. Retires(p, {"idle", "poll", "markFailed"})
      BY <1>1, <1>4, <2>2, GotoFacts, LeaveFacts DEF AskGateway, Free, Labels, Retires
    <3> QED BY <1>1, <1>2, <1>3, <3>1, RetireStep
  <2> QED BY <2>1, <2>2
<1>5. CASE Reread(p)
  <2>1. Retires(p, {"idle", "poll", "read", "scan"})
    BY <1>1, <1>5, GotoFacts, LeaveFacts DEF Reread, Free, Labels, Retires
  <2> QED BY <1>1, <1>2, <1>3, <2>1, RetireStep
<1>6. CASE FulfilRead(p)
  <2>1. CASE AwaitsCheckout(row[Cur(p)])
    BY <1>1, <1>2, <1>3, <1>6, <2>1, LeaveFacts, RetireStep DEF FulfilRead
  <2>2. CASE ~AwaitsCheckout(row[Cur(p)])
    <3>1. Retires(p, {"claim"}) /\ handler'[p].cur = handler[p].cur
      BY <1>1, <1>6, <2>2, GotoFacts DEF FulfilRead, Free, Labels
    <3>2. Cur(p) \in Txns
      BY <1>1, <1>6 DEF FulfilRead, HandlerType, Free, Cur
    <3> QED BY <1>1, <1>2, <2>2, <3>1, <3>2, ArriveStep DEF AwaitsCheckout
  <2> QED BY <2>1, <2>2
<1>7. CASE SettleFails(p)
  <2>1. Retires(p, {"unclaim"}) /\ handler'[p].cur = handler[p].cur
    BY <1>1, <1>7, GotoFacts DEF SettleFails, Free, Labels
  <2>2. HandlerSound(p)'
    BY <1>1, <1>2, <1>7, <2>1
    DEF IInv, HandlerSound, Retires, SettleFails, Same, Settled, Cur, CreditLabels
  <2> QED BY <1>1, <1>2, <1>7, <2>1, <2>2, QuietStep DEF Retires, SettleFails
<1>8. CASE OrderFails(p) \/ CreateUnbacked(p)
  <2>1. Retires(p, {"idle", "poll"})
    BY <1>1, <1>8, LeaveFacts DEF OrderFails, CreateUnbacked
  <2> QED BY <1>1, <1>2, <1>3, <2>1, RetireStep
<1>9. CASE PollNext(p)
  <2>1. CASE handler[p].list = {}
    BY <1>1, <1>2, <1>3, <1>9, <2>1, GotoFacts, RetireStep DEF PollNext, Free, Labels
  <2>2. ASSUME NEW t \in handler[p].list, TakeUp(p, t, "ask")
        PROVE  IInv'
    <3>1. /\ t \in Txns /\ handler'[p].pc = "ask" /\ handler'[p].cur = t
          /\ handler'[p].list \subseteq handler[p].list
          /\ \A q \in Handlers \ {p} : handler'[q] = handler[q]
      BY <1>1, <2>2, TakeUpFacts DEF Labels
    <3>2. handler[p].list \subseteq Txns
      BY <1>1 DEF HandlerType, Handler
    <3>3. HandlerSound(p)'
      BY <1>2, <3>1, <3>2 DEF IInv, HandlerSound, Same, Cur, CreditLabels
    <3> QED BY <1>1, <1>2, <3>1, <3>3, QuietStep DEF Holding, CreditLabels
  <2> QED BY <1>9, <2>1, <2>2 DEF PollNext
<1>10. CASE SweepScan(p)
  <2>1. /\ handler'[p].pc = "sweep" /\ handler'[p].cur = handler[p].cur
        /\ handler'[p].list \subseteq Stranded
        /\ \A q \in Handlers \ {p} : handler'[q] = handler[q]
    <3> PICK batch \in Batches(Stranded) : Enumerate(p, "sweep", batch)
      BY <1>10 DEF SweepScan
    <3> batch \subseteq Stranded
      BY BatchFacts
    <3> QED BY <1>1, EnumerateFacts DEF Stranded, Free
  <2>2. HandlerSound(p)'
    BY <1>2, <2>1 DEF IInv, HandlerSound, Stranded, Sweepable, Same, Cur, CreditLabels
  <2> QED BY <1>1, <1>2, <2>1, <2>2, QuietStep DEF Holding, CreditLabels
<1>11. CASE SweepCreditFails(p)
  <2>1. Retires(p, {"sweep"})
    BY <1>1, <1>11, GotoFacts DEF SweepCreditFails, Free, Labels
  <2> QED BY <1>1, <1>2, <1>3, <2>1, RetireStep
<1>12. CASE SweepDone(p) \/ Crash(p)
  <2>1. Retires(p, {"idle"})
    BY <1>1, <1>12, IdleFacts DEF SweepDone, Crash
  <2> QED BY <1>1, <1>2, <1>3, <2>1, RetireStep
<1> QED BY <1>4, <1>5, <1>6, <1>7, <1>8, <1>9, <1>10, <1>11, <1>12

\* The writes on a row that is not about to have an effect elsewhere: closed
\* rows stay closed and keep their purpose and their ledgers.
LEMMA MarkSteps ==
  ASSUME IInv, NEW p \in Handlers,
         \/ MarkPaid(p) \/ MarkFailed(p) \/ MarkRefunded(p)
         \/ AttachReference(p) \/ PollMark(p)
  PROVE  IInv'
<1> USE DEF ledgers, outside, customer, At
<1>1. TypeOK' /\ TypeOK /\ HandlerType
  BY StepType DEF IInv, TypeOK, Step
<1>0. PICK t \in Txns : t = Cur(p)
  BY <1>1 DEF MarkPaid, MarkFailed, MarkRefunded, AttachReference, PollMark,
              HandlerType, Free, Cur
<1>2. row[t] \in Row /\ row[t].status # "absent"
  BY <1>0, <1>1 DEF DataType, TypeOK, IInv, HandlerSound
<1>3. UNCHANGED <<gateway, credits, settled, orders>>
  BY DEF MarkPaid, MarkFailed, MarkRefunded, AttachReference, PollMark
<1>4. \A u \in Txns \ {t} : Same(u)
  BY <1>0, <1>1, <1>3 DEF MarkPaid, MarkFailed, MarkRefunded, AttachReference, PollMark,
              Update, Same, TypeOK, DataType
<1>5. /\ row'[t].purpose = row[t].purpose
      /\ row[t].status \in Final => row'[t].status \in Final
      /\ row'[t].status # "absent"
      /\ row'[t].status \in {"paid", "fulfilled"} => "captured" \in gateway[t]
  <2>1. RowSound(t)
    BY <1>2 DEF IInv
  <2>2. CASE UNCHANGED row
    BY <1>2, <2>1, <2>2 DEF RowSound
  <2>3. CASE /\ At(p, "markPaid") \/ At(p, "pollMark")
             /\ Update(t, PaidRow(row[t]))
    <3>1. "captured" \in gateway[t]
      BY <1>0, <2>3 DEF IInv, HandlerSound
    <3> QED BY <1>1, <1>2, <2>3, <3>1, PaidRowFacts DEF Update, DataType, TypeOK
  <2>4. CASE MarkFailed(p)
    <3>1. PICK id \in {"failed", "captured"} : Update(t, FailedRow(row[t], id))
      BY <1>0, <2>4 DEF MarkFailed
    <3> QED BY <1>1, <1>2, <2>1, <3>1, FailedRowFacts
            DEF Update, DataType, TypeOK, RowSound, Final
  <2>5. CASE Update(t, [row[t] EXCEPT !.status = "refunded"])
    BY <1>1, <1>2, <2>5 DEF Update, DataType, TypeOK, Row, Final
  <2>6. CASE Update(t, [row[t] EXCEPT !.ref = "order"])
    BY <1>1, <1>2, <2>1, <2>6 DEF Update, DataType, TypeOK, Row, RowSound
  <2> QED BY <1>0, <2>2, <2>3, <2>4, <2>5, <2>6
          DEF MarkPaid, MarkRefunded, AttachReference, PollMark
<1>6. Accounted(t)'
  BY <1>2, <1>3, <1>5, IInvParts DEF Accounted, RowSound, Settled
<1>7. \A u \in Txns : row[u].status # "absent" => row'[u].status # "absent"
  BY <1>4, <1>5 DEF Same
<1>8. Retires(p, {"idle", "poll", "read", "consume", "reread", "create"})
  <2>1. CASE PollMark(p)
    BY <1>1, <2>1, GotoFacts DEF PollMark, Free, Labels, Retires
  <2>2. CASE MarkPaid(p)
    BY <1>1, <2>2, GotoFacts, LeaveFacts DEF MarkPaid, Free, Labels, Retires
  <2>3. CASE MarkFailed(p)
    BY <1>1, <2>3, RejectFacts DEF MarkFailed, Free, Retires
  <2>4. CASE MarkRefunded(p) \/ AttachReference(p)
    BY <1>1, <2>4, LeaveFacts DEF MarkRefunded, AttachReference, Retires
  <2> QED BY <2>1, <2>2, <2>3, <2>4
<1>10. {"idle", "poll", "read", "consume", "reread", "create"} \in SUBSET Calm
  BY DEF Calm, Labels, Holding, CreditLabels
<1>11. /\ HandlerSound(p)' /\ handler'[p].pc \notin Holding
       /\ \A q \in Handlers \ {p} : handler'[q] = handler[q]
  BY <1>7, <1>8, <1>10, RetireSound
<1>12. ASSUME NEW q \in Handlers \ {p}, Cur(q) = t PROVE HandlerSound(q)'
  <2>1. /\ handler[q].pc \in CreditLabels => ~Settled(t)
        /\ handler[q].pc \in {"settle", "unclaim", "order"} => orders[t] = 0
    BY <1>2, <1>12 DEF IInv, HandlerSound
  <2>2. /\ handler[q].pc \in CreditLabels => ~Settled(t)'
        /\ handler[q].pc \in {"settle", "unclaim", "order"} => orders'[t] = 0
    BY <1>3, <2>1 DEF Settled
  <2> QED BY <1>2, <1>3, <1>5, <1>7, <1>11, <1>12, <2>2, OtherSound
<1> QED BY <1>1, <1>2, <1>4, <1>5, <1>6, <1>11, <1>12, WriteStep

\* fulfil closes a paid row nobody else holds, and reopens it only while its
\* side effect has not happened.
LEMMA ClaimSteps ==
  ASSUME IInv, NEW p \in Handlers, Claim(p) \/ Consume(p) \/ Unclaim(p)
  PROVE  IInv'
<1> USE DEF ledgers, outside, customer, At
<1>1. TypeOK' /\ TypeOK /\ HandlerType
  BY StepType DEF IInv, TypeOK, Step
<1>0. PICK t \in Txns : t = Cur(p)
  BY <1>1 DEF Claim, Consume, Unclaim, HandlerType, Free, Cur
<1>2. row[t] \in Row /\ row[t].status # "absent" /\ RowSound(t)
  BY <1>0, <1>1 DEF DataType, TypeOK, IInv, HandlerSound
<1>3. UNCHANGED <<gateway, credits, settled, orders>>
  BY DEF Claim, Consume, Unclaim
<1>4. \A u \in Txns \ {t} : Same(u)
  BY <1>0, <1>1, <1>3 DEF Claim, Consume, Unclaim, Update, Same, TypeOK, DataType
<1>5. CASE UNCHANGED row
  <2>1. Retires(p, {"idle", "poll", "create"})
    BY <1>0, <1>1, <1>2, <1>5, LeaveFacts, RejectFacts, ClaimFacts, ConsumeFacts
    DEF Claim, Consume, Unclaim, Update, TypeOK, DataType, Free, Retires
  <2>2. \A u \in Txns : Same(u)
    BY <1>3, <1>5 DEF Same
  <2> QED BY <1>1, <2>1, <2>2, RetireStep DEF Calm, Labels, Holding, CreditLabels
<1>6. ASSUME row[t].status = "paid", row'[t].status = "fulfilled",
             row'[t].purpose = row[t].purpose,
             NEW label \in {"settle", "order"}, Goto(p, label),
             label = "settle" => At(p, "claim"), handler[p].pc \notin Free
      PROVE  IInv'
  <2>1. ~Settled(t) /\ orders[t] = 0 /\ "captured" \in gateway[t]
    BY <1>2, <1>6 DEF RowSound, Final
  <2>2. Accounted(t)'
    BY <1>2, <1>3, <1>6, <2>1, IInvParts DEF Accounted, RowSound, Settled, Final
  <2>3. \A q \in Handlers : Cur(q) = t => handler[q].pc \notin Holding
    BY <1>6 DEF IInv, HandlerSound, Holding, Final
  <2>4. /\ \A q \in Handlers \ {p} : handler'[q] = handler[q]
        /\ handler'[p].pc = label /\ handler'[p].cur = t
        /\ handler'[p].list \subseteq handler[p].list
    BY <1>0, <1>1, <1>6, GotoFacts DEF Labels, Retires, Cur
  <2>5. \A u \in Txns : row[u].status # "absent" => row'[u].status # "absent"
    BY <1>4, <1>6 DEF Same
  <2>6. HandlerSound(p)'
    <3>1. \A u \in handler'[p].list : row'[u].status # "absent"
      BY <1>1, <2>4, <2>5 DEF IInv, HandlerSound, HandlerType, Handler
    <3>2. label = "settle" => row[t].purpose # "order"
      BY <1>0, <1>6 DEF IInv, HandlerSound
    <3> QED BY <1>3, <1>6, <2>1, <2>4, <3>1, <3>2
            DEF HandlerSound, Cur, Settled, Final, CreditLabels
  <2>7. ASSUME NEW q \in Handlers \ {p}, Cur(q) = t PROVE HandlerSound(q)'
    BY <1>3, <1>6, <2>3, <2>4, <2>5, <2>7, OtherSound DEF Holding, CreditLabels
  <2>8. ASSUME NEW q \in Handlers \ {p}, Cur(q) = t
        PROVE  ~Conflict(label, handler[q].pc) /\ ~Conflict(handler[q].pc, label)
    BY <2>3, <2>8 DEF Conflict, Holding, CreditLabels
  <2> QED BY <1>1, <1>4, <1>6, <2>2, <2>4, <2>6, <2>7, <2>8, WriteStep
<1>7. CASE Unclaim(p)
  <2>1. /\ row[t].purpose # "order" /\ ~Settled(t) /\ orders[t] = 0
        /\ "captured" \in gateway[t]
    BY <1>0, <1>7 DEF Unclaim, IInv, HandlerSound, CreditLabels
  <2>2. row'[t].status = "paid" /\ row'[t].purpose = row[t].purpose
    BY <1>0, <1>1, <1>2, <1>7, ClaimFacts DEF Unclaim, Update, TypeOK, DataType
  <2>3. Accounted(t)'
    BY <1>2, <1>3, <2>1, <2>2, IInvParts DEF Accounted, RowSound, Settled
  <2>4. ASSUME NEW q \in Handlers \ {p}, Cur(q) = t
        PROVE  handler[q].pc \notin Holding
    BY <1>0, <1>7, <2>4
    DEF Unclaim, IInv, HoldersExclusive, Conflict, Holding, CreditLabels
  <2>5. \A u \in Txns : row[u].status # "absent" => row'[u].status # "absent"
    BY <1>4, <2>2 DEF Same
  <2>6. Retires(p, {"idle", "poll"})
    BY <1>1, <1>7, LeaveFacts DEF Unclaim
  <2>7. /\ HandlerSound(p)' /\ handler'[p].pc \notin Holding
        /\ \A q \in Handlers \ {p} : handler'[q] = handler[q]
    BY <2>5, <2>6, RetireSound DEF Calm, Labels, Holding, CreditLabels
  <2>8. ASSUME NEW q \in Handlers \ {p}, Cur(q) = t PROVE HandlerSound(q)'
    BY <1>3, <2>2, <2>4, <2>5, <2>7, <2>8, OtherSound DEF Holding, CreditLabels
  <2> QED BY <1>1, <1>4, <2>2, <2>3, <2>7, <2>8, WriteStep
<1>8. CASE Claim(p) /\ row' # row
  <2>1. row[t].status = "paid" /\ Update(t, ClaimedRow(row[t])) /\ Goto(p, "settle")
    BY <1>0, <1>8 DEF Claim
  <2>2. row'[t].status = "fulfilled" /\ row'[t].purpose = row[t].purpose
    BY <1>1, <1>2, <2>1, ClaimFacts DEF Update, TypeOK, DataType
  <2> QED BY <1>6, <1>8, <2>1, <2>2 DEF Claim, Free
<1>9. CASE Consume(p) /\ row' # row
  <2>1. row[t].status = "paid" /\ Update(t, ConsumedRow(row[t])) /\ Goto(p, "order")
    BY <1>0, <1>9 DEF Consume
  <2>2. row'[t].status = "fulfilled" /\ row'[t].purpose = row[t].purpose
    BY <1>1, <1>2, <2>1, ConsumeFacts DEF Update, TypeOK, DataType
  <2> QED BY <1>6, <1>9, <2>1, <2>2 DEF Consume, Free
<1> QED BY <1>5, <1>7, <1>8, <1>9

\* The effects themselves.
LEMMA EffectSteps ==
  ASSUME IInv, NEW p \in Handlers, Settle(p) \/ PlaceOrder(p) \/ SweepCredit(p)
  PROVE  IInv'
<1> USE DEF ledgers, outside, customer, At
<1>1. TypeOK' /\ TypeOK /\ HandlerType
  BY StepType DEF IInv, TypeOK, Step
<1>0. PICK t \in Txns : t = Cur(p)
  BY <1>1 DEF Settle, PlaceOrder, SweepCredit, HandlerType, Free, Cur
<1>2. /\ row[t].status \in Final /\ "captured" \in gateway[t] /\ RowSound(t)
      /\ handler[p].pc \in Holding /\ row[t].status # "absent"
  BY <1>0 DEF Settle, PlaceOrder, SweepCredit, IInv, HandlerSound, Holding, CreditLabels
<1>3. UNCHANGED <<row, gateway>>
  BY DEF Settle, PlaceOrder, SweepCredit
<1>4. \A u \in Txns \ {t} : Same(u)
  BY <1>0, <1>1, <1>3 DEF Settle, PlaceOrder, SweepCredit, Same, TypeOK, DataType
<1>5. Retires(p, {"idle", "poll", "attach", "sweep"})
  BY <1>1, LeaveFacts, GotoFacts
  DEF Settle, PlaceOrder, SweepCredit, Free, Labels, Retires
<1>6. /\ HandlerSound(p)' /\ handler'[p].pc \notin Holding
      /\ \A q \in Handlers \ {p} : handler'[q] = handler[q]
  BY <1>3, <1>5, RetireSound DEF Calm, Labels, Holding, CreditLabels
<1>7. CASE Settle(p) \/ SweepCredit(p)
  <2>1. handler[p].pc \in CreditLabels
    BY <1>7 DEF Settle, SweepCredit, CreditLabels
  <2>2. row[t].purpose # "order" /\ ~Settled(t)
    BY <1>0, <2>1 DEF IInv, HandlerSound
  <2>3. /\ credits[t] = 0 /\ settled[t] = 0
        /\ credits[t] \in Nat /\ settled[t] \in Nat
    BY <1>1, <2>2 DEF Settled, TypeOK, DataType
  <2>4. credits'[t] + settled'[t] <= 1 /\ orders' = orders
    BY <1>0, <1>1, <1>7, <2>3 DEF Settle, SweepCredit, TypeOK, DataType
  <2>5. Accounted(t)'
    BY <1>2, <1>3, <2>2, <2>4, IInvParts DEF Accounted, RowSound, Settled
  <2>6. ASSUME NEW q \in Handlers \ {p}, Cur(q) = t PROVE HandlerSound(q)'
    <3>1. handler[q].pc \notin CreditLabels
      BY <1>0, <2>1, <2>6 DEF IInv, HoldersExclusive, Conflict
    <3>2. handler[q].pc = "order" => orders[t] = 0
      BY <2>6 DEF IInv, HandlerSound
    <3> QED BY <1>3, <1>6, <2>4, <2>6, <3>1, <3>2, OtherSound DEF CreditLabels
  <2> QED BY <1>1, <1>2, <1>3, <1>4, <1>6, <2>5, <2>6, WriteStep
<1>8. CASE PlaceOrder(p)
  <2>1. orders[t] = 0
    BY <1>0, <1>8 DEF IInv, HandlerSound, PlaceOrder
  <2>2. orders'[t] = 1 /\ UNCHANGED <<credits, settled>>
    BY <1>0, <1>1, <1>8, <2>1 DEF PlaceOrder, TypeOK, DataType
  <2>3. Accounted(t)'
    BY <1>2, <1>3, <2>2, IInvParts DEF Accounted, RowSound, Settled
  <2>4. ASSUME NEW q \in Handlers \ {p}, Cur(q) = t PROVE HandlerSound(q)'
    <3>1. handler[q].pc \notin {"order", "settle", "unclaim"}
      BY <1>0, <1>8, <2>4 DEF PlaceOrder, IInv, HoldersExclusive, Conflict
    <3>2. handler[q].pc \in CreditLabels => ~Settled(t)'
      BY <2>2, <2>4 DEF IInv, HandlerSound, Settled
    <3> QED BY <1>3, <1>6, <2>4, <3>1, <3>2, OtherSound
  <2> QED BY <1>1, <1>2, <1>3, <1>4, <1>6, <2>3, <2>4, WriteStep
<1> QED BY <1>7, <1>8

\* The sweep takes a row that no settlement holds, whatever it listed earlier.
LEMMA SweepStep ==
  ASSUME IInv, NEW p \in Handlers, SweepClaim(p)
  PROVE  IInv'
<1> USE DEF ledgers, outside, customer, At
<1>1. TypeOK' /\ TypeOK /\ HandlerType
  BY StepType DEF IInv, TypeOK, Step
<1>2. UNCHANGED <<gateway, credits, settled, orders>>
  BY DEF SweepClaim
<1>3. CASE \E t \in handler[p].list : Skip(p, t) /\ UNCHANGED row
  <2>1. Retires(p, {"sweep"})
    BY <1>1, <1>3, SkipFacts DEF SweepClaim
  <2>2. \A u \in Txns : Same(u)
    BY <1>2, <1>3 DEF Same
  <2> QED BY <1>1, <2>1, <2>2, RetireStep DEF Calm, Labels, Holding, CreditLabels
<1>4. ASSUME NEW t \in handler[p].list, Sweepable(row[t]),
             Update(t, SweptRow(row[t])), TakeUp(p, t, "sweepCredit")
      PROVE  IInv'
  <2>1. /\ t \in Txns /\ handler'[p].pc = "sweepCredit" /\ handler'[p].cur = t
        /\ handler'[p].list \subseteq handler[p].list
        /\ \A q \in Handlers \ {p} : handler'[q] = handler[q]
    BY <1>1, <1>4, TakeUpFacts DEF Labels
  <2>2. row'[t].status = "fulfilled" /\ row'[t].purpose = "wallet_topup"
    BY <1>1, <1>4, <2>1, ConsumeFacts DEF Update, TypeOK, DataType
  <2>3. \A u \in Txns \ {t} : Same(u)
    BY <1>1, <1>2, <1>4 DEF Update, TypeOK, DataType, Same
  <2>4. ~Settled(t) /\ "captured" \in gateway[t]
    BY <1>4, <2>1 DEF IInv, RowSound, Sweepable
  <2>5. Accounted(t)'
    BY <1>2, <2>1, <2>2, <2>4, IInvParts DEF Accounted, RowSound, Settled, Final
  <2>6. \A u \in Txns : row[u].status # "absent" => row'[u].status # "absent"
    BY <2>2, <2>3 DEF Same
  <2>7. HandlerSound(p)'
    <3>1. \A u \in handler'[p].list : row'[u].status # "absent"
      BY <1>1, <2>1, <2>6 DEF IInv, HandlerSound, HandlerType, Handler
    <3> QED BY <1>2, <2>1, <2>2, <2>4, <3>1
            DEF HandlerSound, Cur, Settled, Final, CreditLabels
  <2>8. ASSUME NEW q \in Handlers, Cur(q) = t
        PROVE  handler[q].pc \notin CreditLabels
    BY <1>4, <2>1, <2>8 DEF IInv, HandlerSound, Sweepable
  <2>9. ASSUME NEW q \in Handlers \ {p}, Cur(q) = t PROVE HandlerSound(q)'
    <3>1. handler[q].pc = "order" => orders[t] = 0
      BY <2>1, <2>9 DEF IInv, HandlerSound
    <3> QED BY <1>2, <2>1, <2>2, <2>6, <2>8, <2>9, <3>1, OtherSound
            DEF Final, CreditLabels
  <2>10. ASSUME NEW q \in Handlers \ {p}, Cur(q) = t
         PROVE  /\ ~Conflict("sweepCredit", handler[q].pc)
                /\ ~Conflict(handler[q].pc, "sweepCredit")
    BY <2>8, <2>10 DEF Conflict
  <2> QED BY <1>1, <2>1, <2>2, <2>3, <2>5, <2>7, <2>9, <2>10, WriteStep
<1> QED BY <1>3, <1>4 DEF SweepClaim

-----------------------------------------------------------------------------
LEMMA NextInv == IInv /\ [Next]_vars => IInv'
<1> SUFFICES ASSUME IInv, [Next]_vars PROVE IInv'
  OBVIOUS
<1>1. CASE UNCHANGED vars
  BY <1>1
  DEF vars, IInv, TypeOK, DataType, HandlerType, RowSound, HandlerSound, Settled, Cur,
      HoldersExclusive, MoneyBehindEveryEffect, CreditedAtMostOnce, OrderedAtMostOnce
<1>2. ASSUME NEW p \in Handlers, Step(p) \/ Crash(p) PROVE IInv'
  BY <1>2, QuietSteps, MarkSteps, ClaimSteps, EffectSteps, SweepStep DEF Step
<1>3. ASSUME NEW p \in Handlers, Request(p) \/ StartCron(p) PROVE IInv'
  BY <1>3, RequestInv
<1>4. ASSUME NEW t \in Txns, Customer(t) \/ \E timer \in AllTimers : Elapse(t, timer)
      PROVE  IInv'
  BY <1>4, CustomerInv
<1> QED BY <1>1, <1>2, <1>3, <1>4 DEF Next

\* Whatever the interleaving, a row outside its final states has had no effect,
\* a handler about to move money holds the row alone, and money was captured.
THEOREM PaymentsAreSound == Spec => []IInv
BY InitInv, NextInv, PTL DEF Spec

\* However callbacks, webhooks, status checks, cron runs and sweeps interleave,
\* fail and die, one payment moves the wallet or a bill at most once.
THEOREM NoDoubleCredit == Spec => []CreditedAtMostOnce
<1>1. IInv => CreditedAtMostOnce
  BY DEF IInv
<1> QED BY <1>1, PaymentsAreSound, PTL

\* No two checkouts, of a cart or of a subscription, consume one payment.
THEOREM NoDoubleOrder == Spec => []OrderedAtMostOnce
<1>1. IInv => OrderedAtMostOnce
  BY DEF IInv
<1> QED BY <1>1, PaymentsAreSound, PTL

\* The wallet, the bills and the orders never move without captured money.
THEOREM NoFreeEffect == Spec => []MoneyBehindEveryEffect
<1>1. IInv => MoneyBehindEveryEffect
  BY DEF IInv
<1> QED BY <1>1, PaymentsAreSound, PTL

LEMMA LedgersGrow ==
  ASSUME TypeOK, [Next]_vars, NEW t \in Txns, Settled(t)
  PROVE  Settled(t)'
<1> USE DEF ledgers, outside, customer
<1>1. CASE UNCHANGED <<credits, settled>>
  BY <1>1 DEF Settled
<1>2. ASSUME NEW p \in Handlers, Settle(p) \/ SweepCredit(p)
      PROVE  Settled(t)'
  BY <1>2 DEF Settle, SweepCredit, Settled, TypeOK, DataType
<1>3. ASSUME NEW p \in Handlers, Step(p)
      PROVE  \/ Settle(p) \/ SweepCredit(p)
             \/ UNCHANGED <<credits, settled>>
  BY <1>3 DEF Step, AskGateway, MarkPaid, Reread, MarkFailed, MarkRefunded, FulfilRead,
      Claim, SettleFails, Unclaim, Consume, PlaceOrder, OrderFails, AttachReference,
      CreateUnbacked, PollNext, PollMark, SweepScan, SweepClaim, SweepCreditFails,
      SweepDone
<1>4. ASSUME NEW p \in Handlers, Request(p) \/ StartCron(p) \/ Crash(p)
      PROVE  UNCHANGED <<credits, settled>>
  BY <1>4 DEF Request, StartVerify, StartCheck, StartWebhook, StartConsume, StartCron,
      Crash
<1>5. ASSUME NEW u \in Txns, Customer(u) \/ \E timer \in AllTimers : Elapse(u, timer)
      PROVE  UNCHANGED <<credits, settled>>
  BY <1>5 DEF Customer, CreateOrder, AttemptFails, Capture, RefundAtGateway, Elapse
<1> QED BY <1>1, <1>2, <1>3, <1>4, <1>5 DEF Next, vars

\* A settled payment can only be refunded: no late callback, failure event or
\* check reopens it.
THEOREM SettledIsFinal == Spec => SettledStaysClosed
<1>1. ASSUME IInv, [Next]_vars, NEW t \in Txns, Settled(t)
      PROVE  row'[t].status \in Final
  <2>1. Settled(t)'
    BY <1>1, LedgersGrow DEF IInv
  <2>2. RowSound(t)'
    BY <1>1, NextInv DEF IInv
  <2> QED BY <2>1, <2>2 DEF RowSound, Final
<1> DEFINE Closed == \A t \in Txns : Settled(t) => row'[t].status \in Final
<1>2. IInv /\ [Next]_vars => [Closed]_vars
  BY <1>1
<1>3. SettledStaysClosed <=> [][Closed]_vars
  BY DEF SettledStaysClosed
<1> HIDE DEF Closed
<1> QED BY <1>2, <1>3, PaymentsAreSound, PTL DEF Spec

-----------------------------------------------------------------------------
(* Who writes a row.                                                       *)

\* The row keeps its purpose and is not claimed by this step.
Unclaimed(t) ==
  /\ row'[t].purpose = row[t].purpose
  /\ row'[t].status = "fulfilled" => row[t].status = "fulfilled"

Claimed(p, t) == Cur(p) = t /\ row'[t].purpose = row[t].purpose

Swept(p, t) ==
  /\ t \in handler[p].list
  /\ Sweepable(row[t])
  /\ row'[t].purpose = "wallet_topup"

LEMMA StepWrites ==
  ASSUME TypeOK, NEW p \in Handlers, Step(p), NEW t \in Txns
  PROVE  \/ Unclaimed(t)
         \/ (Claim(p) \/ Consume(p)) /\ Claimed(p, t)
         \/ SweepClaim(p) /\ Swept(p, t)
<1> USE DEF Unclaimed
<1>1. row[t] \in Row /\ (handler[p].pc \notin Free => Cur(p) \in Txns)
  BY DEF TypeOK, DataType, HandlerType, Cur
<1>2. CASE row' = row
  BY <1>2
<1>3. CASE MarkPaid(p)
  BY <1>1, <1>3, PaidRowFacts DEF MarkPaid, Update, TypeOK, DataType, Final
<1>4. CASE MarkFailed(p)
  <2> PICK id \in {"failed", "captured"} : Update(Cur(p), FailedRow(row[Cur(p)], id))
    BY <1>4 DEF MarkFailed
  <2> QED BY <1>1, FailedRowFacts DEF Update, TypeOK, DataType, Final
<1>5. CASE MarkRefunded(p)
  <2> DEFINE r == [row[Cur(p)] EXCEPT !.status = "refunded"]
  <2>1. row[t] \in Row => [row[t] EXCEPT !.status = "refunded"].purpose = row[t].purpose
                         /\ [row[t] EXCEPT !.status = "refunded"].status = "refunded"
    BY DEF Row
  <2>2. CASE Update(Cur(p), r)
    <3>1. row'[t] = IF t = Cur(p) THEN r ELSE row[t]
      BY <2>2 DEF Update, TypeOK, DataType
    <3> QED BY <1>1, <2>1, <3>1
  <2> QED BY <1>2, <1>5, <2>2 DEF MarkRefunded
<1>6. CASE Claim(p)
  BY <1>1, <1>6, ClaimFacts DEF Claim, Update, TypeOK, DataType, Claimed
<1>7. CASE Unclaim(p)
  BY <1>1, <1>7, ClaimFacts DEF Unclaim, Update, TypeOK, DataType
<1>8. CASE Consume(p)
  BY <1>1, <1>8, ConsumeFacts DEF Consume, Update, TypeOK, DataType, Claimed
<1>9. CASE AttachReference(p)
  BY <1>1, <1>9 DEF AttachReference, Update, TypeOK, DataType, Row
<1>10. CASE PollMark(p)
  BY <1>1, <1>10, PaidRowFacts DEF PollMark, Update, TypeOK, DataType, Final
<1>11. CASE SweepClaim(p)
  <2> PICK u \in handler[p].list :
        IF Sweepable(row[u])
          THEN Update(u, SweptRow(row[u])) /\ TakeUp(p, u, "sweepCredit")
          ELSE Skip(p, u) /\ UNCHANGED row
    BY <1>11 DEF SweepClaim
  <2>1. CASE u = t /\ Sweepable(row[t])
    BY <1>1, <1>11, <2>1, ConsumeFacts DEF Update, TypeOK, DataType, Swept
  <2>2. CASE u # t \/ ~Sweepable(row[u])
    BY <2>2 DEF Update, TypeOK, DataType
  <2> QED BY <2>1, <2>2
<1> QED
  BY <1>2, <1>3, <1>4, <1>5, <1>6, <1>7, <1>8, <1>9, <1>10, <1>11
  DEF Step, AskGateway, Reread, FulfilRead, Settle, SettleFails, PlaceOrder, OrderFails,
      CreateUnbacked, PollNext, SweepScan, SweepCredit, SweepCreditFails, SweepDone

\* Everything but the statements of handlers leaves the rows alone, but for
\* the insertion of a row.
LEMMA OtherWrites ==
  ASSUME TypeOK, NEW t \in Txns,
         \/ \E u \in Txns : Customer(u) \/ \E timer \in AllTimers : Elapse(u, timer)
         \/ \E p \in Handlers : Request(p) \/ StartCron(p) \/ Crash(p)
         \/ UNCHANGED vars
  PROVE  \/ row'[t] = row[t]
         \/ row[t].status = "absent" /\ row'[t].status = "created"
<1>1. CASE row' = row
  BY <1>1
<1>2. ASSUME NEW u \in Txns, NEW purpose \in AllPurposes, NEW ref \in {"none", "named"},
             CreateOrder(u, purpose, ref)
      PROVE  \/ row'[t] = row[t]
             \/ row[t].status = "absent" /\ row'[t].status = "created"
  BY <1>2 DEF CreateOrder, Update, TypeOK, DataType, Row
<1>3. \/ row' = row
      \/ \E u \in Txns, purpose \in AllPurposes, ref \in {"none", "named"} :
           CreateOrder(u, purpose, ref)
  BY DEF Customer, AttemptFails, Capture, RefundAtGateway, Elapse, Request, StartVerify,
     StartCheck, StartWebhook, StartConsume, StartCron, Crash, vars
<1> QED BY <1>1, <1>2, <1>3

\* An order that carries its id keeps its payment, whatever a sweep listed.
THEOREM AttachedIsKept == Spec => AttachedOrderStays
<1> DEFINE Stays == \A t \in Txns : row[t].purpose = "order" /\ row[t].ref = "order"
                                      => row'[t].purpose = "order"
<1>1. ASSUME IInv, [Next]_vars, NEW t \in Txns,
             row[t].purpose = "order", row[t].ref = "order"
      PROVE  row'[t].purpose = "order"
  <2>1. row[t].status # "absent" /\ ~Sweepable(row[t])
    BY <1>1 DEF IInv, RowSound, Sweepable
  <2>2. ASSUME NEW p \in Handlers, Step(p) PROVE row'[t].purpose = "order"
    BY <1>1, <2>1, <2>2, StepWrites DEF IInv, Unclaimed, Claimed, Swept
  <2>3. CASE ~\E p \in Handlers : Step(p)
    BY <1>1, <2>1, <2>3, OtherWrites DEF IInv, Next
  <2> QED BY <2>2, <2>3
<1>2. IInv /\ [Next]_vars => [Stays]_vars
  BY <1>1
<1>3. AttachedOrderStays <=> [][Stays]_vars
  BY DEF AttachedOrderStays
<1> HIDE DEF Stays
<1> QED BY <1>2, <1>3, PaymentsAreSound, PTL DEF Spec

-----------------------------------------------------------------------------
(* A claim and its side effect.                                            *)

Buying == {"checkout", "subscribe"}

\* A top-up that a sweep may have made of an order; a row that no fulfilment
\* of a top-up or a bill is about.
Aged(t) == row[t].purpose = "wallet_topup" /\ "paid20m" \in elapsed[t]
Bought(t) == row[t].purpose \in {"order", "subscription"} \/ Aged(t)

\* What ClaimIsBacked speaks of.
Owed(t) ==
  /\ row[t].status = "fulfilled"
  /\ row[t].purpose \in {"bill", "wallet_topup"}
  /\ ~Aged(t)

\* A sweep works on orders whose time is over.
SweepsOld(p) ==
  /\ handler[p].pc \in {"sweep", "sweepCredit"}
       => \A t \in handler[p].list : "paid20m" \in elapsed[t]
  /\ handler[p].pc = "sweepCredit" => Aged(Cur(p))

\* A checkout consumes no top-up and no bill.
BuysOrders(p) ==
  /\ handler[p].pc = "consume" => handler[p].op \in Buying
  /\ handler[p].op \in Buying =>
       /\ handler[p].pc \in {"markPaid", "markFailed", "consume", "order", "attach", "create"}
       /\ handler[p].pc # "create" => Bought(Cur(p))

HandlersInv == \A p \in Handlers : SweepsOld(p) /\ BuysOrders(p)

LEMMA GotoMoves ==
  ASSUME HandlerType, NEW p \in Handlers, NEW label \in Labels, Goto(p, label)
  PROVE  /\ \A q \in Handlers \ {p} : handler'[q] = handler[q]
         /\ handler'[p].pc = label /\ handler'[p].op = handler[p].op
         /\ handler'[p].cur = handler[p].cur /\ handler'[p].list = handler[p].list
BY DEF Goto, HandlerType, Handler

LEMMA LeaveMoves ==
  ASSUME HandlerType, NEW p \in Handlers, Leave(p)
  PROVE  /\ \A q \in Handlers \ {p} : handler'[q] = handler[q]
         /\ handler'[p].pc \in {"idle", "poll"} /\ handler'[p].op = "cron"
<1>1. CASE handler[p].op = "cron"
  BY <1>1, GotoMoves DEF Leave, Labels
<1>2. CASE handler[p].op # "cron"
  BY <1>2 DEF Leave, Idle, HandlerType
<1> QED BY <1>1, <1>2

LEMMA RejectMoves ==
  ASSUME HandlerType, NEW p \in Handlers, Reject(p)
  PROVE  /\ \A q \in Handlers \ {p} : handler'[q] = handler[q]
         /\ \/ handler'[p].pc \in {"idle", "poll"} /\ handler'[p].op = "cron"
            \/ handler'[p].pc = "create" /\ handler'[p].op = handler[p].op
<1>1. CASE handler[p].op = "subscribe"
  BY <1>1, GotoMoves DEF Reject, Labels
<1>2. CASE handler[p].op # "subscribe"
  BY <1>2, LeaveMoves DEF Reject
<1> QED BY <1>1, <1>2

LEMMA TakeUpMoves ==
  ASSUME HandlerType, NEW p \in Handlers, NEW t, NEW label \in Labels, TakeUp(p, t, label)
  PROVE  /\ \A q \in Handlers \ {p} : handler'[q] = handler[q]
         /\ handler'[p].pc = label /\ handler'[p].op = handler[p].op
         /\ handler'[p].cur = t /\ handler'[p].list = handler[p].list \ {t}
<1>1. handler[p] \in Handler
  BY DEF HandlerType
<1> QED BY <1>1 DEF TakeUp, HandlerType, Handler

LEMMA SkipMoves ==
  ASSUME HandlerType, NEW p \in Handlers, NEW t, Skip(p, t)
  PROVE  /\ \A q \in Handlers \ {p} : handler'[q] = handler[q]
         /\ handler'[p].pc = handler[p].pc /\ handler'[p].op = handler[p].op
         /\ handler'[p].cur = handler[p].cur /\ handler'[p].list = handler[p].list \ {t}
BY DEF Skip, HandlerType, Handler

LEMMA EnumerateMoves ==
  ASSUME HandlerType, NEW p \in Handlers, NEW label \in Labels, NEW set, Enumerate(p, label, set)
  PROVE  /\ \A q \in Handlers \ {p} : handler'[q] = handler[q]
         /\ handler'[p].pc = label /\ handler'[p].op = handler[p].op
         /\ handler'[p].list = set
<1>1. handler[p] \in Handler
  BY DEF HandlerType
<1> QED BY <1>1 DEF Enumerate, HandlerType, Handler

\* Time only passes.
LEMMA TimePasses ==
  ASSUME TypeOK, [Next]_vars, NEW t \in Txns
  PROVE  elapsed[t] \subseteq elapsed'[t]
<1>1. CASE elapsed' = elapsed
  BY <1>1
<1>2. ASSUME NEW u \in Txns, NEW timer \in AllTimers, Elapse(u, timer)
      PROVE  elapsed[t] \subseteq elapsed'[t]
  BY <1>2 DEF Elapse, TypeOK, DataType
<1>3. ASSUME NEW p \in Handlers, Request(p) \/ StartCron(p) \/ Step(p) \/ Crash(p)
      PROVE  elapsed' = elapsed
  BY <1>3 DEF outside, customer, Request, StartVerify, StartCheck, StartWebhook, StartConsume,
      StartCron, Crash, Step, AskGateway, MarkPaid, Reread, MarkFailed, MarkRefunded,
      FulfilRead, Claim, Settle, SettleFails, Unclaim, Consume, PlaceOrder, OrderFails,
      AttachReference, CreateUnbacked, PollNext, PollMark, SweepScan, SweepClaim,
      SweepCredit, SweepCreditFails, SweepDone
<1>4. ASSUME NEW u \in Txns, Customer(u) PROVE elapsed' = elapsed
  BY <1>4 DEF Customer, CreateOrder, AttemptFails, Capture, RefundAtGateway, outside, customer
<1> QED BY <1>1, <1>2, <1>3, <1>4 DEF Next, vars

\* What is aged or bought stays so.
LEMMA BoughtStays ==
  ASSUME IInv, HandlersInv, [Next]_vars, NEW t \in Txns, row[t].status # "absent"
  PROVE  (Aged(t) => Aged(t)') /\ (Bought(t) => Bought(t)')
<1>1. elapsed[t] \subseteq elapsed'[t]
  BY TimePasses DEF IInv
<1>2. \/ row'[t].purpose = row[t].purpose
      \/ row'[t].purpose = "wallet_topup" /\ "paid20m" \in elapsed[t]
  <2>1. ASSUME NEW p \in Handlers, Step(p), row'[t].purpose # row[t].purpose
        PROVE  row'[t].purpose = "wallet_topup" /\ "paid20m" \in elapsed[t]
    <3>1. SweepClaim(p) /\ Swept(p, t)
      BY <2>1, StepWrites DEF IInv, Unclaimed, Claimed
    <3> QED BY <3>1 DEF HandlersInv, SweepsOld, SweepClaim, At, Swept
  <2>2. CASE ~\E p \in Handlers : Step(p)
    BY <2>2, OtherWrites DEF IInv, Next
  <2> QED BY <2>1, <2>2
<1> QED BY <1>1, <1>2 DEF Aged, Bought

\* A handler that does not move keeps what it relies on.
LEMMA OthersRely ==
  ASSUME IInv, HandlersInv, [Next]_vars, NEW q \in Handlers, handler'[q] = handler[q]
  PROVE  SweepsOld(q)' /\ BuysOrders(q)'
<1>1. /\ handler[q].list \subseteq Txns
      /\ handler[q].pc \notin Free => Cur(q) \in Txns
      /\ Cur(q)' = Cur(q)
  BY DEF IInv, TypeOK, HandlerType, Handler, Cur
<1>2. Cur(q) \in Txns => row[Cur(q)].status # "absent"
  BY DEF IInv, HandlerSound
<1>3. SweepsOld(q)'
  <2>1. \A t \in handler[q].list : elapsed[t] \subseteq elapsed'[t]
    BY <1>1, TimePasses DEF IInv
  <2>2. handler[q].pc = "sweepCredit" => Aged(Cur(q))'
    BY <1>1, <1>2, BoughtStays DEF HandlersInv, SweepsOld, Free
  <2> QED BY <1>1, <2>1, <2>2 DEF HandlersInv, SweepsOld
<1>4. BuysOrders(q)'
  <2>1. CASE handler[q].op \in Buying
    <3>1. Cur(q) \in Txns
      BY <1>1, <2>1 DEF HandlersInv, BuysOrders, Free
    <3>2. ASSUME NEW t \in Txns, t = Cur(q), Bought(t) PROVE Bought(Cur(q))'
      <4>1. Bought(t)' /\ Cur(q)' = t
        BY <1>1, <1>2, <3>2, BoughtStays
      <4> QED BY <4>1 DEF Bought, Aged
    <3> QED BY <1>1, <2>1, <3>1, <3>2 DEF HandlersInv, BuysOrders
  <2>2. CASE handler[q].op \notin Buying
    BY <2>2 DEF HandlersInv, BuysOrders
  <2> QED BY <2>1, <2>2
<1> QED BY <1>3, <1>4

\* A statement of a request that buys nothing, outside the sweep.
LEMMA RelyOnNothing ==
  ASSUME NEW p \in Handlers, handler'[p].op \notin Buying,
         handler'[p].pc \notin {"consume", "sweep", "sweepCredit"}
  PROVE  SweepsOld(p)' /\ BuysOrders(p)'
BY DEF SweepsOld, BuysOrders

\* A statement of a checkout, on the row it came with or on none.
LEMMA BuyingRelies ==
  ASSUME IInv, HandlersInv, [Next]_vars, NEW p \in Handlers, Step(p),
         handler[p].op \in Buying
  PROVE  /\ \A q \in Handlers \ {p} : handler'[q] = handler[q]
         /\ SweepsOld(p)' /\ BuysOrders(p)'
<1>1. /\ HandlerType
      /\ handler[p].pc \in {"markPaid", "markFailed", "consume", "order", "attach", "create"}
      /\ handler[p].pc # "create" => Bought(Cur(p))
      /\ handler[p].op # "cron"
  BY DEF IInv, TypeOK, HandlersInv, BuysOrders, Buying
<1>2. Cur(p) \in Txns /\ row[Cur(p)].status # "absent"
  BY <1>1 DEF IInv, HandlerType, HandlerSound, Free, Cur
<1>3. ASSUME NEW t \in Txns, t = Cur(p), Bought(t) PROVE Bought(t)'
  BY <1>2, <1>3, BoughtStays
<1>4. ASSUME NEW label \in {"consume", "order", "attach"}, Goto(p, label),
             handler[p].pc # "create"
      PROVE  /\ \A q \in Handlers \ {p} : handler'[q] = handler[q]
             /\ SweepsOld(p)' /\ BuysOrders(p)'
  <2>1. label \in Labels
    BY DEF Labels
  <2>2. /\ \A q \in Handlers \ {p} : handler'[q] = handler[q]
        /\ handler'[p].pc = label /\ handler'[p].op = handler[p].op
        /\ handler'[p].cur = handler[p].cur
    BY <1>1, <1>4, <2>1, GotoMoves
  <2>3. Bought(Cur(p))'
    <3>1. ASSUME NEW t \in Txns, t = Cur(p) PROVE Bought(Cur(p))'
      <4>1. Bought(t)' /\ Cur(p)' = t
        BY <1>1, <1>3, <1>4, <2>2, <3>1 DEF Cur
      <4> QED BY <4>1 DEF Bought, Aged
    <3> QED BY <1>2, <3>1
  <2> QED BY <2>2, <2>3 DEF SweepsOld, BuysOrders
<1>5. ASSUME Reject(p) \/ Leave(p)
      PROVE  /\ \A q \in Handlers \ {p} : handler'[q] = handler[q]
             /\ SweepsOld(p)' /\ BuysOrders(p)'
  <2>1. /\ \A q \in Handlers \ {p} : handler'[q] = handler[q]
        /\ \/ handler'[p].pc \in {"idle", "poll"} /\ handler'[p].op = "cron"
           \/ handler'[p].pc = "create"
    BY <1>1, <1>5, RejectMoves, LeaveMoves
  <2> QED BY <2>1 DEF SweepsOld, BuysOrders, Buying
<1>6. \/ \E label \in {"consume", "order", "attach"} :
           Goto(p, label) /\ handler[p].pc # "create"
      \/ Reject(p) \/ Leave(p)
  BY <1>1 DEF Buying, At, Step, AskGateway, MarkPaid, Reread, MarkFailed, MarkRefunded,
     FulfilRead, Claim, Settle, SettleFails, Unclaim, Consume, PlaceOrder, OrderFails,
     AttachReference, CreateUnbacked, PollNext, PollMark, SweepScan, SweepClaim,
     SweepCredit, SweepCreditFails, SweepDone
<1> QED BY <1>4, <1>5, <1>6

\* A statement of the sweep.
LEMMA SweepRelies ==
  ASSUME IInv, HandlersInv, [Next]_vars, NEW p \in Handlers, handler[p].op \notin Buying,
         SweepScan(p) \/ SweepClaim(p) \/ SweepCredit(p) \/ SweepCreditFails(p)
  PROVE  /\ \A q \in Handlers \ {p} : handler'[q] = handler[q]
         /\ SweepsOld(p)' /\ BuysOrders(p)'
<1>1. HandlerType /\ handler[p].list \subseteq Txns
  BY DEF IInv, TypeOK, HandlerType, Handler
<1>2. \A t \in Txns : elapsed[t] \subseteq elapsed'[t]
  BY TimePasses DEF IInv
<1>3. CASE SweepScan(p)
  <2>1. /\ \A q \in Handlers \ {p} : handler'[q] = handler[q]
        /\ handler'[p].pc = "sweep" /\ handler'[p].op = handler[p].op
        /\ handler'[p].list \subseteq Stranded
    <3> PICK batch \in Batches(Stranded) : Enumerate(p, "sweep", batch)
      BY <1>3 DEF SweepScan
    <3> QED BY <1>1, BatchFacts, EnumerateMoves DEF Labels
  <2> QED BY <1>2, <2>1 DEF Stranded, SweepsOld, BuysOrders
<1>4. CASE SweepClaim(p)
  <2> PICK t \in handler[p].list :
        IF Sweepable(row[t])
          THEN Update(t, SweptRow(row[t])) /\ TakeUp(p, t, "sweepCredit")
          ELSE Skip(p, t) /\ UNCHANGED row
    BY <1>4 DEF SweepClaim
  <2>1. \A u \in handler[p].list : "paid20m" \in elapsed'[u]
    BY <1>1, <1>2, <1>4 DEF SweepClaim, At, HandlersInv, SweepsOld
  <2>2. CASE Sweepable(row[t])
    <3>1. /\ \A q \in Handlers \ {p} : handler'[q] = handler[q]
          /\ handler'[p].pc = "sweepCredit" /\ handler'[p].op = handler[p].op
          /\ handler'[p].cur = t /\ handler'[p].list = handler[p].list \ {t}
      BY <1>1, <2>2, TakeUpMoves DEF Labels
    <3>2. Aged(t)'
      BY <1>1, <2>1, <2>2, ConsumeFacts DEF Update, Aged, IInv, TypeOK, DataType
    <3> QED BY <2>1, <3>1, <3>2 DEF SweepsOld, BuysOrders, Cur
  <2>3. CASE ~Sweepable(row[t])
    <3>1. /\ \A q \in Handlers \ {p} : handler'[q] = handler[q]
          /\ handler'[p].pc = "sweep" /\ handler'[p].op = handler[p].op
          /\ handler'[p].list = handler[p].list \ {t}
      BY <1>1, <1>4, <2>3, SkipMoves DEF SweepClaim, At
    <3> QED BY <2>1, <3>1 DEF SweepsOld, BuysOrders
  <2> QED BY <2>2, <2>3
<1>5. CASE SweepCredit(p) \/ SweepCreditFails(p)
  <2>1. /\ \A q \in Handlers \ {p} : handler'[q] = handler[q]
        /\ handler'[p].pc = "sweep" /\ handler'[p].op = handler[p].op
        /\ handler'[p].list = handler[p].list
    BY <1>1, <1>5, GotoMoves DEF SweepCredit, SweepCreditFails, Labels
  <2>2. \A u \in handler[p].list : "paid20m" \in elapsed'[u]
    BY <1>1, <1>2, <1>5 DEF SweepCredit, SweepCreditFails, At, HandlersInv, SweepsOld
  <2> QED BY <2>1, <2>2 DEF SweepsOld, BuysOrders
<1> QED BY <1>3, <1>4, <1>5

\* Any other statement.
LEMMA IdlyRelies ==
  ASSUME IInv, NEW p \in Handlers, Step(p), handler[p].op \notin Buying,
         ~(SweepScan(p) \/ SweepClaim(p) \/ SweepCredit(p) \/ SweepCreditFails(p))
  PROVE  /\ \A q \in Handlers \ {p} : handler'[q] = handler[q]
         /\ SweepsOld(p)' /\ BuysOrders(p)'
<1> DEFINE Idly == /\ \A q \in Handlers \ {p} : handler'[q] = handler[q]
                   /\ SweepsOld(p)' /\ BuysOrders(p)'
           Quiet == Labels \ {"consume", "sweep", "sweepCredit"}
<1>0. HandlerType
  BY DEF IInv, TypeOK
<1>1. ASSUME NEW label \in Quiet, Goto(p, label) PROVE Idly
  BY <1>0, <1>1, GotoMoves, RelyOnNothing
<1>2. CASE Leave(p) \/ Reject(p)
  BY <1>0, <1>2, LeaveMoves, RejectMoves, RelyOnNothing DEF Buying
<1>3. ASSUME NEW t, TakeUp(p, t, "ask") PROVE Idly
  <2>1. "ask" \in Labels
    BY DEF Labels
  <2> QED BY <1>0, <1>3, <2>1, TakeUpMoves, RelyOnNothing
<1>4. CASE handler' = [handler EXCEPT ![p] = Idle]
  BY <1>0, <1>4, RelyOnNothing DEF HandlerType, Idle, Buying
<1>5. \/ \E label \in Quiet : Goto(p, label)
      \/ Leave(p) \/ Reject(p)
      \/ \E t \in handler[p].list : TakeUp(p, t, "ask")
      \/ handler' = [handler EXCEPT ![p] = Idle]
  <2>1. CASE MarkPaid(p) \/ Consume(p) \/ PlaceOrder(p)
    BY <2>1 DEF MarkPaid, Consume, PlaceOrder, Buying, Labels
  <2>2. CASE AskGateway(p) \/ Reread(p) \/ MarkFailed(p) \/ MarkRefunded(p) \/ FulfilRead(p)
    BY <2>2 DEF AskGateway, Reread, MarkFailed, MarkRefunded, FulfilRead, Labels
  <2>3. CASE Claim(p) \/ Settle(p) \/ SettleFails(p) \/ Unclaim(p)
    BY <2>3 DEF Claim, Settle, SettleFails, Unclaim, Labels
  <2>4. CASE OrderFails(p) \/ AttachReference(p) \/ CreateUnbacked(p) \/ SweepDone(p)
    BY <2>4 DEF OrderFails, AttachReference, CreateUnbacked, SweepDone
  <2>5. CASE PollNext(p) \/ PollMark(p)
    BY <2>5 DEF PollNext, PollMark, Labels
  <2> QED BY <2>1, <2>2, <2>3, <2>4, <2>5 DEF Step
<1> HIDE DEF Quiet
<1> QED BY <1>1, <1>2, <1>3, <1>4, <1>5

\* A request begins.
LEMMA RequestRelies ==
  ASSUME IInv, HandlersInv, NEW p \in Handlers, Request(p) \/ StartCron(p)
  PROVE  /\ \A q \in Handlers \ {p} : handler'[q] = handler[q]
         /\ SweepsOld(p)' /\ BuysOrders(p)' /\ At(p, "idle")
         /\ row' = row
<1>0. HandlerType
  BY DEF IInv, TypeOK
<1>1. CASE StartCron(p)
  <2>1. At(p, "idle") /\ row' = row /\ handler[p].op \notin Buying
    BY <1>1 DEF StartCron, At, HandlersInv, BuysOrders
  <2>2. /\ \A q \in Handlers \ {p} : handler'[q] = handler[q]
        /\ handler'[p].pc = "poll" /\ handler'[p].op = handler[p].op
    BY <1>0, <1>1, EnumerateMoves DEF StartCron, Labels
  <2> QED BY <2>1, <2>2, RelyOnNothing
<1>2. ASSUME NEW t \in Txns, NEW o, NEW label, Start(p, o, t, label)
      PROVE  /\ \A q \in Handlers \ {p} : handler'[q] = handler[q]
             /\ handler'[p].pc = label /\ handler'[p].op = o /\ handler'[p].cur = t
  BY <1>0, <1>2 DEF Start, HandlerType
<1>3. ASSUME NEW t \in Txns, NEW o \in {"verify", "check", "webhook"},
             NEW label \in {"markPaid", "markFailed", "markRefunded", "read", "ask"},
             Start(p, o, t, label)
      PROVE  /\ \A q \in Handlers \ {p} : handler'[q] = handler[q]
             /\ SweepsOld(p)' /\ BuysOrders(p)'
  BY <1>2, <1>3, RelyOnNothing DEF Buying
<1>4. ASSUME NEW t \in Txns,
             StartVerify(p, t) \/ StartCheck(p, t)
             \/ \E kind \in EventKinds : StartWebhook(p, t, kind)
      PROVE  /\ \E o \in {"verify", "check", "webhook"},
                   label \in {"markPaid", "markFailed", "markRefunded", "read", "ask"} :
                  Start(p, o, t, label)
             /\ At(p, "idle") /\ row' = row
  BY <1>4 DEF StartVerify, StartCheck, StartWebhook, Verdict
<1>5. ASSUME NEW t \in Txns, NEW o \in Buying, StartConsume(p, o, t)
      PROVE  /\ \A q \in Handlers \ {p} : handler'[q] = handler[q]
             /\ SweepsOld(p)' /\ BuysOrders(p)' /\ At(p, "idle")
             /\ row' = row
  <2>1. At(p, "idle") /\ row' = row
    BY <1>5 DEF StartConsume
  <2>2. PICK label \in {"consume", "markPaid", "markFailed", "create"} :
          /\ Start(p, o, t, label)
          /\ label # "create" => row[t].purpose \in {"order", "subscription"}
    BY <1>5 DEF StartConsume, Verdict
  <2>3. /\ \A q \in Handlers \ {p} : handler'[q] = handler[q]
        /\ handler'[p].pc = label /\ handler'[p].op = o /\ handler'[p].cur = t
    BY <1>2, <2>2
  <2>4. label # "create" => Bought(Cur(p))'
    BY <2>1, <2>2, <2>3 DEF Bought, Cur
  <2> QED BY <2>1, <2>3, <2>4 DEF SweepsOld, BuysOrders
<1> QED BY <1>1, <1>3, <1>4, <1>5 DEF Request, Buying

LEMMA NextRelies == IInv /\ HandlersInv /\ [Next]_vars => HandlersInv'
<1> SUFFICES ASSUME IInv, HandlersInv, [Next]_vars,
                    NEW q \in Handlers
             PROVE  SweepsOld(q)' /\ BuysOrders(q)'
  BY DEF HandlersInv
<1>1. ASSUME NEW p \in Handlers, Step(p)
      PROVE  SweepsOld(q)' /\ BuysOrders(q)'
  BY <1>1, BuyingRelies, SweepRelies, IdlyRelies, OthersRely
<1>2. ASSUME NEW p \in Handlers, Request(p) \/ StartCron(p)
      PROVE  SweepsOld(q)' /\ BuysOrders(q)'
  BY <1>2, RequestRelies, OthersRely
<1>3. ASSUME NEW p \in Handlers, Crash(p)
      PROVE  SweepsOld(q)' /\ BuysOrders(q)'
  <2>1. CASE q = p
    <3>1. handler'[p] = Idle
      BY <1>3 DEF Crash, IInv, TypeOK, HandlerType
    <3> QED BY <2>1, <3>1, RelyOnNothing DEF Idle, Buying
  <2>2. CASE q # p
    BY <1>3, <2>2, OthersRely DEF Crash, IInv, TypeOK, HandlerType
  <2> QED BY <2>1, <2>2
<1>4. CASE handler' = handler
  BY <1>4, OthersRely
<1> QED
  BY <1>1, <1>2, <1>3, <1>4
  DEF Next, vars, Customer, CreateOrder, AttemptFails, Capture, RefundAtGateway, Elapse

Backed(t) == Settled(t) \/ \E p \in Handlers : Working(p, t)

\* What is owed was owed before, or its claim is being made.
LEMMA OwedBefore ==
  ASSUME IInv, HandlersInv, [Next]_vars, NEW p \in Handlers, Step(p),
         NEW t \in Txns, Owed(t)'
  PROVE  \/ Owed(t)
         \/ Claim(p) /\ Cur(p) = t /\ row[t].status = "paid"
<1>1. elapsed[t] \subseteq elapsed'[t]
  BY TimePasses DEF IInv
<1>2. CASE Unclaimed(t)
  BY <1>1, <1>2 DEF Owed, Aged, Unclaimed
<1>3. CASE Claim(p) /\ Claimed(p, t)
  <2>1. CASE row[t].status = "paid"
    BY <1>3, <2>1 DEF Claimed
  <2>2. CASE row[t].status # "paid"
    BY <1>1, <1>3, <2>2 DEF Claim, Claimed, Owed, Aged
  <2> QED BY <2>1, <2>2
<1>4. CASE Consume(p) /\ Claimed(p, t)
  <2>1. Bought(t) /\ row[t].status # "absent"
    BY <1>4 DEF Consume, At, Claimed, HandlersInv, BuysOrders, IInv, HandlerSound
  <2>2. Bought(t)'
    BY <2>1, BoughtStays
  <2> QED BY <2>2 DEF Bought, Owed
<1>5. CASE SweepClaim(p) /\ Swept(p, t)
  <2>1. "paid20m" \in elapsed[t]
    BY <1>5 DEF SweepClaim, At, Swept, HandlersInv, SweepsOld
  <2> QED BY <1>1, <1>5, <2>1 DEF Swept, Owed, Aged
<1> QED BY <1>2, <1>3, <1>4, <1>5, StepWrites DEF IInv

LEMMA StepBacks ==
  ASSUME IInv, HandlersInv, [Next]_vars, NEW p \in Handlers, Step(p),
         NEW t \in Txns, Owed(t) => Backed(t), Owed(t)'
  PROVE  Backed(t)'
<1>0. HandlerType
  BY DEF IInv, TypeOK
<1>1. CASE Claim(p) /\ Cur(p) = t /\ row[t].status = "paid"
  <2>1. Goto(p, "settle") /\ "settle" \in Labels
    BY <1>1 DEF Claim, Labels
  <2>2. Working(p, t)'
    BY <1>0, <1>1, <2>1, GotoMoves DEF Working, Cur, CreditLabels
  <2> QED BY <2>2 DEF Backed
<1>2. CASE Settled(t)
  BY <1>2, LedgersGrow DEF IInv, Backed
<1>3. ASSUME NEW q \in Handlers \ {p}, Working(q, t) PROVE Backed(t)'
  <2>1. handler'[q] = handler[q]
    BY BuyingRelies, SweepRelies, IdlyRelies
  <2> QED BY <1>3, <2>1 DEF Working, Cur, Backed
<1>4. CASE Working(p, t)
  <2>1. Cur(p) = t /\ handler[p].pc \in CreditLabels
    BY <1>4 DEF Working
  <2>2. \/ Settle(p) \/ SettleFails(p) \/ Unclaim(p)
        \/ SweepCredit(p) \/ SweepCreditFails(p)
    BY <2>1 DEF CreditLabels, At, Step, AskGateway, MarkPaid, Reread, MarkFailed,
       MarkRefunded, FulfilRead, Claim, Settle, SettleFails, Unclaim, Consume, PlaceOrder,
       OrderFails, AttachReference, CreateUnbacked, PollNext, PollMark, SweepScan,
       SweepClaim, SweepCredit, SweepCreditFails, SweepDone
  <2>3. CASE Settle(p) \/ SweepCredit(p)
    BY <2>1, <2>3 DEF Settle, SweepCredit, Settled, Backed, IInv, TypeOK, DataType
  <2>4. CASE SettleFails(p)
    <3>1. Goto(p, "unclaim") /\ "unclaim" \in Labels
      BY <2>4 DEF SettleFails, Labels
    <3>2. Working(p, t)'
      BY <1>0, <2>1, <3>1, GotoMoves DEF Working, Cur, CreditLabels
    <3> QED BY <3>2 DEF Backed
  <2>5. CASE Unclaim(p)
    <3>1. row'[t].status = "paid"
      BY <2>1, <2>5, ClaimFacts DEF Unclaim, Update, IInv, TypeOK, DataType
    <3> QED BY <3>1 DEF Owed
  <2>6. CASE SweepCreditFails(p)
    <3>1. Aged(t) /\ row[t].status # "absent"
      BY <2>1, <2>6 DEF SweepCreditFails, At, HandlersInv, SweepsOld, IInv, HandlerSound
    <3>2. Aged(t)'
      BY <3>1, BoughtStays
    <3> QED BY <3>2 DEF Owed
  <2> QED BY <2>2, <2>3, <2>4, <2>5, <2>6
<1> QED BY <1>1, <1>2, <1>3, <1>4, OwedBefore DEF Backed

ClaimsBacked == crashes = 0 => \A t \in Txns : Owed(t) => Backed(t)

LEMMA NextBacks ==
  ASSUME IInv, HandlersInv, [Next]_vars, ClaimsBacked
  PROVE  ClaimsBacked'
<1>1. ASSUME NEW p \in Handlers, Crash(p) PROVE ClaimsBacked'
  BY <1>1 DEF Crash, ClaimsBacked, IInv, TypeOK, DataType
<1>2. ASSUME NEW p \in Handlers, Step(p), crashes = crashes' PROVE ClaimsBacked'
  BY <1>2, StepBacks DEF ClaimsBacked
<1>3. ASSUME NEW p \in Handlers, Step(p) PROVE crashes = crashes'
  BY <1>3 DEF outside, customer, Step, AskGateway, MarkPaid, Reread, MarkFailed, MarkRefunded,
      FulfilRead, Claim, Settle, SettleFails, Unclaim, Consume, PlaceOrder, OrderFails,
      AttachReference, CreateUnbacked, PollNext, PollMark, SweepScan, SweepClaim,
      SweepCredit, SweepCreditFails, SweepDone
<1>4. ASSUME \/ \E u \in Txns : Customer(u) \/ \E timer \in AllTimers : Elapse(u, timer)
             \/ \E p \in Handlers : Request(p) \/ StartCron(p)
             \/ UNCHANGED vars
      PROVE  ClaimsBacked'
  <2> SUFFICES ASSUME crashes' = 0, NEW t \in Txns, Owed(t)' PROVE Backed(t)'
    BY DEF ClaimsBacked
  <2>1. crashes = 0
    BY <1>4 DEF outside, customer, vars, Customer, CreateOrder, AttemptFails, Capture,
       RefundAtGateway, Elapse, Request, StartVerify, StartCheck, StartWebhook,
       StartConsume, StartCron
  <2>2. elapsed[t] \subseteq elapsed'[t]
    BY TimePasses DEF IInv
  <2>3. row'[t] = row[t]
    BY <1>4, OtherWrites DEF IInv, Owed
  <2>4. Owed(t)
    BY <2>2, <2>3 DEF Owed, Aged
  <2>5. Backed(t)
    BY <2>1, <2>4 DEF ClaimsBacked
  <2>6. CASE Settled(t)
    BY <2>6, LedgersGrow DEF IInv, Backed
  <2>7. ASSUME NEW q \in Handlers, Working(q, t) PROVE Backed(t)'
    <3>1. ~At(q, "idle")
      BY <2>7 DEF Working, At, CreditLabels
    <3>2. handler'[q] = handler[q]
      BY <1>4, <3>1, RequestRelies DEF vars, Customer, CreateOrder, AttemptFails, Capture,
         RefundAtGateway, Elapse
    <3> QED BY <2>7, <3>2 DEF Working, Cur, Backed
  <2> QED BY <2>5, <2>6, <2>7 DEF Backed
<1> QED BY <1>1, <1>2, <1>3, <1>4 DEF Next

\* While no process dies, a claim without its side effect is the work of a
\* live handler.
THEOREM ClaimsAreBacked == Spec => []ClaimIsBacked
<1>1. Init => IInv /\ HandlersInv /\ ClaimsBacked
  <2>1. Init => HandlersInv
    BY DEF Init, HandlersInv, SweepsOld, BuysOrders, Idle, Buying
  <2>2. Init => ClaimsBacked
    BY DEF Init, ClaimsBacked, Owed
  <2> QED BY <2>1, <2>2, InitInv
<1>2. IInv /\ HandlersInv /\ ClaimsBacked /\ [Next]_vars
        => (IInv /\ HandlersInv /\ ClaimsBacked)'
  BY NextInv, NextRelies, NextBacks
<1>3. ClaimsBacked => ClaimIsBacked
  BY DEF ClaimsBacked, ClaimIsBacked, Owed, Aged, Backed
<1> QED BY <1>1, <1>2, <1>3, PTL DEF Spec

-----------------------------------------------------------------------------
(* Captured money stays where the cron or a handler finds it.              *)

\* What becomes of a row when a handler takes a step.
Rewritten(p, t) ==
  \/ row'[t] = row[t]
  \/ /\ Cur(p) = t /\ row'[t].purpose = row[t].purpose /\ row'[t].ref = row[t].ref
     /\ \/ /\ MarkPaid(p) \/ PollMark(p)
           /\ row'[t].status = IF row[t].status \in Final THEN row[t].status ELSE "paid"
        \/ /\ MarkFailed(p)
           /\ row'[t].status = IF row[t].status \in Final THEN row[t].status ELSE "failed"
        \/ MarkRefunded(p) /\ row'[t].status = "refunded"
        \/ Claim(p) /\ row[t].status = "paid" /\ row'[t].status = "fulfilled"
        \/ Unclaim(p) /\ row'[t].status = "paid"
  \/ /\ Cur(p) = t /\ row'[t].purpose = row[t].purpose
     /\ \/ /\ Consume(p) /\ row[t].status = "paid"
           /\ row'[t].status = "fulfilled" /\ row'[t].ref = "pending"
        \/ AttachReference(p) /\ row'[t].status = row[t].status /\ row'[t].ref = "order"
  \/ /\ SweepClaim(p) /\ Swept(p, t)
     /\ row'[t].status = "fulfilled" /\ row'[t].ref = "none"
     /\ Cur(p)' = t /\ handler'[p].pc = "sweepCredit"

LEMMA StepRewrites ==
  ASSUME TypeOK, NEW p \in Handlers, Step(p), NEW t \in Txns
  PROVE  Rewritten(p, t)
<1>1. row[t] \in Row /\ (handler[p].pc \notin Free => Cur(p) \in Txns)
  BY DEF TypeOK, DataType, HandlerType, Cur
<1>2. CASE row' = row
  BY <1>2 DEF Rewritten
<1>3. ASSUME NEW r, Update(Cur(p), r), Cur(p) \in Txns
      PROVE  row'[t] = IF t = Cur(p) THEN r ELSE row[t]
  BY <1>3 DEF Update, TypeOK, DataType
<1>4. CASE MarkPaid(p)
  BY <1>1, <1>3, <1>4, PaidRowFacts DEF MarkPaid, At, Free, Rewritten
<1>5. CASE MarkFailed(p)
  <2> PICK id \in {"failed", "captured"} : Update(Cur(p), FailedRow(row[Cur(p)], id))
    BY <1>5 DEF MarkFailed
  <2> QED BY <1>1, <1>3, <1>5, FailedRowFacts DEF MarkFailed, At, Free, Rewritten
<1>6. CASE MarkRefunded(p)
  <2>1. /\ [row[t] EXCEPT !.status = "refunded"].status = "refunded"
        /\ [row[t] EXCEPT !.status = "refunded"].purpose = row[t].purpose
        /\ [row[t] EXCEPT !.status = "refunded"].ref = row[t].ref
    BY <1>1 DEF Row
  <2> QED BY <1>1, <1>2, <1>3, <1>6, <2>1 DEF MarkRefunded, At, Free, Rewritten
<1>7. CASE Claim(p)
  BY <1>1, <1>2, <1>3, <1>7, ClaimFacts DEF Claim, At, Free, Rewritten
<1>8. CASE Unclaim(p)
  BY <1>1, <1>3, <1>8, ClaimFacts DEF Unclaim, At, Free, Rewritten
<1>9. CASE Consume(p)
  <2>1. ConsumedRow(row[t]).ref = "pending"
    BY <1>1 DEF ConsumedRow, Row
  <2> QED BY <1>1, <1>2, <1>3, <1>9, <2>1, ConsumeFacts DEF Consume, At, Free, Rewritten
<1>10. CASE AttachReference(p)
  <2>1. /\ [row[t] EXCEPT !.ref = "order"].status = row[t].status
        /\ [row[t] EXCEPT !.ref = "order"].purpose = row[t].purpose
        /\ [row[t] EXCEPT !.ref = "order"].ref = "order"
    BY <1>1 DEF Row
  <2> QED BY <1>1, <1>3, <1>10, <2>1 DEF AttachReference, At, Free, Rewritten
<1>11. CASE PollMark(p)
  BY <1>1, <1>2, <1>3, <1>11, PaidRowFacts DEF PollMark, At, Free, Rewritten
<1>12. CASE SweepClaim(p)
  <2> PICK u \in handler[p].list :
        IF Sweepable(row[u])
          THEN Update(u, SweptRow(row[u])) /\ TakeUp(p, u, "sweepCredit")
          ELSE Skip(p, u) /\ UNCHANGED row
    BY <1>12 DEF SweepClaim
  <2>1. CASE u = t /\ Sweepable(row[t])
    <3>1. row'[t] = SweptRow(row[t])
      BY <2>1 DEF Update, TypeOK, DataType
    <3>2. SweptRow(row[t]).ref = "none"
      BY <1>1 DEF SweptRow, Row
    <3>3. handler'[p].pc = "sweepCredit" /\ handler'[p].cur = t
      BY <2>1, TakeUpMoves DEF Labels, TypeOK
    <3> QED BY <1>1, <1>12, <2>1, <3>1, <3>2, <3>3, ConsumeFacts DEF Swept, Rewritten, Cur
  <2>2. CASE u # t \/ ~Sweepable(row[u])
    BY <2>2 DEF Update, TypeOK, DataType, Rewritten
  <2> QED BY <2>1, <2>2
<1> QED
  BY <1>2, <1>4, <1>5, <1>6, <1>7, <1>8, <1>9, <1>10, <1>11, <1>12
  DEF Step, AskGateway, Reread, FulfilRead, Settle, SettleFails, PlaceOrder, OrderFails,
      CreateUnbacked, PollNext, SweepScan, SweepCredit, SweepCreditFails, SweepDone

\* Handlers do not touch the gateway; nothing it did is undone, and no order.
LEMMA StepAtGateway ==
  ASSUME NEW p \in Handlers, Request(p) \/ StartCron(p) \/ Step(p) \/ Crash(p)
  PROVE  gateway' = gateway
BY DEF outside, customer, Request, StartVerify, StartCheck, StartWebhook, StartConsume,
   StartCron, Crash, Step, AskGateway, MarkPaid, Reread, MarkFailed, MarkRefunded,
   FulfilRead, Claim, Settle, SettleFails, Unclaim, Consume, PlaceOrder, OrderFails,
   AttachReference, CreateUnbacked, PollNext, PollMark, SweepScan, SweepClaim,
   SweepCredit, SweepCreditFails, SweepDone

LEMMA GatewayGrows ==
  ASSUME TypeOK, [Next]_vars, NEW t \in Txns
  PROVE  gateway[t] \subseteq gateway'[t]
<1>1. CASE gateway' = gateway
  BY <1>1
<1>2. ASSUME NEW u \in Txns, Customer(u) PROVE gateway[t] \subseteq gateway'[t]
  BY <1>2 DEF Customer, CreateOrder, AttemptFails, Capture, RefundAtGateway, outside, customer,
     TypeOK, DataType
<1>3. ASSUME NEW u \in Txns, NEW timer \in AllTimers, Elapse(u, timer)
      PROVE  gateway' = gateway
  BY <1>3 DEF Elapse
<1> QED BY <1>1, <1>2, <1>3, StepAtGateway DEF Next, vars

LEMMA OrdersGrow ==
  ASSUME TypeOK, [Next]_vars, NEW t \in Txns
  PROVE  orders[t] <= orders'[t]
<1>1. CASE orders' = orders
  BY <1>1 DEF TypeOK, DataType
<1>2. ASSUME NEW p \in Handlers, Step(p)
      PROVE  PlaceOrder(p) \/ orders' = orders
  BY <1>2 DEF ledgers, Step, AskGateway, MarkPaid, Reread, MarkFailed, MarkRefunded,
     FulfilRead, Claim, Settle, SettleFails, Unclaim, Consume, OrderFails,
     AttachReference, CreateUnbacked, PollNext, PollMark, SweepScan, SweepClaim,
     SweepCredit, SweepCreditFails, SweepDone
<1>3. ASSUME NEW p \in Handlers, PlaceOrder(p) PROVE orders[t] <= orders'[t]
  BY <1>3 DEF PlaceOrder, TypeOK, DataType
<1>4. ASSUME NEW p \in Handlers, Request(p) \/ StartCron(p) \/ Crash(p)
      PROVE  orders' = orders
  BY <1>4 DEF ledgers, Request, StartVerify, StartCheck, StartWebhook, StartConsume,
     StartCron, Crash
<1>5. ASSUME NEW u \in Txns, Customer(u) \/ \E timer \in AllTimers : Elapse(u, timer)
      PROVE  orders' = orders
  BY <1>5 DEF ledgers, Customer, CreateOrder, AttemptFails, Capture, RefundAtGateway, Elapse
<1> QED BY <1>1, <1>2, <1>3, <1>4, <1>5 DEF Next, vars

\* Money is outstanding only after it was, but for a capture.
LEMMA OutstandingBefore ==
  ASSUME TypeOK, [Next]_vars, NEW t \in Txns, Outstanding(t)'
  PROVE  Outstanding(t) \/ "captured" \notin gateway[t]
<1>1. gateway[t] \subseteq gateway'[t] /\ orders[t] <= orders'[t] /\ orders[t] \in Nat
      /\ (Settled(t) => Settled(t)')
  BY GatewayGrows, OrdersGrow, LedgersGrow DEF TypeOK, DataType
<1> QED BY <1>1 DEF Outstanding

\* A refunded row was refunded at the gateway, and an order that no checkout has
\* consumed names at most what the client named.
CleanRow(t) ==
  /\ "refunded" \in gateway[t] => "captured" \in gateway[t]
  /\ row[t].status = "refunded" => "refunded" \in gateway[t]
  /\ row[t].purpose = "order" /\ row[t].status \notin Final
       => row[t].ref \in {"none", "named"}

CleanHandler(p) ==
  \A t \in Txns :
    Cur(p) = t =>
      /\ handler[p].pc = "markRefunded" => "refunded" \in gateway[t]
      /\ handler[p].pc = "attach" => orders[t] > 0

Clean == (\A t \in Txns : CleanRow(t)) /\ (\A p \in Handlers : CleanHandler(p))

LEMMA NextCleanRow ==
  ASSUME IInv, Clean, [Next]_vars, NEW t \in Txns
  PROVE  CleanRow(t)'
<1> USE DEF CleanRow
<1>1. /\ CleanRow(t) /\ row[t] \in Row /\ TypeOK /\ RowSound(t)
      /\ gateway[t] \subseteq gateway'[t]
  BY GatewayGrows DEF Clean, IInv, TypeOK, DataType
<1>2. ASSUME NEW p \in Handlers, Step(p) PROVE CleanRow(t)'
  <2>1. gateway' = gateway /\ Rewritten(p, t) /\ CleanHandler(p) /\ HandlerSound(p)
    BY <1>1, <1>2, StepAtGateway, StepRewrites DEF Clean, IInv
  <2>2. CASE row'[t] = row[t]
    BY <1>1, <2>1, <2>2
  <2>3. ASSUME Cur(p) = t, row'[t].purpose = row[t].purpose, row'[t].ref = row[t].ref,
               \/ MarkPaid(p) \/ PollMark(p) \/ MarkFailed(p) \/ MarkRefunded(p)
               \/ Claim(p) \/ Unclaim(p),
               row'[t].status \in {"paid", "fulfilled", "failed", row[t].status}
                 \/ handler[p].pc = "markRefunded",
               row[t].status \in Final => row'[t].status \in Final \/ Unclaim(p)
        PROVE  CleanRow(t)'
    <3>1. Unclaim(p) => row[t].purpose # "order"
      BY <2>1, <2>3 DEF Unclaim, At, HandlerSound, CreditLabels
    <3>2. row'[t].status = "refunded" => "refunded" \in gateway[t]
      BY <1>1, <2>1, <2>3 DEF CleanHandler
    <3> QED BY <1>1, <2>1, <2>3, <3>1, <3>2
  <2>4. CASE row'[t].status = "fulfilled"
    BY <1>1, <2>1, <2>4 DEF Final
  <2>5. CASE AttachReference(p) /\ Cur(p) = t /\ row'[t].status = row[t].status
    <3>1. orders[t] > 0
      BY <2>1, <2>5 DEF AttachReference, At, CleanHandler
    <3>2. row[t].status \in Final
      BY <1>1, <3>1 DEF RowSound
    <3> QED BY <1>1, <2>1, <2>5, <3>2
  <2> QED
    BY <2>1, <2>2, <2>3, <2>4, <2>5
    DEF Rewritten, Final, MarkFailed, MarkRefunded, At
<1>3. ASSUME NEW u \in Txns, Customer(u) PROVE CleanRow(t)'
  <2>1. ASSUME NEW purpose \in AllPurposes, NEW ref \in {"none", "named"},
               CreateOrder(u, purpose, ref)
        PROVE  CleanRow(t)'
    BY <1>1, <2>1 DEF CreateOrder, Update, outside, customer, IInv, TypeOK, DataType, Row
  <2>2. CASE AttemptFails(u) \/ Capture(u) \/ RefundAtGateway(u)
    BY <1>1, <2>2 DEF AttemptFails, Capture, RefundAtGateway, Captured, TypeOK, DataType
  <2> QED BY <1>3, <2>1, <2>2 DEF Customer
<1>4. CASE UNCHANGED <<row, gateway>>
  BY <1>1, <1>4
<1>5. ASSUME NEW p \in Handlers, Request(p) \/ StartCron(p) \/ Crash(p)
      PROVE  UNCHANGED <<row, gateway>>
  BY <1>5, StepAtGateway DEF Request, StartVerify, StartCheck, StartWebhook, StartConsume,
     StartCron, Crash
<1> QED BY <1>2, <1>3, <1>4, <1>5 DEF Next, vars, Elapse

\* A handler that does not move keeps what it knows.
LEMMA OthersClean ==
  ASSUME IInv, Clean, [Next]_vars, NEW q \in Handlers, handler'[q] = handler[q]
  PROVE  CleanHandler(q)'
<1> SUFFICES ASSUME NEW t \in Txns, Cur(q) = t
             PROVE  /\ handler[q].pc = "markRefunded" => "refunded" \in gateway'[t]
                    /\ handler[q].pc = "attach" => orders'[t] > 0
  BY DEF CleanHandler, Cur
<1>1. /\ gateway[t] \subseteq gateway'[t]
      /\ orders[t] <= orders'[t] /\ orders[t] \in Nat /\ orders'[t] \in Nat
  <2>1. TypeOK /\ TypeOK'
    BY NextType DEF IInv
  <2> QED BY <2>1, GatewayGrows, OrdersGrow DEF TypeOK, DataType
<1>2. CleanHandler(q)
  BY DEF Clean
<1> QED BY <1>1, <1>2 DEF CleanHandler

LEMMA StepClean ==
  ASSUME IInv, Clean, [Next]_vars, NEW p \in Handlers, Step(p)
  PROVE  CleanHandler(p)'
<1>0. HandlerType /\ gateway' = gateway
  BY StepAtGateway DEF IInv, TypeOK
<1>1. CASE handler'[p].pc \notin {"markRefunded", "attach"}
  BY <1>1 DEF CleanHandler
<1>2. CASE PlaceOrder(p)
  <2>1. handler'[p].pc = "attach" /\ handler'[p].cur = handler[p].cur
    BY <1>0, <1>2, GotoMoves DEF PlaceOrder, Labels
  <2>2. ASSUME NEW t \in Txns, Cur(p)' = t PROVE orders'[t] > 0
    BY <1>2, <2>1, <2>2 DEF PlaceOrder, Cur, IInv, TypeOK, DataType
  <2> QED BY <2>1, <2>2 DEF CleanHandler
<1> DEFINE Other == Labels \ {"markRefunded", "attach"}
<1>3. CASE Leave(p) \/ Reject(p)
  BY <1>0, <1>1, <1>3, LeaveMoves, RejectMoves
<1>4. ASSUME NEW t \in handler[p].list, NEW label \in {"ask", "sweepCredit"},
             TakeUp(p, t, label)
      PROVE  CleanHandler(p)'
  BY <1>0, <1>1, <1>4, TakeUpMoves DEF Labels
<1>5. CASE handler' = [handler EXCEPT ![p] = Idle]
  BY <1>0, <1>1, <1>5 DEF HandlerType, Idle
<1>6. CASE SweepScan(p) \/ (\E t : At(p, "sweep") /\ Skip(p, t))
  BY <1>0, <1>1, <1>6, EnumerateMoves, SkipMoves DEF SweepScan, Labels, At
<1>7. ASSUME NEW label \in Other, Goto(p, label) PROVE CleanHandler(p)'
  BY <1>0, <1>1, <1>7, GotoMoves
<1>8. \/ PlaceOrder(p)
      \/ \E label \in Other : Goto(p, label)
      \/ Leave(p) \/ Reject(p)
      \/ \E t \in handler[p].list, label \in {"ask", "sweepCredit"} : TakeUp(p, t, label)
      \/ handler' = [handler EXCEPT ![p] = Idle]
      \/ SweepScan(p) \/ (\E t : At(p, "sweep") /\ Skip(p, t))
  <2>1. CASE MarkPaid(p) \/ Consume(p) \/ Reread(p) \/ FulfilRead(p) \/ AskGateway(p)
    BY <2>1 DEF MarkPaid, Consume, Reread, FulfilRead, AskGateway, Labels
  <2>2. CASE MarkFailed(p) \/ MarkRefunded(p) \/ Claim(p) \/ Settle(p)
    BY <2>2 DEF MarkFailed, MarkRefunded, Claim, Settle, Labels
  <2>3. CASE SettleFails(p) \/ Unclaim(p) \/ OrderFails(p) \/ AttachReference(p)
    BY <2>3 DEF SettleFails, Unclaim, OrderFails, AttachReference, Labels
  <2>4. CASE CreateUnbacked(p) \/ PollNext(p) \/ PollMark(p) \/ SweepDone(p)
    BY <2>4 DEF CreateUnbacked, PollNext, PollMark, SweepDone, Labels
  <2>5. CASE SweepClaim(p) \/ SweepCredit(p) \/ SweepCreditFails(p)
    BY <2>5 DEF SweepClaim, SweepCredit, SweepCreditFails, Labels
  <2> QED BY <2>1, <2>2, <2>3, <2>4, <2>5 DEF Step
<1> HIDE DEF Other
<1> QED BY <1>2, <1>3, <1>4, <1>5, <1>6, <1>7, <1>8

LEMMA RequestClean ==
  ASSUME IInv, Clean, [Next]_vars, NEW p \in Handlers, Request(p) \/ StartCron(p)
  PROVE  CleanHandler(p)'
<1>0. HandlerType /\ gateway' = gateway
  BY StepAtGateway DEF IInv, TypeOK
<1>1. CASE handler'[p].pc \notin {"markRefunded", "attach"}
  BY <1>1 DEF CleanHandler
<1>2. CASE StartCron(p)
  BY <1>0, <1>1, <1>2, EnumerateMoves DEF StartCron, Labels
<1>3. ASSUME NEW t \in Txns, NEW o, NEW label, Start(p, o, t, label)
      PROVE  handler'[p].pc = label /\ handler'[p].cur = t
  BY <1>0, <1>3 DEF Start, HandlerType
<1>4. ASSUME NEW t \in Txns,
             \/ StartVerify(p, t) \/ StartCheck(p, t)
             \/ \E o \in {"checkout", "subscribe"} : StartConsume(p, o, t)
      PROVE  CleanHandler(p)'
  <2> PICK o \in AllOps,
           label \in {"markPaid", "markFailed", "read", "ask", "consume", "create"} :
        Start(p, o, t, label)
    BY <1>4 DEF StartVerify, StartCheck, StartConsume, Verdict, AllOps
  <2> QED BY <1>1, <1>3
<1>5. ASSUME NEW t \in Txns, NEW kind \in EventKinds, StartWebhook(p, t, kind)
      PROVE  CleanHandler(p)'
  <2>1. PICK label \in {"markPaid", "markFailed", "markRefunded"} :
        /\ Start(p, "webhook", t, label)
        /\ label = "markRefunded" => "refunded" \in gateway[t]
    BY <1>5 DEF StartWebhook, Emitted, EventKinds
  <2> QED BY <1>0, <1>3, <2>1 DEF CleanHandler, Cur
<1> QED BY <1>2, <1>4, <1>5 DEF Request

\* Only one handler moves in a step.
LEMMA OthersStay ==
  ASSUME IInv, HandlersInv, NEW p \in Handlers, [Next]_vars,
         Request(p) \/ StartCron(p) \/ Step(p) \/ Crash(p)
  PROVE  \A q \in Handlers \ {p} : handler'[q] = handler[q]
<1>1. CASE Crash(p)
  BY <1>1 DEF Crash, IInv, TypeOK, HandlerType
<1> QED BY <1>1, BuyingRelies, SweepRelies, IdlyRelies, RequestRelies

LEMMA NextClean ==
  IInv /\ HandlersInv /\ Clean /\ [Next]_vars => Clean'
<1> SUFFICES ASSUME IInv, HandlersInv, Clean, [Next]_vars,
                    NEW q \in Handlers
             PROVE  CleanHandler(q)'
  BY NextCleanRow DEF Clean
<1>1. ASSUME NEW p \in Handlers, Request(p) \/ StartCron(p) \/ Step(p)
      PROVE  CleanHandler(q)'
  BY <1>1, StepClean, RequestClean, OthersClean, OthersStay
<1>2. ASSUME NEW p \in Handlers, Crash(p) PROVE CleanHandler(q)'
  <2>1. handler'[p] = Idle
    BY <1>2 DEF Crash, IInv, TypeOK, HandlerType
  <2>2. CleanHandler(p)'
    BY <2>1 DEF CleanHandler, Idle
  <2> QED BY <1>2, <2>2, OthersClean, OthersStay
<1>3. CASE handler' = handler
  BY <1>3, OthersClean
<1> QED
  BY <1>1, <1>2, <1>3
  DEF Next, vars, Customer, CreateOrder, AttemptFails, Capture, RefundAtGateway, Elapse

LEMMA InitClean == Init => HandlersInv /\ Clean
BY DEF Init, HandlersInv, SweepsOld, BuysOrders, Idle, Buying, Clean, CleanRow,
   CleanHandler, Cur

LEMMA AllClean == Spec => [](IInv /\ HandlersInv /\ Clean)
<1>1. IInv /\ HandlersInv /\ Clean /\ [Next]_vars
        => (IInv /\ HandlersInv /\ Clean)'
  BY NextInv, NextRelies, NextClean
<1> QED BY <1>1, InitInv, InitClean, PTL DEF Spec

\* The money of an order: no statement takes it out of sight but a failure.
Found(t) == InSight(t) \/ row[t].status = "failed"

LEMMA NextInSight ==
  ASSUME IInv, Clean, [Next]_vars, OrdersInSight
  PROVE  OrdersInSight'
<1> SUFFICES ASSUME NEW t \in Txns, Outstanding(t)',
                    row'[t].purpose = "order", row'[t].ref # "named"
             PROVE  Found(t)'
  BY DEF OrdersInSight, Found
<1>1. /\ TypeOK /\ RowSound(t) /\ CleanRow(t) /\ CleanRow(t)' /\ row[t] \in Row
      /\ gateway[t] \subseteq gateway'[t]
  BY GatewayGrows, NextCleanRow DEF Clean, IInv, TypeOK, DataType
<1>2. CASE "captured" \notin gateway[t]
  <2>1. row[t].status \in {"absent", "created", "failed"}
    BY <1>1, <1>2 DEF RowSound, CleanRow, Row, Statuses
  <2>2. "captured" \in gateway'[t]
    BY DEF Outstanding
  <2>3. PICK u \in Txns : Customer(u)
    BY <1>2, <2>2, StepAtGateway DEF Next, vars, Elapse
  <2>4. row'[t].status \notin {"paid", "fulfilled", "refunded"}
    BY <1>1, <2>1, <2>3, OtherWrites
  <2>5. row'[t].status # "absent"
    <3>1. gateway' # gateway
      BY <1>2, <2>2
    <3>2. AttemptFails(u) \/ Capture(u) \/ RefundAtGateway(u)
      BY <2>3, <3>1 DEF Customer, CreateOrder, outside, customer
    <3>3. u = t /\ Capture(t)
      BY <1>1, <1>2, <2>2, <3>2 DEF AttemptFails, Capture, RefundAtGateway, TypeOK, DataType
    <3> QED BY <3>3 DEF Capture
  <2>6. row'[t] \in Row
    BY NextType DEF IInv, TypeOK, DataType
  <2> QED BY <2>4, <2>5, <2>6 DEF Found, InSight, Row, Statuses
<1>3. CASE Outstanding(t)
  <2>1. ASSUME NEW p \in Handlers, Step(p) PROVE Found(t)'
    <3>1. /\ Rewritten(p, t) /\ CleanHandler(p) /\ HandlerSound(p)
          /\ "refunded" \notin gateway[t] /\ orders[t] = 0
      BY <1>1, <1>3, <2>1, StepRewrites DEF Clean, IInv, Outstanding
    <3>2. CASE row'[t] = row[t]
      BY <1>3, <3>2 DEF OrdersInSight, Found, InSight
    <3>3. CASE /\ Cur(p) = t /\ row'[t].purpose = row[t].purpose /\ row'[t].ref = row[t].ref
               /\ MarkPaid(p) \/ PollMark(p)
               /\ row'[t].status = IF row[t].status \in Final THEN row[t].status ELSE "paid"
      <4>1. Found(t) /\ row[t].purpose = "order" /\ row[t].ref # "named"
        BY <1>3, <3>3 DEF OrdersInSight, Found
      <4> QED BY <1>1, <3>3, <4>1 DEF Found, InSight, Sweepable, CleanRow, Final
    <3>4. CASE Cur(p) = t /\ MarkRefunded(p)
      BY <3>1, <3>4 DEF MarkRefunded, At, CleanHandler
    <3>8. CASE /\ Cur(p) = t /\ row'[t].purpose = row[t].purpose /\ row'[t].ref = row[t].ref
               /\ row'[t].status = IF row[t].status \in Final THEN row[t].status ELSE "failed"
      <4>1. Found(t)
        BY <1>3, <3>8 DEF OrdersInSight, Found
      <4> QED BY <3>8, <4>1 DEF Found, InSight, Sweepable, Final
    <3>5. CASE Cur(p) = t /\ (Claim(p) \/ Unclaim(p)) /\ row'[t].purpose = row[t].purpose
      BY <3>1, <3>5 DEF Claim, Unclaim, At, HandlerSound, CreditLabels
    <3>6. CASE row'[t].status = "fulfilled" /\ row'[t].ref = "pending"
      BY <3>6 DEF Found, InSight, Sweepable
    <3>7. CASE AttachReference(p) /\ Cur(p) = t
      BY <3>1, <3>7, <1>1 DEF AttachReference, At, CleanHandler, TypeOK, DataType
    <3> QED
      BY <3>1, <3>2, <3>3, <3>4, <3>5, <3>6, <3>7, <3>8 DEF Rewritten, Swept
  <2>2. CASE ~\E p \in Handlers : Step(p)
    <3>1. row[t].status # "absent"
      BY <1>1, <1>3 DEF RowSound, Outstanding
    <3>2. row'[t] = row[t]
      BY <1>1, <2>2, <3>1, OtherWrites DEF Next
    <3> QED BY <1>3, <3>2 DEF OrdersInSight, Found, InSight
  <2> QED BY <2>1, <2>2
<1> QED BY <1>1, <1>2, <1>3, OutstandingBefore

\* The captured money of an order that named no reference stays where the poll
\* or the sweep asks for it, however many settlements fail and processes die,
\* unless its row says that an attempt failed.
THEOREM OrdersStayInSight == Spec => []OrdersInSight
<1>1. Init => OrdersInSight
  BY DEF Init, OrdersInSight, Outstanding
<1>2. IInv /\ Clean /\ OrdersInSight /\ [Next]_vars => OrdersInSight'
  BY NextInSight
<1> QED BY <1>1, <1>2, AllClean, PTL DEF Spec

\* The handlers that are on their way to settle a top-up or a bill, by the
\* status of its row.
Kept(t) ==
  \/ row[t].status = "created"
  \/ /\ row[t].status = "paid"
     /\ \E p \in Handlers : Cur(p) = t /\ handler[p].pc \in {"reread", "read", "claim"}
  \/ /\ row[t].status = "fulfilled"
     /\ \E p \in Handlers : Cur(p) = t /\ handler[p].pc \in {"settle", "sweepCredit"}

Topup(t) == row[t].purpose \in {"wallet_topup", "bill"}

TopupsKept ==
  crashes = 0 =>
    \A t \in Txns \ failures :
      Outstanding(t) /\ Topup(t) => Kept(t) \/ row[t].status = "failed"

\* A claim is given back only where a settlement failed, and but for that a
\* checkout finds a top-up of its own only when a sweep has closed it.
Unreleased ==
  \A p \in Handlers : \A t \in Txns \ failures :
    Cur(p) = t =>
      /\ handler[p].pc # "unclaim"
      /\ Topup(t) /\ handler[p].op \in Buying /\ handler[p].pc # "create"
           => row[t].status \in Final

\* Failures are not forgotten.
LEMMA FailuresGrow ==
  ASSUME [Next]_vars
  PROVE  failures \subseteq failures'
<1>1. ASSUME NEW p \in Handlers, Request(p) \/ StartCron(p) \/ Step(p) \/ Crash(p)
      PROVE  failures \subseteq failures'
  BY <1>1 DEF outside, Request, StartVerify, StartCheck, StartWebhook, StartConsume,
     StartCron, Crash, Step, AskGateway, MarkPaid, Reread, MarkFailed, MarkRefunded,
     FulfilRead, Claim, Settle, SettleFails, Unclaim, Consume, PlaceOrder, OrderFails,
     AttachReference, CreateUnbacked, PollNext, PollMark, SweepScan, SweepClaim,
     SweepCredit, SweepCreditFails, SweepDone
<1>2. ASSUME NEW t \in Txns, Customer(t) \/ \E timer \in AllTimers : Elapse(t, timer)
      PROVE  failures' = failures
  BY <1>2 DEF outside, Customer, CreateOrder, AttemptFails, Capture, RefundAtGateway, Elapse
<1> QED BY <1>1, <1>2 DEF Next, vars

LEMMA NextFinal ==
  ASSUME TypeOK, Unreleased, [Next]_vars, NEW t \in Txns \ failures,
         row[t].status \in Final
  PROVE  row'[t].status \in Final
<1>1. ASSUME NEW p \in Handlers, Step(p) PROVE row'[t].status \in Final
  <2>1. Rewritten(p, t) /\ ~(Cur(p) = t /\ Unclaim(p))
    BY <1>1, StepRewrites DEF Unreleased, Unclaim, At
  <2> QED BY <2>1 DEF Rewritten, Final
<1> QED BY <1>1, OtherWrites DEF Next, Final

\* A request of a checkout goes on with its row, or stops buying.
LEMMA BuyerMoves ==
  ASSUME IInv, HandlersInv, NEW p \in Handlers, Step(p),
         handler'[p].op \in Buying, handler'[p].pc # "create"
  PROVE  /\ handler[p].op \in Buying /\ handler[p].pc # "create"
         /\ Cur(p)' = Cur(p)
<1>0. HandlerType /\ BuysOrders(p)
  BY DEF IInv, TypeOK, HandlersInv
<1>1. CASE Leave(p) \/ Reject(p)
  BY <1>0, <1>1, LeaveMoves, RejectMoves DEF Buying
<1>2. ASSUME NEW label \in {"consume", "order", "attach"}, Goto(p, label),
             handler[p].pc # "create"
      PROVE  /\ handler'[p].op = handler[p].op /\ Cur(p)' = Cur(p)
  BY <1>0, <1>2, GotoMoves DEF Cur, Labels
<1>3. CASE handler[p].op \in Buying
  <2>1. \/ \E label \in {"consume", "order", "attach"} :
             Goto(p, label) /\ handler[p].pc # "create"
        \/ Reject(p) \/ Leave(p)
    BY <1>0, <1>3 DEF BuysOrders, Buying, At, Step, AskGateway, MarkPaid, Reread,
       MarkFailed, MarkRefunded, FulfilRead, Claim, Settle, SettleFails, Unclaim, Consume,
       PlaceOrder, OrderFails, AttachReference, CreateUnbacked, PollNext, PollMark,
       SweepScan, SweepClaim, SweepCredit, SweepCreditFails, SweepDone
  <2> QED BY <1>1, <1>2, <1>3, <2>1
<1>4. CASE handler[p].op \notin Buying
  <2>1. handler'[p].op \in {handler[p].op, "cron"}
    <3>1. \/ \E label \in Labels : Goto(p, label)
          \/ Leave(p) \/ Reject(p)
          \/ \E t \in handler[p].list, label \in Labels : TakeUp(p, t, label)
          \/ handler' = [handler EXCEPT ![p] = Idle]
          \/ \E label \in Labels : \E set : Enumerate(p, label, set)
          \/ \E t : Skip(p, t)
      <4>1. CASE MarkPaid(p) \/ Consume(p) \/ Reread(p) \/ FulfilRead(p) \/ AskGateway(p)
        BY <4>1 DEF MarkPaid, Consume, Reread, FulfilRead, AskGateway, Labels
      <4>2. CASE MarkFailed(p) \/ MarkRefunded(p) \/ Claim(p) \/ Settle(p)
        BY <4>2 DEF MarkFailed, MarkRefunded, Claim, Settle, Labels
      <4>3. CASE SettleFails(p) \/ Unclaim(p) \/ OrderFails(p) \/ AttachReference(p)
        BY <4>3 DEF SettleFails, Unclaim, OrderFails, AttachReference, Labels
      <4>4. CASE CreateUnbacked(p) \/ PollNext(p) \/ PollMark(p) \/ SweepDone(p) \/ PlaceOrder(p)
        BY <4>4 DEF CreateUnbacked, PollNext, PollMark, SweepDone, PlaceOrder, Labels
      <4>5. CASE SweepClaim(p) \/ SweepCredit(p) \/ SweepCreditFails(p) \/ SweepScan(p)
        BY <4>5 DEF SweepClaim, SweepCredit, SweepCreditFails, SweepScan, Labels
      <4> QED BY <4>1, <4>2, <4>3, <4>4, <4>5 DEF Step
    <3> QED
      BY <1>0, <3>1, GotoMoves, LeaveMoves, RejectMoves, TakeUpMoves, EnumerateMoves,
         SkipMoves DEF HandlerType, Idle
  <2> QED BY <1>4, <2>1 DEF Buying
<1> QED BY <1>3, <1>4

\* Only a failed settlement leads to the statement that gives a claim back.
LEMMA SettleOnly ==
  ASSUME HandlerType, NEW p \in Handlers, Step(p), ~SettleFails(p)
  PROVE  handler'[p].pc # "unclaim"
<1> DEFINE Other == Labels \ {"unclaim"}
<1>1. ASSUME NEW label \in Other, Goto(p, label) PROVE handler'[p].pc # "unclaim"
  BY <1>1, GotoMoves
<1>2. CASE Leave(p) \/ Reject(p)
  BY <1>2, LeaveMoves, RejectMoves
<1>3. ASSUME NEW t \in handler[p].list, NEW label \in Other, TakeUp(p, t, label)
      PROVE  handler'[p].pc # "unclaim"
  BY <1>3, TakeUpMoves
<1>4. CASE handler' = [handler EXCEPT ![p] = Idle]
  BY <1>4 DEF HandlerType, Idle
<1>5. CASE SweepScan(p) \/ (\E t : At(p, "sweep") /\ Skip(p, t))
  BY <1>5, EnumerateMoves, SkipMoves DEF SweepScan, Labels, At
<1>6. \/ \E label \in Other : Goto(p, label)
      \/ Leave(p) \/ Reject(p)
      \/ \E t \in handler[p].list, label \in Other : TakeUp(p, t, label)
      \/ handler' = [handler EXCEPT ![p] = Idle]
      \/ SweepScan(p) \/ (\E t : At(p, "sweep") /\ Skip(p, t))
  <2>1. CASE MarkPaid(p) \/ Consume(p) \/ Reread(p) \/ FulfilRead(p) \/ AskGateway(p)
    BY <2>1 DEF MarkPaid, Consume, Reread, FulfilRead, AskGateway, Labels
  <2>2. CASE MarkFailed(p) \/ MarkRefunded(p) \/ Claim(p) \/ Settle(p)
    BY <2>2 DEF MarkFailed, MarkRefunded, Claim, Settle, Labels
  <2>3. CASE Unclaim(p) \/ OrderFails(p) \/ AttachReference(p) \/ PlaceOrder(p)
    BY <2>3 DEF Unclaim, OrderFails, AttachReference, PlaceOrder, Labels
  <2>4. CASE CreateUnbacked(p) \/ PollNext(p) \/ PollMark(p) \/ SweepDone(p)
    BY <2>4 DEF CreateUnbacked, PollNext, PollMark, SweepDone, Labels
  <2>5. CASE SweepClaim(p) \/ SweepCredit(p) \/ SweepCreditFails(p)
    BY <2>5 DEF SweepClaim, SweepCredit, SweepCreditFails, Labels
  <2> QED BY <2>1, <2>2, <2>3, <2>4, <2>5 DEF Step
<1> HIDE DEF Other
<1> QED BY <1>1, <1>2, <1>3, <1>4, <1>5, <1>6

\* A request starts on a row that is neither a top-up nor a bill, if it buys.
LEMMA StartsFresh ==
  ASSUME IInv, HandlersInv, NEW p \in Handlers, Request(p) \/ StartCron(p)
  PROVE  /\ handler'[p].pc # "unclaim"
         /\ handler'[p].op \in Buying /\ handler'[p].pc # "create"
              => ~Topup(Cur(p))'
<1>0. HandlerType
  BY DEF IInv, TypeOK
<1>1. ASSUME NEW t \in Txns, NEW o, NEW label, Start(p, o, t, label)
      PROVE  handler'[p].pc = label /\ handler'[p].op = o /\ handler'[p].cur = t
  BY <1>0, <1>1 DEF Start, HandlerType
<1>2. CASE StartCron(p)
  <2>1. handler[p].op \notin Buying
    BY <1>2 DEF StartCron, At, HandlersInv, BuysOrders
  <2> QED BY <1>0, <1>2, <2>1, EnumerateMoves DEF StartCron, Labels
<1>3. ASSUME NEW t \in Txns,
             StartVerify(p, t) \/ StartCheck(p, t)
             \/ \E kind \in EventKinds : StartWebhook(p, t, kind)
      PROVE  handler'[p].pc # "unclaim" /\ handler'[p].op \notin Buying
  <2> PICK o \in {"verify", "check", "webhook"},
           label \in {"markPaid", "markFailed", "markRefunded", "read", "ask"} :
        Start(p, o, t, label)
    BY <1>3 DEF StartVerify, StartCheck, StartWebhook, Verdict
  <2> QED BY <1>1 DEF Buying
<1>4. ASSUME NEW t \in Txns, NEW o \in Buying, StartConsume(p, o, t)
      PROVE  /\ handler'[p].pc # "unclaim"
             /\ handler'[p].pc # "create" => ~Topup(Cur(p))'
  <2> PICK label \in {"consume", "markPaid", "markFailed", "create"} :
        /\ Start(p, o, t, label)
        /\ label # "create" => row[t].purpose \in {"order", "subscription"}
    BY <1>4 DEF StartConsume, Verdict
  <2>1. row' = row
    BY <1>4 DEF StartConsume
  <2>2. handler'[p].pc = label /\ Cur(p)' = t
    BY <1>1 DEF Cur
  <2> QED BY <2>1, <2>2 DEF Topup
<1> QED BY <1>2, <1>3, <1>4 DEF Request, Buying

LEMMA NextUnreleased ==
  ASSUME IInv, HandlersInv, Unreleased, [Next]_vars
  PROVE  Unreleased'
<1> SUFFICES ASSUME NEW q \in Handlers, NEW t \in Txns \ failures', Cur(q)' = t
             PROVE  /\ handler'[q].pc # "unclaim"
                    /\ Topup(t)' /\ handler'[q].op \in Buying /\ handler'[q].pc # "create"
                         => row'[t].status \in Final
  BY DEF Unreleased
<1>0. /\ HandlerType /\ TypeOK
      /\ t \in Txns \ failures
  BY FailuresGrow DEF IInv, TypeOK
<1>1. Topup(t)' /\ ~Topup(t) => row'[t].status \in Final \/ row[t].status = "absent"
  <2> SUFFICES ASSUME Topup(t)', ~Topup(t)
               PROVE  row'[t].status \in Final \/ row[t].status = "absent"
    OBVIOUS
  <2>1. ASSUME NEW p \in Handlers, Step(p) PROVE row'[t].status \in Final
    BY <1>0, <2>1, StepRewrites DEF Rewritten, Topup, Final
  <2> QED BY <1>0, <2>1, OtherWrites DEF Next, Topup
<1>2. ASSUME Cur(q) = t, Topup(t)', handler[q].op \in Buying, handler[q].pc # "create"
      PROVE  row'[t].status \in Final
  <2>1. row[t].status # "absent"
    BY <1>0, <1>2 DEF IInv, HandlerSound
  <2> QED BY <1>0, <1>1, <1>2, <2>1, NextFinal DEF Unreleased
<1>3. CASE handler'[q] = handler[q]
  BY <1>0, <1>2, <1>3 DEF Unreleased, Cur
<1>4. CASE Step(q)
  <2>1. handler'[q].pc # "unclaim"
    <3>1. CASE SettleFails(q)
      <4>1. Cur(q)' = Cur(q) /\ Cur(q) \in failures'
        BY <1>0, <3>1, GotoMoves DEF SettleFails, Cur, Labels
      <4> QED BY <4>1
    <3>2. CASE ~SettleFails(q)
      BY <1>0, <1>4, <3>2, SettleOnly
    <3> QED BY <3>1, <3>2
  <2> QED BY <1>2, <1>4, <2>1, BuyerMoves
<1>5. CASE Request(q) \/ StartCron(q)
  <2> QED BY <1>0, <1>5, StartsFresh
<1>6. CASE Crash(q)
  BY <1>0, <1>6 DEF Crash, Idle, HandlerType, Buying
<1>7. ASSUME NEW p \in Handlers \ {q}, Request(p) \/ StartCron(p) \/ Step(p) \/ Crash(p)
      PROVE  handler'[q] = handler[q]
  BY <1>7, OthersStay
<1> QED
  BY <1>3, <1>4, <1>5, <1>6, <1>7
  DEF Next, vars, Customer, CreateOrder, AttemptFails, Capture, RefundAtGateway, Elapse

\* A statement keeps the row in the hands of whoever is to settle it.
LEMMA StepKeeps ==
  ASSUME IInv, HandlersInv, Clean, Unreleased, [Next]_vars,
         NEW p \in Handlers, Step(p), NEW t \in Txns \ failures',
         Outstanding(t), Topup(t), Kept(t) \/ row[t].status = "failed",
         Outstanding(t)', Topup(t)', row'[t].status # "failed"
  PROVE  Kept(t)'
<1>1. /\ TypeOK /\ HandlerType /\ Rewritten(p, t)
      /\ CleanHandler(p) /\ HandlerSound(p) /\ BuysOrders(p)
      /\ "refunded" \notin gateway[t]
      /\ row[t].purpose \in {"wallet_topup", "bill"}
      /\ t \in Txns \ failures
  BY StepRewrites, FailuresGrow DEF IInv, TypeOK, Clean, HandlersInv, Outstanding, Topup
<1>2. ~(Cur(p) = t /\ \/ MarkRefunded(p) \/ Unclaim(p)
                      \/ SettleFails(p) \/ SweepCreditFails(p))
  BY <1>1 DEF MarkRefunded, Unclaim, SettleFails, SweepCreditFails, At, CleanHandler,
     Unreleased
<1>3. ~Swept(p, t)
  BY <1>1 DEF Swept, Sweepable
<1>4. \A q \in Handlers \ {p} : handler'[q] = handler[q]
  BY OthersStay
<1>5. Cur(p) = t /\ handler[p].op \in Buying /\ handler[p].pc # "create"
        => row[t].status \in Final
  BY <1>1 DEF Unreleased
<1>6. ASSUME NEW label \in {"read", "reread", "claim", "settle"}, Goto(p, label),
             Cur(p) = t
      PROVE  Cur(p)' = t /\ handler'[p].pc = label
  BY <1>1, <1>6, GotoMoves DEF Cur, Labels
<1>7. CASE row[t].status \in {"created", "failed"}
  <2>1. CASE row'[t].status = "created"
    BY <2>1 DEF Kept
  <2>2. CASE Cur(p) = t /\ MarkPaid(p) /\ row'[t].status = "paid"
    <3>1. handler[p].op \notin Buying
      BY <1>5, <1>7, <2>2 DEF MarkPaid, At, Final
    <3>2. \E label \in {"read", "reread"} : Goto(p, label)
      BY <1>1, <2>2, <3>1 DEF MarkPaid, Buying
    <3> QED BY <1>6, <2>2, <3>2 DEF Kept
  <2>3. CASE Cur(p) = t /\ PollMark(p) /\ row'[t].status = "paid"
    <3>1. row[t].status = "created"
      BY <1>7, <2>3 DEF PollMark
    <3>2. Goto(p, "read")
      BY <1>1, <2>3, <3>1 DEF PollMark, AwaitsCheckout
    <3> QED BY <1>6, <2>3, <3>2 DEF Kept
  <2> QED BY <1>1, <1>2, <1>3, <1>7, <2>1, <2>2, <2>3 DEF Rewritten, Final
<1>8. ASSUME row[t].status = "paid", NEW q \in Handlers, Cur(q) = t,
             handler[q].pc \in {"reread", "read", "claim"}
      PROVE  Kept(t)'
  <2>1. ~(Cur(p) = t /\ Consume(p))
    BY <1>1, <1>5, <1>8 DEF Consume, At, BuysOrders, Final
  <2>2. CASE Cur(p) = t /\ Claim(p)
    <3>1. Goto(p, "settle") /\ row'[t].status = "fulfilled"
      BY <1>1, <1>8, <2>2, ClaimFacts DEF Claim, Update, TypeOK, DataType
    <3> QED BY <1>6, <2>2, <3>1 DEF Kept
  <2>3. CASE ~(Cur(p) = t /\ Claim(p))
    <3>1. row'[t].status = "paid"
      BY <1>1, <1>2, <1>3, <1>8, <2>1, <2>3 DEF Rewritten, Final
    <3>2. CASE q # p
      BY <1>4, <1>8, <3>1, <3>2 DEF Kept, Cur
    <3>3. CASE q = p
      <4>1. \E label \in {"read", "claim"} : Goto(p, label)
        BY <1>1, <1>8, <2>3, <3>3 DEF At, Cur, AwaitsCheckout, Step, AskGateway, MarkPaid,
           Reread, MarkFailed, MarkRefunded, FulfilRead, Claim, Settle, SettleFails,
           Unclaim, Consume, PlaceOrder, OrderFails, AttachReference, CreateUnbacked,
           PollNext, PollMark, SweepScan, SweepClaim, SweepCredit, SweepCreditFails,
           SweepDone
      <4> QED BY <1>6, <1>8, <3>1, <3>3, <4>1 DEF Kept
    <3> QED BY <3>2, <3>3
  <2> QED BY <2>2, <2>3
<1>9. ASSUME row[t].status = "fulfilled", NEW q \in Handlers, Cur(q) = t,
             handler[q].pc \in {"settle", "sweepCredit"}
      PROVE  Kept(t)'
  <2>1. row'[t].status = "fulfilled"
    BY <1>1, <1>2, <1>3, <1>9 DEF Rewritten, Final
  <2>2. CASE q # p
    BY <1>4, <1>9, <2>1, <2>2 DEF Kept, Cur
  <2>3. CASE q = p
    <3>1. Settle(p) \/ SweepCredit(p)
      BY <1>2, <1>9, <2>3 DEF At, Cur, Step, AskGateway, MarkPaid,
         Reread, MarkFailed, MarkRefunded, FulfilRead, Claim, SettleFails,
         Unclaim, Consume, PlaceOrder, OrderFails, AttachReference, CreateUnbacked,
         PollNext, PollMark, SweepScan, SweepClaim, SweepCreditFails,
         SweepDone
    <3>2. Settled(t)'
      BY <1>1, <1>9, <2>3, <3>1 DEF Settle, SweepCredit, Settled, TypeOK, DataType
    <3> QED BY <3>2 DEF Outstanding
  <2> QED BY <2>2, <2>3
<1>10. Kept(t) \/ row[t].status = "failed"
  OBVIOUS
<1> QED BY <1>7, <1>8, <1>9, <1>10 DEF Kept

LEMMA NextKept ==
  ASSUME IInv, HandlersInv, Clean, Unreleased, TopupsKept, [Next]_vars
  PROVE  TopupsKept'
<1> SUFFICES ASSUME crashes' = 0, NEW t \in Txns \ failures', Outstanding(t)', Topup(t)',
                    row'[t].status # "failed"
             PROVE  Kept(t)'
  BY DEF TopupsKept
<1>1. /\ TypeOK /\ RowSound(t) /\ CleanRow(t) /\ row[t] \in Row
      /\ gateway[t] \subseteq gateway'[t] /\ t \in Txns \ failures
  BY GatewayGrows, FailuresGrow DEF Clean, IInv, TypeOK, DataType
<1>2. ASSUME NEW p \in Handlers, Step(p) PROVE Kept(t)'
  <2>1. gateway' = gateway /\ crashes' = crashes /\ Rewritten(p, t)
    BY <1>1, <1>2, StepAtGateway, StepRewrites DEF outside, customer, Step, AskGateway, MarkPaid,
       Reread, MarkFailed, MarkRefunded, FulfilRead, Claim, Settle, SettleFails, Unclaim,
       Consume, PlaceOrder, OrderFails, AttachReference, CreateUnbacked, PollNext,
       PollMark, SweepScan, SweepClaim, SweepCredit, SweepCreditFails, SweepDone
  <2>2. Outstanding(t)
    BY <1>1, <2>1, OutstandingBefore DEF Outstanding
  <2>3. CASE Topup(t)
    <3>1. Kept(t) \/ row[t].status = "failed"
      BY <1>1, <2>1, <2>2, <2>3 DEF TopupsKept
    <3> QED BY <1>2, <2>2, <2>3, <3>1, StepKeeps
  <2>4. CASE ~Topup(t)
    BY <2>1, <2>4 DEF Rewritten, Topup, Kept
  <2> QED BY <2>3, <2>4
<1>3. ASSUME \/ \E u \in Txns : Customer(u) \/ \E timer \in AllTimers : Elapse(u, timer)
             \/ \E p \in Handlers : Request(p) \/ StartCron(p)
             \/ UNCHANGED vars
      PROVE  Kept(t)'
  <2>1. CASE row[t].status = "absent" /\ row'[t].status = "created"
    BY <2>1 DEF Kept
  <2>2. CASE row'[t] = row[t] /\ "captured" \notin gateway[t]
    <3>1. row[t].status \in {"absent", "created", "failed"}
      BY <1>1, <2>2 DEF RowSound, CleanRow, Row, Statuses
    <3>2. "captured" \in gateway'[t]
      BY DEF Outstanding
    <3>3. PICK u \in Txns : Customer(u)
      BY <1>3, <2>2, <3>2, StepAtGateway DEF vars, Elapse
    <3>4. gateway' # gateway
      BY <2>2, <3>2
    <3>5. AttemptFails(u) \/ Capture(u) \/ RefundAtGateway(u)
      BY <3>3, <3>4 DEF Customer, CreateOrder, outside, customer
    <3>6. row[t].status # "absent"
      BY <1>1, <2>2, <3>2, <3>5 DEF AttemptFails, Capture, RefundAtGateway, TypeOK, DataType
    <3> QED BY <2>2, <3>1, <3>6 DEF Kept
  <2>3. CASE row'[t] = row[t] /\ Outstanding(t)
    <3>1. crashes = 0
      BY <1>3 DEF outside, customer, vars, Customer, CreateOrder, AttemptFails, Capture,
         RefundAtGateway, Elapse, Request, StartVerify, StartCheck, StartWebhook,
         StartConsume, StartCron
    <3>2. Kept(t)
      BY <1>1, <2>3, <3>1 DEF TopupsKept, Topup
    <3>3. ASSUME NEW q \in Handlers, ~At(q, "idle") PROVE handler'[q] = handler[q]
      BY <1>3, <3>3, RequestRelies DEF vars, Customer, CreateOrder, AttemptFails, Capture,
         RefundAtGateway, Elapse
    <3> QED BY <2>3, <3>2, <3>3 DEF Kept, At, Cur
  <2>4. \/ row'[t] = row[t]
        \/ row[t].status = "absent" /\ row'[t].status = "created"
    BY <1>1, <1>3, OtherWrites
  <2> QED BY <1>1, <2>1, <2>2, <2>3, <2>4, OutstandingBefore
<1>4. ASSUME NEW p \in Handlers, Crash(p) PROVE FALSE
  BY <1>1, <1>4 DEF Crash, TypeOK, DataType
<1> QED BY <1>2, <1>3, <1>4 DEF Next

\* Captured money, of a top-up or a bill too, never lies where neither the
\* queries of the cron nor a live handler look for it, but through an attempt or
\* a settlement that failed or a process that died.
THEOREM NothingIsStranded == Spec => []NothingStranded
<1>1. Init => Unreleased /\ TopupsKept
  BY DEF Init, Unreleased, TopupsKept, Outstanding, Idle, Buying
<1>2. IInv /\ HandlersInv /\ Clean /\ Unreleased /\ TopupsKept /\ [Next]_vars
        => Unreleased' /\ TopupsKept'
  BY NextUnreleased, NextKept
<1>3. OrdersInSight /\ TopupsKept => NothingStranded
  BY DEF NothingStranded, TopupsInSight, TopupsKept, Topup, Kept, InSight, InHand
<1> QED BY <1>1, <1>2, <1>3, AllClean, OrdersStayInSight, PTL DEF Spec

-----------------------------------------------------------------------------
(* The payments implement Settlement.                                      *)

\* The steps of a handler that leave every ledger alone are all but three.
LEMMA StepEffects ==
  ASSUME NEW p \in Handlers,
         Request(p) \/ StartCron(p) \/ Step(p) \/ Crash(p)
  PROVE  \/ Settle(p) \/ SweepCredit(p) \/ PlaceOrder(p)
         \/ UNCHANGED <<credits, settled, orders>>
BY DEF ledgers, outside, customer, Request, StartVerify, StartCheck, StartWebhook, StartConsume,
   StartCron, Crash, Step, AskGateway, MarkPaid, Reread, MarkFailed, MarkRefunded,
   FulfilRead, Claim, SettleFails, Unclaim, Consume, OrderFails, AttachReference,
   CreateUnbacked, PollNext, PollMark, SweepScan, SweepClaim, SweepCreditFails,
   SweepDone

\* A handler about to move money finds it captured and without the effect.
LEMMA EffectIsFirst ==
  ASSUME IInv, NEW p \in Handlers, Settle(p) \/ SweepCredit(p) \/ PlaceOrder(p)
  PROVE  /\ Cur(p) \in Txns /\ "captured" \in gateway[Cur(p)]
         /\ ~PlaceOrder(p) => credits[Cur(p)] = 0 /\ settled[Cur(p)] = 0
         /\ PlaceOrder(p) => orders[Cur(p)] = 0
<1>1. handler[p].pc \in {"settle", "sweepCredit", "order"}
  BY DEF Settle, SweepCredit, PlaceOrder, At
<1>2. Cur(p) \in Txns
  BY <1>1 DEF IInv, TypeOK, HandlerType, Free, Cur
<1>3. credits[Cur(p)] \in Nat /\ settled[Cur(p)] \in Nat
  BY <1>2 DEF IInv, TypeOK, DataType
<1>4. ~PlaceOrder(p) => handler[p].pc \in CreditLabels
  BY DEF Settle, SweepCredit, At, CreditLabels
<1> QED BY <1>1, <1>2, <1>3, <1>4
        DEF IInv, HandlerSound, CreditLabels, Settled, PlaceOrder, At

LEMMA NextSettles ==
  ASSUME IInv, [Next]_vars
  PROVE  [Money!Next]_<<{t \in Txns : "captured" \in gateway[t]}, credits, settled, orders>>
<1> DEFINE captured == {t \in Txns : "captured" \in gateway[t]}
           Stutters == UNCHANGED <<captured, credits, settled, orders>>
<1>0. TypeOK
  BY DEF IInv
<1>1. ASSUME NEW p \in Handlers, Request(p) \/ StartCron(p) \/ Step(p) \/ Crash(p)
      PROVE  Money!Next \/ Stutters
  <2> DEFINE t == Cur(p)
  <2>1. gateway' = gateway /\ captured' = captured
    BY <1>1, StepAtGateway
  <2>2. CASE UNCHANGED <<credits, settled, orders>>
    BY <2>1, <2>2
  <2>3. CASE Settle(p) \/ SweepCredit(p)
    <3>1. t \in captured /\ credits[t] = 0 /\ settled[t] = 0
      BY <2>3, EffectIsFirst DEF PlaceOrder, Settle, SweepCredit, At
    <3>2. Money!CreditWallet(t) \/ Money!SettleBill(t)
      <4>1. UNCHANGED orders
        BY <2>3 DEF Settle, SweepCredit
      <4>2. \/ credits' = [credits EXCEPT ![t] = 1] /\ UNCHANGED settled
            \/ settled' = [settled EXCEPT ![t] = 1] /\ UNCHANGED credits
        BY <2>3, <3>1 DEF Settle, SweepCredit
      <4> QED BY <2>1, <3>1, <4>1, <4>2
              DEF Money!CreditWallet, Money!SettleBill, Money!Unsettled
    <3> QED BY <3>1, <3>2 DEF Money!Next
  <2>4. CASE PlaceOrder(p)
    <3>1. t \in captured /\ orders[t] = 0
      BY <2>4, EffectIsFirst
    <3>2. orders' = [orders EXCEPT ![t] = 1] /\ UNCHANGED <<credits, settled>>
      BY <2>4, <3>1 DEF PlaceOrder
    <3>3. Money!PlaceOrder(t)
      BY <2>1, <3>1, <3>2 DEF Money!PlaceOrder
    <3> QED BY <3>1, <3>3 DEF Money!Next
  <2> QED BY <1>1, <2>2, <2>3, <2>4, StepEffects
<1>2. ASSUME NEW t \in Txns, Customer(t) PROVE Money!Next \/ Stutters
  <2>1. UNCHANGED <<credits, settled, orders>>
    BY <1>2 DEF Customer, CreateOrder, AttemptFails, Capture, RefundAtGateway, ledgers
  <2>2. CASE Capture(t)
    <3>1. captured' = captured \cup {t}
      BY <1>0, <2>2 DEF Capture, TypeOK, DataType
    <3>2. Money!Capture(t)
      BY <2>1, <3>1 DEF Money!Capture
    <3> QED BY <3>2 DEF Money!Next
  <2>3. CASE ~Capture(t)
    <3>1. \/ gateway' = gateway
          \/ gateway' = [gateway EXCEPT ![t] = {"failed"}] /\ gateway[t] = {}
          \/ gateway' = [gateway EXCEPT ![t] = @ \cup {"refunded"}]
      BY <1>2, <2>3 DEF Customer, CreateOrder, AttemptFails, RefundAtGateway, outside, customer
    <3>2. \A u \in Txns : "captured" \in gateway'[u] <=> "captured" \in gateway[u]
      BY <1>0, <3>1 DEF TypeOK, DataType
    <3>3. captured' = captured
      BY <3>2
    <3> QED BY <2>1, <3>3
  <2> QED BY <2>2, <2>3
<1>3. ASSUME \/ UNCHANGED vars
             \/ \E t \in Txns, timer \in AllTimers : Elapse(t, timer)
      PROVE  Stutters
  BY <1>3 DEF vars, Elapse, ledgers
<1> QED BY <1>1, <1>2, <1>3 DEF Next

\* Any number of payments, handlers and crashes implements Settlement: each step
\* captures one payment, is its first effect, or changes no money at all.
THEOREM PaymentsImplementSettlement == Spec => SettlementSpec
<1>1. Init => Money!Init
  BY DEF Init, Money!Init
<1>2. IInv /\ [Next]_vars
        => [Money!Next]_<<{t \in Txns : "captured" \in gateway[t]}, credits, settled, orders>>
  BY NextSettles
<1> QED BY <1>1, <1>2, PaymentsAreSound, PTL DEF Spec, SettlementSpec, Money!Spec
=============================================================================
