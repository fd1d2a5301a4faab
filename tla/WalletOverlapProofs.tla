------------------------- MODULE WalletOverlapProofs -------------------------
(***************************************************************************)
(* Theorems of Wallet about what requests that overlap, or die between two *)
(* of their statements, can still do: how often a bill is paid and an      *)
(* order refunded, and how far balance and ledger drift apart.  Two are    *)
(* under OneAtATime, of requests that do not overlap.                      *)
(***************************************************************************)
EXTENDS WalletProofs, FiniteSetTheorems

OneAtATime == \E p \in Handlers : Handlers = {p}

-----------------------------------------------------------------------------
(* How often requests that overlap can do the same thing.                  *)

\* Something was done c times; the handlers in D have done it and have not told,
\* those in W are about to do it, and none begins once it is no longer open.
\* Only a handler that dies, and k did, can do it more than once.
Overlap(c, k, D, W, open) ==
  /\ open => c <= Cardinality(D) + k
  /\ c + Cardinality(W) <= Cardinality(Handlers) + k

\* Fewer handlers are about to do it, or it is no longer open.
LEMMA OverlapQuiet ==
  ASSUME IsFiniteSet(Handlers), NEW c \in Nat, NEW k \in Nat,
         NEW D \in SUBSET Handlers, NEW W \in SUBSET Handlers, NEW open,
         NEW D2 \in SUBSET Handlers, NEW W2 \in SUBSET W, NEW open2,
         Overlap(c, k, D, W, open), open2 => open /\ D2 = D
  PROVE  Overlap(c, k, D2, W2, open2)
<1>1. IsFiniteSet(W) /\ IsFiniteSet(W2) /\ Cardinality(W2) <= Cardinality(W)
  BY FS_Subset
<1>2. /\ Cardinality(Handlers) \in Nat /\ Cardinality(W) \in Nat
      /\ Cardinality(W2) \in Nat
  BY <1>1, FS_CardinalityType
<1> QED BY <1>1, <1>2 DEF Overlap

\* A handler that has not done it begins while it is open.
LEMMA OverlapBegins ==
  ASSUME IsFiniteSet(Handlers), NEW c \in Nat, NEW k \in Nat,
         NEW D \in SUBSET Handlers, NEW W \in SUBSET Handlers, NEW p \in Handlers,
         Overlap(c, k, D, W, TRUE), D \cap W = {}, p \notin D
  PROVE  Overlap(c, k, D, W \cup {p}, TRUE)
<1> DEFINE V == W \cup {p}
<1>1. IsFiniteSet(D) /\ IsFiniteSet(V)
  BY FS_Subset, V \in SUBSET Handlers
<1>2. IsFiniteSet(D \cup V)
      /\ Cardinality(D \cup V) = Cardinality(D) + Cardinality(V) - Cardinality(D \cap V)
  BY <1>1, FS_Union
<1>3. Cardinality(D \cap V) = 0
  BY D \cap V = {}, FS_EmptySet
<1>4. Cardinality(D \cup V) <= Cardinality(Handlers)
  BY FS_Subset, D \cup V \in SUBSET Handlers
<1>5. /\ Cardinality(D) \in Nat /\ Cardinality(V) \in Nat
      /\ Cardinality(Handlers) \in Nat /\ Cardinality(D \cup V) \in Nat
  BY <1>1, <1>2, FS_CardinalityType
<1> HIDE DEF V
<1>6. Overlap(c, k, D, V, TRUE)
  BY <1>2, <1>3, <1>4, <1>5 DEF Overlap
<1> QED BY <1>6 DEF V

\* A handler does it, and has still to tell if it stays open.
LEMMA OverlapDoes ==
  ASSUME IsFiniteSet(Handlers), NEW c \in Nat, NEW k \in Nat,
         NEW D \in SUBSET Handlers, NEW W \in SUBSET Handlers, NEW open,
         NEW p \in W, p \notin D,
         NEW D2 \in SUBSET Handlers, NEW W2 \in SUBSET (W \ {p}), NEW open2,
         Overlap(c, k, D, W, open), open2 => open /\ D2 = D \cup {p}
  PROVE  Overlap(c + 1, k, D2, W2, open2)
<1>1. IsFiniteSet(D) /\ IsFiniteSet(W)
  BY FS_Subset
<1>2. Cardinality(D \cup {p}) = Cardinality(D) + 1
  BY <1>1, FS_AddElement
<1>3. /\ IsFiniteSet(W \ {p}) /\ Cardinality(W \ {p}) = Cardinality(W) - 1
  BY <1>1, FS_RemoveElement
<1>4. IsFiniteSet(W2) /\ Cardinality(W2) <= Cardinality(W) - 1
  BY <1>3, FS_Subset
<1>5. /\ Cardinality(D) \in Nat /\ Cardinality(W) \in Nat
      /\ Cardinality(W2) \in Nat /\ Cardinality(Handlers) \in Nat
  BY <1>1, <1>4, FS_CardinalityType
<1> QED BY <1>2, <1>4, <1>5 DEF Overlap

\* A handler dies, whatever it had done.
LEMMA OverlapDies ==
  ASSUME IsFiniteSet(Handlers), NEW c \in Nat, NEW k \in Nat,
         NEW D \in SUBSET Handlers, NEW W \in SUBSET Handlers, NEW open,
         NEW p \in Handlers, Overlap(c, k, D, W, open)
  PROVE  Overlap(c, k + 1, D \ {p}, W \ {p}, open)
<1>1. IsFiniteSet(D) /\ IsFiniteSet(W)
  BY FS_Subset
<1>2. /\ IsFiniteSet(D \ {p}) /\ Cardinality(D \ {p}) + 1 >= Cardinality(D)
      /\ IsFiniteSet(W \ {p}) /\ Cardinality(W \ {p}) <= Cardinality(W)
  <2>1. \A S \in {D, W} :
          /\ IsFiniteSet(S \ {p}) /\ Cardinality(S) \in Nat
          /\ Cardinality(S \ {p}) = IF p \in S THEN Cardinality(S) - 1 ELSE Cardinality(S)
    BY <1>1, FS_RemoveElement, FS_CardinalityType
  <2> QED BY <2>1
<1>3. /\ Cardinality(D) \in Nat /\ Cardinality(W) \in Nat
      /\ Cardinality(D \ {p}) \in Nat /\ Cardinality(W \ {p}) \in Nat
      /\ Cardinality(Handlers) \in Nat
  BY <1>1, <1>2, FS_CardinalityType
<1> QED BY <1>2, <1>3 DEF Overlap

\* Nothing was done, and nobody is about to do it.
LEMMA OverlapNone ==
  ASSUME IsFiniteSet(Handlers)
  PROVE  Overlap(0, 0, {}, {}, TRUE)
BY FS_EmptySet, FS_CardinalityType DEF Overlap

-----------------------------------------------------------------------------
(* A bill is paid once by each of the requests that overlap.               *)

\* A handler that has paid a bill, and one that found it unpaid.
Pays(h, b) == h.pc = "markPaid" /\ h.obj = b
Asks(h, b) == h.pc \in {"debit", "recordCash"} /\ h.obj = b

Paying(b) == {p \in Handlers : Pays(handler[p], b)}
Asked(b) == {p \in Handlers : Asks(handler[p], b)}

BillBounded(b) ==
  Overlap(payments[b], crashes, Paying(b), Asked(b), bill[b] # "paid")

BillsBounded == \A b \in Bills : BillBounded(b)

LEMMA InitBillsBounded == IsFiniteSet(Handlers) /\ Init => BillsBounded
<1> SUFFICES ASSUME IsFiniteSet(Handlers), Init, NEW b \in Bills
             PROVE  BillBounded(b)
  BY DEF BillsBounded
<1>1. Paying(b) = {} /\ Asked(b) = {}
  BY DEF Init, Paying, Asked, Pays, Asks, Idle
<1>2. payments[b] = 0 /\ crashes = 0 /\ bill[b] # "paid"
  BY DEF Init
<1> QED BY <1>1, <1>2, OverlapNone DEF BillBounded

\* Who has paid a bill or found it unpaid changes by the handler that moves.
LEMMA BillHandlers ==
  ASSUME NEW p \in Handlers, NEW b,
         \A q \in Handlers \ {p} : handler'[q] = handler[q]
  PROVE  /\ Pays(handler'[p], b) => Paying(b)' = Paying(b) \cup {p}
         /\ ~Pays(handler'[p], b) => Paying(b)' = Paying(b) \ {p}
         /\ Asks(handler'[p], b) => Asked(b)' = Asked(b) \cup {p}
         /\ ~Asks(handler'[p], b) => Asked(b)' = Asked(b) \ {p}
         /\ p \in Paying(b) <=> Pays(handler[p], b)
         /\ p \in Asked(b) <=> Asks(handler[p], b)
         /\ Paying(b) \cap Asked(b) = {}
         /\ Paying(b) \in SUBSET Handlers /\ Asked(b) \in SUBSET Handlers
         /\ Paying(b)' \in SUBSET Handlers /\ Asked(b)' \in SUBSET Handlers
<1>1. /\ Paying(b)' = {q \in Handlers : Pays(handler'[q], b)}
      /\ Asked(b)' = {q \in Handlers : Asks(handler'[q], b)}
  BY DEF Paying, Asked, Pays, Asks
<1>2. Paying(b) \cap Asked(b) = {}
  BY DEF Paying, Asked, Pays, Asks
<1> QED BY <1>1, <1>2 DEF Paying, Asked

\* A step that neither pays the bill nor begins to.
LEMMA BillQuiet ==
  ASSUME IsFiniteSet(Handlers), TypeOK, NEW p \in Handlers, NEW b \in Bills,
         BillBounded(b), \A q \in Handlers \ {p} : handler'[q] = handler[q],
         payments'[b] = payments[b], crashes' = crashes,
         bill'[b] # "paid" => bill[b] # "paid" /\ ~Pays(handler[p], b),
         ~Pays(handler'[p], b), ~Asks(handler'[p], b)
  PROVE  BillBounded(b)'
<1>1. payments[b] \in Nat /\ crashes \in Nat
  BY DEF TypeOK
<1>2. /\ Asked(b)' \in SUBSET Asked(b)
      /\ bill'[b] # "paid" => bill[b] # "paid" /\ Paying(b)' = Paying(b)
  BY BillHandlers
<1> QED BY <1>1, <1>2, BillHandlers, OverlapQuiet DEF BillBounded

\* A handler finds the bill unpaid.
LEMMA BillFound ==
  ASSUME IsFiniteSet(Handlers), TypeOK, NEW p \in Handlers, NEW b \in Bills,
         BillBounded(b), \A q \in Handlers \ {p} : handler'[q] = handler[q],
         payments'[b] = payments[b], crashes' = crashes,
         bill[b] # "paid", bill'[b] # "paid", ~Pays(handler[p], b),
         Asks(handler'[p], b)
  PROVE  BillBounded(b)'
<1>1. payments[b] \in Nat /\ crashes \in Nat
  BY DEF TypeOK
<1>2. ~Pays(handler'[p], b)
  BY DEF Pays, Asks
<1>3. Paying(b)' = Paying(b) /\ Asked(b)' = Asked(b) \cup {p}
  BY <1>2, BillHandlers
<1>4. Overlap(payments[b], crashes, Paying(b), Asked(b), TRUE)
  BY DEF BillBounded, Overlap
<1>5. Overlap(payments[b], crashes, Paying(b), Asked(b) \cup {p}, TRUE)
  BY <1>1, <1>2, <1>4, BillHandlers, OverlapBegins
<1> QED BY <1>3, <1>5 DEF BillBounded, Overlap

\* A handler that found the bill unpaid pays it.
LEMMA BillPaidNow ==
  ASSUME IsFiniteSet(Handlers), TypeOK, NEW p \in Handlers, NEW b \in Bills,
         BillBounded(b), \A q \in Handlers \ {p} : handler'[q] = handler[q],
         payments'[b] = payments[b] + 1, crashes' = crashes,
         bill'[b] # "paid" => bill[b] # "paid" /\ Pays(handler'[p], b),
         Asks(handler[p], b), ~Asks(handler'[p], b)
  PROVE  BillBounded(b)'
<1>1. payments[b] \in Nat /\ crashes \in Nat
  BY DEF TypeOK
<1>2. p \in Asked(b) /\ p \notin Paying(b) /\ Asked(b)' = Asked(b) \ {p}
  BY BillHandlers DEF Asks, Pays
<1>3. bill'[b] # "paid" => bill[b] # "paid" /\ Paying(b)' = Paying(b) \cup {p}
  BY BillHandlers
<1>4. Paying(b) \in SUBSET Handlers /\ Asked(b) \in SUBSET Handlers
      /\ Paying(b)' \in SUBSET Handlers
  BY BillHandlers
<1>5. Overlap(payments[b], crashes, Paying(b), Asked(b), bill[b] # "paid")
  BY DEF BillBounded
<1>6. Overlap(payments[b] + 1, crashes, Paying(b)', Asked(b) \ {p}, bill'[b] # "paid")
  BY <1>1, <1>2, <1>3, <1>4, <1>5, OverlapDoes
<1> QED BY <1>2, <1>6 DEF BillBounded

LEMMA BillStepBounded ==
  ASSUME IsFiniteSet(Handlers), TypeOK, NEW p \in Handlers, BillsBounded, BillStep(p)
  PROVE  BillsBounded'
<1>0. HandlersPlaced /\ RowsTyped
  BY TypeSplit
<1> SUFFICES ASSUME NEW b \in Bills PROVE BillBounded(b)'
  BY DEF BillsBounded
<1> DEFINE h == handler[p]
<1>b. BillBounded(b)
  BY DEF BillsBounded
<1>1. crashes' = crashes
  BY DEF BillStep, AskPayBill, AdminPays, ReadBill, Debit, MarkBillPaid, RecordCash
<1>2. ASSUME NEW c \in Bills, AskPayBill(p, c) PROVE BillBounded(b)'
  <2> DEFINE g == [Idle EXCEPT !.pc = "readBill", !.obj = c, !.bal = balance]
  <2>1. handler'[p] = g /\ Comes(p, {g.pc}) /\ g.pc = "readBill" /\ h.pc # "markPaid"
    BY <1>0, <1>2, BeginComes DEF AskPayBill, Idle, Serve, At
  <2> HIDE DEF g
  <2>2. UNCHANGED <<bill, payments>>
    BY <1>2 DEF AskPayBill, trails
  <2> QED BY <1>1, <1>b, <2>1, <2>2, BillQuiet DEF Comes, Pays, Asks
<1>3. ASSUME NEW c \in Bills, AdminPays(p, c) PROVE BillBounded(b)'
  <2> DEFINE g == [Idle EXCEPT !.pc = "recordCash", !.obj = c]
  <2>1. /\ handler'[p] = g /\ Comes(p, {g.pc}) /\ g.pc = "recordCash" /\ g.obj = c
        /\ h.pc # "markPaid" /\ bill[c] = "unpaid"
    BY <1>0, <1>3, BeginComes DEF AdminPays, Idle, Serve, At
  <2> HIDE DEF g
  <2>2. UNCHANGED <<bill, payments>>
    BY <1>3 DEF AdminPays, trails
  <2>3. CASE b = c
    BY <1>1, <1>b, <2>1, <2>2, <2>3, BillFound DEF Comes, Pays, Asks
  <2>4. CASE b # c
    BY <1>1, <1>b, <2>1, <2>2, <2>4, BillQuiet DEF Comes, Pays, Asks
  <2> QED BY <2>3, <2>4
<1>4. CASE ReadBill(p)
  <2>1. UNCHANGED <<bill, payments>> /\ h.pc = "readBill"
    BY <1>4 DEF ReadBill, trails, At
  <2>2. CASE Goto(p, "debit") /\ bill[h.obj] = "unpaid"
    <3>1. handler'[p] = [h EXCEPT !.pc = "debit"] /\ Comes(p, {"debit"})
      BY <1>0, <2>2, GotoComes
    <3>2. handler'[p].pc = "debit" /\ handler'[p].obj = h.obj
      BY <1>0, <3>1 DEF HandlersPlaced, Handler
    <3>3. CASE b = h.obj
      BY <1>1, <1>b, <2>1, <2>2, <3>1, <3>2, <3>3, BillFound DEF Comes, Pays, Asks
    <3>4. CASE b # h.obj
      BY <1>1, <1>b, <2>1, <3>1, <3>2, <3>4, BillQuiet DEF Comes, Pays, Asks
    <3> QED BY <3>3, <3>4
  <2>3. CASE Done(p)
    <3>1. handler'[p].pc = "idle" /\ Comes(p, {"idle"})
      BY <1>0, <2>3, DoneComes DEF Idle
    <3> QED BY <1>1, <1>b, <2>1, <3>1, BillQuiet DEF Comes, Pays, Asks
  <2> QED BY <1>4, <2>2, <2>3 DEF ReadBill, Obj
<1>5. CASE Debit(p)
  <2>1. h.pc = "debit" /\ h.obj \in Bills /\ UNCHANGED bill
    BY <1>0, <1>5 DEF Debit, HandlersPlaced, Placed, At
  <2>2. CASE payments' = [payments EXCEPT ![h.obj] = @ + 1] /\ Goto(p, "markPaid")
    <3>1. handler'[p] = [h EXCEPT !.pc = "markPaid"] /\ Comes(p, {"markPaid"})
      BY <1>0, <2>2, GotoComes
    <3>2. handler'[p].pc = "markPaid" /\ handler'[p].obj = h.obj
      BY <1>0, <3>1 DEF HandlersPlaced, Handler
    <3>3. payments'[b] = IF b = h.obj THEN payments[b] + 1 ELSE payments[b]
      BY <1>0, <2>1, <2>2 DEF RowsTyped
    <3>4. CASE b = h.obj
      BY <1>1, <1>b, <2>1, <3>1, <3>2, <3>3, <3>4, BillPaidNow DEF Comes, Pays, Asks
    <3>5. CASE b # h.obj
      BY <1>1, <1>b, <2>1, <3>1, <3>2, <3>3, <3>5, BillQuiet DEF Comes, Pays, Asks
    <3> QED BY <3>4, <3>5
  <2>3. CASE UNCHANGED payments /\ Done(p)
    <3>1. handler'[p].pc = "idle" /\ Comes(p, {"idle"})
      BY <1>0, <2>3, DoneComes DEF Idle
    <3> QED BY <1>1, <1>b, <2>1, <2>3, <3>1, BillQuiet DEF Comes, Pays, Asks
  <2> QED BY <1>5, <2>2, <2>3 DEF Debit, Obj
<1>6. CASE MarkBillPaid(p)
  <2>1. handler'[p].pc = "idle" /\ Comes(p, {"idle"}) /\ UNCHANGED payments
    BY <1>0, <1>6, DoneComes DEF MarkBillPaid, trails, Idle
  <2>2. bill'[b] = IF b = h.obj THEN "paid" ELSE bill[b]
    BY <1>0, <1>6 DEF MarkBillPaid, Obj, RowsTyped
  <2> QED BY <1>1, <1>b, <2>1, <2>2, BillQuiet DEF Comes, Pays, Asks
<1>7. CASE RecordCash(p)
  <2>1. /\ handler'[p].pc = "idle" /\ Comes(p, {"idle"})
        /\ h.pc = "recordCash" /\ h.obj \in Bills
    BY <1>0, <1>7, DoneComes DEF RecordCash, At, Idle, HandlersPlaced, Placed
  <2>2. /\ payments'[b] = IF b = h.obj THEN payments[b] + 1 ELSE payments[b]
        /\ bill'[b] = IF b = h.obj THEN "paid" ELSE bill[b]
    BY <1>0, <1>7, <2>1 DEF RecordCash, Obj, RowsTyped
  <2>3. CASE b = h.obj
    BY <1>1, <1>b, <2>1, <2>2, <2>3, BillPaidNow DEF Comes, Pays, Asks
  <2>4. CASE b # h.obj
    BY <1>1, <1>b, <2>1, <2>2, <2>4, BillQuiet DEF Comes, Pays, Asks
  <2> QED BY <2>3, <2>4
<1> QED BY <1>2, <1>3, <1>4, <1>5, <1>6, <1>7 DEF BillStep

\* The labels the other steps of a request leave and come to.
LEMMA OtherStepsComes ==
  ASSUME IInv, NEW p \in Handlers,
         OrderStep(p) \/ PartnerStep(p) \/ UnlockedStep(p)
  PROVE  /\ handler[p].pc # "markPaid"
         /\ handler'[p].pc \notin {"debit", "recordCash", "markPaid"}
         /\ \A q \in Handlers \ {p} : handler'[q] = handler[q]
         /\ UNCHANGED <<bill, payments, crashes>>
<1>0. TypeOK /\ RefundsBacked /\ HandlersPlaced
  BY IInvSplit, TypeSplit
<1>1. CASE OrderStep(p)
  <2>1. Comes(p, {"idle", "readOrder", "cancel", "refund", "setStatus"})
    BY <1>0, <1>1, OrderStepComes, RefundComes DEF Comes
  <2> QED BY <1>1, <2>1 DEF Comes, OrderStep, AskCancel, ReadOrder, Cancel, SetStatus,
             BulkFail, Refund, WriteStatus, trails, marks, At, Serve
<1>2. CASE PartnerStep(p)
  <2>1. Comes(p, {"idle", "report"})
    BY <1>0, <1>2, PartnerStepComes DEF Comes
  <2> QED BY <1>2, <2>1 DEF Comes, PartnerStep, ReportStop, WriteReport, trails, counts,
             At, Serve
<1>3. CASE UnlockedStep(p)
  <2>1. Comes(p, {"idle", "write", "entry"})
    BY <1>0, <1>3, UnlockedStepComes DEF Comes
  <2> QED BY <1>3, <2>1 DEF Comes, UnlockedStep, AskAdjust, Adjust, AddEntry, Subscribe,
             trails, counts, At, Serve
<1> QED BY <1>1, <1>2, <1>3

LEMMA NextBillsBounded ==
  ASSUME IsFiniteSet(Handlers), IInv, BillsBounded, [Next]_vars
  PROVE  BillsBounded'
<1>0. TypeOK /\ HandlersPlaced /\ RowsTyped
  BY IInvSplit, TypeSplit
<1>1. CASE UNCHANGED <<bill, payments, handler, crashes>>
  BY <1>1 DEF BillsBounded, BillBounded, Paying, Asked, Pays, Asks
<1>2. ASSUME NEW c \in Bills, RaiseBill(c) PROVE BillsBounded'
  <2>1. \A b \in Bills : (bill'[b] # "paid") = (bill[b] # "paid")
    BY <1>0, <1>2 DEF RaiseBill, RowsTyped
  <2>2. UNCHANGED <<payments, handler, crashes>>
    BY <1>2 DEF RaiseBill, trails
  <2> QED BY <2>1, <2>2 DEF BillsBounded, BillBounded, Paying, Asked, Pays, Asks
<1>3. ASSUME NEW p \in Handlers, OneStep(p) PROVE BillsBounded'
  <2> SUFFICES ASSUME NEW b \in Bills PROVE BillBounded(b)'
    BY DEF BillsBounded
  <2>1. handler[p].pc = "idle" /\ UNCHANGED <<payments, handler, crashes>>
    BY <1>3 DEF OneStep, TopUp, CheckoutByWallet, CheckoutOtherwise, SettleOnline,
       Serve, At, trails, counts
  <2>2. bill'[b] # "paid" => bill[b] # "paid"
    BY <1>0, <1>3 DEF OneStep, TopUp, CheckoutByWallet, CheckoutOtherwise,
       SettleOnline, RowsTyped
  <2> QED BY <1>0, <2>1, <2>2, BillQuiet DEF BillsBounded, Pays, Asks
<1>4. ASSUME NEW p \in Handlers, BillStep(p) PROVE BillsBounded'
  BY <1>0, <1>4, BillStepBounded
<1>5. ASSUME NEW p \in Handlers, OrderStep(p) \/ PartnerStep(p) \/ UnlockedStep(p)
      PROVE  BillsBounded'
  <2> SUFFICES ASSUME NEW b \in Bills PROVE BillBounded(b)'
    BY DEF BillsBounded
  <2> QED BY <1>0, <1>5, OtherStepsComes, BillQuiet DEF BillsBounded, Pays, Asks
<1>6. ASSUME NEW p \in Handlers, Crash(p) PROVE BillsBounded'
  <2> SUFFICES ASSUME NEW b \in Bills PROVE BillBounded(b)'
    BY DEF BillsBounded
  <2>1. /\ handler'[p].pc = "idle" /\ Comes(p, {"idle"}) /\ crashes' = crashes + 1
        /\ UNCHANGED <<bill, payments>>
    BY <1>0, <1>6, DoneComes DEF Crash, trails, Idle
  <2>2. ~Pays(handler'[p], b) /\ ~Asks(handler'[p], b)
    BY <2>1 DEF Pays, Asks
  <2>3. Paying(b)' = Paying(b) \ {p} /\ Asked(b)' = Asked(b) \ {p}
    BY <2>1, <2>2, BillHandlers DEF Comes
  <2>4. payments[b] \in Nat /\ crashes \in Nat
    BY <1>0 DEF RowsTyped
  <2>5. Paying(b) \in SUBSET Handlers /\ Asked(b) \in SUBSET Handlers
    BY DEF Paying, Asked
  <2> QED BY <2>1, <2>3, <2>4, <2>5, OverlapDies DEF BillsBounded, BillBounded
<1>7. ASSUME UNCHANGED vars \/ \E o \in Orders : DatePasses(o)
      PROVE  UNCHANGED <<bill, payments, handler, crashes>>
  BY <1>7 DEF vars, DatePasses, trails
<1> QED BY <1>1, <1>2, <1>3, <1>4, <1>5, <1>6, <1>7 DEF Next

\* A bill is paid, from the wallet or in cash, at most once by each of the
\* requests that overlap, and once more for each that dies before it marks it.
THEOREM BillsArePaidPerHandler ==
  IsFiniteSet(Handlers) => (Spec => []BillPaidPerHandler)
<1> DEFINE Limited == IsFiniteSet(Handlers)
<1>1. Limited /\ IInv /\ BillsBounded => BillPaidPerHandler
  <2> SUFFICES ASSUME IsFiniteSet(Handlers), IInv, BillsBounded, NEW b \in Bills
               PROVE  payments[b] <= Cardinality(Handlers) + crashes
    BY DEF BillPaidPerHandler
  <2>1. payments[b] + Cardinality(Asked(b)) <= Cardinality(Handlers) + crashes
    BY DEF BillsBounded, BillBounded, Overlap
  <2>2. IsFiniteSet(Asked(b))
    BY FS_Subset, Asked(b) \in SUBSET Handlers DEF Asked
  <2>3. /\ Cardinality(Asked(b)) \in Nat /\ Cardinality(Handlers) \in Nat
        /\ payments[b] \in Nat /\ crashes \in Nat
    BY <2>2, FS_CardinalityType, IInvSplit DEF TypeOK
  <2> QED BY <2>1, <2>3
<1>2. Limited /\ IInv /\ BillsBounded /\ [Next]_vars => BillsBounded'
  BY NextBillsBounded
<1>3. Limited /\ Init => BillsBounded
  BY InitBillsBounded
<1>4. Limited => []Limited
  OBVIOUS
<1> HIDE DEF Limited
<1>5. Limited => (Spec => []BillPaidPerHandler)
  BY <1>1, <1>2, <1>3, <1>4, WalletIsSound, PTL DEF Spec
<1> QED BY <1>5 DEF Limited

\* So requests that do not overlap pay a bill once.
THEOREM BillsArePaidOnce ==
  OneAtATime => (Spec => [](\A b \in Bills : payments[b] <= 1 + crashes))
<1>1. OneAtATime => IsFiniteSet(Handlers) /\ Cardinality(Handlers) = 1
  BY FS_Singleton DEF OneAtATime
<1>2. OneAtATime /\ BillPaidPerHandler => \A b \in Bills : payments[b] <= 1 + crashes
  BY <1>1 DEF BillPaidPerHandler
<1>3. OneAtATime => []OneAtATime
  BY DEF OneAtATime
<1> QED BY <1>1, <1>2, <1>3, BillsArePaidPerHandler, PTL

-----------------------------------------------------------------------------
(* An order that says refunded is not refunded again.                      *)

\* The order a handler is about to refund is not refunded yet, nor are those
\* it will take up to refund, which the order at hand is not among.
RefundsOf(p) ==
  /\ handler[p].pc = "refund" => order[handler[p].obj].pay # "refunded"
  /\ handler[p].obj \notin handler[p].list
  /\ \A o \in handler[p].list \cap handler[p].due : order[o].pay # "refunded"

RefundsSerial == \A p \in Handlers : RefundsOf(p)

LEMMA InitRefundsSerial == Init => RefundsSerial
BY DEF Init, RefundsSerial, RefundsOf, Idle

\* A handler that comes to another label with no list.
LEMMA RefundsListless ==
  ASSUME NEW p, handler'[p].list = {}, handler'[p].pc # "refund"
  PROVE  RefundsOf(p)'
BY DEF RefundsOf

\* A step that leaves the handler's work, and makes no order refunded.
LEMMA RefundsUntouched ==
  ASSUME TypeOK, NEW p \in Handlers, RefundsOf(p),
         \A o \in Orders : order'[o].pay = "refunded" => order[o].pay = "refunded",
         \/ handler'[p] = handler[p]
         \/ /\ handler'[p].pc # "refund"
            /\ handler'[p].obj = handler[p].obj
            /\ handler'[p].list = handler[p].list
            /\ handler'[p].due = handler[p].due
  PROVE  RefundsOf(p)'
<1>1. /\ handler[p].list \subseteq Orders
      /\ handler[p].pc = "refund" => handler[p].obj \in Orders
  BY DEF TypeOK, Handler, Obj, OrderLabels
<1> QED BY <1>1 DEF RefundsOf

\* The next order of a list is taken up; due names those of it not refunded.
LEMMA TakeUpRefunds ==
  ASSUME HandlersPlaced, NEW p \in Handlers, NEW list, NEW due, NEW o \in list,
         TakeUp(p, o, list, due),
         \A u \in list \cap due : order'[u].pay # "refunded"
  PROVE  RefundsOf(p)'
<1> DEFINE h == [Idle EXCEPT !.pc = IF o \in due THEN "refund" ELSE "setStatus",
                             !.obj = o, !.to = "failed",
                             !.list = list \ {o}, !.due = due]
<1>1. handler'[p] = h
  BY BeginComes DEF TakeUp
<1>2. /\ h.pc = "refund" => o \in due
      /\ h.obj = o /\ h.list = list \ {o} /\ h.due = due
  BY DEF Idle
<1> HIDE DEF h
<1> QED BY <1>1, <1>2 DEF RefundsOf

LEMMA WriteStatusRefunds ==
  ASSUME TypeOK, NEW p \in Handlers, RefundsOf(p), WriteStatus(p)
  PROVE  RefundsOf(p)'
<1> DEFINE h == handler[p]
<1>0. HandlersPlaced
  BY TypeSplit
<1>1. order' = [order EXCEPT ![h.obj] = WithStatus(@, h.to, h.refunded)]
  BY DEF WriteStatus
<1>2. CASE Done(p)
  BY <1>0, <1>2, DoneComes, RefundsListless DEF Idle
<1>3. ASSUME NEW o \in h.list, TakeUp(p, o, h.list, h.due) PROVE RefundsOf(p)'
  <2>1. \A u \in h.list \cap h.due : order'[u].pay # "refunded"
    <3>1. h.list \subseteq Orders
      BY DEF TypeOK, Handler
    <3>2. \A u \in h.list : order'[u] = order[u]
      BY <1>1, <3>1 DEF RefundsOf, TypeOK
    <3> QED BY <3>2 DEF RefundsOf
  <2> QED BY <1>0, <1>3, <2>1, TakeUpRefunds
<1> QED BY <1>2, <1>3 DEF WriteStatus

LEMMA OrderStepRefunds ==
  ASSUME TypeOK, NEW p \in Handlers, RefundsOf(p), OrderStep(p)
  PROVE  RefundsOf(p)'
<1>0. HandlersPlaced
  BY TypeSplit
<1> DEFINE h == handler[p]
<1>1. ASSUME NEW o \in Orders, AskCancel(p, o) PROVE RefundsOf(p)'
  <2> DEFINE g == [Idle EXCEPT !.pc = "readOrder", !.obj = o, !.bal = balance]
  <2>1. handler'[p] = g
    BY <1>0, <1>1, BeginComes DEF AskCancel
  <2> QED BY <2>1, RefundsListless DEF Idle
<1>2. ASSUME NEW o \in Orders, NEW s, SetStatus(p, o, s) PROVE RefundsOf(p)'
  <2> DEFINE refund == s = "failed" /\ Prepaid(order[o])
             g == [Idle EXCEPT !.pc = IF refund THEN "refund" ELSE "setStatus",
                               !.obj = o, !.to = s]
  <2>1. handler'[p] = g /\ UNCHANGED order
    BY <1>0, <1>2, BeginComes DEF SetStatus
  <2>2. g.obj = o /\ g.list = {} /\ (g.pc = "refund" => refund)
    BY DEF Idle
  <2>3. refund => order[o].pay # "refunded"
    BY DEF Prepaid
  <2> HIDE DEF g, refund
  <2> QED BY <2>1, <2>2, <2>3 DEF RefundsOf
<1>3. CASE ReadOrder(p)
  <2> DEFINE d == IF RefundedOnCancel(order[Obj(p)]) THEN 1 ELSE 0
             g == [h EXCEPT !.pc = "cancel", !.delta = d]
  <2>1. CASE Begin(p, g)
    <3>1. handler'[p] = g
      BY <1>0, <2>1, BeginComes
    <3>2. g.pc = "cancel" /\ g.obj = h.obj /\ g.list = h.list /\ g.due = h.due
      BY <1>0 DEF HandlersPlaced, Handler
    <3> HIDE DEF g
    <3> QED BY <1>3, <3>1, <3>2, RefundsUntouched DEF ReadOrder
  <2>2. CASE Done(p)
    BY <1>0, <2>2, DoneComes, RefundsListless DEF Idle
  <2> QED BY <1>3, <2>1, <2>2 DEF ReadOrder
<1>4. CASE Cancel(p)
  BY <1>0, <1>4, DoneComes, RefundsListless DEF Cancel, Idle
<1>5. CASE BulkFail(p)
  <2> DEFINE due == {u \in Undelivered : Prepaid(order[u])}
  <2>1. PICK o \in Undelivered : TakeUp(p, o, Undelivered, due)
    BY <1>5 DEF BulkFail
  <2>2. \A u \in Undelivered \cap due : order'[u].pay # "refunded"
    BY <1>5 DEF BulkFail, Prepaid
  <2> HIDE DEF due
  <2> QED BY <1>0, <2>1, <2>2, TakeUpRefunds
<1>6. CASE Refund(p)
  <2>1. CASE Goto(p, "setStatus")
    <3>1. handler'[p] = [h EXCEPT !.pc = "setStatus"]
      BY <1>0, <2>1, GotoComes
    <3> QED BY <1>0, <1>6, <3>1, RefundsUntouched DEF Refund, HandlersPlaced, Handler
  <2>2. CASE handler' = [handler EXCEPT ![p].pc = "setStatus", ![p].refunded = TRUE]
    <3>1. /\ handler'[p].pc = "setStatus" /\ handler'[p].obj = h.obj
          /\ handler'[p].list = h.list /\ handler'[p].due = h.due
      BY <1>0, <2>2 DEF HandlersPlaced, Handler
    <3> QED BY <1>6, <3>1, RefundsUntouched DEF Refund
  <2> QED BY <1>6, <2>1, <2>2 DEF Refund
<1> QED BY <1>1, <1>2, <1>3, <1>4, <1>5, <1>6, WriteStatusRefunds DEF OrderStep

\* The work of a handler that takes up no order to fail.
NoList(p) == handler'[p].list = {} /\ handler'[p].pc # "refund"

SameList(p) == /\ handler'[p].pc # "refund"
               /\ handler'[p].obj = handler[p].obj
               /\ handler'[p].list = handler[p].list
               /\ handler'[p].due = handler[p].due

LEMMA BeginNoList ==
  ASSUME HandlersPlaced, NEW p \in Handlers, NEW h, Begin(p, h),
         h.list = {}, h.pc # "refund"
  PROVE  NoList(p)
BY BeginComes DEF NoList

LEMMA DoneNoList ==
  ASSUME HandlersPlaced, NEW p \in Handlers, Done(p)
  PROVE  NoList(p)
BY DoneComes DEF NoList, Idle

LEMMA GotoSameList ==
  ASSUME HandlersPlaced, NEW p \in Handlers, NEW label, label # "refund",
         Goto(p, label)
  PROVE  SameList(p)
<1>1. handler'[p] = [handler[p] EXCEPT !.pc = label]
  BY GotoComes
<1> QED BY <1>1 DEF SameList, HandlersPlaced, Handler

LEMMA OtherLists ==
  ASSUME HandlersPlaced, NEW p \in Handlers,
         PartnerStep(p) \/ BillStep(p) \/ UnlockedStep(p)
  PROVE  NoList(p) \/ SameList(p)
<1>1. ASSUME NEW o, ReportStop(p, o) PROVE NoList(p)
  <2> DEFINE g == [Idle EXCEPT !.pc = "report", !.obj = o]
  <2>1. Begin(p, g) /\ g.list = {} /\ g.pc # "refund"
    BY <1>1 DEF ReportStop, Idle
  <2> HIDE DEF g
  <2> QED BY <2>1, BeginNoList
<1>2. ASSUME NEW b, AskPayBill(p, b) PROVE NoList(p)
  <2> DEFINE g == [Idle EXCEPT !.pc = "readBill", !.obj = b, !.bal = balance]
  <2>1. Begin(p, g) /\ g.list = {} /\ g.pc # "refund"
    BY <1>2 DEF AskPayBill, Idle
  <2> HIDE DEF g
  <2> QED BY <2>1, BeginNoList
<1>3. ASSUME NEW b, AdminPays(p, b) PROVE NoList(p)
  <2> DEFINE g == [Idle EXCEPT !.pc = "recordCash", !.obj = b]
  <2>1. Begin(p, g) /\ g.list = {} /\ g.pc # "refund"
    BY <1>3 DEF AdminPays, Idle
  <2> HIDE DEF g
  <2> QED BY <2>1, BeginNoList
<1>4. ASSUME NEW op, NEW d, AskAdjust(p, op, d) PROVE NoList(p)
  <2> DEFINE g == [Idle EXCEPT !.pc = "write", !.bal = balance, !.delta = d]
  <2>1. Begin(p, g) /\ g.list = {} /\ g.pc # "refund"
    BY <1>4 DEF AskAdjust, Idle
  <2> HIDE DEF g
  <2> QED BY <2>1, BeginNoList
<1>5. CASE Subscribe(p)
  <2> DEFINE g == [Idle EXCEPT !.pc = "entry", !.delta = -1]
  <2>1. Begin(p, g) /\ g.list = {} /\ g.pc # "refund"
    BY <1>5 DEF Subscribe, Idle
  <2> HIDE DEF g
  <2> QED BY <2>1, BeginNoList
<1>6. CASE ReadBill(p) \/ Debit(p) \/ Adjust(p)
  BY <1>6, GotoSameList, DoneNoList DEF ReadBill, Debit, Adjust
<1>7. CASE WriteReport(p) \/ MarkBillPaid(p) \/ RecordCash(p) \/ AddEntry(p)
  BY <1>7, DoneNoList DEF WriteReport, MarkBillPaid, RecordCash, AddEntry
<1> QED
  BY <1>1, <1>2, <1>3, <1>4, <1>5, <1>6, <1>7
     DEF PartnerStep, BillStep, UnlockedStep

\* No step but WriteStatus makes an order refunded.
LEMMA PaysKept ==
  ASSUME TypeOK, NEW p \in Handlers,
         \/ OneStep(p) \/ PartnerStep(p) \/ BillStep(p) \/ UnlockedStep(p)
         \/ \E o \in Orders : DatePasses(o)
  PROVE  \A o \in Orders : order'[o].pay = "refunded" => order[o].pay = "refunded"
<1>1. CASE UNCHANGED order
  BY <1>1
<1>2. ASSUME NEW u \in Orders, NEW m \in {"wallet", "online", "cod"},
             order' = [order EXCEPT ![u] = PlacedOrder(m)]
      PROVE  \A o \in Orders : order'[o].pay = "refunded" => order[o].pay = "refunded"
  BY <1>2 DEF PlacedOrder, TypeOK
<1>3. CASE WriteReport(p)
  BY <1>3 DEF WriteReport, Reported, TypeOK, Order
<1>4. ASSUME NEW u \in Orders, DatePasses(u)
      PROVE  \A o \in Orders : order'[o].pay = "refunded" => order[o].pay = "refunded"
  BY <1>4 DEF DatePasses, TypeOK, Order
<1>5. CASE OneStep(p)
  BY <1>1, <1>2, <1>5 DEF OneStep, TopUp, CheckoutByWallet, CheckoutOtherwise,
     SettleOnline
<1>6. CASE PartnerStep(p)
  BY <1>1, <1>3, <1>6 DEF PartnerStep, ReportStop
<1>7. CASE BillStep(p)
  BY <1>1, <1>7 DEF BillStep, AskPayBill, AdminPays, ReadBill, Debit,
     MarkBillPaid, RecordCash
<1>8. CASE UnlockedStep(p)
  BY <1>1, <1>8 DEF UnlockedStep, AskAdjust, Adjust, AddEntry, Subscribe
<1> QED BY <1>4, <1>5, <1>6, <1>7, <1>8

LEMMA NextRefundsSerial ==
  ASSUME OneAtATime, TypeOK, RefundsSerial, [Next]_vars
  PROVE  RefundsSerial'
<1>0. HandlersPlaced
  BY TypeSplit
<1>p. PICK p \in Handlers : Handlers = {p}
  BY DEF OneAtATime
<1>b. RefundsOf(p)
  BY DEF RefundsSerial
<1> SUFFICES RefundsOf(p)'
  BY <1>p DEF RefundsSerial
<1>1. CASE UNCHANGED vars
  BY <1>1, <1>b DEF vars, RefundsOf
<1>2. ASSUME NEW o \in Orders, DatePasses(o) PROVE RefundsOf(p)'
  BY <1>2, <1>b, PaysKept, RefundsUntouched DEF DatePasses
<1>3. ASSUME NEW b \in Bills, RaiseBill(b) PROVE RefundsOf(p)'
  BY <1>3, <1>b DEF RaiseBill, RefundsOf
<1>4. CASE OneStep(p)
  <2>1. UNCHANGED handler
    BY <1>4 DEF OneStep, TopUp, CheckoutByWallet, CheckoutOtherwise, SettleOnline
  <2> QED BY <1>4, <1>b, <2>1, PaysKept, RefundsUntouched
<1>5. CASE OrderStep(p)
  BY <1>5, <1>b, OrderStepRefunds
<1>6. CASE PartnerStep(p) \/ BillStep(p) \/ UnlockedStep(p)
  <2>1. CASE NoList(p)
    BY <2>1, RefundsListless DEF NoList
  <2>2. CASE SameList(p)
    <3>1. \A o \in Orders : order'[o].pay = "refunded" => order[o].pay = "refunded"
      BY <1>6, PaysKept
    <3> QED BY <1>b, <2>2, <3>1, RefundsUntouched DEF SameList
  <2> QED BY <1>0, <1>6, <2>1, <2>2, OtherLists
<1>7. CASE Crash(p)
  BY <1>0, <1>7, DoneNoList, RefundsListless DEF Crash, NoList
<1> QED BY <1>1, <1>2, <1>3, <1>4, <1>5, <1>6, <1>7, <1>p DEF Next

\* Only Refund credits a failed order, and never one that says refunded.
LEMMA RefundsNotRepeated ==
  ASSUME TypeOK, RefundsSerial, [Next]_vars, NEW o \in Orders,
         order[o].pay = "refunded"
  PROVE  failRefunds'[o] = failRefunds[o]
<1>1. ASSUME NEW p \in Handlers, Refund(p) PROVE failRefunds'[o] = failRefunds[o]
  <2>1. handler[p].obj # o
    BY <1>1 DEF Refund, At, RefundsSerial, RefundsOf
  <2> QED BY <1>1, <2>1 DEF Refund, Obj, TypeOK
<1>2. CASE UNCHANGED failRefunds
  BY <1>2
<1>3. ASSUME NEW p \in Handlers, OrderStep(p)
      PROVE  Refund(p) \/ UNCHANGED failRefunds
  BY <1>3 DEF OrderStep, AskCancel, ReadOrder, Cancel, SetStatus, BulkFail,
     WriteStatus, trails, marks
<1>4. ASSUME NEW p \in Handlers, OneStep(p) \/ PartnerStep(p)
      PROVE  UNCHANGED failRefunds
  BY <1>4 DEF OneStep, TopUp, CheckoutByWallet, CheckoutOtherwise, SettleOnline,
     PartnerStep, ReportStop, WriteReport, trails, counts
<1>5. ASSUME NEW p \in Handlers, BillStep(p) \/ UnlockedStep(p) \/ Crash(p)
      PROVE  UNCHANGED failRefunds
  BY <1>5 DEF BillStep, AskPayBill, AdminPays, ReadBill, Debit, MarkBillPaid,
     RecordCash, UnlockedStep, AskAdjust, Adjust, AddEntry, Subscribe, Crash,
     trails, counts, marks
<1> QED BY <1>1, <1>2, <1>3, <1>4, <1>5 DEF Next, vars, DatePasses, RaiseBill, trails

\* While requests do not overlap, an order is not refunded again by staff who
\* fail it, singly or in bulk, for as long as it says refunded.
THEOREM RefundedOrdersStayRefunded == OneAtATime /\ Spec => RefundedNotAgain
<1> DEFINE Kept == \A o \in Orders : order[o].pay = "refunded"
                                       => failRefunds'[o] = failRefunds[o]
<1>1. TypeOK /\ RefundsSerial /\ [Next]_vars => [Kept]_vars
  BY RefundsNotRepeated
<1>2. OneAtATime /\ TypeOK /\ RefundsSerial /\ [Next]_vars => RefundsSerial'
  BY NextRefundsSerial
<1>3. RefundedNotAgain <=> [][Kept]_vars
  BY DEF RefundedNotAgain
<1>4. OneAtATime => []OneAtATime
  BY DEF OneAtATime
<1> HIDE DEF Kept
<1> QED
  BY <1>1, <1>2, <1>3, <1>4, InitRefundsSerial, WalletTypeCorrect, PTL DEF Spec

-----------------------------------------------------------------------------
(* An order is refunded once by each of the requests that overlap.         *)

\* A handler that has refunded an order, and one that is about to, now or when
\* its bulk run comes to it.
Credited(h, o) == h.pc = "setStatus" /\ h.obj = o /\ h.refunded
Due(h, o) == (h.pc = "refund" /\ h.obj = o) \/ o \in h.list \cap h.due

Crediting(o) == {p \in Handlers : Credited(handler[p], o)}
DueTo(o) == {p \in Handlers : Due(handler[p], o)}

OrderBounded(o) ==
  Overlap(failRefunds[o], crashes, Crediting(o), DueTo(o), order[o].pay # "refunded")

\* The order at hand is not on the list, and an order that is not placed has not
\* been refunded.
HandsOff == \A p \in Handlers : handler[p].obj \notin handler[p].list
Unplaced == \A o \in Orders : order[o].status = "none" => order[o].pay # "refunded"

RefundsBounded ==
  (\A o \in Orders \ repaid : OrderBounded(o)) /\ HandsOff /\ Unplaced

LEMMA InitRefundsBounded == IsFiniteSet(Handlers) /\ Init => RefundsBounded
<1> SUFFICES ASSUME IsFiniteSet(Handlers), Init PROVE RefundsBounded
  OBVIOUS
<1>1. ASSUME NEW o \in Orders PROVE OrderBounded(o)
  <2>1. Crediting(o) = {} /\ DueTo(o) = {}
    BY DEF Init, Crediting, DueTo, Credited, Due, Idle
  <2>2. failRefunds[o] = 0 /\ crashes = 0 /\ order[o].pay # "refunded"
    BY DEF Init, NoOrder
  <2> QED BY <2>1, <2>2, OverlapNone DEF OrderBounded
<1>2. HandsOff /\ Unplaced
  BY DEF Init, HandsOff, Unplaced, Idle, NoOrder
<1> QED BY <1>1, <1>2 DEF RefundsBounded

\* Who has refunded an order or is about to changes by the handler that moves.
LEMMA OrderHandlers ==
  ASSUME HandsOff, NEW p \in Handlers, NEW o,
         \A q \in Handlers \ {p} : handler'[q] = handler[q]
  PROVE  /\ Credited(handler'[p], o) => Crediting(o)' = Crediting(o) \cup {p}
         /\ ~Credited(handler'[p], o) => Crediting(o)' = Crediting(o) \ {p}
         /\ Due(handler'[p], o) => DueTo(o)' = DueTo(o) \cup {p}
         /\ ~Due(handler'[p], o) => DueTo(o)' = DueTo(o) \ {p}
         /\ p \in Crediting(o) <=> Credited(handler[p], o)
         /\ p \in DueTo(o) <=> Due(handler[p], o)
         /\ Crediting(o) \cap DueTo(o) = {}
         /\ Crediting(o) \in SUBSET Handlers /\ DueTo(o) \in SUBSET Handlers
         /\ Crediting(o)' \in SUBSET Handlers /\ DueTo(o)' \in SUBSET Handlers
<1>1. /\ Crediting(o)' = {q \in Handlers : Credited(handler'[q], o)}
      /\ DueTo(o)' = {q \in Handlers : Due(handler'[q], o)}
  BY DEF Crediting, DueTo, Credited, Due
<1>2. Crediting(o) \cap DueTo(o) = {}
  BY DEF Crediting, DueTo, Credited, Due, HandsOff
<1> QED BY <1>1, <1>2 DEF Crediting, DueTo

\* A step that does not refund the order; a handler may find it to be prepaid.
LEMMA OrderMoves ==
  ASSUME IsFiniteSet(Handlers), TypeOK, HandsOff, NEW p \in Handlers, NEW o \in Orders,
         OrderBounded(o), \A q \in Handlers \ {p} : handler'[q] = handler[q],
         failRefunds'[o] = failRefunds[o], crashes' = crashes,
         order'[o].pay # "refunded"
           => order[o].pay # "refunded" /\ ~Credited(handler[p], o),
         ~Credited(handler'[p], o),
         Due(handler'[p], o)
           => \/ Due(handler[p], o)
              \/ /\ order[o].pay # "refunded" /\ order'[o].pay # "refunded"
                 /\ ~Credited(handler[p], o)
  PROVE  OrderBounded(o)'
<1> DEFINE c == failRefunds[o]
<1>1. c \in Nat /\ crashes \in Nat
  BY DEF TypeOK
<1>2. order'[o].pay # "refunded"
        => order[o].pay # "refunded" /\ Crediting(o)' = Crediting(o)
  BY OrderHandlers
<1>3. CASE DueTo(o)' \subseteq DueTo(o)
  <2>1. Overlap(c, crashes, Crediting(o), DueTo(o), order[o].pay # "refunded")
    BY DEF OrderBounded
  <2>2. /\ Crediting(o) \in SUBSET Handlers /\ DueTo(o) \in SUBSET Handlers
        /\ Crediting(o)' \in SUBSET Handlers /\ DueTo(o)' \in SUBSET DueTo(o)
    BY <1>3, OrderHandlers
  <2>3. Overlap(c, crashes, Crediting(o)', DueTo(o)', order'[o].pay # "refunded")
    BY <1>1, <1>2, <2>1, <2>2, OverlapQuiet
  <2> QED BY <2>3 DEF OrderBounded
<1>4. CASE ~(DueTo(o)' \subseteq DueTo(o))
  <2>1. Due(handler'[p], o) /\ ~Due(handler[p], o) /\ DueTo(o)' = DueTo(o) \cup {p}
    BY <1>4, OrderHandlers
  <2>2. order[o].pay # "refunded" /\ order'[o].pay # "refunded"
    BY <2>1
  <2>3. Overlap(c, crashes, Crediting(o), DueTo(o), TRUE)
    BY <2>2 DEF OrderBounded, Overlap
  <2>4. Overlap(c, crashes, Crediting(o), DueTo(o) \cup {p}, TRUE)
    BY <1>1, <2>1, <2>3, OrderHandlers, OverlapBegins
  <2> QED BY <1>2, <2>1, <2>2, <2>4 DEF OrderBounded, Overlap
<1> QED BY <1>3, <1>4

\* The handler whose turn it is refunds the order.
LEMMA OrderRefunded ==
  ASSUME IsFiniteSet(Handlers), TypeOK, HandsOff, NEW p \in Handlers, NEW o \in Orders,
         OrderBounded(o), \A q \in Handlers \ {p} : handler'[q] = handler[q],
         failRefunds'[o] = failRefunds[o] + 1, crashes' = crashes,
         order'[o] = order[o], Due(handler[p], o), ~Credited(handler[p], o),
         Credited(handler'[p], o), ~Due(handler'[p], o)
  PROVE  OrderBounded(o)'
<1> DEFINE c == failRefunds[o]
<1>1. c \in Nat /\ crashes \in Nat
  BY DEF TypeOK
<1>2. /\ p \in DueTo(o) /\ p \notin Crediting(o) /\ DueTo(o)' = DueTo(o) \ {p}
      /\ Crediting(o)' = Crediting(o) \cup {p}
      /\ Crediting(o) \in SUBSET Handlers /\ DueTo(o) \in SUBSET Handlers
      /\ Crediting(o)' \in SUBSET Handlers
  BY OrderHandlers
<1>3. Overlap(c, crashes, Crediting(o), DueTo(o), order[o].pay # "refunded")
  BY DEF OrderBounded
<1>4. Overlap(c + 1, crashes, Crediting(o)', DueTo(o) \ {p}, order[o].pay # "refunded")
  BY <1>1, <1>2, <1>3, OverlapDoes
<1> QED BY <1>2, <1>4 DEF OrderBounded

LEMMA RefundBounded ==
  ASSUME IsFiniteSet(Handlers), IInv, RefundsBounded, NEW p \in Handlers, Refund(p)
  PROVE  RefundsBounded'
<1>0. TypeOK /\ RefundsBacked /\ HandlersPlaced
  BY IInvSplit, TypeSplit
<1> DEFINE h == handler[p]
<1>1. /\ h.pc = "refund" /\ h.obj \in Orders /\ ~h.refunded
      /\ UNCHANGED <<order, crashes, repaid>>
  BY <1>0 DEF Refund, At, marks, HandlersPlaced, Placed, RefundsBacked
<1>2. /\ \A q \in Handlers \ {p} : handler'[q] = handler[q]
      /\ handler'[p].pc = "setStatus" /\ handler'[p].obj = h.obj
      /\ handler'[p].list = h.list /\ handler'[p].due = h.due
      /\ \/ /\ handler'[p].refunded
            /\ failRefunds' = [failRefunds EXCEPT ![h.obj] = @ + 1]
         \/ ~handler'[p].refunded /\ UNCHANGED failRefunds
  <2>1. CASE Goto(p, "setStatus") /\ UNCHANGED failRefunds
    <3>1. handler'[p] = [h EXCEPT !.pc = "setStatus"] /\ Comes(p, {"setStatus"})
      BY <1>0, <2>1, GotoComes
    <3> QED BY <1>0, <1>1, <2>1, <3>1 DEF HandlersPlaced, Handler, Comes
  <2>2. CASE /\ handler' = [handler EXCEPT ![p].pc = "setStatus", ![p].refunded = TRUE]
             /\ failRefunds' = [failRefunds EXCEPT ![h.obj] = @ + 1]
    BY <1>0, <2>2 DEF HandlersPlaced, Handler
  <2> QED BY <2>1, <2>2 DEF Refund, Obj
<1>3. HandsOff' /\ Unplaced'
  BY <1>1, <1>2 DEF RefundsBounded, HandsOff, Unplaced
<1>4. ASSUME NEW o \in Orders \ repaid PROVE OrderBounded(o)'
  <2>1. OrderBounded(o) /\ HandsOff
    BY DEF RefundsBounded
  <2>2. ~Credited(h, o) /\ (Due(handler'[p], o) => Due(h, o))
    BY <1>1, <1>2 DEF Credited, Due
  <2>3. CASE handler'[p].refunded /\ o = h.obj
    <3>1. failRefunds'[o] = failRefunds[o] + 1
      BY <1>0, <1>1, <1>2, <2>3 DEF TypeOK
    <3>2. Due(h, o) /\ Credited(handler'[p], o)
      BY <1>1, <1>2, <2>3 DEF Due, Credited
    <3>3. ~Due(handler'[p], o)
      BY <1>2, <2>1, <2>3 DEF Due, HandsOff
    <3> QED BY <1>0, <1>1, <1>2, <2>1, <2>2, <3>1, <3>2, <3>3, OrderRefunded
  <2>4. CASE ~handler'[p].refunded \/ o # h.obj
    <3>1. failRefunds'[o] = failRefunds[o]
      BY <1>0, <1>1, <1>2, <2>4 DEF TypeOK
    <3>2. ~Credited(handler'[p], o)
      BY <1>2, <2>4 DEF Credited
    <3> QED BY <1>0, <1>1, <1>2, <2>1, <2>2, <3>1, <3>2, OrderMoves
  <2> QED BY <2>3, <2>4
<1> QED BY <1>1, <1>3, <1>4 DEF RefundsBounded

\* The next order of a list is taken up, or none.
LEMMA TakeUpHands ==
  ASSUME HandlersPlaced, NEW p \in Handlers, NEW list, NEW due, NEW u \in list,
         TakeUp(p, u, list, due)
  PROVE  /\ handler'[p].obj \notin handler'[p].list
         /\ \A o : /\ Due(handler'[p], o) => o \in list \cap due
                   /\ ~Credited(handler'[p], o)
<1> DEFINE h == [Idle EXCEPT !.pc = IF u \in due THEN "refund" ELSE "setStatus",
                             !.obj = u, !.to = "failed",
                             !.list = list \ {u}, !.due = due]
<1>1. handler'[p] = h
  BY BeginComes DEF TakeUp
<1>2. /\ h.pc = "refund" => u \in due
      /\ h.obj = u /\ h.list = list \ {u} /\ h.due = due
      /\ ~h.refunded
  BY DEF Idle
<1> HIDE DEF h
<1> QED BY <1>1, <1>2 DEF Due, Credited

LEMMA WriteStatusBounded ==
  ASSUME IsFiniteSet(Handlers), IInv, RefundsBounded, NEW p \in Handlers, WriteStatus(p)
  PROVE  RefundsBounded'
<1>0. TypeOK /\ RefundsBacked /\ HandlersPlaced
  BY IInvSplit, TypeSplit
<1> DEFINE h == handler[p]
<1>1. /\ h.pc = "setStatus" /\ h.obj \in Orders /\ h.to \in OrderStatuses
      /\ UNCHANGED <<failRefunds, crashes, repaid>>
      /\ order' = [order EXCEPT ![h.obj] = WithStatus(@, h.to, h.refunded)]
  BY <1>0 DEF WriteStatus, At, HandlersPlaced, Placed, Handler, trails
<1>2. \A q \in Handlers \ {p} : handler'[q] = handler[q]
  BY <1>0, WriteStatusComes DEF Comes
<1>3. /\ handler'[p].obj \notin handler'[p].list
      /\ \A o : (Due(handler'[p], o) => Due(h, o)) /\ ~Credited(handler'[p], o)
  <2>1. CASE Done(p)
    BY <1>0, <2>1, DoneComes DEF Idle, Due, Credited
  <2>2. ASSUME NEW u \in h.list, TakeUp(p, u, h.list, h.due)
        PROVE  /\ handler'[p].obj \notin handler'[p].list
               /\ \A o : (Due(handler'[p], o) => Due(h, o)) /\ ~Credited(handler'[p], o)
    BY <1>0, <2>2, TakeUpHands DEF Due
  <2> QED BY <2>1, <2>2 DEF WriteStatus
<1>4. \A o \in Orders :
        /\ order'[o].pay # "refunded" => order[o].pay # "refunded" /\ ~Credited(h, o)
        /\ order'[o].status = "none" => order'[o] = order[o]
  <2>1. \A r \in Order :
          /\ WithStatus(r, h.to, h.refunded).status = h.to
          /\ WithStatus(r, h.to, h.refunded).pay = IF h.refunded THEN "refunded" ELSE r.pay
    BY DEF WithStatus, Order
  <2>2. \A o \in Orders : order'[o] = IF o = h.obj THEN WithStatus(order[o], h.to, h.refunded)
                                                   ELSE order[o]
    BY <1>0, <1>1 DEF TypeOK
  <2>3. \A o \in Orders : order[o] \in Order
    BY <1>0 DEF TypeOK
  <2> QED BY <1>1, <2>1, <2>2, <2>3 DEF Credited, OrderStatuses
<1>5. HandsOff' /\ Unplaced'
  BY <1>2, <1>3, <1>4 DEF RefundsBounded, HandsOff, Unplaced
<1> QED BY <1>0, <1>1, <1>2, <1>3, <1>4, <1>5, OrderMoves DEF RefundsBounded

\* A step that refunds no order and tells of none: a handler that leaves its list
\* alone, or finds orders that are not refunded to be prepaid.
LEMMA OthersBounded ==
  ASSUME IsFiniteSet(Handlers), IInv, RefundsBounded, NEW p \in Handlers,
         \A q \in Handlers \ {p} : handler'[q] = handler[q],
         UNCHANGED <<failRefunds, crashes>>, repaid \subseteq repaid',
         handler[p].pc # "setStatus", ~handler'[p].refunded,
         handler'[p].obj \notin handler'[p].list,
         \A o \in Orders \ repaid' : order'[o].pay = "refunded" <=> order[o].pay = "refunded",
         \A o \in Orders : order'[o].status = "none" => order'[o] = order[o],
         \A o \in Orders : Due(handler'[p], o)
                             => Due(handler[p], o) \/ order[o].pay # "refunded"
  PROVE  RefundsBounded'
<1>0. TypeOK
  BY IInvSplit
<1>1. \A o : ~Credited(handler[p], o) /\ ~Credited(handler'[p], o)
  BY DEF Credited
<1>2. HandsOff' /\ Unplaced'
  BY DEF RefundsBounded, HandsOff, Unplaced
<1> QED BY <1>0, <1>1, <1>2, OrderMoves DEF RefundsBounded

LEMMA OrderStepBounded ==
  ASSUME IsFiniteSet(Handlers), IInv, RefundsBounded, NEW p \in Handlers, OrderStep(p)
  PROVE  RefundsBounded'
<1>0. TypeOK /\ RefundsBacked /\ HandlersPlaced
  BY IInvSplit, TypeSplit
<1>c. CASE Refund(p) \/ WriteStatus(p)
  BY <1>c, RefundBounded, WriteStatusBounded
<1> SUFFICES ASSUME ~Refund(p), ~WriteStatus(p) PROVE RefundsBounded'
  BY <1>c
<1> DEFINE h == handler[p]
<1>1. /\ \A q \in Handlers \ {p} : handler'[q] = handler[q]
      /\ ~handler'[p].refunded
  BY <1>0, OrderStepComes DEF Comes
<1>2. h.pc # "setStatus" /\ UNCHANGED <<failRefunds, crashes, repaid>>
  BY DEF OrderStep, AskCancel, ReadOrder, Cancel, SetStatus, BulkFail, At, Serve, trails
<1>3. \A o \in Orders : /\ order'[o].pay = "refunded" <=> order[o].pay = "refunded"
                        /\ order'[o].status = "none" => order'[o] = order[o]
  <2>1. CASE UNCHANGED order
    BY <2>1
  <2>2. CASE Cancel(p)
    BY <1>0, <2>2 DEF Cancel, TypeOK, Order
  <2> QED BY <2>1, <2>2 DEF OrderStep, AskCancel, ReadOrder, SetStatus, BulkFail
<1>4. ASSUME NoList(p) \/ SameList(p) PROVE RefundsBounded'
  <2>1. handler'[p].obj \notin handler'[p].list
    BY <1>4 DEF NoList, SameList, RefundsBounded, HandsOff
  <2>2. \A o : Due(handler'[p], o) => Due(h, o)
    BY <1>4 DEF NoList, SameList, Due
  <2> QED BY <1>1, <1>2, <1>3, <2>1, <2>2, OthersBounded
<1>5. ASSUME NEW o \in Orders, AskCancel(p, o) PROVE NoList(p)
  <2> DEFINE g == [Idle EXCEPT !.pc = "readOrder", !.obj = o, !.bal = balance]
  <2>1. Begin(p, g) /\ g.list = {} /\ g.pc # "refund"
    BY <1>5 DEF AskCancel, Idle
  <2> HIDE DEF g
  <2> QED BY <1>0, <2>1, BeginNoList
<1>6. CASE ReadOrder(p)
  <2> DEFINE d == IF RefundedOnCancel(order[Obj(p)]) THEN 1 ELSE 0
             g == [h EXCEPT !.pc = "cancel", !.delta = d]
  <2>1. CASE Begin(p, g)
    <3>1. handler'[p] = g
      BY <1>0, <2>1, BeginComes
    <3>2. g.pc = "cancel" /\ g.obj = h.obj /\ g.list = h.list /\ g.due = h.due
      BY <1>0 DEF HandlersPlaced, Handler
    <3> HIDE DEF g
    <3> QED BY <1>4, <3>1, <3>2 DEF SameList
  <2>2. CASE Done(p)
    BY <1>0, <1>4, <2>2, DoneNoList
  <2> QED BY <1>6, <2>1, <2>2 DEF ReadOrder
<1>7. CASE Cancel(p)
  BY <1>0, <1>4, <1>7, DoneNoList DEF Cancel
<1>8. ASSUME NEW u \in Orders, NEW s, SetStatus(p, u, s) PROVE RefundsBounded'
  <2> DEFINE refund == s = "failed" /\ Prepaid(order[u])
             g == [Idle EXCEPT !.pc = IF refund THEN "refund" ELSE "setStatus",
                               !.obj = u, !.to = s]
  <2>1. handler'[p] = g
    BY <1>0, <1>8, BeginComes DEF SetStatus
  <2>2. g.obj = u /\ g.list = {} /\ (g.pc = "refund" => refund)
    BY DEF Idle
  <2>3. refund => order[u].pay # "refunded"
    BY DEF Prepaid
  <2> HIDE DEF g, refund
  <2>4. \A o \in Orders : Due(handler'[p], o) => order[o].pay # "refunded"
    BY <2>1, <2>2, <2>3 DEF Due
  <2> QED BY <1>1, <1>2, <1>3, <2>1, <2>2, <2>4, OthersBounded
<1>9. CASE BulkFail(p)
  <2> DEFINE due == {u \in Undelivered : Prepaid(order[u])}
  <2>1. PICK u \in Undelivered : TakeUp(p, u, Undelivered, due)
    BY <1>9 DEF BulkFail
  <2>2. \A o \in due : order[o].pay # "refunded"
    BY DEF Prepaid
  <2> HIDE DEF due
  <2>3. /\ handler'[p].obj \notin handler'[p].list
        /\ \A o \in Orders : Due(handler'[p], o) => order[o].pay # "refunded"
    BY <1>0, <2>1, <2>2, TakeUpHands
  <2> QED BY <1>1, <1>2, <1>3, <2>3, OthersBounded
<1> QED BY <1>4, <1>5, <1>6, <1>7, <1>8, <1>9 DEF OrderStep

\* Where a step of a bill's payment comes to.
LEMMA BillStepLabels ==
  ASSUME HandlersPlaced, NEW p \in Handlers, BillStep(p)
  PROVE  handler'[p].pc \in {"idle", "readBill", "recordCash", "debit", "markPaid"}
<1>1. ASSUME NEW b \in Bills, AskPayBill(p, b)
      PROVE  handler'[p].pc = "readBill"
  <2> DEFINE g == [Idle EXCEPT !.pc = "readBill", !.obj = b, !.bal = balance]
  <2>1. handler'[p] = g
    BY <1>1, BeginComes DEF AskPayBill
  <2> QED BY <2>1 DEF Idle
<1>2. ASSUME NEW b \in Bills, AdminPays(p, b)
      PROVE  handler'[p].pc = "recordCash"
  <2> DEFINE g == [Idle EXCEPT !.pc = "recordCash", !.obj = b]
  <2>1. handler'[p] = g
    BY <1>2, BeginComes DEF AdminPays
  <2> QED BY <2>1 DEF Idle
<1>3. ASSUME Goto(p, "debit") \/ Goto(p, "markPaid") \/ Done(p)
      PROVE  handler'[p].pc \in {"debit", "markPaid", "idle"}
  BY <1>3, GotoComes, DoneComes DEF Comes
<1> QED BY <1>1, <1>2, <1>3 DEF BillStep, ReadBill, Debit, MarkBillPaid, RecordCash

\* A report that marks a refunded order paid leaves it among those repaid.
LEMMA ReportBounded ==
  ASSUME TypeOK, NEW p \in Handlers, WriteReport(p)
  PROVE  /\ repaid \subseteq repaid'
         /\ \A o \in Orders \ repaid' : order'[o].pay = "refunded" <=> order[o].pay = "refunded"
         /\ \A o \in Orders : order'[o].status = "none" => order'[o] = order[o]
<1> DEFINE u == Obj(p)
<1>1. u \in Orders /\ order[u] \in Order
  BY DEF WriteReport, TypeOK, At, Obj, OrderLabels
<1>2. PICK s \in OrderStatuses, m \in {"cod", "upi", "online"} :
        order' = [order EXCEPT ![u] = Reported(@, s, m)]
  BY DEF WriteReport
<1>3. \A o \in Orders : order'[o] = IF o = u THEN Reported(order[u], s, m) ELSE order[o]
  BY <1>1, <1>2 DEF TypeOK
<1>4. /\ Reported(order[u], s, m).status = s /\ s # "none"
      /\ Reported(order[u], s, m).pay \in {"paid", order[u].pay}
  BY <1>1 DEF Reported, Order, OrderStatuses
<1>5. /\ repaid \subseteq repaid'
      /\ order[u].pay = "refunded" /\ order'[u].pay = "paid" => u \in repaid'
  BY DEF WriteReport
<1> HIDE DEF u
<1> QED BY <1>1, <1>3, <1>4, <1>5

LEMMA NextRefundsBounded ==
  ASSUME IsFiniteSet(Handlers), IInv, RefundsBounded, [Next]_vars
  PROVE  RefundsBounded'
<1>0. TypeOK /\ RefundsBacked /\ HandlersPlaced
  BY IInvSplit, TypeSplit
<1>1. ASSUME UNCHANGED <<failRefunds, crashes, handler, repaid>>,
             \A o \in Orders : /\ order'[o].pay = "refunded" <=> order[o].pay = "refunded"
                               /\ order'[o].status = "none" => order'[o] = order[o]
      PROVE  RefundsBounded'
  <2>1. HandsOff' /\ Unplaced'
    BY <1>1 DEF RefundsBounded, HandsOff, Unplaced
  <2>2. \A o \in Orders : (order'[o].pay # "refunded") = (order[o].pay # "refunded")
    BY <1>1
  <2>3. ASSUME NEW o \in Orders \ repaid PROVE OrderBounded(o)'
    BY <1>1, <2>2 DEF RefundsBounded, OrderBounded, Crediting, DueTo, Credited, Due
  <2> QED BY <1>1, <2>1, <2>3 DEF RefundsBounded
<1>2. ASSUME NEW o \in Orders, DatePasses(o) PROVE RefundsBounded'
  <2>1. \A u \in Orders : /\ order'[u].pay = order[u].pay
                          /\ order'[u].status = "none" => order'[u] = order[u]
    BY <1>0, <1>2 DEF DatePasses, TypeOK, Order
  <2> QED BY <1>1, <1>2, <2>1 DEF DatePasses, trails
<1>3. ASSUME UNCHANGED vars \/ \E b \in Bills : RaiseBill(b) PROVE RefundsBounded'
  <2>1. UNCHANGED <<failRefunds, crashes, handler, repaid, order>>
    BY <1>3 DEF vars, RaiseBill, trails
  <2> QED BY <1>1, <2>1
<1>4. ASSUME NEW p \in Handlers, OneStep(p) PROVE RefundsBounded'
  <2>1. UNCHANGED <<failRefunds, crashes, handler, repaid>>
    BY <1>4 DEF OneStep, TopUp, CheckoutByWallet, CheckoutOtherwise, SettleOnline,
       trails, counts
  <2>2. CASE UNCHANGED order
    BY <1>1, <2>1, <2>2
  <2>3. ASSUME NEW u \in Orders, NEW m \in {"wallet", "online", "cod"},
               order[u].status = "none", order' = [order EXCEPT ![u] = PlacedOrder(m)]
        PROVE  RefundsBounded'
    <3>1. order[u].pay # "refunded"
      BY <2>3 DEF RefundsBounded, Unplaced
    <3>2. PlacedOrder(m).pay # "refunded" /\ PlacedOrder(m).status # "none"
      BY DEF PlacedOrder
    <3>3. \A o \in Orders : order'[o] = IF o = u THEN PlacedOrder(m) ELSE order[o]
      BY <1>0, <2>3 DEF TypeOK
    <3> QED BY <1>1, <2>1, <3>1, <3>2, <3>3
  <2> QED BY <1>4, <2>2, <2>3 DEF OneStep, TopUp, CheckoutByWallet, CheckoutOtherwise,
             SettleOnline
<1>5. ASSUME NEW p \in Handlers, PartnerStep(p) \/ BillStep(p) \/ UnlockedStep(p)
      PROVE  RefundsBounded'
  <2>1. /\ \A q \in Handlers \ {p} : handler'[q] = handler[q]
        /\ ~handler'[p].refunded
    BY <1>0, <1>5, BillStepComes, PartnerStepComes, UnlockedStepComes DEF Comes
  <2>2. handler[p].pc # "setStatus" /\ UNCHANGED <<failRefunds, crashes>>
    BY <1>5 DEF BillStep, AskPayBill, AdminPays, ReadBill, Debit, MarkBillPaid,
       RecordCash, PartnerStep, ReportStop, WriteReport, UnlockedStep, AskAdjust,
       Adjust, AddEntry, Subscribe, At, Serve, trails, counts
  <2>3. NoList(p) \/ SameList(p)
    BY <1>0, <1>5, OtherLists
  <2>4. /\ repaid \subseteq repaid'
        /\ \A o \in Orders \ repaid' : order'[o].pay = "refunded" <=> order[o].pay = "refunded"
        /\ \A o \in Orders : order'[o].status = "none" => order'[o] = order[o]
    <3>1. CASE UNCHANGED <<order, repaid>>
      BY <3>1
    <3>2. CASE WriteReport(p)
      BY <1>0, <3>2, ReportBounded
    <3> QED BY <1>5, <3>1, <3>2 DEF BillStep, AskPayBill, AdminPays, ReadBill, Debit,
               MarkBillPaid, RecordCash, PartnerStep, ReportStop, UnlockedStep,
               AskAdjust, Adjust, AddEntry, Subscribe, trails, marks
  <2>5. handler'[p].obj \notin handler'[p].list
    BY <2>3 DEF NoList, SameList, RefundsBounded, HandsOff
  <2>6. \A o : Due(handler'[p], o) => Due(handler[p], o)
    BY <2>3 DEF NoList, SameList, Due
  <2> QED BY <2>1, <2>2, <2>4, <2>5, <2>6, OthersBounded
<1>6. ASSUME NEW p \in Handlers, OrderStep(p) PROVE RefundsBounded'
  BY <1>6, OrderStepBounded
<1>8. ASSUME NEW p \in Handlers, Crash(p) PROVE RefundsBounded'
  <2>1. /\ handler'[p] = Idle /\ Comes(p, {"idle"}) /\ crashes' = crashes + 1
        /\ UNCHANGED <<order, failRefunds, repaid>>
    BY <1>0, <1>8, DoneComes DEF Crash, trails
  <2>2. HandsOff' /\ Unplaced'
    BY <2>1 DEF RefundsBounded, HandsOff, Unplaced, Comes, Idle
  <2>3. ASSUME NEW o \in Orders \ repaid PROVE OrderBounded(o)'
    <3>1. ~Credited(handler'[p], o) /\ ~Due(handler'[p], o)
      BY <2>1 DEF Credited, Due, Idle
    <3>2. /\ Crediting(o)' = Crediting(o) \ {p} /\ DueTo(o)' = DueTo(o) \ {p}
          /\ Crediting(o) \in SUBSET Handlers /\ DueTo(o) \in SUBSET Handlers
      BY <2>1, <3>1, OrderHandlers DEF Comes, RefundsBounded
    <3>3. failRefunds[o] \in Nat /\ crashes \in Nat
      BY <1>0 DEF TypeOK
    <3> QED BY <2>1, <3>2, <3>3, OverlapDies DEF RefundsBounded, OrderBounded
  <2> QED BY <2>1, <2>2, <2>3 DEF RefundsBounded
<1> QED BY <1>2, <1>3, <1>4, <1>5, <1>6, <1>8 DEF Next

\* Unless a partner's report marks it paid again, an order is refunded at most
\* once by each of the requests that overlap, and once more for each that dies
\* before it writes that the order is refunded.
THEOREM OrdersAreRefundedPerHandler ==
  IsFiniteSet(Handlers) => (Spec => []RefundedPerHandler)
<1> DEFINE Limited == IsFiniteSet(Handlers)
<1>1. Limited /\ IInv /\ RefundsBounded => RefundedPerHandler
  <2> SUFFICES ASSUME IsFiniteSet(Handlers), IInv, RefundsBounded, NEW o \in Orders \ repaid
               PROVE  failRefunds[o] <= Cardinality(Handlers) + crashes
    BY DEF RefundedPerHandler
  <2>1. failRefunds[o] + Cardinality(DueTo(o)) <= Cardinality(Handlers) + crashes
    BY DEF RefundsBounded, OrderBounded, Overlap
  <2>2. IsFiniteSet(DueTo(o))
    BY FS_Subset, DueTo(o) \in SUBSET Handlers DEF DueTo
  <2>3. /\ Cardinality(DueTo(o)) \in Nat /\ Cardinality(Handlers) \in Nat
        /\ failRefunds[o] \in Nat /\ crashes \in Nat
    BY <2>2, FS_CardinalityType, IInvSplit DEF TypeOK
  <2> QED BY <2>1, <2>3
<1>2. Limited /\ IInv /\ RefundsBounded /\ [Next]_vars => RefundsBounded'
  BY NextRefundsBounded
<1>3. Limited /\ Init => RefundsBounded
  BY InitRefundsBounded
<1>4. Limited => []Limited
  OBVIOUS
<1> HIDE DEF Limited
<1>5. Limited => (Spec => []RefundedPerHandler)
  BY <1>1, <1>2, <1>3, <1>4, WalletIsSound, PTL DEF Spec
<1> QED BY <1>5 DEF Limited

-----------------------------------------------------------------------------
(* Balance and ledger drift only by crashes, until a balance is overwritten. *)

\* The movement whose entry a handler has still to add.
Pending(p) == IF handler[p].pc = "entry" THEN handler[p].delta ELSE 0

\* The handlers that have moved the balance by d and have the entry still to add.
Entering(d) == {p \in Handlers : handler[p].pc = "entry" /\ handler[p].delta = d}

Owed == Cardinality(Entering(1)) - Cardinality(Entering(-1))

\* But for the entries still to be added, the ledger lacks those that died with
\* their handler.
DriftBounded ==
  ~overwritten => /\ balance - ledger - Owed <= crashes
                  /\ balance - ledger - Owed >= 0 - crashes

LEMMA InitDrift == IsFiniteSet(Handlers) /\ Init => DriftBounded
<1> SUFFICES ASSUME IsFiniteSet(Handlers), Init PROVE DriftBounded
  OBVIOUS
<1>1. Entering(1) = {} /\ Entering(-1) = {}
  BY DEF Init, Entering, Idle
<1>2. Owed = 0
  BY <1>1, FS_EmptySet DEF Owed
<1> QED BY <1>2 DEF Init, DriftBounded

\* What the proofs about a step use of the types.
LEMMA DriftTypes ==
  ASSUME TypeOK, NEW p \in Handlers
  PROVE  /\ balance \in Nat /\ ledger \in Int /\ crashes \in Nat
         /\ handler[p].delta \in {-1, 0, 1} /\ handler[p].bal \in Nat
         /\ Pending(p) \in {-1, 0, 1}
BY DEF TypeOK, Handler, Pending

\* A set that one handler may join or leave.
LEMMA OneJoins ==
  ASSUME IsFiniteSet(Handlers), NEW S \in SUBSET Handlers, NEW p \in Handlers
  PROVE  /\ Cardinality(S) \in Nat
         /\ Cardinality(S \cup {p}) = Cardinality(S) + (IF p \in S THEN 0 ELSE 1)
         /\ Cardinality(S \ {p}) = Cardinality(S) - (IF p \in S THEN 1 ELSE 0)
<1>1. IsFiniteSet(S)
  BY FS_Subset
<1>2. Cardinality(S) \in Nat
  BY <1>1, FS_CardinalityType
<1>3. Cardinality(S \cup {p}) = IF p \in S THEN Cardinality(S) ELSE Cardinality(S) + 1
  BY <1>1, FS_AddElement
<1>4. Cardinality(S \ {p}) = IF p \in S THEN Cardinality(S) - 1 ELSE Cardinality(S)
  BY <1>1, FS_RemoveElement
<1> QED BY <1>2, <1>3, <1>4

\* What is owed changes by what the handler that moves owes.
LEMMA OwedMoves ==
  ASSUME IsFiniteSet(Handlers), TypeOK, TypeOK', NEW p \in Handlers,
         \A q \in Handlers \ {p} : handler'[q] = handler[q]
  PROVE  Owed \in Int /\ Owed' = Owed + Pending(p)' - Pending(p)
<1> DEFINE n(d) == Cardinality(Entering(d))
           In(d) == IF p \in Entering(d) THEN 1 ELSE 0
           Out(d) == IF p \in Entering(d)' THEN 1 ELSE 0
<1>1. ASSUME NEW d \in {-1, 1} PROVE n(d) \in Nat /\ n(d)' = n(d) + Out(d) - In(d)
  <2>1. Entering(d)' = {q \in Handlers : handler'[q].pc = "entry" /\ handler'[q].delta = d}
    BY DEF Entering
  <2>2. /\ p \in Entering(d)' => Entering(d)' = Entering(d) \cup {p}
        /\ p \notin Entering(d)' => Entering(d)' = Entering(d) \ {p}
    BY <2>1 DEF Entering
  <2>3. Entering(d) \in SUBSET Handlers
    BY DEF Entering
  <2>0. /\ n(d) \in Nat
        /\ Cardinality(Entering(d) \cup {p}) = n(d) + (IF p \in Entering(d) THEN 0 ELSE 1)
        /\ Cardinality(Entering(d) \ {p}) = n(d) - In(d)
    BY <2>3, OneJoins
  <2>4. /\ n(d) \in Nat
        /\ Cardinality(Entering(d) \cup {p}) = n(d) + 1 - In(d)
        /\ Cardinality(Entering(d) \ {p}) = n(d) - In(d)
    BY <2>0
  <2>5. CASE p \in Entering(d)'
    <3>1. n(d)' = n(d) + 1 - In(d) /\ Out(d) = 1
      BY <2>2, <2>4, <2>5
    <3> QED BY <2>4, <3>1
  <2>6. CASE p \notin Entering(d)'
    <3>1. n(d)' = n(d) - In(d) /\ Out(d) = 0
      BY <2>2, <2>4, <2>6
    <3> QED BY <2>4, <3>1
  <2> QED BY <2>5, <2>6
<1>2. Pending(p) = In(1) - In(-1)
  BY DriftTypes DEF Pending, Entering
<1>3. Pending(p)' = Out(1) - Out(-1)
  <2>1. handler'[p].delta \in {-1, 0, 1}
    BY DEF TypeOK, Handler
  <2> QED BY <2>1 DEF Pending, Entering
<1>4. /\ In(1) \in {0, 1} /\ In(-1) \in {0, 1}
      /\ Out(1) \in {0, 1} /\ Out(-1) \in {0, 1}
  OBVIOUS
<1>5. Owed = n(1) - n(-1) /\ Owed' = n(1)' - n(-1)'
  BY DEF Owed
<1> HIDE DEF n, In, Out
<1> QED BY <1>1, <1>2, <1>3, <1>4, <1>5

\* A step moves the balance by what it adds to the ledger or comes to owe it.
Even(p) == ~overwritten' => /\ ~overwritten
                            /\ balance' - ledger' - Pending(p)'
                                 = balance - ledger - Pending(p)

LEMMA EvenKeepsDrift ==
  ASSUME IsFiniteSet(Handlers), TypeOK, TypeOK', DriftBounded, NEW p \in Handlers,
         \A q \in Handlers \ {p} : handler'[q] = handler[q],
         crashes' = crashes, Even(p)
  PROVE  DriftBounded'
<1>1. Owed \in Int /\ Owed' = Owed + Pending(p)' - Pending(p)
  BY OwedMoves
<1>2. /\ balance' \in Nat /\ ledger' \in Int /\ Pending(p)' \in {-1, 0, 1}
      /\ balance \in Nat /\ ledger \in Int /\ Pending(p) \in {-1, 0, 1}
      /\ crashes \in Nat
  <2>1. handler'[p].delta \in {-1, 0, 1}
    BY DEF TypeOK, Handler
  <2> QED BY <2>1, DriftTypes DEF TypeOK, Pending
<1>3. CASE overwritten'
  BY <1>3 DEF DriftBounded
<1>4. CASE ~overwritten'
  <2>1. /\ ~overwritten
        /\ balance' - ledger' - Owed' = balance - ledger - Owed
    BY <1>1, <1>2, <1>4 DEF Even
  <2> QED BY <2>1 DEF DriftBounded
<1> QED BY <1>3, <1>4

\* Balance and ledger move together, and nothing comes to be owed.
LEMMA EvenQuiet ==
  ASSUME NEW p, balance' - ledger' = balance - ledger, UNCHANGED overwritten,
         handler[p].pc # "entry", handler'[p].pc # "entry"
  PROVE  Even(p)
BY DEF Even, Pending

LEMMA MoveKeepsDrift ==
  ASSUME TypeOK, NEW d \in {-1, 1}, Move(d)
  PROVE  balance' - ledger' = balance - ledger
BY DEF TypeOK, Move

LEMMA OrderStepEven ==
  ASSUME IInv, NEW p \in Handlers, OrderStep(p)
  PROVE  /\ \A q \in Handlers \ {p} : handler'[q] = handler[q]
         /\ crashes' = crashes /\ Even(p)
<1>0. TypeOK /\ RefundsBacked /\ HandlersPlaced
  BY IInvSplit, TypeSplit
<1> DEFINE h == handler[p]
<1>1. Comes(p, {"idle", "readOrder", "cancel", "refund", "setStatus"})
  BY <1>0, OrderStepComes, RefundComes DEF Comes
<1>2. h.pc # "entry" /\ crashes' = crashes
  BY DEF OrderStep, AskCancel, ReadOrder, Cancel, SetStatus, BulkFail, Refund,
     WriteStatus, Serve, At
<1>3. CASE Cancel(p)
  <2>1. CASE UNCHANGED <<wallet, overwritten>>
    BY <1>1, <1>2, <2>1, EvenQuiet DEF Comes, wallet
  <2>2. CASE Overwrite(p, h.bal + 1) /\ ledger' = ledger + 1
    <3>1. ~overwritten' => ~overwritten /\ balance' = balance + 1
      BY <2>2 DEF Overwrite
    <3>2. balance' = balance + 1 => balance' - ledger' = balance - ledger
      BY <1>0, <2>2, DriftTypes
    <3>3. Pending(p)' = 0 /\ Pending(p) = 0
      BY <1>1, <1>2 DEF Pending, Comes
    <3> QED BY <1>1, <1>2, <3>1, <3>2, <3>3 DEF Even, Comes
  <2> QED BY <1>3, <2>1, <2>2 DEF Cancel
<1>4. CASE ~Cancel(p)
  <2>1. UNCHANGED overwritten
    BY <1>4 DEF OrderStep, AskCancel, ReadOrder, SetStatus, BulkFail, Refund,
       WriteStatus, trails, marks
  <2>2. balance' - ledger' = balance - ledger
    BY <1>0, <1>4, MoveKeepsDrift DEF OrderStep, AskCancel, ReadOrder, SetStatus,
       BulkFail, Refund, WriteStatus, wallet
  <2> QED BY <1>1, <1>2, <2>1, <2>2, EvenQuiet DEF Comes
<1> QED BY <1>3, <1>4

LEMMA BillStepEven ==
  ASSUME IInv, NEW p \in Handlers, BillStep(p) \/ PartnerStep(p)
  PROVE  /\ \A q \in Handlers \ {p} : handler'[q] = handler[q]
         /\ crashes' = crashes /\ Even(p)
<1>0. TypeOK /\ RefundsBacked /\ HandlersPlaced
  BY IInvSplit, TypeSplit
<1>1. handler[p].pc # "entry" /\ UNCHANGED <<crashes, overwritten>>
  BY DEF BillStep, AskPayBill, AdminPays, ReadBill, Debit, MarkBillPaid,
     RecordCash, PartnerStep, ReportStop, WriteReport, Serve, At, trails, marks
<1>2. handler'[p].pc # "entry" /\ \A q \in Handlers \ {p} : handler'[q] = handler[q]
  BY <1>0, BillStepLabels, BillStepComes, PartnerStepComes DEF Comes
<1>3. balance' - ledger' = balance - ledger
  BY <1>0, MoveKeepsDrift DEF BillStep, AskPayBill, AdminPays, ReadBill, Debit,
     MarkBillPaid, RecordCash, PartnerStep, ReportStop, WriteReport, wallet
<1> QED BY <1>1, <1>2, <1>3, EvenQuiet

LEMMA UnlockedStepEven ==
  ASSUME IInv, NEW p \in Handlers, UnlockedStep(p)
  PROVE  /\ \A q \in Handlers \ {p} : handler'[q] = handler[q]
         /\ crashes' = crashes /\ Even(p)
<1>0. TypeOK /\ RefundsBacked /\ HandlersPlaced
  BY IInvSplit, TypeSplit
<1> DEFINE h == handler[p]
<1>1. \A q \in Handlers \ {p} : handler'[q] = handler[q]
  BY <1>0, UnlockedStepComes DEF Comes
<1>2. crashes' = crashes
  BY DEF UnlockedStep, AskAdjust, Adjust, AddEntry, Subscribe
<1> SUFFICES Even(p)
  BY <1>1, <1>2
<1>3. ASSUME NEW op, NEW d, AskAdjust(p, op, d) PROVE Even(p)
  <2> DEFINE g == [Idle EXCEPT !.pc = "write", !.bal = balance, !.delta = d]
  <2>1. handler'[p] = g /\ g.pc = "write"
    BY <1>0, <1>3, BeginComes DEF AskAdjust, Idle
  <2> HIDE DEF g
  <2>2. UNCHANGED <<balance, ledger, overwritten>> /\ h.pc = "idle"
    BY <1>3 DEF AskAdjust, Serve, At, wallet, trails
  <2> QED BY <2>1, <2>2, EvenQuiet
<1>4. CASE Adjust(p)
  <2>1. h.pc = "write" /\ UNCHANGED ledger
    BY <1>4 DEF Adjust, At
  <2>2. CASE Overwrite(p, h.bal + h.delta) /\ Goto(p, "entry")
    <3>1. handler'[p] = [h EXCEPT !.pc = "entry"]
      BY <1>0, <2>2, GotoComes
    <3>2. handler'[p].pc = "entry" /\ handler'[p].delta = h.delta
      BY <1>0, <3>1 DEF HandlersPlaced, Handler
    <3>3. ~overwritten' => ~overwritten /\ balance' = balance + h.delta
      BY <2>2 DEF Overwrite
    <3>4. balance' = balance + h.delta => balance' - ledger' - h.delta = balance - ledger - 0
      BY <1>0, <2>1, DriftTypes
    <3>5. Pending(p)' = h.delta /\ Pending(p) = 0
      BY <2>1, <3>2 DEF Pending
    <3> QED BY <3>3, <3>4, <3>5 DEF Even
  <2>3. CASE Done(p) /\ UNCHANGED <<balance, overwritten>>
    <3>1. handler'[p].pc = "idle"
      BY <1>0, <2>3, DoneComes DEF Idle
    <3> QED BY <2>1, <2>3, <3>1, EvenQuiet
  <2> QED BY <1>4, <2>2, <2>3 DEF Adjust
<1>5. CASE AddEntry(p)
  <2>1. /\ handler'[p].pc = "idle" /\ h.pc = "entry"
        /\ UNCHANGED <<balance, overwritten>> /\ ledger' = ledger + h.delta
    BY <1>0, <1>5, DoneComes DEF AddEntry, At, Idle, trails
  <2>2. balance' - ledger' - 0 = balance - ledger - h.delta
    BY <1>0, <2>1, DriftTypes
  <2> QED BY <2>1, <2>2 DEF Even, Pending
<1>6. CASE Subscribe(p)
  <2> DEFINE g == [Idle EXCEPT !.pc = "entry", !.delta = -1]
  <2>1. handler'[p] = g /\ g.pc = "entry" /\ g.delta = -1
    BY <1>0, <1>6, BeginComes DEF Subscribe, Idle
  <2> HIDE DEF g
  <2>2. /\ h.pc = "idle" /\ balance' = balance - 1
        /\ UNCHANGED <<ledger, overwritten>>
    BY <1>6 DEF Subscribe, Serve, At, trails
  <2>3. balance' - ledger' - (-1) = balance - ledger - 0
    BY <1>0, <2>2, DriftTypes
  <2> QED BY <2>1, <2>2, <2>3 DEF Even, Pending
<1> QED BY <1>3, <1>4, <1>5, <1>6 DEF UnlockedStep

\* A request of one statement is answered by a handler that is idle.
LEMMA OneStepEven ==
  ASSUME TypeOK, NEW p \in Handlers, OneStep(p)
  PROVE  UNCHANGED <<handler, crashes>> /\ Even(p)
<1>1. handler' = handler /\ handler[p].pc = "idle" /\ UNCHANGED <<crashes, overwritten>>
  BY DEF OneStep, TopUp, CheckoutByWallet, CheckoutOtherwise, SettleOnline,
     Serve, At, trails
<1>2. balance' - ledger' = balance - ledger
  BY MoveKeepsDrift
     DEF OneStep, TopUp, CheckoutByWallet, CheckoutOtherwise, SettleOnline, wallet
<1> QED BY <1>1, <1>2, EvenQuiet

\* A handler that dies loses the entry it had still to add.
LEMMA CrashDrift ==
  ASSUME IsFiniteSet(Handlers), TypeOK, TypeOK', DriftBounded, NEW p \in Handlers,
         Crash(p)
  PROVE  DriftBounded'
<1>1. /\ Comes(p, {"idle"}) /\ crashes' = crashes + 1
      /\ UNCHANGED <<balance, ledger, overwritten>>
  BY TypeSplit, DoneComes DEF Crash, wallet, trails
<1>2. Pending(p)' = 0
  BY <1>1 DEF Comes, Pending
<1>3. Owed \in Int /\ Owed' = Owed - Pending(p)
  BY <1>1, <1>2, OwedMoves, DriftTypes DEF Comes
<1> QED BY <1>1, <1>3, DriftTypes DEF DriftBounded

LEMMA NextDrift ==
  ASSUME IsFiniteSet(Handlers), IInv, DriftBounded, [Next]_vars
  PROVE  DriftBounded'
<1>0. TypeOK /\ TypeOK'
  BY IInvSplit, NextType
<1>1. CASE UNCHANGED <<wallet, handler, crashes, overwritten>>
  BY <1>1 DEF wallet, DriftBounded, Owed, Entering
<1>2. ASSUME NEW p \in Handlers,
             \/ OneStep(p) \/ OrderStep(p) \/ PartnerStep(p) \/ BillStep(p)
             \/ UnlockedStep(p)
      PROVE  DriftBounded'
  <2>1. /\ \A q \in Handlers \ {p} : handler'[q] = handler[q]
        /\ crashes' = crashes /\ Even(p)
    BY <1>0, <1>2, OneStepEven, OrderStepEven, BillStepEven, UnlockedStepEven
  <2> QED BY <1>0, <2>1, EvenKeepsDrift
<1>3. ASSUME NEW p \in Handlers, Crash(p) PROVE DriftBounded'
  BY <1>0, <1>3, CrashDrift
<1>4. ASSUME \/ UNCHANGED vars
             \/ \E o \in Orders : DatePasses(o)
             \/ \E b \in Bills : RaiseBill(b)
      PROVE  UNCHANGED <<wallet, handler, crashes, overwritten>>
  BY <1>4 DEF vars, wallet, trails, DatePasses, RaiseBill
<1> QED BY <1>1, <1>2, <1>3, <1>4 DEF Next

\* However the writers of the balance overlap, the ones that add their entry in a
\* second statement too, it differs from the ledger by one entry per crash at most
\* until a balance is written that had been read before another moved it.
THEOREM DriftIsByCrash == IsFiniteSet(Handlers) => (Spec => []DriftOnlyByCrash)
<1> DEFINE Limited == IsFiniteSet(Handlers)
<1>1. Limited /\ IInv /\ DriftBounded => DriftOnlyByCrash
  <2> SUFFICES ASSUME IInv, DriftBounded, ~overwritten,
                      \A p \in Handlers : ~At(p, "entry")
               PROVE  balance - ledger \in (0 - crashes)..crashes
    BY DEF DriftOnlyByCrash
  <2>1. Entering(1) = {} /\ Entering(-1) = {}
    BY DEF Entering, At
  <2>2. Owed = 0
    BY <2>1, FS_EmptySet DEF Owed
  <2>3. balance \in Nat /\ ledger \in Int /\ crashes \in Nat
    BY IInvSplit DEF TypeOK
  <2> QED BY <2>2, <2>3 DEF DriftBounded
<1>2. Limited /\ IInv /\ DriftBounded /\ [Next]_vars => DriftBounded'
  BY NextDrift
<1>3. Limited /\ Init => DriftBounded
  BY InitDrift
<1>4. Limited => []Limited
  OBVIOUS
<1> HIDE DEF Limited
<1>5. Limited => (Spec => []DriftOnlyByCrash)
  BY <1>1, <1>2, <1>3, <1>4, WalletIsSound, PTL DEF Spec
<1> QED BY <1>5 DEF Limited
=============================================================================
