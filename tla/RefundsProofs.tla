--------------------------- MODULE RefundsProofs ---------------------------
(***************************************************************************)
(* Theorems of Refunds, for any calendar, schedule, set of requests and    *)
(* choice of entry points.                                                 *)
(***************************************************************************)
EXTENDS Refunds, SequenceTheorems, TLAPS

-----------------------------------------------------------------------------
(* Lemmas on the parts a step is made of.                                  *)

RowsTyped ==
  /\ today \in Days
  /\ window \in Window
  /\ pauses \in Seq(Pause)
  /\ order \in [Scheduled -> OrderStatuses \cup {"none"}]
  /\ itemised \subseteq Scheduled
  /\ candidate \in [Scheduled -> CandidateStatuses \cup {"none"}]
  /\ paid \in [Scheduled -> Nat]

RequestsTyped ==
  /\ request \in [Requests -> Request]
  /\ \A r \in Requests : Typed(request[r], Len(pauses))

LEMMA TypeSplit == TypeOK <=> RowsTyped /\ RequestsTyped
BY DEF TypeOK, RowsTyped, RequestsTyped

LEMMA TypeSplitNext == RowsTyped' /\ RequestsTyped' => TypeOK'
BY DEF TypeOK, RowsTyped, RequestsTyped

LEMMA IdleTyped == \A n \in Nat : Typed(Idle, n)
BY RefundsAssumption DEF Typed, Idle, Request, Reads, NoDay

LEMMA ScanTyped ==
  ASSUME NEW n \in Nat, NEW from \in Days, NEW to \in Days
  PROVE  Typed(StartOfScan(from, to), n)
<1>1. Idle \in Request /\ Reads \in SUBSET Reads
  BY IdleTyped DEF Typed
<1>2. Scheduled \cap (from .. to) \in SUBSET Scheduled
  OBVIOUS
<1>3. StartOfScan(from, to) \in Request
  BY <1>1, <1>2 DEF StartOfScan, Request
<1>4. StartOfScan(from, to).pc = "scan"
  BY <1>1 DEF StartOfScan, Request
<1> QED BY <1>3, <1>4 DEF Typed

\* A request that goes on, while no pause row disappears.
LEMMA BeginTyped ==
  ASSUME RequestsTyped, pauses \in Seq(Pause), pauses' \in Seq(Pause),
         Len(pauses') >= Len(pauses),
         NEW r \in Requests, NEW q, Typed(q, Len(pauses')), Begin(r, q)
  PROVE  RequestsTyped'
<1>1. request' \in [Requests -> Request]
  BY DEF RequestsTyped, Begin, Typed
<1>2. ASSUME NEW s \in Requests PROVE Typed(request'[s], Len(pauses'))
  <2>1. CASE s = r
    BY <2>1 DEF RequestsTyped, Begin
  <2>2. CASE s # r
    <3>1. request'[s] = request[s] /\ Typed(request[s], Len(pauses))
      BY <2>2 DEF RequestsTyped, Begin
    <3>2. Len(pauses) \in Nat /\ Len(pauses') \in Nat
      OBVIOUS
    <3> QED BY <3>1, <3>2 DEF Typed
  <2> QED BY <2>1, <2>2
<1> QED BY <1>1, <1>2 DEF RequestsTyped

LEMMA DoneTyped ==
  ASSUME RequestsTyped, pauses \in Seq(Pause), pauses' \in Seq(Pause),
         Len(pauses') >= Len(pauses), NEW r \in Requests, Done(r)
  PROVE  RequestsTyped'
<1>1. Typed(Idle, Len(pauses'))
  BY IdleTyped
<1> QED BY <1>1, BeginTyped DEF Done

\* A function on 1 .. n is a sequence.
LEMMA FunctionIsSeq ==
  ASSUME NEW S, NEW n \in Nat, NEW f \in [1 .. n -> S]
  PROVE  f \in Seq(S) /\ Len(f) = n
<1>1. [i \in 1 .. n |-> f[i]] \in Seq(S) /\ Len([i \in 1 .. n |-> f[i]]) = n
  OBVIOUS
<1>2. f = [i \in 1 .. n |-> f[i]]
  OBVIOUS
<1> QED BY <1>1, <1>2

-----------------------------------------------------------------------------
(* Types.                                                                  *)

LEMMA InitType == Init => TypeOK
<1> SUFFICES ASSUME Init PROVE TypeOK
  OBVIOUS
<1>1. RowsTyped
  BY RefundsAssumption DEF Init, RowsTyped, Days, Window, NoWindow, NoDay
<1>2. RequestsTyped
  <2>1. Len(pauses) = 0
    BY DEF Init
  <2>2. Typed(Idle, 0)
    BY IdleTyped
  <2> QED BY <2>1, <2>2 DEF Init, RequestsTyped, Typed
<1> QED BY <1>1, <1>2, TypeSplit

LEMMA PauseStepType ==
  ASSUME TypeOK, NEW r \in Requests, PauseStep(r)
  PROVE  TypeOK'
<1>0. RowsTyped /\ RequestsTyped /\ Len(pauses) \in Nat /\ request[r] \in Request
      /\ Typed(request[r], Len(pauses)) /\ Idle \in Request
  <2>1. RowsTyped /\ RequestsTyped
    BY TypeSplit
  <2>2. Len(pauses) \in Nat
    BY <2>1, LenProperties DEF RowsTyped
  <2> QED BY <2>1, <2>2, IdleTyped DEF RequestsTyped, Typed
<1>1. ASSUME NEW from \in Days, NEW to \in Days, NEW op \in {"pause", "adminPause"},
             AskPause(r, from, to, op)
      PROVE  TypeOK'
  <2>1. RowsTyped'
    BY <1>0, <1>1 DEF AskPause, RowsTyped, subscription, deliveries, refunds
  <2> DEFINE q == [Idle EXCEPT !.pc = "pause", !.from = from, !.to = to,
                               !.hook = (op = "adminPause")]
  <2>2. q \in Request /\ q.pc = "pause" /\ q.from = from /\ q.to = to
    <3>1. from \in 0 .. LastDay /\ to \in 0 .. LastDay
      BY RefundsAssumption DEF Days
    <3>2. (op = "adminPause") \in BOOLEAN
      OBVIOUS
    <3> QED BY <1>0, <3>1, <3>2, Zenon DEF Request
  <2>3. Typed(q, Len(pauses))
    BY <2>2 DEF Typed
  <2>4. Begin(r, q) /\ pauses' = pauses
    BY <1>1 DEF AskPause, subscription
  <2>5. RequestsTyped'
    BY <1>0, <2>3, <2>4, BeginTyped DEF RowsTyped
  <2> QED BY <2>1, <2>5, TypeSplitNext
<1>2. CASE CommitPause(r)
  <2> DEFINE q == request[r]
             row == [from |-> q.from, to |-> q.to, status |-> "paused",
                     updated |-> today, settled |-> FALSE]
  <2>1. q.from \in Days /\ q.to \in Days
    BY <1>0, <1>2 DEF CommitPause, At, Typed
  <2>2. row \in Pause
    BY <1>0, <2>1 DEF RowsTyped, Pause
  <2>3. pauses' = Append(pauses, row)
    BY <1>2 DEF CommitPause
  <2>4. pauses' \in Seq(Pause) /\ Len(pauses') = Len(pauses) + 1
    BY <1>0, <2>2, <2>3, AppendProperties DEF RowsTyped
  <2>5. RowsTyped'
    BY <1>0, <1>2, <2>1, <2>4
       DEF CommitPause, RowsTyped, deliveries, refunds, Window, Days
  <2>6. RequestsTyped'
    <3>1. CASE q.hook
      <4>1. Begin(r, StartOfScan(q.from, q.to))
        BY <1>2, <3>1 DEF CommitPause
      <4>2. Typed(StartOfScan(q.from, q.to), Len(pauses'))
        BY <1>0, <2>1, <2>4, ScanTyped
      <4> QED BY <1>0, <2>4, <4>1, <4>2, BeginTyped DEF RowsTyped
    <3>2. CASE ~q.hook
      BY <1>0, <1>2, <2>4, <3>2, DoneTyped DEF CommitPause, RowsTyped
    <3> QED BY <3>1, <3>2
  <2> QED BY <2>5, <2>6, TypeSplitNext
<1>3. ASSUME NEW day \in Days \cup {NoDay}, AskResume(r, day) PROVE TypeOK'
  <2>1. RowsTyped'
    BY <1>0, <1>3 DEF AskResume, RowsTyped, subscription, deliveries, refunds
  <2> DEFINE q == [Idle EXCEPT !.pc = "findPause", !.day = day]
  <2>2. day \in 0 .. LastDay /\ day # 1
    BY <1>0, <1>3, RefundsAssumption DEF AskResume, RowsTyped, Days, NoDay
  <2>3. q \in Request /\ q.pc = "findPause" /\ q.day = day
    BY <1>0, <2>2 DEF Request
  <2>4. Typed(q, Len(pauses))
    BY <2>2, <2>3 DEF Typed
  <2>5. Begin(r, q) /\ pauses' = pauses
    BY <1>3 DEF AskResume, subscription
  <2>6. RequestsTyped'
    BY <1>0, <2>4, <2>5, BeginTyped DEF RowsTyped
  <2> QED BY <2>1, <2>6, TypeSplitNext
<1>4. CASE FindPause(r)
  <2>1. RowsTyped' /\ pauses' = pauses
    BY <1>0, <1>4 DEF FindPause, RowsTyped, subscription, deliveries, refunds
  <2>2. ASSUME NEW i \in DOMAIN pauses,
               Begin(r, [request[r] EXCEPT !.pc = "resume", !.row = i,
                                           !.to = pauses[i].to])
        PROVE  RequestsTyped'
    <3> DEFINE q == [request[r] EXCEPT !.pc = "resume", !.row = i,
                                       !.to = pauses[i].to]
    <3>1. i \in 1 .. Len(pauses) /\ pauses[i] \in Pause
      BY <1>0, LenProperties, ElementOfSeq DEF RowsTyped
    <3>2. i \in Nat /\ pauses[i].to \in Days /\ pauses[i].to \in 0 .. LastDay
      BY <1>0, <3>1, RefundsAssumption DEF Pause, Days
    <3>3. q \in Request /\ q.pc = "resume" /\ q.row = i /\ q.to = pauses[i].to
          /\ q.day = request[r].day
      BY <1>0, <3>2, Zenon DEF Request
    <3>4. request[r].day # 1
      BY <1>0, <1>4 DEF FindPause, At, Typed
    <3>5. Typed(q, Len(pauses))
      BY <3>1, <3>2, <3>3, <3>4 DEF Typed
    <3> QED BY <1>0, <2>1, <2>2, <3>5, BeginTyped DEF RowsTyped
  <2>3. ASSUME Done(r) PROVE RequestsTyped'
    BY <1>0, <2>1, <2>3, DoneTyped DEF RowsTyped
  <2>4. RequestsTyped'
    BY <1>4, <2>2, <2>3 DEF FindPause
  <2> QED BY <2>1, <2>4, TypeSplitNext
<1>5. CASE Resume(r)
  <2> DEFINE q == request[r]
  <2>1. q.row \in 1 .. Len(pauses) /\ q.to \in Days /\ q.day # 1
        /\ q.day \in 0 .. LastDay
    BY <1>0, <1>5 DEF Resume, At, Typed, Request
  <2>2. pauses[q.row] \in Pause /\ today \in Days
    BY <1>0, <2>1, ElementOfSeq DEF RowsTyped
  <2>3. ASSUME CallOff(q.row)
        PROVE  window' \in Window /\ pauses' \in Seq(Pause)
               /\ Len(pauses') >= Len(pauses)
    <3> DEFINE row == [pauses[q.row] EXCEPT !.status = "resumed", !.updated = today]
    <3>1. row \in Pause
      BY <2>2 DEF Pause
    <3>2. pauses' = [pauses EXCEPT ![q.row] = row]
      BY <1>0, <2>1, <2>2, <2>3 DEF CallOff, RowsTyped, Pause
    <3>3. window' \in Window
      BY <2>3, RefundsAssumption DEF CallOff, Window, NoWindow, NoDay
    <3> QED BY <1>0, <2>1, <3>1, <3>2, <3>3, ExceptSeq DEF RowsTyped
  <2>4. ASSUME CutShort(q.row, q.day, q.to), q.day # NoDay
        PROVE  window' \in Window /\ pauses' \in Seq(Pause)
               /\ Len(pauses') >= Len(pauses)
    <3> DEFINE row == [pauses[q.row] EXCEPT !.to = q.day - 1, !.updated = today]
               cut == [pauses EXCEPT ![q.row] = row]
               rest == [from |-> q.day, to |-> q.to, status |-> "resumed",
                        updated |-> today, settled |-> FALSE]
    <3>1. q.day \in Days /\ q.day - 1 \in Days
      BY <2>1, <2>4, RefundsAssumption DEF Days, NoDay
    <3>2. row \in Pause /\ rest \in Pause
      BY <2>1, <2>2, <3>1, Zenon DEF Pause
    <3>3. cut = [pauses EXCEPT ![q.row].to = q.day - 1, ![q.row].updated = today]
      BY <1>0, <2>1, <2>2 DEF RowsTyped, Pause
    <3>4. pauses' = Append(cut, rest)
      BY <2>4, <3>3 DEF CutShort
    <3>5. cut \in Seq(Pause) /\ Len(cut) = Len(pauses)
      BY <1>0, <2>1, <3>2, ExceptSeq DEF RowsTyped
    <3>6. pauses' \in Seq(Pause) /\ Len(pauses') = Len(pauses) + 1
      BY <3>2, <3>4, <3>5, AppendProperties
    <3>7. window' \in Window
      <4>1. q.day - 1 \in 0 .. LastDay /\ window \in Window
        BY <1>0, <3>1, RefundsAssumption DEF RowsTyped, Days
      <4> QED BY <2>4, <4>1, Zenon DEF CutShort, Window
    <3> QED BY <1>0, <3>6, <3>7
  <2>5. window' \in Window /\ pauses' \in Seq(Pause) /\ Len(pauses') >= Len(pauses)
    BY <1>5, <2>3, <2>4 DEF Resume
  <2>6. RowsTyped'
    BY <1>0, <1>5, <2>5 DEF Resume, RowsTyped, deliveries, refunds
  <2>7. RequestsTyped'
    BY <1>0, <1>5, <2>5, DoneTyped DEF Resume, RowsTyped
  <2> QED BY <2>6, <2>7, TypeSplitNext
<1>6. CASE AutoResume(r)
  <2>1. RowsTyped' /\ pauses' = pauses
    BY <1>0, <1>6, RefundsAssumption
       DEF AutoResume, RowsTyped, deliveries, refunds, Window, NoWindow, NoDay
  <2> DEFINE q == [Idle EXCEPT !.pc = "complete"]
  <2>2. q \in Request /\ q.pc = "complete"
    BY <1>0 DEF Request
  <2>3. Typed(q, Len(pauses))
    BY <2>2 DEF Typed
  <2>4. RequestsTyped'
    BY <1>0, <1>6, <2>1, <2>3, BeginTyped DEF AutoResume, RowsTyped
  <2> QED BY <2>1, <2>4, TypeSplitNext
<1>7. CASE CompletePauses(r)
  <2>1. ASSUME NEW i \in DOMAIN pauses PROVE pauses'[i] \in Pause
    <3>1. pauses[i] \in Pause
      BY <1>0, LenProperties, ElementOfSeq DEF RowsTyped
    <3> QED BY <1>0, <1>7, <3>1 DEF CompletePauses, RowsTyped, Pause
  <2>2. DOMAIN pauses = 1 .. Len(pauses)
    BY <1>0, LenProperties DEF RowsTyped
  <2>3. pauses' \in [1 .. Len(pauses) -> Pause]
    BY <1>7, <2>1, <2>2 DEF CompletePauses
  <2>4. pauses' \in Seq(Pause) /\ Len(pauses') = Len(pauses)
    BY <1>0, <2>3, FunctionIsSeq
  <2>5. RowsTyped'
    BY <1>0, <1>7, <2>4 DEF CompletePauses, RowsTyped, deliveries, refunds
  <2>6. Done(r)
    BY <1>7 DEF CompletePauses
  <2>7. pauses \in Seq(Pause) /\ Len(pauses') >= Len(pauses)
    BY <1>0, <2>4 DEF RowsTyped
  <2>8. RequestsTyped'
    BY <1>0, <2>4, <2>6, <2>7, DoneTyped
  <2> QED BY <2>5, <2>8, TypeSplitNext
<1> QED BY <1>1, <1>2, <1>3, <1>4, <1>5, <1>6, <1>7 DEF PauseStep

LEMMA DeliveryStepType ==
  ASSUME TypeOK, NEW r \in Requests, DeliveryStep(r)
  PROVE  TypeOK'
<1>0. RowsTyped /\ RequestsTyped /\ Len(pauses) \in Nat /\ Idle \in Request
      /\ pauses \in Seq(Pause)
  <2>1. RowsTyped /\ RequestsTyped
    BY TypeSplit
  <2>2. pauses \in Seq(Pause) /\ Len(pauses) \in Nat
    BY <2>1, LenProperties DEF RowsTyped
  <2> QED BY <2>1, <2>2, IdleTyped DEF Typed
<1>1. pauses' = pauses
  BY DEF DeliveryStep, GenerateOrder, SetStatus, GenerateItems,
         subscription
<1>2. Len(pauses') >= Len(pauses) /\ pauses' \in Seq(Pause)
  BY <1>0, <1>1
<1>3. ASSUME NEW d \in Scheduled, GenerateOrder(r, d) PROVE TypeOK'
  <2>1. RowsTyped'
    BY <1>0, <1>3 DEF GenerateOrder, RowsTyped, subscription, refunds, OrderStatuses
  <2> DEFINE q == [Idle EXCEPT !.pc = "items", !.day = d]
  <2>2. d \in 0 .. LastDay
    BY RefundsAssumption DEF Days
  <2>3. q \in Request /\ q.pc = "items" /\ q.day = d
    BY <1>0, <2>2, Zenon DEF Request
  <2>4. Typed(q, Len(pauses')) /\ Begin(r, q)
    BY <1>3, <2>3 DEF Typed, GenerateOrder
  <2> QED BY <1>0, <1>2, <2>1, <2>4, BeginTyped, TypeSplitNext
<1>4. ASSUME NEW d \in Scheduled, NEW s \in OrderStatuses, SetStatus(r, d, s)
      PROVE  TypeOK'
  BY <1>0, <1>4, TypeSplitNext
     DEF SetStatus, RowsTyped, RequestsTyped, subscription, refunds
<1>6. CASE GenerateItems(r)
  <2>1. request[r].day \in Scheduled
    BY <1>0, <1>6 DEF GenerateItems, At, RequestsTyped, Typed
  <2>2. RowsTyped'
    BY <1>0, <1>6, <2>1 DEF GenerateItems, RowsTyped, subscription, refunds
  <2>3. RequestsTyped'
    BY <1>0, <1>2, <1>6, DoneTyped DEF GenerateItems
  <2> QED BY <2>2, <2>3, TypeSplitNext
<1> QED BY <1>3, <1>4, <1>6 DEF DeliveryStep

\* What a scan found and what is left of it stay sets of scheduled days.
LEMMA ScanStepType ==
  ASSUME TypeOK, NEW r \in Requests, ScanStep(r)
  PROVE  TypeOK'
<1>0. RowsTyped /\ RequestsTyped /\ Len(pauses) \in Nat /\ Idle \in Request
      /\ pauses \in Seq(Pause) /\ request[r] \in Request
      /\ Typed(request[r], Len(pauses))
  <2>1. RowsTyped /\ RequestsTyped
    BY TypeSplit
  <2>2. pauses \in Seq(Pause) /\ Len(pauses) \in Nat
    BY <2>1, LenProperties DEF RowsTyped
  <2> QED BY <2>1, <2>2, IdleTyped DEF Typed, RequestsTyped
<1>1. pauses' = pauses
  BY DEF ScanStep, Scan, ReadPausedDays, ReadFailedOrders, Answer, CreateCandidate,
         EndScan, subscription
<1>2. Len(pauses') >= Len(pauses) /\ pauses' \in Seq(Pause)
  BY <1>0, <1>1
<1>3. ASSUME NEW from \in Days, NEW to \in Days, Scan(r, from, to) PROVE TypeOK'
  <2>1. RowsTyped'
    BY <1>0, <1>3 DEF Scan, RowsTyped, subscription, deliveries, refunds
  <2>2. Begin(r, StartOfScan(from, to)) /\ Typed(StartOfScan(from, to), Len(pauses'))
    BY <1>0, <1>1, <1>3, ScanTyped DEF Scan
  <2> QED BY <1>0, <1>2, <2>1, <2>2, BeginTyped, TypeSplitNext
<1>4. ASSUME NEW read \in Reads, NEW rows \in SUBSET Scheduled, Answer(r, read, rows)
      PROVE  TypeOK'
  <2> DEFINE q == request[r]
             found == q.list \cup rows
             last == [Idle EXCEPT !.pc = "create", !.list = found]
             more == [q EXCEPT !.todo = @ \ {read}, !.list = found]
  <2>1. RowsTyped'
    BY <1>0, <1>4 DEF Answer, RowsTyped, subscription, deliveries, refunds
  <2>2. q.pc = "scan" /\ found \in SUBSET Scheduled /\ q.todo \ {read} \in SUBSET Reads
    BY <1>0, <1>4 DEF Answer, At, Request
  <2>3. last \in Request /\ last.pc = "create"
    BY <1>0, <2>2, Zenon DEF Request
  <2>4. more \in Request /\ more.pc = "scan"
    BY <1>0, <2>2 DEF Request
  <2>5. Typed(last, Len(pauses')) /\ Typed(more, Len(pauses'))
    BY <2>3, <2>4 DEF Typed
  <2>6. Begin(r, last) \/ Begin(r, more)
    BY <1>4 DEF Answer
  <2> QED BY <1>0, <1>2, <2>1, <2>5, <2>6, BeginTyped, TypeSplitNext
<1>5. CASE ReadPausedDays(r)
  BY <1>0, <1>4, <1>5 DEF ReadPausedDays, PausedDays, Reads, Request
<1>6. CASE ReadFailedOrders(r)
  BY <1>0, <1>4, <1>6 DEF ReadFailedOrders, FailedDays, Reads, Request
<1>7. CASE CreateCandidate(r)
  <2>1. PICK d \in request[r].list :
          /\ candidate' = Inserted(d)
          /\ Begin(r, [request[r] EXCEPT !.list = @ \ {d}])
    BY <1>7 DEF CreateCandidate
  <2> DEFINE q == [request[r] EXCEPT !.list = @ \ {d}]
  <2>2. d \in Scheduled /\ request[r].list \ {d} \in SUBSET Scheduled
        /\ request[r].pc = "create"
    BY <1>0, <1>7 DEF Request, CreateCandidate, At
  <2>3. RowsTyped'
    BY <1>0, <1>7, <2>1, <2>2
       DEF CreateCandidate, Inserted, RowsTyped, subscription, deliveries,
           CandidateStatuses
  <2>4. q \in Request /\ q.pc = "create"
    BY <1>0, <2>2 DEF Request
  <2>5. Typed(q, Len(pauses'))
    BY <2>4 DEF Typed
  <2> QED BY <1>0, <1>2, <2>1, <2>3, <2>5, BeginTyped, TypeSplitNext
<1>8. CASE EndScan(r)
  <2>1. RowsTyped' /\ Done(r)
    BY <1>0, <1>8 DEF EndScan, RowsTyped, subscription, deliveries, refunds
  <2> QED BY <1>0, <1>2, <2>1, DoneTyped, TypeSplitNext
<1> QED BY <1>3, <1>5, <1>6, <1>7, <1>8 DEF ScanStep

LEMMA RefundStepType ==
  ASSUME TypeOK, NEW r \in Requests, RefundStep(r)
  PROVE  TypeOK'
<1>0. RowsTyped /\ RequestsTyped /\ Len(pauses) \in Nat /\ Idle \in Request
      /\ pauses \in Seq(Pause) /\ request[r] \in Request
  <2>1. RowsTyped /\ RequestsTyped
    BY TypeSplit
  <2>2. pauses \in Seq(Pause) /\ Len(pauses) \in Nat
    BY <2>1, LenProperties DEF RowsTyped
  <2> QED BY <2>1, <2>2, IdleTyped DEF Typed, RequestsTyped
<1>1. ASSUME NEW days \in SUBSET Scheduled, Review(r, days) \/ Reject(r, days)
      PROVE  TypeOK'
  BY <1>0, <1>1, TypeSplitNext
     DEF Review, Reject, Decide, RowsTyped, RequestsTyped, subscription, deliveries,
         CandidateStatuses
<1>2. ASSUME NEW days \in SUBSET Scheduled, AskApprove(r, days) PROVE TypeOK'
  <2> DEFINE payable == {d \in days : candidate[d] \in Payable}
             q == [Idle EXCEPT !.pc = "payOut", !.list = payable]
  <2>1. RowsTyped' /\ pauses' = pauses
    BY <1>0, <1>2 DEF AskApprove, RowsTyped, subscription, deliveries, refunds
  <2>2. payable \in SUBSET Scheduled
    OBVIOUS
  <2>3. q \in Request /\ q.pc = "payOut"
    BY <1>0, <2>2, Zenon DEF Request
  <2>4. Typed(q, Len(pauses')) /\ Begin(r, q) /\ Len(pauses') >= Len(pauses)
    BY <1>0, <1>2, <2>1, <2>3 DEF Typed, AskApprove
  <2> QED BY <1>0, <2>1, <2>4, BeginTyped, TypeSplitNext
<1>3. CASE PayOut(r)
  <2> DEFINE status == [d \in Scheduled |->
                          IF d \in request[r].list THEN "refunded" ELSE candidate[d]]
             settle(i) == IF IsSettledBy(pauses[i], status)
                            THEN [pauses[i] EXCEPT !.settled = TRUE, !.updated = today]
                            ELSE pauses[i]
             rows == [i \in DOMAIN pauses |-> settle(i)]
  <2>1. DOMAIN pauses = 1 .. Len(pauses) /\ today \in Days
    BY <1>0, LenProperties DEF RowsTyped
  <2>2. ASSUME NEW i \in DOMAIN pauses PROVE settle(i) \in Pause
    <3>1. pauses[i] \in Pause
      BY <1>0, <2>1, ElementOfSeq
    <3> HIDE DEF status
    <3> QED BY <2>1, <3>1 DEF Pause
  <2>3. rows \in [1 .. Len(pauses) -> Pause]
    BY <2>1, <2>2, Zenon
  <2>4. rows \in Seq(Pause) /\ Len(rows) = Len(pauses)
    <3> HIDE DEF rows
    <3> QED BY <1>0, <2>3, FunctionIsSeq
  <2>5. pauses' = rows \/ pauses' = pauses
    BY <1>3, Zenon DEF PayOut, refunds
  <2>6. pauses' \in Seq(Pause) /\ Len(pauses') = Len(pauses)
    <3> HIDE DEF rows
    <3> QED BY <1>0, <2>4, <2>5
  <2>7. candidate' \in [Scheduled -> CandidateStatuses \cup {"none"}]
        /\ paid' \in [Scheduled -> Nat]
    <3>1. status \in [Scheduled -> CandidateStatuses \cup {"none"}]
      BY <1>0 DEF RowsTyped, CandidateStatuses
    <3> DEFINE more == [d \in Scheduled |->
                          IF d \in request[r].list THEN paid[d] + 1 ELSE paid[d]]
    <3>2. more \in [Scheduled -> Nat]
      BY <1>0 DEF RowsTyped
    <3>3. \/ candidate' = status /\ paid' = more
          \/ candidate' = candidate /\ paid' = paid
      BY <1>3, Zenon DEF PayOut, refunds
    <3> HIDE DEF status, more
    <3> QED BY <1>0, <3>1, <3>2, <3>3 DEF RowsTyped
  <2>8. Done(r) /\ UNCHANGED <<today, window, order, itemised>>
    BY <1>3, Zenon DEF PayOut, deliveries
  <2>9. RowsTyped'
    <3> HIDE DEF rows
    <3> QED BY <1>0, <2>6, <2>7, <2>8 DEF RowsTyped
  <2>10. Len(pauses') >= Len(pauses)
    <3> HIDE DEF rows
    <3> QED BY <1>0, <2>6
  <2> HIDE DEF rows
  <2>11. RequestsTyped'
    BY <1>0, <2>6, <2>8, <2>10, DoneTyped
  <2> QED BY <2>9, <2>11, TypeSplitNext
<1> QED BY <1>1, <1>2, <1>3 DEF RefundStep

LEMMA NextType == TypeOK /\ [Next]_vars => TypeOK'
<1> SUFFICES ASSUME TypeOK, [Next]_vars PROVE TypeOK'
  OBVIOUS
<1>1. CASE NextDay
  BY <1>1, RefundsAssumption DEF NextDay, TypeOK, Days, subscription, deliveries, refunds
<1>2. ASSUME NEW r \in Requests, Abandon(r) PROVE TypeOK'
  <2>1. RowsTyped /\ RequestsTyped
    BY TypeSplit
  <2>2. pauses \in Seq(Pause) /\ Len(pauses) \in Nat /\ pauses' = pauses
    BY <1>2, <2>1, LenProperties DEF RowsTyped, Abandon, subscription
  <2>3. RowsTyped' /\ Done(r)
    BY <1>2, <2>1 DEF Abandon, RowsTyped, subscription, deliveries, refunds
  <2>4. Len(pauses') >= Len(pauses)
    BY <2>2
  <2> QED BY <2>1, <2>2, <2>3, <2>4, DoneTyped, TypeSplitNext
<1>3. CASE UNCHANGED vars
  BY <1>3 DEF vars, TypeOK, subscription, deliveries, refunds
<1> QED BY <1>1, <1>2, <1>3, PauseStepType, DeliveryStepType, ScanStepType,
           RefundStepType DEF Next

\* Every variable keeps its type in every reachable state, and a handler's
\* fields what its label says of them: the pause it ends is a row that exists.
THEOREM RefundsTypeCorrect == Spec => []TypeOK
<1>1. Init => TypeOK
  BY InitType
<1>2. TypeOK /\ [Next]_vars => TypeOK'
  BY NextType
<1> QED BY <1>1, <1>2, PTL DEF Spec

-----------------------------------------------------------------------------
(* The inductive invariant.                                                *)

LEMMA InitIInv == Init => IInv
<1> SUFFICES ASSUME Init PROVE IInv
  OBVIOUS
<1>1. TypeOK
  BY InitType
<1>2. RefundMatches /\ NoDayAheadIsRaised
  BY DEF Init, RefundMatches, NoDayAheadIsRaised
<1>3. ListsAreOver
  BY DEF Init, ListsAreOver, Idle
<1> QED BY <1>1, <1>2, <1>3 DEF IInv

\* No step turns the calendar back.
LEMMA TimePasses == TypeOK /\ [Next]_vars => today' \in Days /\ today' >= today
<1> SUFFICES ASSUME TypeOK, [Next]_vars PROVE today' \in Days /\ today' >= today
  OBVIOUS
<1>1. today' \in Days
  BY NextType DEF TypeOK
<1>2. today' = today \/ today' = today + 1
  BY DEF Next, vars, NextDay, PauseStep, AskPause, CommitPause, AskResume, FindPause,
         Resume, AutoResume, CompletePauses, DeliveryStep, GenerateOrder,
         GenerateItems, SetStatus, ScanStep, Scan, ReadPausedDays,
         ReadFailedOrders, Answer, CreateCandidate, EndScan, RefundStep, Review,
         Reject, Decide, AskApprove, PayOut, Abandon
<1> QED BY <1>1, <1>2, RefundsAssumption DEF TypeOK, Days

\* Only a payout touches paid, and it pays what was payable under the lock.
LEMMA RefundMatchesNext == IInv /\ [Next]_vars => RefundMatches'
<1> SUFFICES ASSUME IInv, [Next]_vars PROVE RefundMatches'
  OBVIOUS
<1>0. /\ candidate \in [Scheduled -> CandidateStatuses \cup {"none"}]
      /\ paid \in [Scheduled -> Nat]
      /\ RefundMatches
  BY DEF IInv, TypeOK
<1>1. ASSUME UNCHANGED refunds PROVE RefundMatches'
  BY <1>0, <1>1 DEF RefundMatches, refunds
<1>2. ASSUME NEW r \in Requests, CreateCandidate(r) PROVE RefundMatches'
  BY <1>0, <1>2 DEF CreateCandidate, Inserted, RefundMatches, CandidateStatuses
<1>3. ASSUME NEW r \in Requests, NEW days \in SUBSET Scheduled,
             Review(r, days) \/ Reject(r, days)
      PROVE  RefundMatches'
  BY <1>0, <1>3 DEF Review, Reject, Decide, RefundMatches
<1>4. ASSUME NEW r \in Requests, PayOut(r) PROVE RefundMatches'
  <2>1. CASE ~StillPayable(request[r].list)
    BY <1>1, <1>4, <2>1, Zenon DEF PayOut, refunds
  <2>2. CASE StillPayable(request[r].list)
    <3> DEFINE days == request[r].list
    <3>1. /\ candidate' = [d \in Scheduled |-> IF d \in days THEN "refunded"
                                                ELSE candidate[d]]
          /\ paid' = [d \in Scheduled |-> IF d \in days THEN paid[d] + 1
                                           ELSE paid[d]]
      BY <1>4, <2>2, Zenon DEF PayOut
    <3>2. \A d \in days : candidate[d] # "refunded"
      BY <2>2 DEF StillPayable, Payable
    <3> QED BY <1>0, <3>1, <3>2 DEF RefundMatches
  <2> QED BY <2>1, <2>2
<1>5. CASE UNCHANGED vars
  BY <1>1, <1>5 DEF vars, refunds
<1>6. CASE NextDay
  BY <1>1, <1>6 DEF NextDay
<1>7. ASSUME NEW r \in Requests, PauseStep(r) \/ DeliveryStep(r) \/ Abandon(r)
      PROVE  UNCHANGED refunds
  BY <1>7 DEF PauseStep, AskPause, CommitPause, AskResume, FindPause, Resume,
              AutoResume, CompletePauses, DeliveryStep, GenerateOrder, GenerateItems,
              SetStatus, Abandon
<1>8. ASSUME NEW r \in Requests, ScanStep(r) PROVE RefundMatches'
  BY <1>1, <1>2, <1>8
     DEF ScanStep, Scan, ReadPausedDays, ReadFailedOrders, Answer, EndScan
<1>9. ASSUME NEW r \in Requests, RefundStep(r) PROVE RefundMatches'
  BY <1>1, <1>3, <1>4, <1>9 DEF RefundStep, AskApprove
<1> QED BY <1>1, <1>5, <1>6, <1>7, <1>8, <1>9 DEF Next

\* A row appears only for a day some scan holds; the other steps change rows
\* that exist.
LEMMA RaisedNext == IInv /\ [Next]_vars => NoDayAheadIsRaised'
<1> SUFFICES ASSUME IInv, [Next]_vars PROVE NoDayAheadIsRaised'
  OBVIOUS
<1>0. /\ candidate \in [Scheduled -> CandidateStatuses \cup {"none"}]
      /\ NoDayAheadIsRaised /\ ListsAreOver
      /\ Scheduled \subseteq Nat /\ today \in Nat /\ today' \in Nat
      /\ today' >= today
      /\ \A r \in Requests : request[r].list \subseteq Scheduled
  BY TimePasses, RefundsAssumption DEF IInv, TypeOK, Days, Request
<1>1. ASSUME \A d \in Scheduled : candidate'[d] # "none" =>
                candidate[d] # "none" \/ d <= today
      PROVE  NoDayAheadIsRaised'
  BY <1>0, <1>1 DEF NoDayAheadIsRaised
<1>2. ASSUME UNCHANGED candidate PROVE NoDayAheadIsRaised'
  BY <1>1, <1>2
<1>3. ASSUME NEW r \in Requests, CreateCandidate(r) PROVE NoDayAheadIsRaised'
  <2>1. PICK d \in request[r].list : candidate' = Inserted(d)
    BY <1>3 DEF CreateCandidate
  <2>2. d \in Scheduled /\ d <= today
    BY <1>0, <1>3 DEF ListsAreOver, CreateCandidate, At
  <2> QED BY <1>0, <1>1, <2>1, <2>2 DEF Inserted
<1>4. ASSUME NEW r \in Requests, NEW days \in SUBSET Scheduled,
             Review(r, days) \/ Reject(r, days)
      PROVE  NoDayAheadIsRaised'
  BY <1>0, <1>1, <1>4 DEF Review, Reject, Decide
<1>5. ASSUME NEW r \in Requests, PayOut(r) PROVE NoDayAheadIsRaised'
  <2>1. CASE ~StillPayable(request[r].list)
    BY <1>2, <1>5, <2>1, Zenon DEF PayOut, refunds
  <2>2. CASE StillPayable(request[r].list)
    <3>1. candidate' = [d \in Scheduled |-> IF d \in request[r].list THEN "refunded"
                                             ELSE candidate[d]]
      BY <1>5, <2>2, Zenon DEF PayOut
    <3>2. \A d \in request[r].list : candidate[d] # "none"
      BY <2>2 DEF StillPayable, Payable
    <3> QED BY <1>0, <1>1, <3>1, <3>2
  <2> QED BY <2>1, <2>2
<1>6. CASE UNCHANGED vars
  BY <1>2, <1>6 DEF vars
<1>7. CASE NextDay
  BY <1>2, <1>7 DEF NextDay, refunds
<1>8. ASSUME NEW r \in Requests, PauseStep(r) \/ DeliveryStep(r) \/ Abandon(r)
      PROVE  UNCHANGED candidate
  BY <1>8 DEF PauseStep, AskPause, CommitPause, AskResume, FindPause, Resume,
              AutoResume, CompletePauses, DeliveryStep, GenerateOrder, GenerateItems,
              SetStatus, Abandon, refunds
<1>9. ASSUME NEW r \in Requests, ScanStep(r) PROVE NoDayAheadIsRaised'
  BY <1>2, <1>3, <1>9
     DEF ScanStep, Scan, ReadPausedDays, ReadFailedOrders, Answer, EndScan, refunds
<1>10. ASSUME NEW r \in Requests, RefundStep(r) PROVE NoDayAheadIsRaised'
  BY <1>2, <1>4, <1>5, <1>10 DEF RefundStep, AskApprove, refunds
<1> QED BY <1>2, <1>6, <1>7, <1>8, <1>9, <1>10 DEF Next

\* A handler that goes on with a list of days that are over, or without one.
LEMMA BeginOver ==
  ASSUME IInv, today' \in Days, today' >= today, NEW r \in Requests, NEW q,
         Begin(r, q), q.list \subseteq Scheduled,
         q.pc \in {"scan", "create"} => \A d \in q.list : d <= today
  PROVE  ListsAreOver'
<1>1. /\ request \in [Requests -> Request] /\ ListsAreOver
      /\ today \in Nat /\ today' \in Nat /\ Scheduled \subseteq Nat
  BY RefundsAssumption DEF IInv, TypeOK, Days
<1>2. ASSUME NEW s \in Requests, NEW d \in request'[s].list,
             request'[s].pc \in {"scan", "create"}
      PROVE  d <= today'
  <2>1. CASE s = r
    <3>1. request'[s] = q
      BY <1>1, <2>1 DEF Begin
    <3>2. d \in Scheduled /\ d <= today
      BY <1>2, <3>1
    <3> QED BY <1>1, <3>2
  <2>2. CASE s # r
    <3>1. request'[s] = request[s]
      BY <1>1, <2>2 DEF Begin
    <3>2. d \in Scheduled /\ d <= today
      BY <1>1, <1>2, <3>1 DEF ListsAreOver, Request
    <3> QED BY <1>1, <3>2
  <2> QED BY <2>1, <2>2
<1> QED BY <1>2 DEF ListsAreOver

LEMMA ListsNext == IInv /\ [Next]_vars => ListsAreOver'
<1> SUFFICES ASSUME IInv, [Next]_vars PROVE ListsAreOver'
  OBVIOUS
<1>0. /\ today' \in Days /\ today' >= today
      /\ today \in Nat /\ today' \in Nat /\ Scheduled \subseteq Nat
      /\ ListsAreOver /\ request \in [Requests -> Request]
  BY TimePasses, RefundsAssumption DEF IInv, TypeOK, Days
<1>1. ASSUME UNCHANGED request PROVE ListsAreOver'
  <2>1. ASSUME NEW s \in Requests, NEW d \in request[s].list,
               request[s].pc \in {"scan", "create"}
        PROVE  d <= today'
    <3>1. d \in Nat /\ d <= today
      BY <1>0, <2>1 DEF ListsAreOver, Request
    <3>2. today \in Nat /\ today' \in Nat /\ today <= today'
      BY <1>0
    <3> QED BY <3>1, <3>2
  <2> QED BY <1>1, <2>1 DEF ListsAreOver
<1>2. ASSUME NEW r \in Requests, NEW q, Begin(r, q), q.list = {} PROVE ListsAreOver'
  BY <1>0, <1>2, BeginOver
<1>3. Idle.list = {} /\ \A from, to : StartOfScan(from, to).list = {}
  BY DEF Idle, StartOfScan
<1>4. ASSUME NEW r \in Requests, Done(r) PROVE ListsAreOver'
  BY <1>2, <1>3, <1>4 DEF Done
<1>5. ASSUME NEW r \in Requests, NEW from, NEW to, Begin(r, StartOfScan(from, to))
      PROVE  ListsAreOver'
  BY <1>2, <1>3, <1>5
<1>6. ASSUME NEW r \in Requests, PauseStep(r) PROVE ListsAreOver'
  <2>1. ASSUME NEW from, NEW to, NEW op, AskPause(r, from, to, op)
        PROVE  ListsAreOver'
    BY <1>2, <1>3, <2>1 DEF AskPause, Idle
  <2>2. CASE CommitPause(r)
    BY <1>4, <1>5, <2>2 DEF CommitPause
  <2>3. ASSUME NEW day, AskResume(r, day) PROVE ListsAreOver'
    BY <1>2, <1>3, <2>3 DEF AskResume, Idle
  <2>4. CASE FindPause(r)
    <3>1. CASE Done(r)
      BY <1>4, <3>1
    <3>2. ASSUME NEW i, Begin(r, [request[r] EXCEPT !.pc = "resume", !.row = i,
                                                    !.to = pauses[i].to])
          PROVE  ListsAreOver'
      <4> DEFINE q == [request[r] EXCEPT !.pc = "resume", !.row = i,
                                         !.to = pauses[i].to]
      <4>1. q.pc = "resume" /\ q.list \subseteq Scheduled
        BY <1>0 DEF Request
      <4>2. Begin(r, q)
        BY <3>2
      <4> HIDE DEF q
      <4> QED BY <1>0, <4>1, <4>2, BeginOver
    <3> QED BY <2>4, <3>1, <3>2 DEF FindPause
  <2>5. CASE Resume(r) \/ CompletePauses(r)
    BY <1>4, <2>5 DEF Resume, CompletePauses
  <2>6. CASE AutoResume(r)
    BY <1>2, <1>3, <2>6 DEF AutoResume, Idle
  <2> QED BY <1>6, <2>1, <2>2, <2>3, <2>4, <2>5, <2>6 DEF PauseStep
<1>7. ASSUME NEW r \in Requests, DeliveryStep(r) PROVE ListsAreOver'
  <2>1. ASSUME NEW d, GenerateOrder(r, d) PROVE ListsAreOver'
    BY <1>2, <2>1 DEF GenerateOrder, Idle
  <2>2. ASSUME NEW d, NEW s, SetStatus(r, d, s) PROVE ListsAreOver'
    BY <1>1, <2>2 DEF SetStatus
  <2>4. CASE GenerateItems(r)
    BY <1>4, <2>4 DEF GenerateItems
  <2> QED BY <1>7, <2>1, <2>2, <2>4 DEF DeliveryStep
<1>8. ASSUME NEW r \in Requests, ScanStep(r) PROVE ListsAreOver'
  <2>1. ASSUME NEW from, NEW to, Scan(r, from, to) PROVE ListsAreOver'
    BY <1>5, <2>1 DEF Scan
  <2>2. ASSUME NEW read, NEW rows \in SUBSET Scheduled, \A d \in rows : d <= today,
               Answer(r, read, rows)
        PROVE  ListsAreOver'
    <3> DEFINE found == request[r].list \cup rows
               last == [Idle EXCEPT !.pc = "create", !.list = found]
               more == [request[r] EXCEPT !.todo = @ \ {read}, !.list = found]
    <3>1. found \subseteq Scheduled /\ \A d \in found : d <= today
      BY <1>0, <2>2 DEF Answer, At, ListsAreOver, Request
    <3>2. last.list = found /\ more.list = found
      BY <1>0 DEF Idle, Request
    <3>3. Begin(r, last) \/ Begin(r, more)
      BY <2>2 DEF Answer
    <3> HIDE DEF found, last, more
    <3> QED BY <1>0, <3>1, <3>2, <3>3, BeginOver
  <2>3. ASSUME NEW range \in SUBSET Scheduled, NEW read,
               Answer(r, read, PausedDays(range)) \/ Answer(r, read, FailedDays(range))
        PROVE  ListsAreOver'
    <3>1. \A d \in PausedDays(range) : d \in Scheduled /\ d <= today
      BY DEF PausedDays
    <3>2. \A d \in FailedDays(range) : d \in Scheduled /\ d <= today
      BY <1>0 DEF FailedDays
    <3> QED BY <2>2, <2>3, <3>1, <3>2
  <2>4. request[r].range \in SUBSET Scheduled
    BY <1>0 DEF Request
  <2>5. CASE ReadPausedDays(r) \/ ReadFailedOrders(r)
    BY <2>3, <2>4, <2>5 DEF ReadPausedDays, ReadFailedOrders
  <2>6. CASE CreateCandidate(r)
    <3>1. PICK d \in request[r].list : Begin(r, [request[r] EXCEPT !.list = @ \ {d}])
      BY <2>6 DEF CreateCandidate
    <3> DEFINE q == [request[r] EXCEPT !.list = @ \ {d}]
    <3>2. q.list \subseteq Scheduled /\ q.list \subseteq request[r].list
          /\ request[r].pc = "create"
      BY <1>0, <2>6 DEF Request, CreateCandidate, At
    <3>3. \A e \in q.list : e <= today
      BY <1>0, <3>2 DEF ListsAreOver
    <3>4. Begin(r, q)
      BY <3>1
    <3> HIDE DEF q
    <3> QED BY <1>0, <3>2, <3>3, <3>4, BeginOver
  <2>7. CASE EndScan(r)
    BY <1>4, <2>7 DEF EndScan
  <2> QED BY <1>8, <2>1, <2>5, <2>6, <2>7 DEF ScanStep
<1>9. ASSUME NEW r \in Requests, RefundStep(r) PROVE ListsAreOver'
  <2>1. ASSUME NEW days, Review(r, days) \/ Reject(r, days) PROVE ListsAreOver'
    BY <1>1, <2>1 DEF Review, Reject, Decide
  <2>2. ASSUME NEW days \in SUBSET Scheduled, AskApprove(r, days)
        PROVE  ListsAreOver'
    <3> DEFINE payable == {d \in days : candidate[d] \in Payable}
               q == [Idle EXCEPT !.pc = "payOut", !.list = payable]
    <3>1. q.list \subseteq Scheduled /\ q.pc = "payOut"
      BY DEF Idle
    <3>2. Begin(r, q)
      BY <2>2 DEF AskApprove
    <3>3. q.pc \notin {"scan", "create"}
      BY <3>1
    <3> HIDE DEF q
    <3> QED BY <1>0, <3>1, <3>2, <3>3, BeginOver
  <2>3. CASE PayOut(r)
    <3>1. Done(r)
      BY <2>3, Zenon DEF PayOut
    <3> QED BY <1>4, <3>1
  <2> QED BY <1>9, <2>1, <2>2, <2>3 DEF RefundStep
<1>10. CASE NextDay \/ UNCHANGED vars
  BY <1>1, <1>10 DEF NextDay, vars
<1>11. ASSUME NEW r \in Requests, Abandon(r) PROVE ListsAreOver'
  BY <1>4, <1>11 DEF Abandon
<1> QED BY <1>6, <1>7, <1>8, <1>9, <1>10, <1>11 DEF Next

\* The inductive invariant on every reachable state: besides the theorems below,
\* what a scan holds had come when it looked, so it may insert it at any time.
THEOREM RefundsAreSound == Spec => []IInv
<1>1. Init => IInv
  BY InitIInv
<1>2. IInv /\ [Next]_vars => IInv'
  BY NextType, RefundMatchesNext, RaisedNext, ListsNext DEF IInv
<1> QED BY <1>1, <1>2, PTL DEF Spec

-----------------------------------------------------------------------------
(* The theorems.                                                           *)

\* However many admins approve, reject and review a day's candidate while scans
\* raise it again, its wallet credit is given exactly once and exactly when the
\* candidate says refunded.
THEOREM RefundedOnce == Spec => []RefundMatches
<1>1. IInv => RefundMatches
  BY DEF IInv
<1> QED BY <1>1, RefundsAreSound, PTL

\* No scan, whatever its range and however late it inserts, raises a day that has
\* not come.
THEOREM OnlyDaysThatCame == Spec => []NoDayAheadIsRaised
<1>1. IInv => NoDayAheadIsRaised
  BY DEF IInv
<1> QED BY <1>1, RefundsAreSound, PTL

\* A candidate that is refunded or rejected never changes again.
THEOREM DecidedIsFinal == Spec => DecidedStays
<1> DEFINE Kept == \A d \in Scheduled : candidate[d] \in {"refunded", "rejected"} =>
                                          candidate'[d] = candidate[d]
<1>1. TypeOK /\ [Next]_vars => [Kept]_vars
  <2> SUFFICES ASSUME TypeOK, Next PROVE Kept
    BY DEF vars
  <2>0. candidate \in [Scheduled -> CandidateStatuses \cup {"none"}]
    BY DEF TypeOK
  <2>1. ASSUME UNCHANGED candidate PROVE Kept
    BY <2>1
  <2>2. ASSUME NEW r \in Requests, CreateCandidate(r) PROVE Kept
    BY <2>0, <2>2 DEF CreateCandidate, Inserted, Payable
  <2>3. ASSUME NEW r \in Requests, NEW days \in SUBSET Scheduled,
               Review(r, days) \/ Reject(r, days)
        PROVE  Kept
    BY <2>0, <2>3 DEF Review, Reject, Decide, Payable
  <2>4. ASSUME NEW r \in Requests, PayOut(r) PROVE Kept
    <3>1. CASE ~StillPayable(request[r].list)
      BY <2>1, <2>4, <3>1, Zenon DEF PayOut, refunds
    <3>2. CASE StillPayable(request[r].list)
      <4>1. candidate' = [d \in Scheduled |-> IF d \in request[r].list THEN "refunded"
                                               ELSE candidate[d]]
        BY <2>4, <3>2, Zenon DEF PayOut
      <4>2. \A d \in request[r].list : candidate[d] \in Payable
        BY <3>2 DEF StillPayable
      <4> QED BY <2>0, <4>1, <4>2 DEF Payable
    <3> QED BY <3>1, <3>2
  <2>5. ASSUME NEW r \in Requests, ScanStep(r) PROVE Kept
    BY <2>1, <2>2, <2>5
       DEF ScanStep, Scan, ReadPausedDays, ReadFailedOrders, Answer, EndScan, refunds
  <2>6. ASSUME NEW r \in Requests, RefundStep(r) PROVE Kept
    BY <2>1, <2>3, <2>4, <2>6 DEF RefundStep, AskApprove, refunds
  <2>7. ASSUME NEW r \in Requests, PauseStep(r) \/ DeliveryStep(r) \/ Abandon(r)
        PROVE  UNCHANGED candidate
    BY <2>7 DEF PauseStep, AskPause, CommitPause, AskResume, FindPause, Resume,
                AutoResume, CompletePauses, DeliveryStep, GenerateOrder,
                GenerateItems, SetStatus, Abandon, refunds
  <2>8. CASE NextDay
    BY <2>1, <2>8 DEF NextDay, refunds
  <2> QED BY <2>1, <2>5, <2>6, <2>7, <2>8 DEF Next
<1>2. Spec => []TypeOK
  BY RefundsTypeCorrect
<1> QED BY <1>1, <1>2, PTL DEF Spec, DecidedStays

-----------------------------------------------------------------------------
(* The module implements Claims.                                           *)

LEMMA ClaimsStart == Init => Claim!Init
<1> SUFFICES ASSUME Init PROVE Claim!Init
  OBVIOUS
<1>1. Standing = [d \in Scheduled |-> "none"]
  BY DEF Init, Standing, Payable
<1> QED BY <1>1 DEF Init, Claim!Init

\* A step that changes no row and pays nothing at most lets a day pass.
LEMMA ClaimsKept ==
  ASSUME UNCHANGED refunds, today' = today
  PROVE  UNCHANGED <<today, Standing, paid>>
BY DEF refunds, Standing

LEMMA RaiseClaims ==
  ASSUME IInv, NEW r \in Requests, CreateCandidate(r)
  PROVE  Claim!Next \/ UNCHANGED <<today, Standing, paid>>
<1>0. /\ candidate \in [Scheduled -> CandidateStatuses \cup {"none"}]
      /\ ListsAreOver /\ request[r].list \subseteq Scheduled
  BY DEF IInv, TypeOK, Request
<1>1. PICK d \in request[r].list : candidate' = Inserted(d)
  BY DEF CreateCandidate
<1>2. d \in Scheduled /\ d <= today /\ UNCHANGED <<today, paid>>
  BY <1>0, <1>1 DEF ListsAreOver, CreateCandidate, At
<1>3. CASE candidate[d] = "none"
  <2>1. Standing[d] = "none"
    BY <1>2, <1>3 DEF Standing, Payable
  <2>2. Standing' = [Standing EXCEPT ![d] = "open"]
    <3>1. candidate' = [candidate EXCEPT ![d] = "pending"]
      BY <1>0, <1>1, <1>2, <1>3 DEF Inserted
    <3>2. \A e \in Scheduled : candidate'[e] = IF e = d THEN "pending" ELSE candidate[e]
      BY <1>0, <3>1
    <3> QED BY <1>2, <3>2 DEF Standing, Payable
  <2>3. Claim!Raise(d)
    BY <1>2, <2>1, <2>2 DEF Claim!Raise
  <2> QED BY <1>2, <2>3 DEF Claim!Next
<1>4. CASE candidate[d] # "none"
  <2>1. candidate' = candidate
    BY <1>0, <1>1, <1>2, <1>4 DEF Inserted
  <2> QED BY <1>2, <2>1, ClaimsKept DEF refunds
<1> QED BY <1>3, <1>4

LEMMA CloseClaims ==
  ASSUME TypeOK, NEW r \in Requests, NEW days \in SUBSET Scheduled,
         Reject(r, days)
  PROVE  Claim!Next
<1> DEFINE open == {d \in days : candidate[d] = "pending"}
<1>1. /\ candidate' = [d \in Scheduled |->
                         IF d \in days /\ candidate[d] = "pending"
                           THEN "rejected" ELSE candidate[d]]
      /\ UNCHANGED <<today, paid>>
  BY DEF Reject, Decide
<1>2. \A d \in open : Standing[d] = "open"
  BY DEF Standing, Payable
<1>3. Standing' = [d \in Scheduled |-> IF d \in open THEN "rejected" ELSE Standing[d]]
  BY <1>1 DEF Standing, Payable
<1>4. Claim!Close(open)
  BY <1>1, <1>2, <1>3 DEF Claim!Close, Claim!Decided
<1>5. open \in SUBSET Scheduled
  OBVIOUS
<1> QED BY <1>1, <1>4, <1>5 DEF Claim!Next

\* A review leaves the claim as open as it was.
LEMMA ReviewKeepsClaims ==
  ASSUME NEW r \in Requests, NEW days \in SUBSET Scheduled, Review(r, days)
  PROVE  UNCHANGED <<today, Standing, paid>>
<1>1. /\ candidate' = [d \in Scheduled |->
                         IF d \in days /\ candidate[d] = "pending"
                           THEN "approved" ELSE candidate[d]]
      /\ UNCHANGED <<today, paid>>
  BY DEF Review, Decide
<1>2. Standing' = Standing
  BY <1>1 DEF Standing, Payable
<1> QED BY <1>1, <1>2

LEMMA PayClaims ==
  ASSUME IInv, NEW r \in Requests, PayOut(r)
  PROVE  Claim!Next \/ UNCHANGED <<today, Standing, paid>>
<1>0. /\ RefundMatches /\ request[r].list \subseteq Scheduled
      /\ paid \in [Scheduled -> Nat]
  BY DEF IInv, TypeOK, Request
<1>1. today' = today
  BY DEF PayOut
<1>2. CASE ~StillPayable(request[r].list)
  <2>1. UNCHANGED refunds
    BY <1>2, Zenon DEF PayOut
  <2> QED BY <1>1, <2>1, ClaimsKept
<1>3. CASE StillPayable(request[r].list)
  <2> DEFINE days == request[r].list
  <2>1. /\ candidate' = [d \in Scheduled |-> IF d \in days THEN "refunded"
                                              ELSE candidate[d]]
        /\ paid' = [d \in Scheduled |-> IF d \in days THEN paid[d] + 1 ELSE paid[d]]
    BY <1>3, Zenon DEF PayOut
  <2>2. \A d \in days : Standing[d] = "open" /\ paid[d] = 0
    BY <1>0, <1>3 DEF StillPayable, RefundMatches, Standing, Payable
  <2>3. Standing' = [d \in Scheduled |-> IF d \in days THEN "refunded" ELSE Standing[d]]
    BY <2>1 DEF Standing, Payable
  <2>4. paid' = [d \in Scheduled |-> IF d \in days THEN 1 ELSE paid[d]]
    BY <2>1, <2>2
  <2>5. Claim!Pay(days)
    BY <1>1, <2>2, <2>3, <2>4 DEF Claim!Pay, Claim!Decided
  <2> QED BY <1>0, <2>5 DEF Claim!Next
<1> QED BY <1>2, <1>3

LEMMA NextClaims ==
  ASSUME IInv, [Next]_vars
  PROVE  [Claim!Next]_<<today, Standing, paid>>
<1> DEFINE Stutters == UNCHANGED <<today, Standing, paid>>
<1>1. CASE NextDay
  <2>1. UNCHANGED <<Standing, paid>> /\ today' = today + 1
    BY <1>1 DEF NextDay, refunds, Standing
  <2> QED BY <2>1 DEF Claim!Next, Claim!DayPasses
<1>2. ASSUME \/ UNCHANGED vars
             \/ \E r \in Requests : PauseStep(r) \/ DeliveryStep(r) \/ Abandon(r)
      PROVE  Stutters
  <2>1. UNCHANGED refunds /\ today' = today
    BY <1>2 DEF vars, PauseStep, AskPause, CommitPause, AskResume, FindPause, Resume,
                AutoResume, CompletePauses, DeliveryStep, GenerateOrder,
                GenerateItems, SetStatus, Abandon, refunds
  <2> QED BY <2>1, ClaimsKept
<1>3. ASSUME NEW r \in Requests, ScanStep(r) PROVE Claim!Next \/ Stutters
  <2>1. CASE CreateCandidate(r)
    BY <2>1, RaiseClaims
  <2>2. CASE ~CreateCandidate(r)
    <3>1. UNCHANGED refunds /\ today' = today
      BY <1>3, <2>2 DEF ScanStep, Scan, ReadPausedDays, ReadFailedOrders, Answer, EndScan
    <3> QED BY <3>1, ClaimsKept
  <2> QED BY <2>1, <2>2
<1>4. ASSUME NEW r \in Requests, RefundStep(r) PROVE Claim!Next \/ Stutters
  <2>1. ASSUME NEW days \in SUBSET Scheduled, Review(r, days) \/ Reject(r, days)
        PROVE  Claim!Next \/ Stutters
    BY <2>1, CloseClaims, ReviewKeepsClaims DEF IInv
  <2>2. ASSUME NEW days, AskApprove(r, days) PROVE Stutters
    BY <2>2, ClaimsKept DEF AskApprove
  <2>3. CASE PayOut(r)
    BY <2>3, PayClaims
  <2> QED BY <1>4, <2>1, <2>2, <2>3 DEF RefundStep
<1> QED BY <1>1, <1>2, <1>3, <1>4 DEF Next

\* Whatever scans, decisions and payouts overlap, fail or die, every step raises one
\* day that has come, closes or pays days that were open, or moves no claim at all.
THEOREM RefundsImplementClaims == Spec => ClaimSpec
<1>1. Init => Claim!Init
  BY ClaimsStart
<1>2. IInv /\ [Next]_vars => [Claim!Next]_<<today, Standing, paid>>
  BY NextClaims
<1> QED BY <1>1, <1>2, RefundsAreSound, PTL DEF Spec, ClaimSpec, Claim!Spec
=============================================================================
