------------------------ MODULE RefundsSerialProofs ------------------------
(***************************************************************************)
(* Theorems of Refunds for requests that do not overlap: there is a single *)
(* handler, days may pass while it waits, and it may stop at any point.    *)
(***************************************************************************)
EXTENDS RefundsProofs

OneAtATime == \E r \in Requests : Requests = {r}

-----------------------------------------------------------------------------
(* The window of the subscription is its pause that is not over.           *)

Active(i) == pauses[i].status = "paused" /\ today <= pauses[i].to

Matches(i) == window.from = pauses[i].from /\ window.to = pauses[i].to

\* A pause that is not over is the window, and the latest that is paused; a
\* window that is not over is such a pause.
PausesMatch ==
  /\ \A i \in DOMAIN pauses :
       Active(i) => /\ Matches(i)
                    /\ \A j \in DOMAIN pauses : i < j => pauses[j].status # "paused"
  /\ today <= window.to => \E i \in DOMAIN pauses : Active(i) /\ Matches(i)

\* What a request has read of the window and the pauses still holds: nothing
\* is paused while it makes a pause, and the pause it ends is the window's.
RequestMatch(r) ==
  LET q == request[r]
  IN /\ q.pc = "pause" => window.to < today
     /\ q.pc \in {"findPause", "resume"} => q.day <= window.to
     /\ q.pc = "resume" => \A j \in DOMAIN pauses : Active(j) => j = q.row

SerialInv == PausesMatch /\ \A r \in Requests : RequestMatch(r)

\* The numbers the steps compare.
LEMMA RowTypes ==
  ASSUME TypeOK
  PROVE  /\ today \in Nat /\ today >= 1
         /\ window.from \in Nat /\ window.to \in Nat
         /\ pauses \in Seq(Pause) /\ DOMAIN pauses = 1 .. Len(pauses)
         /\ Len(pauses) \in Nat
         /\ \A i \in DOMAIN pauses : /\ pauses[i] \in Pause
                                     /\ pauses[i].from \in Nat /\ pauses[i].from >= 1
                                     /\ pauses[i].to \in Nat
<1>1. pauses \in Seq(Pause) /\ today \in Days /\ window \in Window
  BY DEF TypeOK
<1>2. Len(pauses) \in Nat /\ DOMAIN pauses = 1 .. Len(pauses)
  BY <1>1, LenProperties
<1>3. \A i \in DOMAIN pauses : pauses[i] \in Pause
  BY <1>1, <1>2, ElementOfSeq
<1> QED BY <1>1, <1>2, <1>3, RefundsAssumption DEF Days, Window, Pause

LEMMA InitSerial == Init => SerialInv
BY DEF Init, SerialInv, PausesMatch, RequestMatch, NoWindow, NoDay, Idle

\* With the two tables so matched a coming day is suspended as it is paused.
LEMMA MatchSuspends == TypeOK /\ PausesMatch => SuspendedAsPaused
<1> SUFFICES ASSUME TypeOK, PausesMatch, NEW d \in today .. LastDay
             PROVE  Suspended(d) <=> \E i \in DOMAIN pauses :
                                       /\ pauses[i].status = "paused"
                                       /\ d \in pauses[i].from .. pauses[i].to
  BY DEF SuspendedAsPaused
<1>0. d \in Nat /\ today <= d
  BY RowTypes, RefundsAssumption
<1>1. ASSUME Suspended(d)
      PROVE  \E i \in DOMAIN pauses : /\ pauses[i].status = "paused"
                                      /\ d \in pauses[i].from .. pauses[i].to
  <2>1. today <= window.to /\ d \in window.from .. window.to
    BY <1>0, <1>1, RowTypes DEF Suspended
  <2>2. PICK i \in DOMAIN pauses : Active(i) /\ Matches(i)
    BY <2>1 DEF PausesMatch
  <2> QED BY <2>1, <2>2 DEF Active, Matches
<1>2. ASSUME NEW i \in DOMAIN pauses, pauses[i].status = "paused",
             d \in pauses[i].from .. pauses[i].to
      PROVE  Suspended(d)
  <2>1. Active(i)
    BY <1>0, <1>2, RowTypes DEF Active
  <2>2. window.from = pauses[i].from /\ window.to = pauses[i].to
    BY <2>1 DEF PausesMatch, Matches
  <2> QED BY <1>2, <2>2, RowTypes DEF Suspended, NoDay
<1> QED BY <1>1, <1>2

-----------------------------------------------------------------------------
(* Steps that leave the pauses that are not over as they are.              *)

\* Days may pass, and pauses that are over may change their status.
RowsKept ==
  /\ window' = window
  /\ today' \in Nat /\ today <= today'
  /\ DOMAIN pauses' = DOMAIN pauses
  /\ \A i \in DOMAIN pauses :
       /\ pauses'[i].from = pauses[i].from /\ pauses'[i].to = pauses[i].to
       /\ pauses'[i].status = "paused" => pauses[i].status = "paused"
       /\ Active(i) => pauses'[i].status = "paused"

LEMMA KeptMatches ==
  ASSUME TypeOK, PausesMatch, RowsKept
  PROVE  PausesMatch'
<1>1. \A i \in DOMAIN pauses : Active(i)' => Active(i)
  BY RowTypes DEF RowsKept, Active
<1>2. \A i \in DOMAIN pauses : Matches(i)' <=> Matches(i)
  BY DEF RowsKept, Matches
<1>3. ASSUME NEW i \in DOMAIN pauses', Active(i)'
      PROVE  /\ Matches(i)'
             /\ \A j \in DOMAIN pauses' : i < j => pauses'[j].status # "paused"
  BY <1>1, <1>2, <1>3 DEF RowsKept, PausesMatch
<1>4. ASSUME today' <= window'.to
      PROVE  \E i \in DOMAIN pauses' : Active(i)' /\ Matches(i)'
  <2>1. today <= window.to
    BY <1>4, RowTypes DEF RowsKept
  <2>2. PICK i \in DOMAIN pauses : Active(i) /\ Matches(i)
    BY <2>1 DEF PausesMatch
  <2>3. Active(i)'
    BY <1>4, <2>2 DEF RowsKept, Active, Matches
  <2> QED BY <1>2, <2>2, <2>3 DEF RowsKept
<1> QED BY <1>3, <1>4 DEF PausesMatch

\* A request that waits meanwhile, or comes to a label without a promise.
LEMMA KeptRequest ==
  ASSUME TypeOK, NEW r \in Requests, RequestMatch(r), RowsKept,
         \/ request'[r] = request[r]
         \/ request'[r].pc \notin {"pause", "findPause", "resume"}
  PROVE  RequestMatch(r)'
<1>1. \A i \in DOMAIN pauses : Active(i)' => Active(i)
  BY RowTypes DEF RowsKept, Active
<1>2. window.to < today => window'.to < today'
  BY RowTypes DEF RowsKept
<1> QED BY <1>1, <1>2 DEF RequestMatch, RowsKept

LEMMA SameRows ==
  ASSUME TypeOK, UNCHANGED <<today, window, pauses>>
  PROVE  RowsKept
BY RowTypes DEF RowsKept, Active

LEMMA NextDayRows ==
  ASSUME TypeOK, NextDay
  PROVE  RowsKept
BY RowTypes DEF NextDay, subscription, RowsKept, Active

LEMMA CompleteRows ==
  ASSUME TypeOK, NEW r \in Requests, CompletePauses(r)
  PROVE  RowsKept
<1>0. UNCHANGED <<today, window>>
  BY DEF CompletePauses
<1>1. /\ DOMAIN pauses' = DOMAIN pauses
      /\ \A i \in DOMAIN pauses :
           pauses'[i] = IF pauses[i].status = "paused" /\ pauses[i].to < today
                          THEN [pauses[i] EXCEPT !.status = "completed",
                                                 !.updated = today]
                          ELSE pauses[i]
  BY DEF CompletePauses
<1>2. ASSUME NEW i \in DOMAIN pauses
      PROVE  /\ pauses'[i].from = pauses[i].from /\ pauses'[i].to = pauses[i].to
             /\ pauses'[i].status = "paused" => pauses[i].status = "paused"
             /\ Active(i) => pauses'[i].status = "paused"
  <2>1. pauses[i] \in Pause /\ today \in Nat /\ pauses[i].to \in Nat
    BY RowTypes
  <2>2. CASE pauses[i].status = "paused" /\ pauses[i].to < today
    <3>1. pauses'[i] = [pauses[i] EXCEPT !.status = "completed", !.updated = today]
      BY <1>1, <2>2
    <3>2. /\ pauses'[i].from = pauses[i].from /\ pauses'[i].to = pauses[i].to
          /\ pauses'[i].status = "completed"
      BY <2>1, <3>1 DEF Pause
    <3>3. ~Active(i)
      BY <2>1, <2>2 DEF Active
    <3> QED BY <3>2, <3>3
  <2>3. CASE ~(pauses[i].status = "paused" /\ pauses[i].to < today)
    BY <1>1, <2>1, <2>3 DEF Active
  <2> QED BY <2>2, <2>3
<1>3. today' \in Nat /\ today <= today' /\ window' = window
  BY <1>0, RowTypes
<1>4. DOMAIN pauses' = DOMAIN pauses
  BY <1>1
<1> QED BY <1>2, <1>3, <1>4 DEF RowsKept

LEMMA PayOutRows ==
  ASSUME TypeOK, NEW r \in Requests, PayOut(r)
  PROVE  RowsKept
<1> DEFINE status == [d \in Scheduled |-> IF d \in request[r].list THEN "refunded"
                                          ELSE candidate[d]]
<1>1. CASE UNCHANGED pauses
  BY <1>1, SameRows DEF PayOut
<1>2. CASE pauses' = [i \in DOMAIN pauses |->
                        IF IsSettledBy(pauses[i], status)
                          THEN [pauses[i] EXCEPT !.settled = TRUE, !.updated = today]
                          ELSE pauses[i]]
  <2> HIDE DEF status
  <2>1. UNCHANGED <<today, window>> /\ DOMAIN pauses' = DOMAIN pauses
    BY <1>2 DEF PayOut
  <2>2. ASSUME NEW i \in DOMAIN pauses
        PROVE  /\ pauses'[i].from = pauses[i].from /\ pauses'[i].to = pauses[i].to
               /\ pauses'[i].status = pauses[i].status
    <3>1. pauses[i] \in Pause
      BY RowTypes
    <3>2. \/ pauses'[i] = [pauses[i] EXCEPT !.settled = TRUE, !.updated = today]
          \/ pauses'[i] = pauses[i]
      BY <1>2
    <3> QED BY <3>1, <3>2 DEF Pause
  <2> QED BY <2>1, <2>2, RowTypes DEF RowsKept, Active
<1> QED BY <1>1, <1>2, Zenon DEF PayOut

-----------------------------------------------------------------------------
(* Steps that make, end or forget a pause.                                 *)

\* A new pause is made while no pause is running or to come.
LEMMA CommitMatches ==
  ASSUME TypeOK, PausesMatch, NEW r \in Requests, RequestMatch(r), CommitPause(r)
  PROVE  PausesMatch' /\ RequestMatch(r)'
<1> PICK n \in Nat : n = Len(pauses)
  BY RowTypes
<1> DEFINE q == request[r]
           row == [from |-> q.from, to |-> q.to, status |-> "paused",
                   updated |-> today, settled |-> FALSE]
<1>1. /\ today' = today /\ pauses' = Append(pauses, row)
      /\ window' = [from |-> q.from, to |-> q.to]
      /\ window.to < today
  BY DEF CommitPause, RequestMatch, At
<1>2. row.status = "paused" /\ row.from = q.from /\ row.to = q.to
  OBVIOUS
<1> HIDE DEF row
<1>3. /\ DOMAIN pauses' = 1 .. n + 1 /\ pauses'[n + 1] = row
      /\ \A i \in DOMAIN pauses : pauses'[i] = pauses[i]
  BY <1>1, RowTypes, AppendProperties
<1>4. \A i \in DOMAIN pauses : ~Active(i)
  BY <1>1, RowTypes DEF PausesMatch, Matches, Active
<1>5. \A i \in DOMAIN pauses' : Active(i)' => i = n + 1
  BY <1>1, <1>3, <1>4, RowTypes DEF Active
<1>6. Matches(n + 1)' /\ (today' <= window'.to => Active(n + 1)')
  <2>1. window'.from = q.from /\ window'.to = q.to
    BY <1>1
  <2> QED BY <1>2, <1>3, <2>1 DEF Matches, Active
<1>7. PausesMatch'
  BY <1>3, <1>5, <1>6, RowTypes DEF PausesMatch
<1>8. request'[r].pc \notin {"pause", "findPause", "resume"}
  <2>1. StartOfScan(q.from, q.to).pc = "scan" /\ Idle.pc = "idle"
    BY DEF StartOfScan, Idle
  <2>2. \A g : Begin(r, g) => request'[r] = g
    BY DEF Begin, TypeOK
  <2> QED BY <2>1, <2>2 DEF CommitPause, Done
<1> QED BY <1>7, <1>8 DEF RequestMatch

\* The pause that is called off is the only one that was not over.
LEMMA CallOffMatches ==
  ASSUME TypeOK, NEW row \in DOMAIN pauses, today' = today, CallOff(row),
         \A j \in DOMAIN pauses : Active(j) => j = row
  PROVE  PausesMatch'
<1>1. window'.to < today'
  BY RowTypes DEF CallOff, NoWindow, NoDay
<1>2. DOMAIN pauses' = DOMAIN pauses
      /\ \A j \in DOMAIN pauses : j # row => pauses'[j] = pauses[j]
  BY RowTypes DEF CallOff
<1>3. pauses'[row].status = "resumed"
  BY RowTypes DEF CallOff, Pause
<1>4. \A j \in DOMAIN pauses' : ~Active(j)'
  BY <1>2, <1>3 DEF Active
<1>5. ~(today' <= window'.to)
  BY <1>1, RowTypes DEF CallOff, NoWindow, NoDay
<1> QED BY <1>4, <1>5 DEF PausesMatch

\* The window is cut short as its pause is, and the days given up are on a row
\* that is not paused; if the pause was over by then, so is what is left of it.
LEMMA CutShortMatches ==
  ASSUME TypeOK, PausesMatch, NEW row \in DOMAIN pauses, today' = today,
         NEW day \in Days, day # 1, NEW end \in Days, CutShort(row, day, end),
         day <= window.to, \A j \in DOMAIN pauses : Active(j) => j = row
  PROVE  PausesMatch'
<1> DEFINE n == Len(pauses)
           short == [pauses[row] EXCEPT !.to = day - 1, !.updated = today]
           cut == [pauses EXCEPT ![row] = short]
           rest == [from |-> day, to |-> end, status |-> "resumed",
                    updated |-> today, settled |-> FALSE]
<1>0. day - 1 \in Days /\ day \in Nat /\ today \in Days
  BY RefundsAssumption DEF Days, TypeOK
<1>1. window'.from = window.from /\ window'.to = day - 1
  BY DEF CutShort, TypeOK, Window
<1>2. /\ short \in Pause /\ short.to = day - 1
      /\ short.from = pauses[row].from /\ short.status = pauses[row].status
  BY <1>0, RowTypes DEF Pause
<1>3. rest \in Pause /\ rest.status = "resumed"
  BY <1>0 DEF Pause
<1>4. pauses' = Append(cut, rest)
  <2>1. cut = [pauses EXCEPT ![row].to = day - 1, ![row].updated = today]
    BY RowTypes DEF Pause
  <2> QED BY <2>1 DEF CutShort
<1> HIDE DEF short, rest
<1>5. cut \in Seq(Pause) /\ Len(cut) = n
  BY <1>2, RowTypes, ExceptSeq
<1>6. /\ DOMAIN pauses' = 1 .. n + 1 /\ pauses'[n + 1] = rest
      /\ \A i \in 1 .. n : pauses'[i] = cut[i]
  BY <1>3, <1>4, <1>5, RowTypes, AppendProperties
<1>7. pauses'[row] = short /\ \A i \in DOMAIN pauses : i # row => pauses'[i] = pauses[i]
  BY <1>6, RowTypes
<1>8. \A i \in DOMAIN pauses' : Active(i)' => i = row /\ Active(row)
  <2> SUFFICES ASSUME NEW i \in DOMAIN pauses', Active(i)'
               PROVE  i = row /\ Active(row)
    OBVIOUS
  <2>1. i # n + 1
    BY <1>3, <1>6 DEF Active
  <2>2. i \in DOMAIN pauses
    BY <1>6, <2>1, RowTypes
  <2>3. CASE i # row
    BY <1>7, <2>2, <2>3 DEF Active
  <2>4. CASE i = row
    <3>1. pauses[row].status = "paused" /\ today <= day - 1
      BY <1>2, <1>7, <2>4 DEF Active
    <3>2. today <= window.to
      BY <1>0, <3>1, RowTypes
    <3> QED BY <2>4, <3>2 DEF PausesMatch
  <2> QED BY <2>3, <2>4
<1>9. Active(row) => Matches(row)'
  BY <1>1, <1>2, <1>7 DEF PausesMatch, Matches
<1>10. ASSUME today' <= window'.to PROVE Active(row)' /\ Matches(row)'
  <2>1. today <= day - 1 /\ today <= window.to
    BY <1>0, <1>1, <1>10, RowTypes
  <2>2. Active(row)
    BY <2>1 DEF PausesMatch
  <2> QED BY <1>2, <1>7, <1>9, <2>1, <2>2 DEF Active
<1>11. ASSUME Active(row), NEW j \in DOMAIN pauses', row < j
       PROVE  pauses'[j].status # "paused"
  <2>1. CASE j = n + 1
    BY <1>3, <1>6, <2>1
  <2>2. CASE j # n + 1
    <3>1. j \in DOMAIN pauses /\ j # row
      BY <1>6, <1>11, <2>2, RowTypes
    <3> QED BY <1>7, <1>11, <3>1 DEF PausesMatch
  <2> QED BY <2>1, <2>2
<1>12. row \in DOMAIN pauses'
  BY <1>6, RowTypes
<1> QED BY <1>8, <1>9, <1>10, <1>11, <1>12 DEF PausesMatch

\* The window that is over is forgotten: no pause was running.
LEMMA AutoResumeMatches ==
  ASSUME TypeOK, PausesMatch, NEW r \in Requests, AutoResume(r)
  PROVE  PausesMatch'
<1>1. CASE UNCHANGED window
  BY <1>1, SameRows, KeptMatches DEF AutoResume
<1>2. CASE window.to < today /\ window' = NoWindow
  <2>1. \A i \in DOMAIN pauses : ~Active(i)
    BY <1>2, RowTypes DEF PausesMatch, Matches, Active
  <2>2. \A i \in DOMAIN pauses' : ~Active(i)'
    BY <2>1 DEF AutoResume, Active
  <2>3. ~(today' <= window'.to)
    BY <1>2, RowTypes DEF AutoResume, NoWindow, NoDay
  <2> QED BY <2>2, <2>3 DEF PausesMatch
<1> QED BY <1>1, <1>2 DEF AutoResume

-----------------------------------------------------------------------------
(* The steps of the only request.                                          *)

\* A request of another kind comes to a label that promises nothing.
Unpromised(r) ==
  \/ request'[r] = request[r]
  \/ request'[r].pc \notin {"pause", "findPause", "resume"}

LEMMA BeginIs ==
  ASSUME TypeOK, NEW r \in Requests, NEW q, Begin(r, q)
  PROVE  request'[r] = q
BY DEF TypeOK, Begin

LEMMA DoneUnpromised ==
  ASSUME TypeOK, NEW r \in Requests, Done(r)
  PROVE  Unpromised(r)
BY BeginIs DEF Done, Idle, Unpromised

LEMMA OtherUnpromised ==
  ASSUME TypeOK, NEW r \in Requests,
         DeliveryStep(r) \/ ScanStep(r) \/ RefundStep(r) \/ Abandon(r)
  PROVE  Unpromised(r)
<1>0. request[r] \in Request
  BY DEF TypeOK
<1>1. ASSUME NEW d, GenerateOrder(r, d) PROVE Unpromised(r)
  <2> DEFINE q == [Idle EXCEPT !.pc = "items", !.day = d]
  <2>1. q.pc = "items" /\ Begin(r, q)
    BY <1>1 DEF GenerateOrder, Idle
  <2> HIDE DEF q
  <2> QED BY <2>1, BeginIs DEF Unpromised
<1>2. ASSUME NEW from, NEW to, Scan(r, from, to) PROVE Unpromised(r)
  <2>1. StartOfScan(from, to).pc = "scan" /\ Begin(r, StartOfScan(from, to))
    BY <1>2 DEF Scan, StartOfScan, Idle
  <2> QED BY <2>1, BeginIs DEF Unpromised
<1>3. ASSUME NEW read, NEW rows, Answer(r, read, rows) PROVE Unpromised(r)
  <2> DEFINE found == request[r].list \cup rows
             last == [Idle EXCEPT !.pc = "create", !.list = found]
             more == [request[r] EXCEPT !.todo = @ \ {read}, !.list = found]
  <2>1. last.pc = "create" /\ more.pc = "scan"
    BY <1>0, <1>3 DEF Idle, Request, Answer, At
  <2>2. Begin(r, last) \/ Begin(r, more)
    BY <1>3 DEF Answer
  <2> HIDE DEF last, more
  <2> QED BY <2>1, <2>2, BeginIs DEF Unpromised
<1>4. CASE CreateCandidate(r)
  <2>1. PICK d \in request[r].list : Begin(r, [request[r] EXCEPT !.list = @ \ {d}])
    BY <1>4 DEF CreateCandidate
  <2> DEFINE q == [request[r] EXCEPT !.list = @ \ {d}]
  <2>2. q.pc = "create" /\ Begin(r, q)
    BY <1>0, <1>4, <2>1 DEF Request, CreateCandidate, At
  <2> HIDE DEF q
  <2> QED BY <2>2, BeginIs DEF Unpromised
<1>5. ASSUME NEW days, AskApprove(r, days) PROVE Unpromised(r)
  <2> DEFINE payable == {d \in days : candidate[d] \in Payable}
             q == [Idle EXCEPT !.pc = "payOut", !.list = payable]
  <2>1. q.pc = "payOut" /\ Begin(r, q)
    BY <1>5 DEF AskApprove, Idle
  <2> HIDE DEF q
  <2> QED BY <2>1, BeginIs DEF Unpromised
<1>6. ASSUME \/ \E d, s : SetStatus(r, d, s)
             \/ \E days : Review(r, days) \/ Reject(r, days)
      PROVE  Unpromised(r)
  BY <1>6 DEF SetStatus, Review, Reject, Decide, Unpromised
<1>7. CASE GenerateItems(r) \/ EndScan(r) \/ PayOut(r) \/ Abandon(r)
  <2>1. Done(r)
    BY <1>7, Zenon DEF GenerateItems, EndScan, PayOut, Abandon
  <2> QED BY <2>1, DoneUnpromised
<1> QED
  BY <1>1, <1>2, <1>3, <1>4, <1>5, <1>6, <1>7
     DEF DeliveryStep, ScanStep, RefundStep, ReadPausedDays, ReadFailedOrders

LEMMA OtherRows ==
  ASSUME TypeOK, NEW r \in Requests,
         DeliveryStep(r) \/ ScanStep(r) \/ RefundStep(r) \/ Abandon(r)
  PROVE  RowsKept
<1>1. CASE PayOut(r)
  BY <1>1, PayOutRows
<1>2. CASE UNCHANGED <<today, window, pauses>>
  BY <1>2, SameRows
<1>3. CASE DeliveryStep(r) \/ Abandon(r)
  BY <1>2, <1>3 DEF DeliveryStep, GenerateOrder, SetStatus, GenerateItems,
     Abandon, subscription
<1>4. CASE ScanStep(r)
  BY <1>2, <1>4 DEF ScanStep, Scan, ReadPausedDays, ReadFailedOrders, Answer,
     CreateCandidate, EndScan, subscription
<1>5. CASE RefundStep(r)
  BY <1>1, <1>2, <1>5 DEF RefundStep, Review, Reject, Decide, AskApprove,
     subscription
<1> QED BY <1>3, <1>4, <1>5

LEMMA PauseStepSerial ==
  ASSUME TypeOK, PausesMatch, NEW r \in Requests, RequestMatch(r), PauseStep(r)
  PROVE  PausesMatch' /\ RequestMatch(r)'
<1>0. request[r] \in Request /\ Typed(request[r], Len(pauses))
  BY DEF TypeOK
<1>1. ASSUME NEW from, NEW to, NEW op, AskPause(r, from, to, op)
      PROVE  PausesMatch' /\ RequestMatch(r)'
  <2> DEFINE q == [Idle EXCEPT !.pc = "pause", !.from = from, !.to = to,
                               !.hook = (op = "adminPause")]
  <2>1. request'[r] = q /\ q.pc = "pause"
    BY <1>1, BeginIs DEF AskPause, Idle
  <2> HIDE DEF q
  <2>2. UNCHANGED <<today, window, pauses>> /\ window.to < today
    BY <1>1, RowTypes DEF AskPause, subscription, AlreadyPaused
  <2> QED BY <2>1, <2>2, SameRows, KeptMatches DEF RequestMatch
<1>2. CASE CommitPause(r)
  BY <1>2, CommitMatches
<1>3. ASSUME NEW day, AskResume(r, day) PROVE PausesMatch' /\ RequestMatch(r)'
  <2> DEFINE q == [Idle EXCEPT !.pc = "findPause", !.day = day]
  <2>1. request'[r] = q /\ q.pc = "findPause" /\ q.day = day
    BY <1>3, BeginIs DEF AskResume, Idle
  <2> HIDE DEF q
  <2>2. UNCHANGED <<today, window, pauses>> /\ day <= window.to
    BY <1>3, RowTypes DEF AskResume, subscription, NoDay
  <2> QED BY <2>1, <2>2, SameRows, KeptMatches DEF RequestMatch
<1>4. CASE FindPause(r)
  <2>1. UNCHANGED <<today, window, pauses>> /\ request[r].pc = "findPause"
    BY <1>4 DEF FindPause, subscription, At
  <2>2. PausesMatch'
    BY <2>1, SameRows, KeptMatches
  <2>3. CASE Done(r)
    BY <2>1, <2>2, <2>3, SameRows, KeptRequest, DoneUnpromised DEF Unpromised
  <2>4. ASSUME NEW i \in DOMAIN pauses, IsLatestPaused(i),
               Begin(r, [request[r] EXCEPT !.pc = "resume", !.row = i,
                                           !.to = pauses[i].to])
        PROVE  RequestMatch(r)'
    <3> DEFINE q == [request[r] EXCEPT !.pc = "resume", !.row = i,
                                       !.to = pauses[i].to]
    <3>1. request'[r] = q
      BY <2>4, BeginIs
    <3>2. q.pc = "resume" /\ q.row = i /\ q.day = request[r].day
      BY <1>0 DEF Request
    <3> HIDE DEF q
    <3>3. ASSUME NEW j \in DOMAIN pauses, Active(j) PROVE j = i
      <4>1. ~(i < j) /\ ~(j < i)
        BY <2>4, <3>3 DEF IsLatestPaused, PausesMatch, Active
      <4> QED BY <4>1, RowTypes
    <3>4. q.day <= window.to
      BY <2>1, <3>2 DEF RequestMatch
    <3> QED BY <2>1, <3>1, <3>2, <3>3, <3>4 DEF RequestMatch, Active
  <2> QED BY <1>4, <2>2, <2>3, <2>4 DEF FindPause
<1>5. CASE Resume(r)
  <2> DEFINE q == request[r]
  <2>1. /\ q.pc = "resume" /\ q.row \in DOMAIN pauses /\ q.to \in Days
        /\ q.day # 1 /\ q.day \in 0 .. LastDay /\ q.day <= window.to
        /\ \A j \in DOMAIN pauses : Active(j) => j = q.row
    BY <1>0, <1>5, RowTypes DEF Resume, At, Typed, Request, RequestMatch
  <2>2. today' = today /\ Done(r)
    BY <1>5 DEF Resume
  <2>3. PausesMatch'
    <3>1. CASE q.day = NoDay
      BY <1>5, <2>1, <2>2, <3>1, CallOffMatches DEF Resume
    <3>2. CASE q.day # NoDay
      <4>1. q.day \in Days
        BY <2>1, <3>2, RefundsAssumption DEF NoDay, Days
      <4> QED BY <1>5, <2>1, <2>2, <3>2, <4>1, CutShortMatches DEF Resume
    <3> QED BY <3>1, <3>2
  <2>4. request'[r].pc = "idle"
    BY <2>2, BeginIs DEF Done, Idle
  <2> QED BY <2>3, <2>4 DEF RequestMatch
<1>6. CASE AutoResume(r)
  <2> DEFINE q == [Idle EXCEPT !.pc = "complete"]
  <2>1. request'[r] = q /\ q.pc = "complete"
    BY <1>6, BeginIs DEF AutoResume, Idle
  <2> HIDE DEF q
  <2> QED BY <1>6, <2>1, AutoResumeMatches DEF RequestMatch
<1>7. CASE CompletePauses(r)
  <2>1. Done(r)
    BY <1>7 DEF CompletePauses
  <2> QED BY <1>7, <2>1, CompleteRows, KeptMatches, KeptRequest, DoneUnpromised
          DEF Unpromised
<1> QED BY <1>1, <1>2, <1>3, <1>4, <1>5, <1>6, <1>7 DEF PauseStep

LEMMA NextSerial ==
  ASSUME OneAtATime, TypeOK, SerialInv, [Next]_vars
  PROVE  SerialInv'
<1>0. PICK r \in Requests : Requests = {r}
  BY DEF OneAtATime
<1>1. PausesMatch /\ RequestMatch(r)
  BY DEF SerialInv
<1> SUFFICES PausesMatch' /\ RequestMatch(r)'
  BY <1>0 DEF SerialInv
<1>2. CASE PauseStep(r)
  BY <1>1, <1>2, PauseStepSerial
<1>3. CASE DeliveryStep(r) \/ ScanStep(r) \/ RefundStep(r) \/ Abandon(r)
  BY <1>1, <1>3, OtherRows, OtherUnpromised, KeptMatches, KeptRequest
     DEF Unpromised
<1>4. CASE NextDay
  BY <1>1, <1>4, NextDayRows, KeptMatches, KeptRequest DEF NextDay
<1>5. CASE UNCHANGED vars
  BY <1>1, <1>5, SameRows, KeptMatches, KeptRequest DEF vars
<1> QED BY <1>0, <1>2, <1>3, <1>4, <1>5 DEF Next

\* While requests do not overlap, deliveries of a coming day are suspended
\* exactly when a pause on record covers it, though days pass between the
\* statements of a request and any request may stop half-way.
THEOREM SuspendedWhilePaused == OneAtATime /\ Spec => []SuspendedAsPaused
<1>1. TypeOK /\ SerialInv => SuspendedAsPaused
  BY MatchSuspends DEF SerialInv
<1>2. OneAtATime /\ TypeOK /\ SerialInv /\ [Next]_vars => SerialInv'
  BY NextSerial
<1>3. OneAtATime => []OneAtATime
  BY DEF OneAtATime
<1> QED BY <1>1, <1>2, <1>3, InitSerial, RefundsTypeCorrect, PTL DEF Spec
=============================================================================
