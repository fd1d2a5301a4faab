--------------------------- MODULE ReferralProofs ---------------------------
(***************************************************************************)
(* Theorems of Referral, for any sets of orders, referrers and requests.   *)
(***************************************************************************)
EXTENDS Referral, TLAPS

-----------------------------------------------------------------------------
(* Types.                                                                  *)

LEMMA IdleType == Idle \in Handler
BY DEF Idle, Handler

\* A handler that goes on, from its record or from the beginning.
LEMMA Becoming ==
  ASSUME TypeOK, NEW h \in Handlers, NEW new \in Handler, Becomes(h, new)
  PROVE  /\ handler' \in [Handlers -> Handler]
         /\ handler'[h] = new
         /\ \A g \in Handlers \ {h} : handler'[g] = handler[g]
BY DEF TypeOK, Becomes

LEMMA Going ==
  ASSUME TypeOK, NEW h \in Handlers,
         NEW label \in Detecting \cup Engine \cup {"pay"}, Go(h, label)
  PROVE  /\ handler' \in [Handlers -> Handler]
         /\ handler'[h] = [handler[h] EXCEPT !.pc = label]
         /\ handler'[h].pc = label
         /\ \A f \in {"left", "own", "by", "seen", "row"} : handler'[h][f] = handler[h][f]
         /\ \A g \in Handlers \ {h} : handler'[g] = handler[g]
BY DEF TypeOK, Go, Becomes, Handler

LEMMA Continuing ==
  ASSUME TypeOK, NEW h \in Handlers, NEW left \in SUBSET Orders, Continue(h, left)
  PROVE  /\ handler' \in [Handlers -> Handler]
         /\ handler'[h].pc = IF left = {} THEN "idle" ELSE "next"
         /\ handler'[h].row = {}
         /\ \A g \in Handlers \ {h} : handler'[g] = handler[g]
BY IdleType DEF TypeOK, Continue, Becomes, Handler, Detecting, Idle

LEMMA LeftType ==
  ASSUME TypeOK, NEW h \in Handlers
  PROVE  handler[h].left \in SUBSET Orders /\ handler[h].row \in SUBSET Referrers
BY DEF TypeOK, Handler

\* The parts of TypeOK.
HandlersOK ==
  /\ handler \in [Handlers -> Handler]
  /\ \A h \in Handlers :
       handler[h].pc \in {"create", "sync"} => handler[h].by \in Referrers
DataOK ==
  /\ order \in [Orders -> {"open", "delivered", "failed"}]
  /\ completed \in BOOLEAN /\ registered \in BOOLEAN /\ reported \in BOOLEAN
  /\ referredBy \in Referrers \cup {None}
  /\ referral \in [Referrers -> {"none", "pending", "rewarded"}]
  /\ rewards \in [Referrers -> Nat]
  /\ forfeits \subseteq Causes

LEMMA Parts == TypeOK <=> DataOK /\ HandlersOK
BY DEF TypeOK, DataOK, HandlersOK

\* One handler moves, to a record that is well typed.
LEMMA OneMoves ==
  ASSUME TypeOK, NEW h \in Handlers, handler' \in [Handlers -> Handler],
         \A g \in Handlers \ {h} : handler'[g] = handler[g],
         handler'[h].pc \in {"create", "sync"} => handler'[h].by \in Referrers
  PROVE  HandlersOK'
BY DEF TypeOK, HandlersOK

LEMMA ForfeitType ==
  ASSUME TypeOK, NEW cause \in Causes, NEW costs, Forfeit(cause, costs)
  PROVE  forfeits' \subseteq Causes
BY DEF TypeOK, Forfeit

LEMMA RewardType ==
  ASSUME TypeOK, NEW S \in SUBSET Referrers, Reward(S)
  PROVE  /\ rewards' \in [Referrers -> Nat]
         /\ referral' \in [Referrers -> {"none", "pending", "rewarded"}]
         /\ completed' \in BOOLEAN
BY DEF TypeOK, Reward, StatusRewarded

LEMMA InitType == Init => TypeOK
<1> SUFFICES ASSUME Init PROVE TypeOK
  OBVIOUS
<1>1. referral \in [Referrers -> {"none", "pending", "rewarded"}]
  BY DEF Init
<1>2. \A h \in Handlers : handler[h] = Idle /\ Idle.pc = "idle"
  BY DEF Init, Idle
<1> QED BY <1>1, <1>2, IdleType DEF Init, TypeOK

LEMMA StepType == TypeOK /\ [Next]_vars => TypeOK'
<1> SUFFICES ASSUME TypeOK, [Next]_vars PROVE DataOK' /\ HandlersOK'
  BY Parts, PTL
<1>0. DataOK /\ HandlersOK
  BY Parts
<1>1. CASE UNCHANGED vars
  BY <1>0, <1>1 DEF vars, DataOK, HandlersOK
<1>2. ASSUME NEW code \in Referrers \cup {None}, Register(code) PROVE DataOK' /\ HandlersOK'
  BY <1>0, <1>2 DEF Register, DataOK, HandlersOK
<1>3. ASSUME NEW o \in Orders, NEW s \in {"open", "delivered", "failed"}, SetStatus(o, s)
      PROVE  DataOK' /\ HandlersOK'
  BY <1>0, <1>3 DEF SetStatus, DataOK, HandlersOK
<1>4. ASSUME NEW b \in BOOLEAN, SetCompleted(b) PROVE DataOK' /\ HandlersOK'
  BY <1>0, <1>4, ForfeitType DEF SetCompleted, Causes, DataOK, HandlersOK, friend
<1>5. ASSUME NEW h \in Handlers, Request(h) PROVE DataOK' /\ HandlersOK'
  <2>1. CASE OpenPage(h)
    <3>1. [Idle EXCEPT !.pc = "page"] \in Handler
      BY IdleType DEF Handler
    <3> QED BY <1>0, <2>1, <3>1, Becoming, OneMoves DEF OpenPage, DataOK, friend, Idle
  <2>2. CASE AskSync(h)
    <3>1. /\ [Idle EXCEPT !.pc = "sync", !.by = referredBy] \in Handler
          /\ referredBy \in Referrers
      BY <2>2, IdleType DEF AskSync, Handler, TypeOK
    <3> QED BY <1>0, <2>2, <3>1, Becoming, OneMoves DEF AskSync, DataOK, friend, Idle
  <2>3. ASSUME NEW S \in SUBSET Orders, ReportStop(h, S) PROVE DataOK' /\ HandlersOK'
    BY <1>0, <2>3, Continuing, OneMoves DEF ReportStop, Report, DataOK
  <2>4. ASSUME NEW o \in Orders, ReportOrder(h, o) PROVE DataOK' /\ HandlersOK'
    BY <1>0, <2>4, Continuing, OneMoves DEF ReportOrder, Report, DataOK
  <2> QED BY <1>5, <2>1, <2>2, <2>3, <2>4 DEF Request
<1>6. ASSUME NEW h \in Handlers, Step(h) PROVE DataOK' /\ HandlersOK'
  <2> DEFINE left == handler[h].left
  <2>0. left \in SUBSET Orders /\ handler[h].row \in SUBSET Referrers
    BY LeftType
  <2>1. CASE Unlock(h)
    BY <1>0, <2>1, IdleType, Becoming, OneMoves, ForfeitType
    DEF Unlock, Causes, DataOK, friend, Idle
  <2>2. CASE InsertReferral(h)
    <3>1. HandlersOK'
      BY <2>2, IdleType, Becoming, OneMoves DEF InsertReferral, Idle
    <3> QED BY <1>0, <2>2, <3>1 DEF InsertReferral, DataOK, friend
  <2>3. CASE ReadFlag(h)
    <3> PICK o \in left :
          IF completed
            THEN Continue(h, left \ {o})
            ELSE Becomes(h, [handler[h] EXCEPT !.pc = "look", !.left = left \ {o}, !.own = {o}])
      BY <2>3 DEF ReadFlag
    <3>1. CASE completed
      BY <1>0, <2>0, <2>3, <3>1, Continuing, OneMoves DEF ReadFlag, DataOK, friend
    <3>2. CASE ~completed
      <4> DEFINE new == [handler[h] EXCEPT !.pc = "look", !.left = left \ {o}, !.own = {o}]
      <4>1. new \in Handler /\ new.pc = "look"
        BY <2>0 DEF TypeOK, Handler, Detecting
      <4> HIDE DEF new
      <4>2. Becomes(h, new)
        BY <3>2 DEF new
      <4> QED BY <1>0, <2>3, <4>1, <4>2, Becoming, OneMoves DEF ReadFlag, DataOK, friend
    <3> QED BY <3>1, <3>2
  <2>4. CASE LookForOthers(h)
    <3> PICK label \in {"first", "unlock"} : Go(h, label)
      BY <2>4 DEF LookForOthers
    <3>1. forfeits' \subseteq Causes
      BY <2>4, ForfeitType DEF LookForOthers, Causes
    <3>2. HandlersOK'
      BY Going, OneMoves DEF Detecting
    <3> QED BY <1>0, <2>4, <3>1, <3>2 DEF LookForOthers, DataOK, friend
  <2>5. CASE MarkSilently(h)
    BY <1>0, <2>0, <2>5, Continuing, OneMoves DEF MarkSilently, DataOK, friend
  <2>6. CASE MarkFirst(h)
    <3>1. Go(h, "profile") /\ "profile" \in Engine
      BY <2>6 DEF MarkFirst, Engine
    <3>2. handler' \in [Handlers -> Handler] /\ handler'[h].pc = "profile"
      BY <3>1, Going
    <3>3. \A g \in Handlers \ {h} : handler'[g] = handler[g]
      BY <3>1, Going
    <3>4. HandlersOK'
      BY <3>2, <3>3, OneMoves
    <3> QED BY <1>0, <2>6, <3>4 DEF MarkFirst, DataOK, friend
  <2>7. CASE ReadProfile(h)
    <3> DEFINE new == [handler[h] EXCEPT !.pc = "find", !.by = referredBy]
    <3>1. new \in Handler /\ new.pc = "find"
      BY DEF TypeOK, Handler, Engine
    <3> HIDE DEF new
    <3>2. Becomes(h, new)
      BY <2>7 DEF ReadProfile, new
    <3> QED BY <1>0, <2>7, <3>1, <3>2, Becoming, OneMoves DEF ReadProfile, DataOK, friend
  <2>8. CASE FindReferrals(h)
    <3> DEFINE new == [handler[h] EXCEPT !.pc = "lock", !.seen = {r \in Referrers : IsPending(r)}]
    <3>1. new \in Handler /\ new.pc = "lock"
      BY DEF TypeOK, Handler, Engine
    <3> HIDE DEF new
    <3>2. Becomes(h, new)
      BY <2>8 DEF FindReferrals, new
    <3> QED BY <1>0, <2>8, <3>1, <3>2, Becoming, OneMoves DEF FindReferrals, DataOK, friend
  <2>9. CASE LockReferral(h)
    <3> PICK r \in StillOpen(h) : Becomes(h, [handler[h] EXCEPT !.pc = "pay", !.row = {r}])
      BY <2>9 DEF LockReferral
    <3> DEFINE new == [handler[h] EXCEPT !.pc = "pay", !.row = {r}]
    <3>1. new \in Handler /\ new.pc = "pay"
      <4>1. r \in Referrers
        BY DEF StillOpen, TypeOK, Handler
      <4> QED BY <4>1 DEF TypeOK, Handler
    <3> HIDE DEF new
    <3>2. Becomes(h, new)
      BY DEF new
    <3> QED BY <1>0, <2>9, <3>1, <3>2, Becoming, OneMoves DEF LockReferral, DataOK, friend
  <2>10. CASE FindNone(h)
    <3>1. forfeits' \subseteq Causes
      BY <2>10, ForfeitType DEF FindNone, Causes
    <3>2. CASE handler[h].by = None
      BY <1>0, <2>0, <2>10, <3>1, <3>2, Continuing, OneMoves DEF FindNone, DataOK, friend
    <3>3. CASE handler[h].by # None
      <4>1. handler[h].by \in Referrers /\ Go(h, "create")
        BY <2>10, <3>3 DEF FindNone, TypeOK, Handler
      <4> QED BY <1>0, <2>10, <3>1, <4>1, Going, OneMoves DEF FindNone, Engine, DataOK, friend
    <3> QED BY <3>2, <3>3
  <2>11. CASE PayReward(h)
    BY <1>0, <2>0, <2>11, Continuing, OneMoves, RewardType DEF PayReward, DataOK, friend
  <2>12. CASE CreateReferral(h)
    <3>1. forfeits' \subseteq Causes /\ HandlersOK'
      BY <2>0, <2>12, ForfeitType, Continuing, OneMoves DEF CreateReferral, Causes
    <3>2. handler[h].by \in Referrers
      BY <2>12 DEF CreateReferral, At, TypeOK
    <3>3. /\ rewards' \in [Referrers -> Nat]
          /\ referral' \in [Referrers -> {"none", "pending", "rewarded"}]
          /\ completed' \in BOOLEAN
      <4>1. CASE referral[handler[h].by] = "none"
        BY <2>12, <3>2, <4>1, RewardType DEF CreateReferral
      <4>2. CASE referral[handler[h].by] # "none"
        BY <2>12, <4>2 DEF CreateReferral, TypeOK
      <4> QED BY <4>1, <4>2
    <3> QED BY <1>0, <2>12, <3>1, <3>3 DEF CreateReferral, DataOK, friend
  <2>13. CASE Fail(h)
    BY <1>0, <2>0, <2>13, Continuing, OneMoves, ForfeitType DEF Fail, Causes, DataOK, friend
  <2>14. CASE Die(h)
    <3>1. forfeits' \subseteq Causes
      BY <2>14, ForfeitType DEF Die, Causes
    <3>2. HandlersOK'
      BY <2>14, IdleType, Becoming, OneMoves DEF Die, Idle
    <3> QED BY <1>0, <2>14, <3>1, <3>2 DEF Die, DataOK, friend
  <2> QED BY <1>6, <2>1, <2>2, <2>3, <2>4, <2>5, <2>6, <2>7, <2>8, <2>9, <2>10, <2>11,
             <2>12, <2>13, <2>14 DEF Step
<1> QED BY <1>1, <1>2, <1>3, <1>4, <1>5, <1>6 DEF Next

\* Every reachable state is well typed.
THEOREM ReferralTypeCorrect == Spec => []TypeOK
<1> QED BY InitType, StepType, PTL DEF Spec

-----------------------------------------------------------------------------
(* The locks and the credits.                                              *)

Holds(h, r) == At(h, "pay") /\ r \in handler[h].row

\* A request about to pay holds a referral that is open, and holds it alone.
LockInv ==
  /\ RewardedOnce
  /\ \A h \in Handlers : At(h, "pay") => handler[h].row # {}
  /\ \A h \in Handlers, r \in Referrers : Holds(h, r) => IsPending(r)
  /\ \A g, h \in Handlers, r \in Referrers : Holds(g, r) /\ Holds(h, r) => g = h

Others(h) == \A g \in Handlers \ {h} : handler'[g] = handler[g]

\* No credit is written and no open or rewarded referral changes.
Quiet ==
  /\ rewards' = rewards
  /\ \A r \in Referrers :
       \/ referral'[r] = referral[r]
       \/ referral[r] = "none" /\ referral'[r] = "pending"

\* A quiet step keeps the locks, unless it takes one.
LEMMA QuietKeeps ==
  ASSUME LockInv, Quiet, \A g \in Handlers : At(g, "pay")' => handler'[g] = handler[g]
  PROVE  LockInv'
<1>1. \A g \in Handlers : At(g, "pay")' => At(g, "pay")
  BY DEF At
<1>2. RewardedOnce'
  BY DEF LockInv, Quiet, RewardedOnce
<1>3. \A h \in Handlers : At(h, "pay")' => handler'[h].row # {}
  BY <1>1 DEF LockInv
<1>4. \A h \in Handlers, r \in Referrers : Holds(h, r)' => Holds(h, r)
  BY <1>1 DEF Holds
<1>5. \A r \in Referrers : IsPending(r) => IsPending(r)'
  BY DEF Quiet, IsPending
<1> QED BY <1>2, <1>3, <1>4, <1>5 DEF LockInv

LEMMA QuietMove ==
  ASSUME LockInv, Quiet, NEW h \in Handlers, Others(h), handler'[h].pc # "pay"
  PROVE  LockInv'
<1>1. \A g \in Handlers : At(g, "pay")' => handler'[g] = handler[g]
  BY DEF Others, At
<1> QED BY <1>1, QuietKeeps

\* A handler that pays or creates referrals nobody else holds, and leaves.
LEMMA RewardKeeps ==
  ASSUME TypeOK, LockInv, NEW h \in Handlers, NEW S \in SUBSET Referrers, Reward(S),
         Others(h), handler'[h].pc # "pay",
         \A r \in S : referral[r] # "rewarded",
         \A g \in Handlers \ {h}, r \in S : ~Holds(g, r)
  PROVE  LockInv'
<1>1. RewardedOnce'
  <2> SUFFICES ASSUME NEW r \in Referrers
               PROVE  rewards'[r] = IF referral'[r] = "rewarded" THEN 1 ELSE 0
    BY DEF RewardedOnce
  <2>1. rewards[r] = IF referral[r] = "rewarded" THEN 1 ELSE 0
    BY DEF LockInv, RewardedOnce
  <2>2. rewards'[r] = IF r \in S THEN rewards[r] + 1 ELSE rewards[r]
    BY DEF Reward
  <2>3. referral'[r] = IF r \in S THEN "rewarded" ELSE referral[r]
    BY DEF Reward, StatusRewarded
  <2> QED BY <2>1, <2>2, <2>3
<1>2. \A g \in Handlers : At(g, "pay")' => g # h /\ handler'[g] = handler[g] /\ At(g, "pay")
  BY DEF Others, At
<1>3. \A g \in Handlers : At(g, "pay")' => handler'[g].row # {}
  BY <1>2 DEF LockInv
<1>4. \A g \in Handlers, r \in Referrers : Holds(g, r)' => Holds(g, r) /\ r \notin S
  BY <1>2 DEF Holds
<1>5. \A r \in Referrers \ S : IsPending(r) => IsPending(r)'
  BY DEF Reward, IsPending
<1> QED BY <1>1, <1>3, <1>4, <1>5 DEF LockInv

LEMMA InitLocks == Init => LockInv
BY DEF Init, LockInv, RewardedOnce, Holds, At, Idle

LEMMA StepLocks == TypeOK /\ LockInv /\ [Next]_vars => LockInv'
<1> SUFFICES ASSUME TypeOK, LockInv, [Next]_vars PROVE LockInv'
  OBVIOUS
<1>1. CASE UNCHANGED vars
  BY <1>1, QuietKeeps DEF vars, Quiet
<1>2. ASSUME NEW code \in Referrers \cup {None}, Register(code) PROVE LockInv'
  <2>1. Quiet
    BY <1>2 DEF Register, Quiet, TypeOK
  <2> QED BY <1>2, <2>1, QuietKeeps DEF Register
<1>3. ASSUME NEW o \in Orders, NEW s \in {"open", "delivered", "failed"}, SetStatus(o, s)
      PROVE  LockInv'
  BY <1>3, QuietKeeps DEF SetStatus, Quiet
<1>4. ASSUME NEW b \in BOOLEAN, SetCompleted(b) PROVE LockInv'
  BY <1>4, QuietKeeps DEF SetCompleted, Quiet
<1>5. ASSUME NEW h \in Handlers, Request(h) PROVE LockInv'
  <2>1. CASE OpenPage(h)
    <3>1. handler'[h].pc = "page" /\ Others(h)
      BY <2>1 DEF OpenPage, Becomes, Idle, TypeOK, Others
    <3> QED BY <2>1, <3>1, QuietMove DEF OpenPage, Quiet
  <2>2. CASE AskSync(h)
    <3>1. handler'[h].pc = "sync" /\ Others(h)
      BY <2>2 DEF AskSync, Becomes, Idle, TypeOK, Others
    <3> QED BY <2>2, <3>1, QuietMove DEF AskSync, Quiet
  <2>3. ASSUME NEW S \in SUBSET Orders, Report(h, S) PROVE LockInv'
    BY <2>3, Continuing, QuietMove DEF Report, Quiet, Others
  <2> QED BY <1>5, <2>1, <2>2, <2>3 DEF Request, ReportStop, ReportOrder
<1>6. ASSUME NEW h \in Handlers, Step(h) PROVE LockInv'
  <2> DEFINE left == handler[h].left
  <2>0. left \in SUBSET Orders /\ handler[h].row \in SUBSET Referrers
    BY LeftType
  <2>1. CASE Unlock(h)
    BY <2>1, IdleType, Becoming, QuietMove DEF Unlock, Quiet, Others, Idle
  <2>2. CASE InsertReferral(h)
    <3>1. Quiet
      BY <2>2 DEF InsertReferral, Quiet, TypeOK
    <3> QED BY <2>2, <3>1, IdleType, Becoming, QuietMove DEF InsertReferral, Others, Idle
  <2>3. CASE ReadFlag(h)
    <3>1. handler'[h].pc # "pay" /\ Others(h)
      <4> PICK o \in left :
            IF completed
              THEN Continue(h, left \ {o})
              ELSE Becomes(h, [handler[h] EXCEPT !.pc = "look", !.left = left \ {o}, !.own = {o}])
        BY <2>3 DEF ReadFlag
      <4>1. CASE completed
        BY <2>0, <4>1, Continuing DEF Others
      <4>2. CASE ~completed
        BY <4>2 DEF Becomes, TypeOK, Handler, Others
      <4> QED BY <4>1, <4>2
    <3> QED BY <2>3, <3>1, QuietMove DEF ReadFlag, Quiet
  <2>4. CASE LookForOthers(h)
    <3> PICK label \in {"first", "unlock"} : Go(h, label)
      BY <2>4 DEF LookForOthers
    <3> QED BY <2>4, Going, QuietMove DEF LookForOthers, Detecting, Quiet, Others
  <2>5. CASE MarkSilently(h)
    BY <2>0, <2>5, Continuing, QuietMove DEF MarkSilently, Quiet, Others
  <2>6. CASE MarkFirst(h)
    <3>1. Go(h, "profile") /\ "profile" \in Engine
      BY <2>6 DEF MarkFirst, Engine
    <3>2. handler'[h].pc = "profile" /\ Others(h)
      BY <3>1, Going DEF Others
    <3> QED BY <2>6, <3>2, QuietMove DEF MarkFirst, Quiet
  <2>7. CASE ReadProfile(h)
    <3>1. handler'[h].pc = "find" /\ Others(h)
      BY <2>7 DEF ReadProfile, Becomes, TypeOK, Handler, Others
    <3> QED BY <2>7, <3>1, QuietMove DEF ReadProfile, Quiet
  <2>8. CASE FindReferrals(h)
    <3>1. handler'[h].pc = "lock" /\ Others(h)
      BY <2>8 DEF FindReferrals, Becomes, TypeOK, Handler, Others
    <3> QED BY <2>8, <3>1, QuietMove DEF FindReferrals, Quiet
  <2>9. CASE LockReferral(h)
    <3> PICK r \in StillOpen(h) :
          ~Locked(r) /\ Becomes(h, [handler[h] EXCEPT !.pc = "pay", !.row = {r}])
      BY <2>9 DEF LockReferral
    <3>1. IsPending(r)
      BY DEF StillOpen
    <3>2. handler'[h].row = {r} /\ Others(h)
      BY DEF Becomes, TypeOK, Handler, Others
    <3>3. \A g \in Handlers : ~Holds(g, r)
      BY DEF Locked, Holds
    <3>4. \A g \in Handlers, q \in Referrers : Holds(g, q)' => IF g = h THEN q = r ELSE Holds(g, q)
      BY <3>2 DEF Holds, At, Others
    <3>5. RewardedOnce' /\ \A q \in Referrers : IsPending(q) => IsPending(q)'
      BY <2>9 DEF LockReferral, LockInv, RewardedOnce, IsPending
    <3>6. \A g \in Handlers : At(g, "pay")' => handler'[g].row # {}
      BY <3>2 DEF Others, At, LockInv
    <3>7. \A g \in Handlers, q \in Referrers : Holds(g, q)' => IsPending(q)'
      BY <3>1, <3>4, <3>5 DEF LockInv
    <3>8. \A f, g \in Handlers, q \in Referrers : Holds(f, q)' /\ Holds(g, q)' => f = g
      BY <3>3, <3>4 DEF LockInv
    <3> QED BY <3>5, <3>6, <3>7, <3>8 DEF LockInv
  <2>10. CASE FindNone(h)
    <3>1. handler'[h].pc # "pay" /\ Others(h)
      <4>1. CASE handler[h].by = None
        BY <2>0, <2>10, <4>1, Continuing DEF FindNone, Others
      <4>2. CASE handler[h].by # None
        <5>1. Go(h, "create") /\ "create" \in Engine
          BY <2>10, <4>2 DEF FindNone, Engine
        <5>2. handler'[h].pc = "create" /\ Others(h)
          BY <5>1, Going DEF Others
        <5> QED BY <5>2
      <4> QED BY <4>1, <4>2
    <3> QED BY <2>10, <3>1, QuietMove DEF FindNone, Quiet
  <2>11. CASE PayReward(h)
    <3>1. handler'[h].pc # "pay" /\ Others(h)
      BY <2>0, <2>11, Continuing DEF PayReward, Others
    <3>2. At(h, "pay") /\ Reward(handler[h].row)
      BY <2>11 DEF PayReward
    <3>3. \A r \in handler[h].row : Holds(h, r) /\ referral[r] # "rewarded"
      BY <2>0, <3>2 DEF Holds, LockInv, IsPending
    <3>4. \A g \in Handlers \ {h}, r \in handler[h].row : ~Holds(g, r)
      BY <2>0, <3>3 DEF LockInv
    <3> QED BY <2>0, <3>1, <3>2, <3>3, <3>4, RewardKeeps
  <2>12. CASE CreateReferral(h)
    <3> DEFINE r == handler[h].by
    <3>1. handler'[h].pc # "pay" /\ Others(h)
      BY <2>0, <2>12, Continuing DEF CreateReferral, Others
    <3>2. r \in Referrers
      BY <2>12 DEF CreateReferral, At, TypeOK
    <3>3. CASE referral[r] = "none"
      <4>1. Reward({r})
        BY <2>12, <3>3 DEF CreateReferral
      <4>2. \A g \in Handlers \ {h} : ~Holds(g, r)
        BY <3>2, <3>3 DEF LockInv, IsPending
      <4> QED BY <3>1, <3>2, <3>3, <4>1, <4>2, RewardKeeps
    <3>4. CASE referral[r] # "none"
      BY <2>12, <3>1, <3>4, QuietMove DEF CreateReferral, Quiet
    <3> QED BY <3>3, <3>4
  <2>13. CASE Fail(h)
    BY <2>0, <2>13, Continuing, QuietMove DEF Fail, Quiet, Others
  <2>14. CASE Die(h)
    BY <2>14, IdleType, Becoming, QuietMove DEF Die, Quiet, Others, Idle
  <2> QED BY <1>6, <2>1, <2>2, <2>3, <2>4, <2>5, <2>6, <2>7, <2>8, <2>9, <2>10, <2>11,
             <2>12, <2>13, <2>14 DEF Step
<1> QED BY <1>1, <1>2, <1>3, <1>4, <1>5, <1>6 DEF Next

LEMMA LocksHeld == Spec => [](TypeOK /\ LockInv)
<1>1. TypeOK /\ LockInv /\ [Next]_vars => (TypeOK /\ LockInv)'
  BY StepType, StepLocks
<1>2. Init => TypeOK /\ LockInv
  BY InitType, InitLocks
<1> QED BY <1>1, <1>2, PTL DEF Spec

\* A referrer is credited once for a friend, however many requests reach the
\* engine, and the referral says so.
THEOREM ReferrersArePaidOnce == Spec => []RewardedOnce
<1>1. LockInv => RewardedOnce
  BY DEF LockInv
<1> QED BY <1>1, LocksHeld, PTL

-----------------------------------------------------------------------------
(* Who is rewarded, or why nobody is.                                      *)

Accounted == (\E r \in Referrers : rewards[r] = 1) \/ forfeits # {}
Rewarding == {h \in Handlers : handler[h].pc \in Engine \cup {"pay"}}

\* The flag and a report are accounted for, or somebody still has to do it.
CauseInv ==
  /\ \A h \in Handlers : At(h, "unlock") => forfeits # {}
  /\ completed => Accounted \/ Rewarding # {}
  /\ reported => Accounted \/ Busy # {}

\* What is accounted for stays so.
Keeps ==
  /\ forfeits \subseteq forfeits'
  /\ \A r \in Referrers : rewards[r] = 1 => rewards'[r] = 1

LEMMA AccountedStays == ASSUME Keeps, Accounted PROVE Accounted'
BY DEF Keeps, Accounted

\* Once all is accounted for, CauseInv asks for nothing but the silent marks.
LEMMA AccountedHolds ==
  ASSUME CauseInv, Keeps, Accounted', NEW h \in Handlers, Others(h),
         At(h, "unlock")' => forfeits' # {}
  PROVE  CauseInv'
<1>1. \A g \in Handlers : At(g, "unlock")' => forfeits' # {}
  BY DEF CauseInv, Keeps, Others, At
<1> QED BY <1>1 DEF CauseInv

\* A step that neither sets the flag nor reports, of a request that goes on.
LEMMA GoesOn ==
  ASSUME CauseInv, Keeps, NEW h \in Handlers, Others(h),
         At(h, "unlock")' => forfeits' # {},
         completed' => completed \/ h \in Rewarding',
         reported' => reported \/ h \in Busy',
         h \in Rewarding => h \in Rewarding',
         h \in Busy => h \in Busy'
  PROVE  CauseInv'
<1>1. \A g \in Handlers : At(g, "unlock")' => forfeits' # {}
  BY DEF CauseInv, Keeps, Others, At
<1>2. Rewarding \subseteq Rewarding' /\ Busy \subseteq Busy'
  BY DEF Rewarding, Busy, Others
<1>3. completed' => Accounted' \/ Rewarding' # {}
  BY <1>2, AccountedStays DEF CauseInv
<1>4. reported' => Accounted' \/ Busy' # {}
  BY <1>2, AccountedStays DEF CauseInv
<1> QED BY <1>1, <1>3, <1>4 DEF CauseInv

\* A request that leaves without having paid, while the flag is set by another.
LEMMA FlagIsSet ==
  ASSUME CauseInv, Keeps, completed, NEW h \in Handlers, Others(h), h \notin Rewarding,
         handler'[h].pc \in {"idle", "next"}
  PROVE  CauseInv'
<1>1. \A g \in Handlers : At(g, "unlock")' => forfeits' # {}
  BY DEF CauseInv, Keeps, Others, At
<1>2. Rewarding \subseteq Rewarding'
  BY DEF Rewarding, Others
<1>3. Rewarding' \subseteq Busy'
  BY DEF Rewarding, Busy
<1>4. Accounted' \/ Rewarding' # {}
  BY <1>2, AccountedStays DEF CauseInv
<1> QED BY <1>1, <1>3, <1>4 DEF CauseInv

LEMMA InitCause == Init => CauseInv
BY DEF Init, CauseInv, At, Idle

LEMMA ForfeitKeeps ==
  ASSUME NEW cause, NEW costs, Forfeit(cause, costs)
  PROVE  forfeits \subseteq forfeits' /\ (costs => forfeits' # {})
BY DEF Forfeit

LEMMA RewardAccounts ==
  ASSUME TypeOK, LockInv, NEW S \in SUBSET Referrers, S # {}, Reward(S),
         \A r \in S : referral[r] # "rewarded"
  PROVE  /\ \A r \in Referrers : rewards[r] = 1 => rewards'[r] = 1
         /\ \E r \in Referrers : rewards'[r] = 1
<1>1. \A r \in Referrers : rewards[r] = IF referral[r] = "rewarded" THEN 1 ELSE 0
  BY DEF LockInv, RewardedOnce
<1>2. \A r \in Referrers : rewards'[r] = IF r \in S THEN rewards[r] + 1 ELSE rewards[r]
  BY DEF Reward
<1>3. \A r \in S : rewards'[r] = 1
  BY <1>1, <1>2
<1> QED BY <1>1, <1>2, <1>3

\* A step of no request, which may set the flag at a price.
LEMMA StaysPut ==
  ASSUME CauseInv, Keeps, handler' = handler, reported' = reported,
         completed' => completed \/ forfeits' # {}
  PROVE  CauseInv'
<1>1. \A g \in Handlers : At(g, "unlock")' => forfeits' # {}
  BY DEF CauseInv, Keeps, At
<1>2. Rewarding' = Rewarding /\ Busy' = Busy
  BY DEF Rewarding, Busy
<1>3. completed' => Accounted' \/ Rewarding' # {}
  BY <1>2, AccountedStays DEF CauseInv, Accounted
<1>4. reported' => Accounted' \/ Busy' # {}
  BY <1>2, AccountedStays DEF CauseInv
<1> QED BY <1>1, <1>3, <1>4 DEF CauseInv

LEMMA StepCause == TypeOK /\ LockInv /\ CauseInv /\ [Next]_vars => CauseInv'
<1> SUFFICES ASSUME TypeOK, LockInv, CauseInv, [Next]_vars PROVE CauseInv'
  OBVIOUS
<1>1. CASE UNCHANGED vars
  BY <1>1, StaysPut DEF vars, Keeps
<1>2. ASSUME NEW code \in Referrers \cup {None}, Register(code) PROVE CauseInv'
  BY <1>2, StaysPut DEF Register, Keeps
<1>3. ASSUME NEW o \in Orders, NEW s \in {"open", "delivered", "failed"}, SetStatus(o, s)
      PROVE  CauseInv'
  BY <1>3, StaysPut DEF SetStatus, Keeps
<1>4. ASSUME NEW b \in BOOLEAN, SetCompleted(b) PROVE CauseInv'
  <2>1. forfeits \subseteq forfeits' /\ (b /\ ~completed => forfeits' # {})
    BY <1>4, ForfeitKeeps DEF SetCompleted
  <2> QED BY <1>4, <2>1, StaysPut DEF SetCompleted, Keeps
<1>5. ASSUME NEW h \in Handlers, Request(h) PROVE CauseInv'
  <2>1. ASSUME At(h, "idle"), NEW label \in {"page", "sync", "next"}, handler'[h].pc = label,
               Others(h), UNCHANGED <<completed, rewards, forfeits>>,
               reported' = reported \/ label = "next"
        PROVE  CauseInv'
    <3>1. h \notin Busy /\ h \notin Rewarding /\ ~At(h, "unlock")'
      BY <2>1 DEF Busy, Rewarding, At, Detecting, Engine
    <3>2. reported' => reported \/ h \in Busy'
      BY <2>1 DEF Busy, Detecting
    <3> QED BY <2>1, <3>1, <3>2, GoesOn DEF Keeps
  <2>2. CASE OpenPage(h)
    <3>1. handler'[h].pc = "page" /\ Others(h)
      BY <2>2 DEF OpenPage, Becomes, Idle, TypeOK, Others
    <3> QED BY <2>1, <2>2, <3>1 DEF OpenPage
  <2>3. CASE AskSync(h)
    <3>1. handler'[h].pc = "sync" /\ Others(h)
      BY <2>3 DEF AskSync, Becomes, Idle, TypeOK, Others
    <3> QED BY <2>1, <2>3, <3>1 DEF AskSync
  <2>4. ASSUME NEW S \in SUBSET Orders, S # {}, Report(h, S) PROVE CauseInv'
    <3>1. handler'[h].pc = "next" /\ Others(h)
      BY <2>4, Continuing DEF Report, Others
    <3> QED BY <2>1, <2>4, <3>1 DEF Report
  <2> QED BY <1>5, <2>2, <2>3, <2>4 DEF Request, ReportStop, ReportOrder
<1>6. ASSUME NEW h \in Handlers, Step(h) PROVE CauseInv'
  <2> DEFINE left == handler[h].left
  <2>0. left \in SUBSET Orders /\ handler[h].row \in SUBSET Referrers
    BY LeftType
  <2>goes. ASSUME Others(h), handler'[h].pc \in {"look", "first"} \cup Engine \cup {"pay"},
               h \in Rewarding => handler'[h].pc \in Engine \cup {"pay"},
               UNCHANGED <<rewards, reported>>, forfeits \subseteq forfeits',
               completed' => completed \/ handler'[h].pc \in Engine
        PROVE  CauseInv'
    <3>1. h \in Busy' /\ ~At(h, "unlock")'
      BY <2>goes DEF Busy, At, Detecting, Engine
    <3>2. handler'[h].pc \in Engine \cup {"pay"} => h \in Rewarding'
      BY DEF Rewarding
    <3> QED BY <2>goes, <3>1, <3>2, GoesOn DEF Keeps
  <2>costs. ASSUME Others(h), handler'[h].pc \in {"idle", "next"}, rewards' = rewards,
               forfeits \subseteq forfeits', forfeits' # {}
        PROVE  CauseInv'
    BY <2>costs, AccountedHolds DEF Keeps, Accounted, At
  <2>pays. ASSUME Others(h), handler'[h].pc \in {"idle", "next"}, forfeits \subseteq forfeits',
               NEW S \in SUBSET Referrers, S # {}, Reward(S),
               \A r \in S : referral[r] # "rewarded"
        PROVE  CauseInv'
    BY <2>pays, AccountedHolds, RewardAccounts DEF Keeps, Accounted, At

  <2>1. CASE Unlock(h)
    <3>1. handler'[h].pc = "idle" /\ Others(h)
      BY <2>1, IdleType, Becoming DEF Unlock, Others, Idle
    <3>2. forfeits \subseteq forfeits' /\ (~completed => forfeits' # {})
      BY <2>1, ForfeitKeeps DEF Unlock
    <3>3. h \notin Busy /\ h \notin Rewarding
      BY <2>1 DEF Unlock, At, Busy, Rewarding, Detecting, Engine
    <3>4. CASE completed
      BY <2>1, <3>1, <3>2, <3>3, <3>4, GoesOn DEF Unlock, Keeps, At
    <3>5. CASE ~completed
      BY <2>1, <2>costs, <3>1, <3>2, <3>5 DEF Unlock
    <3> QED BY <3>4, <3>5
  <2>2. CASE InsertReferral(h)
    <3>1. handler'[h].pc = "idle" /\ Others(h)
      BY <2>2, IdleType, Becoming DEF InsertReferral, Others, Idle
    <3>2. h \notin Busy /\ h \notin Rewarding
      BY <2>2 DEF InsertReferral, At, Busy, Rewarding, Detecting, Engine
    <3> QED BY <2>2, <3>1, <3>2, GoesOn DEF InsertReferral, Keeps, At
  <2>3. CASE ReadFlag(h)
    <3> PICK o \in left :
          IF completed
            THEN Continue(h, left \ {o})
            ELSE Becomes(h, [handler[h] EXCEPT !.pc = "look", !.left = left \ {o}, !.own = {o}])
      BY <2>3 DEF ReadFlag
    <3>1. h \notin Rewarding
      BY <2>3 DEF ReadFlag, At, Rewarding, Engine
    <3>2. CASE completed
      <4>1. handler'[h].pc \in {"idle", "next"} /\ Others(h)
        BY <2>0, <3>2, Continuing DEF Others
      <4> QED BY <2>3, <3>1, <3>2, <4>1, FlagIsSet DEF ReadFlag, Keeps
    <3>3. CASE ~completed
      <4>1. handler'[h].pc = "look" /\ Others(h)
        BY <3>3 DEF Becomes, TypeOK, Handler, Others
      <4> QED BY <2>3, <2>goes, <3>1, <4>1 DEF ReadFlag
    <3> QED BY <3>2, <3>3
  <2>4. CASE LookForOthers(h)
    <3>1. h \notin Rewarding
      BY <2>4 DEF LookForOthers, At, Rewarding, Engine
    <3>2. forfeits \subseteq forfeits' /\ (Earlier(h) # {} => forfeits' # {})
      BY <2>4, ForfeitKeeps DEF LookForOthers, Earlier
    <3>3. CASE Earlier(h) = {}
      <4>1. Go(h, "first") /\ "first" \in Detecting
        BY <2>4, <3>3 DEF LookForOthers, Detecting
      <4>2. handler'[h].pc = "first" /\ Others(h)
        BY <4>1, Going DEF Others
      <4> QED BY <2>4, <2>goes, <3>1, <3>2, <4>2 DEF LookForOthers
    <3>4. CASE Earlier(h) # {}
      <4>1. Go(h, "unlock") /\ "unlock" \in Detecting
        BY <2>4, <3>4 DEF LookForOthers, Detecting
      <4>2. handler'[h].pc = "unlock" /\ Others(h)
        BY <4>1, Going DEF Others
      <4>3. Keeps /\ Accounted'
        BY <2>4, <3>2, <3>4 DEF LookForOthers, Keeps, Accounted
      <4> QED BY <3>2, <3>4, <4>2, <4>3, AccountedHolds
    <3> QED BY <3>3, <3>4
  <2>5. CASE MarkSilently(h)
    <3>1. handler'[h].pc \in {"idle", "next"} /\ Others(h)
      BY <2>0, <2>5, Continuing DEF MarkSilently, Others
    <3>2. forfeits' = forfeits /\ forfeits # {}
      BY <2>5 DEF MarkSilently, CauseInv
    <3> QED BY <2>5, <2>costs, <3>1, <3>2 DEF MarkSilently
  <2>6. CASE MarkFirst(h)
    <3>1. Go(h, "profile") /\ "profile" \in Engine
      BY <2>6 DEF MarkFirst, Engine
    <3>2. handler'[h].pc = "profile" /\ Others(h)
      BY <3>1, Going DEF Others
    <3> QED BY <2>6, <2>goes, <3>1, <3>2 DEF MarkFirst
  <2>7. CASE ReadProfile(h)
    <3>1. handler'[h].pc = "find" /\ Others(h)
      BY <2>7 DEF ReadProfile, Becomes, TypeOK, Handler, Others
    <3> QED BY <2>7, <2>goes, <3>1 DEF ReadProfile, Engine
  <2>8. CASE FindReferrals(h)
    <3>1. handler'[h].pc = "lock" /\ Others(h)
      BY <2>8 DEF FindReferrals, Becomes, TypeOK, Handler, Others
    <3> QED BY <2>8, <2>goes, <3>1 DEF FindReferrals, Engine
  <2>9. CASE LockReferral(h)
    <3>1. handler'[h].pc = "pay" /\ Others(h)
      BY <2>9 DEF LockReferral, Becomes, TypeOK, Handler, Others
    <3> QED BY <2>9, <2>goes, <3>1 DEF LockReferral
  <2>10. CASE FindNone(h)
    <3>1. forfeits \subseteq forfeits' /\ (handler[h].by = None => forfeits' # {})
      BY <2>10, ForfeitKeeps DEF FindNone
    <3>2. CASE handler[h].by = None
      <4>1. handler'[h].pc \in {"idle", "next"} /\ Others(h)
        BY <2>0, <2>10, <3>2, Continuing DEF FindNone, Others
      <4> QED BY <2>10, <2>costs, <3>1, <3>2, <4>1 DEF FindNone
    <3>3. CASE handler[h].by # None
      <4>1. Go(h, "create") /\ "create" \in Engine
        BY <2>10, <3>3 DEF FindNone, Engine
      <4>2. handler'[h].pc = "create" /\ Others(h)
        BY <4>1, Going DEF Others
      <4> QED BY <2>10, <2>goes, <3>1, <4>1, <4>2 DEF FindNone
    <3> QED BY <3>2, <3>3
  <2>11. CASE PayReward(h)
    <3>1. handler'[h].pc \in {"idle", "next"} /\ Others(h)
      BY <2>0, <2>11, Continuing DEF PayReward, Others
    <3>2. At(h, "pay") /\ Reward(handler[h].row) /\ forfeits' = forfeits
      BY <2>11 DEF PayReward
    <3>3. handler[h].row # {} /\ \A r \in handler[h].row : referral[r] # "rewarded"
      BY <2>0, <3>2 DEF Holds, LockInv, IsPending
    <3> QED BY <2>0, <2>pays, <3>1, <3>2, <3>3
  <2>12. CASE CreateReferral(h)
    <3> DEFINE r == handler[h].by
    <3>1. handler'[h].pc \in {"idle", "next"} /\ Others(h)
      BY <2>0, <2>12, Continuing DEF CreateReferral, Others
    <3>2. r \in Referrers
      BY <2>12 DEF CreateReferral, At, TypeOK
    <3>3. forfeits \subseteq forfeits' /\ (referral[r] = "pending" => forfeits' # {})
      BY <2>12, ForfeitKeeps DEF CreateReferral
    <3>4. CASE referral[r] = "none"
      <4>1. Reward({r})
        BY <2>12, <3>4 DEF CreateReferral
      <4>2. {r} \in SUBSET Referrers /\ {r} # {} /\ \A q \in {r} : referral[q] # "rewarded"
        BY <3>2, <3>4
      <4> QED BY <2>pays, <3>1, <3>3, <4>1, <4>2
    <3>5. CASE referral[r] = "pending"
      BY <2>12, <2>costs, <3>1, <3>3, <3>5 DEF CreateReferral
    <3>6. CASE referral[r] = "rewarded"
      <4>1. rewards[r] = 1 /\ rewards' = rewards
        BY <2>12, <3>2, <3>6 DEF CreateReferral, LockInv, RewardedOnce
      <4>2. Keeps /\ Accounted'
        BY <3>2, <3>3, <4>1 DEF Keeps, Accounted
      <4> QED BY <3>1, <4>2, AccountedHolds DEF At
    <3> QED BY <3>2, <3>4, <3>5, <3>6 DEF TypeOK
  <2>13. CASE Fail(h)
    <3>1. handler'[h].pc \in {"idle", "next"} /\ Others(h)
      BY <2>0, <2>13, Continuing DEF Fail, Others
    <3>2. forfeits' = forfeits \cup {"broken"} /\ rewards' = rewards
      BY <2>13 DEF Fail, Forfeit
    <3> QED BY <2>costs, <3>1, <3>2
  <2>14. CASE Die(h)
    <3>1. handler'[h].pc = "idle" /\ Others(h)
      BY <2>14, IdleType, Becoming DEF Die, Others, Idle
    <3>2. forfeits' = forfeits \cup {"broken"} /\ rewards' = rewards
      BY <2>14 DEF Die, Forfeit
    <3> QED BY <2>costs, <3>1, <3>2
  <2> QED BY <1>6, <2>1, <2>2, <2>3, <2>4, <2>5, <2>6, <2>7, <2>8, <2>9, <2>10, <2>11,
             <2>12, <2>13, <2>14 DEF Step
<1> QED BY <1>1, <1>2, <1>3, <1>4, <1>5, <1>6 DEF Next

\* When the reports are through, a referrer is rewarded or a cause has cost it.
THEOREM RewardsAreAccounted == Spec => []UnrewardedHasCause
<1>1. Init => TypeOK /\ LockInv /\ CauseInv
  BY InitType, InitLocks, InitCause
<1>2. TypeOK /\ LockInv /\ CauseInv /\ [Next]_vars => (TypeOK /\ LockInv /\ CauseInv)'
  BY StepType, StepLocks, StepCause
<1>3. CauseInv => UnrewardedHasCause
  BY DEF CauseInv, UnrewardedHasCause, Accounted
<1> QED BY <1>1, <1>2, <1>3, PTL DEF Spec
=============================================================================
