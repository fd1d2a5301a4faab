------------------------------ MODULE Referral ------------------------------
(***************************************************************************)
(* The reward for a friend: one new customer with orders, and the          *)
(* referrers whose codes the customer used.  Whoever reports an order      *)
(* delivered asks the detector whether it is the first one and, if so, the *)
(* reward engine to credit a referrer.                                     *)
(*                                                                         *)
(* One action is one statement, or a transaction of which only one         *)
(* statement waits or decides.  The engine's transaction is cut where it   *)
(* reads the customer, reads the referrals and waits for a row's lock.     *)
(***************************************************************************)
EXTENDS Naturals, FiniteSets

CONSTANTS
  Orders,           \* the friend's orders
  Referrers, None,  \* customers or partners with a code, and NULL
  Handlers          \* concurrently running requests

ASSUME ReferralAssumption == None \notin Referrers

VARIABLES
  order,       \* orders.status, of the friend's orders
  completed,   \* customers.first_order_completed, of the friend
  referredBy,  \* users.referred_by, of the friend
  registered,  \* the friend has a name, so cannot register again
  referral,    \* referrals.status of the pair, by referrer
  rewards,     \* ghost: credits to each referrer for this friend
  reported,    \* ghost: some order's delivery was reported
  forfeits,    \* ghost: what has cost the referrer a reward
  handler      \* where each handler is

vars == <<order, completed, referredBy, registered, referral, rewards,
          reported, forfeits, handler>>
friend == <<order, referredBy, registered>>

Detecting == {"next", "look", "unlock", "first"}
Engine == {"profile", "find", "lock", "create"}

Handler == [pc   : {"idle", "page", "sync"} \cup Detecting \cup Engine \cup {"pay"},
            left : SUBSET Orders,                 \* reported, still to look at
            own  : SUBSET Orders,                 \* the one looked at
            by   : Referrers \cup {None},         \* referred_by, as read
            seen : SUBSET Referrers,              \* open referrals, as read
            row  : SUBSET Referrers]              \* the one locked

Idle == [pc |-> "idle", left |-> {}, own |-> {}, by |-> None, seen |-> {}, row |-> {}]

Causes == {"unlocked",  \* the app or staff set the flag before the detector
           "together",  \* another order was delivered before it looked
           "stranger",  \* nobody had referred the friend by then
           "raced",     \* the row it creates was inserted meanwhile
           "broken"}    \* a statement failed or the process died

TypeOK ==
  /\ order \in [Orders -> {"open", "delivered", "failed"}]
  /\ completed \in BOOLEAN /\ registered \in BOOLEAN /\ reported \in BOOLEAN
  /\ referredBy \in Referrers \cup {None}
  /\ referral \in [Referrers -> {"none", "pending", "rewarded"}]
  /\ rewards \in [Referrers -> Nat]
  /\ forfeits \subseteq Causes
  /\ handler \in [Handlers -> Handler]
  /\ \A h \in Handlers :
       handler[h].pc \in {"create", "sync"} => handler[h].by \in Referrers

\* An account made by its phone number alone, or registered; the insertion of
\* its referral may have failed.
Init ==
  /\ order = [o \in Orders |-> "open"]
  /\ completed = FALSE
  /\ referredBy \in Referrers \cup {None}
  /\ registered \in BOOLEAN
  /\ \E S \in SUBSET ({referredBy} \cap Referrers) :
       referral = [r \in Referrers |-> IF r \in S THEN "pending" ELSE "none"]
  /\ rewards = [r \in Referrers |-> 0]
  /\ reported = FALSE
  /\ forfeits = {}
  /\ handler = [h \in Handlers |-> Idle]

-----------------------------------------------------------------------------

At(h, label) == handler[h].pc = label
Becomes(h, new) == handler' = [handler EXCEPT ![h] = new]
Go(h, label) == Becomes(h, [handler[h] EXCEPT !.pc = label])

\* The loop over the reported orders goes on with those left.
Continue(h, left) ==
  Becomes(h, IF left = {} THEN Idle ELSE [Idle EXCEPT !.pc = "next", !.left = left])

Forfeit(cause, costs) ==
  forfeits' = IF costs THEN forfeits \cup {cause} ELSE forfeits

-----------------------------------------------------------------------------
(* The friend and the staff.                                               *)

\* The account of a phone number is completed, with a code of its own or none.
\* A code whose pair is on record fails the transaction.
Register(code) ==
  /\ ~registered
  /\ registered' = TRUE
  /\ IF code = None
       THEN UNCHANGED <<referredBy, referral>>
       ELSE /\ referral[code] = "none"
            /\ referredBy' = code
            /\ referral' = [referral EXCEPT ![code] = "pending"]
  /\ UNCHANGED <<order, completed, rewards, reported, forfeits, handler>>

\* updateOrderStatus, which asks no detector.
SetStatus(o, s) ==
  /\ order' = [order EXCEPT ![o] = s]
  /\ UNCHANGED <<completed, referredBy, registered, referral, rewards, reported,
                 forfeits, handler>>

\* Staff edit the customer.
SetCompleted(b) ==
  /\ completed' = b
  /\ Forfeit("unlocked", b /\ ~completed)
  /\ UNCHANGED <<friend, referral, rewards, reported, handler>>

Delivered == {o \in Orders : order[o] = "delivered"}

\* The app asks for the code while an order is delivered, and unlocks it.
OpenPage(h) ==
  /\ At(h, "idle")
  /\ Delivered # {}
  /\ Becomes(h, [Idle EXCEPT !.pc = "page"])
  /\ UNCHANGED <<friend, completed, referral, rewards, reported, forfeits>>

Unlock(h) ==
  /\ At(h, "page")
  /\ completed' = TRUE
  /\ Forfeit("unlocked", ~completed)
  /\ Becomes(h, Idle)
  /\ UNCHANGED <<friend, referral, rewards, reported>>

\* The app's start inserts a referral for a friend who has none, as does the
\* login that read the code.
AskSync(h) ==
  /\ At(h, "idle")
  /\ referredBy # None
  /\ \A r \in Referrers : referral[r] = "none"
  /\ Becomes(h, [Idle EXCEPT !.pc = "sync", !.by = referredBy])
  /\ UNCHANGED <<friend, completed, referral, rewards, reported, forfeits>>

InsertReferral(h) ==
  /\ At(h, "sync")
  /\ referral' = [referral EXCEPT ![handler[h].by] = IF @ = "none" THEN "pending" ELSE @]
  /\ Becomes(h, Idle)
  /\ UNCHANGED <<friend, completed, rewards, reported, forfeits>>

-----------------------------------------------------------------------------
(* Reports of deliveries, and the detector.                                *)

Report(h, S) ==
  /\ At(h, "idle")
  /\ Continue(h, S)
  /\ reported' = TRUE
  /\ UNCHANGED <<completed, referredBy, registered, referral, rewards, forfeits>>

\* A stop, or the bulk report of a day.  Orders of the stop that failed stay
\* failed, and are looked at all the same.
ReportStop(h, S) ==
  /\ S # {}
  /\ order' = [o \in Orders |-> IF o \in S /\ order[o] = "open" THEN "delivered" ELSE order[o]]
  /\ Report(h, S)

\* One order, by staff or the partner.
ReportOrder(h, o) ==
  /\ order' = [order EXCEPT ![o] = "delivered"]
  /\ Report(h, {o})

\* detectAndMarkFirstOrder: the flag is read ...
ReadFlag(h) ==
  /\ At(h, "next")
  /\ \E o \in handler[h].left :
       LET left == handler[h].left \ {o} IN
       IF completed
         THEN Continue(h, left)
         ELSE Becomes(h, [handler[h] EXCEPT !.pc = "look", !.left = left, !.own = {o}])
  /\ UNCHANGED <<friend, completed, referral, rewards, reported, forfeits>>

\* Mutant: the order itself counts as an earlier one.
EarlierAny(h) == Delivered

Earlier(h) == Delivered \ handler[h].own

\* ... then the friend's other orders ...
LookForOthers(h) ==
  /\ At(h, "look")
  /\ Go(h, IF Earlier(h) = {} THEN "first" ELSE "unlock")
  /\ Forfeit("together", Delivered \ handler[h].own # {})
  /\ UNCHANGED <<friend, completed, referral, rewards, reported>>

\* ... and the flag is set, whether or not this is the first order.
MarkSilently(h) ==
  /\ At(h, "unlock")
  /\ completed' = TRUE
  /\ Continue(h, handler[h].left)
  /\ UNCHANGED <<friend, referral, rewards, reported, forfeits>>

MarkFirst(h) ==
  /\ At(h, "first")
  /\ completed' = TRUE
  /\ Go(h, "profile")
  /\ UNCHANGED <<friend, referral, rewards, reported, forfeits>>

-----------------------------------------------------------------------------
(* processReferralReward, one transaction.                                 *)

ReadProfile(h) ==
  /\ At(h, "profile")
  /\ Becomes(h, [handler[h] EXCEPT !.pc = "find", !.by = referredBy])
  /\ UNCHANGED <<friend, completed, referral, rewards, reported, forfeits>>

IsPending(r) == referral[r] = "pending"

\* SELECT ... FOR UPDATE: what the statement sees ...
FindReferrals(h) ==
  /\ At(h, "find")
  /\ Becomes(h, [handler[h] EXCEPT !.pc = "lock", !.seen = {r \in Referrers : IsPending(r)}])
  /\ UNCHANGED <<friend, completed, referral, rewards, reported, forfeits>>

\* Mutant: what the statement saw is not looked at again under the lock.
StillOpenUnread(h) == handler[h].seen

StillOpen(h) == {r \in handler[h].seen : IsPending(r)}

Locked(r) == \E g \in Handlers : At(g, "pay") /\ r \in handler[g].row

\* ... and the row that it gets, once no other transaction holds it.
LockReferral(h) ==
  /\ At(h, "lock")
  /\ \E r \in StillOpen(h) :
       /\ ~Locked(r)
       /\ Becomes(h, [handler[h] EXCEPT !.pc = "pay", !.row = {r}])
  /\ UNCHANGED <<friend, completed, referral, rewards, reported, forfeits>>

\* None is left: the referral is made of referred_by, if there is one.
FindNone(h) ==
  /\ At(h, "lock")
  /\ StillOpen(h) = {}
  /\ IF handler[h].by = None THEN Continue(h, handler[h].left) ELSE Go(h, "create")
  /\ Forfeit("stranger", handler[h].by = None)
  /\ UNCHANGED <<friend, completed, referral, rewards, reported>>

\* Mutant: the status that createReferral would store.
StatusCompleted == "completed"

StatusRewarded == "rewarded"

\* The credit of a wallet or the bonus of a partner, and the two updates.
Reward(S) ==
  /\ rewards' = [r \in Referrers |-> IF r \in S THEN rewards[r] + 1 ELSE rewards[r]]
  /\ referral' = [r \in Referrers |-> IF r \in S THEN StatusRewarded ELSE referral[r]]
  /\ completed' = TRUE

PayReward(h) ==
  /\ At(h, "pay")
  /\ Reward(handler[h].row)
  /\ Continue(h, handler[h].left)
  /\ UNCHANGED <<friend, reported, forfeits>>

\* The unique pair turns the insertion down if the row exists, in any status.
CreateReferral(h) ==
  LET r == handler[h].by IN
  /\ At(h, "create")
  /\ IF referral[r] = "none" THEN Reward({r}) ELSE UNCHANGED <<rewards, referral, completed>>
  /\ Forfeit("raced", referral[r] = "pending")
  /\ Continue(h, handler[h].left)
  /\ UNCHANGED <<friend, reported>>

\* A statement fails, the loop goes on; or the process dies.
Fail(h) ==
  /\ handler[h].pc \notin {"idle", "next"}
  /\ Continue(h, handler[h].left)
  /\ Forfeit("broken", TRUE)
  /\ UNCHANGED <<friend, completed, referral, rewards, reported>>

Die(h) ==
  /\ ~At(h, "idle")
  /\ Becomes(h, Idle)
  /\ Forfeit("broken", TRUE)
  /\ UNCHANGED <<friend, completed, referral, rewards, reported>>

Request(h) ==
  \/ OpenPage(h) \/ AskSync(h)
  \/ \E S \in SUBSET Orders : ReportStop(h, S)
  \/ \E o \in Orders : ReportOrder(h, o)

Step(h) ==
  \/ Unlock(h) \/ InsertReferral(h)
  \/ ReadFlag(h) \/ LookForOthers(h) \/ MarkSilently(h) \/ MarkFirst(h)
  \/ ReadProfile(h) \/ FindReferrals(h) \/ LockReferral(h) \/ FindNone(h)
  \/ PayReward(h) \/ CreateReferral(h)
  \/ Fail(h) \/ Die(h)

Next ==
  \/ \E code \in Referrers \cup {None} : Register(code)
  \/ \E o \in Orders, s \in {"open", "delivered", "failed"} : SetStatus(o, s)
  \/ \E b \in BOOLEAN : SetCompleted(b)
  \/ \E h \in Handlers : Request(h) \/ Step(h)

Spec == Init /\ [][Next]_vars

-----------------------------------------------------------------------------

\* A referrer is credited once for the friend, and exactly when the referral
\* says so, however many reports reach the engine at the same time and whether
\* the row was there or is made by one of them.
RewardedOnce ==
  \A r \in Referrers : rewards[r] = IF referral[r] = "rewarded" THEN 1 ELSE 0

\* The handlers between a report and the end of its last reward.
Busy == {h \in Handlers : handler[h].pc \in Detecting \cup Engine \cup {"pay"}}

\* Once a delivery was reported and its reports are through, somebody has been
\* rewarded, or one of the known causes has cost it.
UnrewardedHasCause ==
  reported /\ Busy = {} =>
    (\E r \in Referrers : rewards[r] = 1) \/ forfeits # {}
=============================================================================
