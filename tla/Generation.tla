----------------------------- MODULE Generation -----------------------------
(***************************************************************************)
(* The generation of one date and slot's orders from the subscriptions     *)
(* that are due: by the cron of every API instance, when the configured    *)
(* minute comes, and by admins, for all branches or for one.               *)
(*                                                                         *)
(* One action is one statement of PostgreSQL or one call of Redis.  The    *)
(* statement that inserts the items is two, since two runs of it may both  *)
(* find the items missing; the one that inserts orders is one, since the   *)
(* unique key makes the second run wait.  A subscription's branch does not *)
(* change, and one item stands for those it has.                           *)
(***************************************************************************)
EXTENDS Naturals, FiniteSets

CONSTANTS
  Subs,           \* rows of subscriptions
  OneTime,        \* rows of orders that come from a cart
  Branches, None, \* branch ids, and NULL
  BranchOf,       \* branch_id of each of them
  AllBranches,    \* scope of a run that names no branch
  Instances,      \* API processes, each with the cron
  Admins,         \* concurrent manual runs
  Edited,         \* subscriptions whose schedule is edited in an instance
  Free, Dead,     \* a lock that is not set, and one whose owner is gone
  MaxOutlived     \* bound on the locks that lapse under their run

Runs == Instances \cup Admins
Scopes == Branches \cup {AllBranches}

ASSUME GenerationAssumption ==
  /\ BranchOf \in [Subs \cup OneTime -> Branches \cup {None}]
  /\ AllBranches \notin Branches \cup {None} /\ None \notin Branches
  /\ Free # Dead /\ {Free, Dead} \cap Runs = {}
  /\ Instances \cap Admins = {}
  /\ IsFiniteSet(Runs) /\ IsFiniteSet(Branches)
  /\ MaxOutlived \in Nat

VARIABLES
  active,     \* subscriptions whose status, dates and pauses allow the date
  scheduled,  \* subscriptions with a quantity for the date and slot
  ordered,    \* subscriptions with an order of the date and slot
  items,      \* how often the items of that order were inserted
  status,     \* orders.status of the one-time orders
  claimed,    \* the cron lock of the date and minute is set
  lock,       \* owner of each order_processing lock
  run,        \* where each run is
  outlived,   \* ghost: locks that lapsed under their run
  missed,     \* ghost: orders whose run left them without items
  broken      \* ghost: a run failed or died, or Redis did

vars == <<active, scheduled, ordered, items, status, claimed, lock, run,
          outlived, missed, broken>>
subscriptions == <<active, scheduled>>
ghosts == <<outlived, missed, broken>>

Steps == {"orders", "items", "insert", "confirm", "release"}
Run == [pc     : {"idle", "waiting", "lock"} \cup Steps,
        scope  : Scopes,
        fresh  : SUBSET Subs,   \* those it created orders for
        found  : SUBSET Subs,   \* those whose order it found without items
        lapsed : BOOLEAN]       \* ghost: its lock's TTL passed

Idle(at) == [pc |-> at, scope |-> AllBranches, fresh |-> {}, found |-> {},
             lapsed |-> FALSE]

TypeOK ==
  /\ active \subseteq Subs /\ scheduled \subseteq Subs
  /\ ordered \subseteq Subs /\ missed \subseteq Subs
  /\ items \in [Subs -> Nat]
  /\ status \in [OneTime -> {"none", "placed", "confirmed"}]
  /\ claimed \in BOOLEAN /\ broken \in BOOLEAN
  /\ lock \in [Scopes -> Runs \cup {Free, Dead}]
  /\ run \in [Runs -> Run]
  /\ outlived \in Nat

Init ==
  /\ active \in SUBSET Subs
  /\ scheduled \in {S \in SUBSET Subs : Subs \ Edited \subseteq S}
  /\ ordered = {}
  /\ items = [s \in Subs |-> 0]
  /\ status \in [OneTime -> {"none", "placed"}]
  /\ claimed = FALSE
  /\ lock = [k \in Scopes |-> Free]
  /\ run = [r \in Runs |-> Idle(IF r \in Instances THEN "waiting" ELSE "idle")]
  /\ outlived = 0 /\ missed = {} /\ broken = FALSE

-----------------------------------------------------------------------------

At(r, label) == run[r].pc = label
Inside(r) == run[r].pc \in Steps
Becomes(r, new) == run' = [run EXCEPT ![r] = new]
Go(r, label) == Becomes(r, [run[r] EXCEPT !.pc = label])

\* Mutant: the rows of a branch on record, as by an inner join.
CoversBranch(k, x) == BranchOf[x] # None /\ k \in {AllBranches, BranchOf[x]}

Covers(k, x) == k \in {AllBranches, BranchOf[x]}
Within(r, x) == Covers(run[r].scope, x)

\* Customers and staff, while runs are under way: a pause or its end, the end
\* of a subscription, another schedule, a cart that is checked out.

Suspend(s) ==
  /\ active' = active \ {s}
  /\ UNCHANGED <<scheduled, ordered, items, status, claimed, lock, run, ghosts>>

Activate(s) ==
  /\ active' = active \cup {s}
  /\ UNCHANGED <<scheduled, ordered, items, status, claimed, lock, run, ghosts>>

Reschedule(s) ==
  /\ scheduled' = IF s \in scheduled THEN scheduled \ {s} ELSE scheduled \cup {s}
  /\ UNCHANGED <<active, ordered, items, status, claimed, lock, run, ghosts>>

Checkout(o) ==
  /\ status[o] = "none"
  /\ status' = [status EXCEPT ![o] = "placed"]
  /\ UNCHANGED <<subscriptions, ordered, items, claimed, lock, run, ghosts>>

Customers ==
  \/ \E s \in Subs : Suspend(s) \/ Activate(s)
  \/ \E s \in Subs \cap Edited : Reschedule(s)
  \/ \E o \in OneTime : Checkout(o)

\* The minute of the slot comes for an instance.  The cron lock keeps out the
\* others, and the same one when it restarts within the minute.
Tick(i) ==
  /\ At(i, "waiting")
  /\ Go(i, IF claimed THEN "idle" ELSE "lock")
  /\ claimed' = TRUE
  /\ UNCHANGED <<subscriptions, ordered, items, status, lock, ghosts>>

\* An admin asks for a run of all branches or of one.
Trigger(a, k) ==
  /\ At(a, "idle")
  /\ Becomes(a, [Idle("lock") EXCEPT !.scope = k])
  /\ UNCHANGED <<subscriptions, ordered, items, status, claimed, lock, ghosts>>

-----------------------------------------------------------------------------

\* SET NX; a run that finds the lock set reports that it was skipped.
AcquireLock(r) ==
  LET k == run[r].scope IN
  /\ At(r, "lock")
  /\ IF lock[k] = Free
       THEN Go(r, "orders") /\ lock' = [lock EXCEPT ![k] = r]
       ELSE Becomes(r, Idle("idle")) /\ UNCHANGED lock
  /\ UNCHANGED <<subscriptions, ordered, items, status, claimed, ghosts>>

Due(s) == s \in active /\ s \in scheduled

\* One order for every subscription due that has none.
InsertOrders(r) ==
  LET new == {s \in Subs : Within(r, s) /\ Due(s)} \ ordered IN
  /\ At(r, "orders")
  /\ ordered' = ordered \cup new
  /\ Becomes(r, [run[r] EXCEPT !.pc = IF new = {} THEN "confirm" ELSE "items",
                               !.fresh = new])
  /\ UNCHANGED <<subscriptions, items, status, claimed, lock, ghosts>>

\* Mutant: whatever is ordered.
FindOrdered(r) ==
  LET found == {s \in ordered : Within(r, s) /\ s \in scheduled} IN
  /\ At(r, "items")
  /\ Becomes(r, [run[r] EXCEPT !.pc = "insert", !.fresh = {}, !.found = found])
  /\ missed' = missed \cup {s \in run[r].fresh \ scheduled : items[s] = 0}
  /\ UNCHANGED <<subscriptions, ordered, items, status, claimed, lock, outlived, broken>>

\* Mutant: only what is still due.
FindDue(r) ==
  LET found == {s \in ordered : Within(r, s) /\ Due(s) /\ items[s] = 0} IN
  /\ At(r, "items")
  /\ Becomes(r, [run[r] EXCEPT !.pc = "insert", !.fresh = {}, !.found = found])
  /\ missed' = missed \cup {s \in run[r].fresh \ scheduled : items[s] = 0}
  /\ UNCHANGED <<subscriptions, ordered, items, status, claimed, lock, outlived, broken>>

\* The orders without items in the run's scope, not only its own.
FindItemless(r) ==
  LET found == {s \in ordered : Within(r, s) /\ s \in scheduled /\ items[s] = 0} IN
  /\ At(r, "items")
  /\ Becomes(r, [run[r] EXCEPT !.pc = "insert", !.fresh = {}, !.found = found])
  /\ missed' = missed \cup {s \in run[r].fresh \ scheduled : items[s] = 0}
  /\ UNCHANGED <<subscriptions, ordered, items, status, claimed, lock, outlived, broken>>

InsertItems(r) ==
  /\ At(r, "insert")
  /\ items' = [s \in Subs |-> IF s \in run[r].found THEN items[s] + 1 ELSE items[s]]
  /\ Becomes(r, [run[r] EXCEPT !.pc = "confirm", !.found = {}])
  /\ missed' = missed \ run[r].found
  /\ UNCHANGED <<subscriptions, ordered, status, claimed, lock, outlived, broken>>

\* Mutant: the branch of the request is compared even when it names none.
ConfirmedOfBranch(r) ==
  [o \in OneTime |-> IF run[r].scope = BranchOf[o] /\ status[o] = "placed"
                       THEN "confirmed" ELSE status[o]]

\* Mutant: the order is as good as packed.
ConfirmedAsPacked(r) ==
  [o \in OneTime |-> IF Within(r, o) /\ status[o] = "placed" THEN "packed"
                                                              ELSE status[o]]

Confirmed(r) ==
  [o \in OneTime |-> IF Within(r, o) /\ status[o] = "placed" THEN "confirmed"
                                                              ELSE status[o]]

ConfirmOneTime(r) ==
  /\ At(r, "confirm")
  /\ status' = Confirmed(r)
  /\ Go(r, "release")
  /\ UNCHANGED <<subscriptions, ordered, items, claimed, lock, ghosts>>

\* Mutant: a lock is deleted whoever holds it.
UnlockedAnyway(r) == [lock EXCEPT ![run[r].scope] = Free]

\* The lock is deleted if it still holds the run's token.
Unlocked(r) == [k \in Scopes |-> IF k = run[r].scope /\ lock[k] = r THEN Free ELSE lock[k]]

Release(r) ==
  /\ At(r, "release")
  /\ lock' = Unlocked(r)
  /\ Becomes(r, Idle("idle"))
  /\ UNCHANGED <<subscriptions, ordered, items, status, claimed, ghosts>>

-----------------------------------------------------------------------------

\* Orders that have no items should the run break off now.
Left(r) == CASE At(r, "items")  -> run[r].fresh
             [] At(r, "insert") -> run[r].found
             [] OTHER -> {}

\* A statement fails: the error is logged and the lock released.
Fail(r) ==
  /\ run[r].pc \in Steps \ {"release"}
  /\ Becomes(r, [run[r] EXCEPT !.pc = "release", !.fresh = {}, !.found = {}])
  /\ missed' = missed \cup {s \in Left(r) : items[s] = 0}
  /\ broken' = TRUE
  /\ UNCHANGED <<subscriptions, ordered, items, status, claimed, lock, outlived>>

\* The process dies, or Redis does not answer the run: a lock that it holds
\* stays until its TTL passes.  An instance may be back before the minute is
\* over.
Die(r, at) ==
  /\ run[r].pc \in Steps \cup {"lock"}
  /\ at = "waiting" => r \in Instances
  /\ Becomes(r, Idle(at))
  /\ lock' = [k \in Scopes |-> IF lock[k] = r THEN Dead ELSE lock[k]]
  /\ missed' = missed \cup {s \in Left(r) : items[s] = 0}
  /\ broken' = TRUE
  /\ UNCHANGED <<subscriptions, ordered, items, status, claimed, outlived>>

\* An instance is down in its minute, or cannot ask for the cron lock.
MissTick(i) ==
  /\ At(i, "waiting")
  /\ Go(i, "idle")
  /\ broken' = TRUE
  /\ UNCHANGED <<subscriptions, ordered, items, status, claimed, lock, outlived, missed>>

\* The TTL of a lock passes, of one whose owner is gone or under its run.
Expire(k) ==
  /\ lock[k] = Dead
  /\ lock' = [lock EXCEPT ![k] = Free]
  /\ UNCHANGED <<subscriptions, ordered, items, status, claimed, run, ghosts>>

Outlive(r) ==
  /\ Inside(r) /\ lock[run[r].scope] = r
  /\ outlived < MaxOutlived
  /\ outlived' = outlived + 1
  /\ lock' = [lock EXCEPT ![run[r].scope] = Free]
  /\ Becomes(r, [run[r] EXCEPT !.lapsed = TRUE])
  /\ UNCHANGED <<subscriptions, ordered, items, status, claimed, missed, broken>>

Step(r) ==
  \/ AcquireLock(r) \/ InsertOrders(r) \/ FindItemless(r) \/ InsertItems(r)
  \/ ConfirmOneTime(r) \/ Release(r)

Faults ==
  \/ \E r \in Runs : Fail(r) \/ Outlive(r) \/ \E at \in {"idle", "waiting"} : Die(r, at)
  \/ \E i \in Instances : MissTick(i)
  \/ \E k \in Scopes : Expire(k)

Next ==
  \/ Customers
  \/ \E i \in Instances : Tick(i)
  \/ \E a \in Admins, k \in Scopes : Trigger(a, k)
  \/ \E r \in Runs : Step(r)
  \/ Faults

Spec == Init /\ [][Next]_vars

FairSpec ==
  /\ Spec
  /\ \A i \in Instances : WF_vars(Tick(i))
  /\ \A r \in Runs : WF_vars(Step(r))

-----------------------------------------------------------------------------

\* A run at work holds the lock of its scope until it ends, unless the TTL has
\* passed meanwhile; its end does not free the lock of the run that followed.
RunHoldsLock ==
  \A r \in Runs : Inside(r) => run[r].lapsed \/ lock[run[r].scope] = r

Covering(s) == {k \in Scopes : Covers(k, s)}

\* The items of an order are inserted once by each of the runs that may
\* overlap on it: one per scope that covers it, and one for each lock that
\* lapsed under its run.
ItemsPerOverlap ==
  \A s \in Subs : items[s] <= Cardinality(Covering(s)) + outlived

\* An order without items has a run that is about to insert them, or lost them
\* when its run broke off or its schedule changed in the run.
ItemlessHasCause ==
  \A s \in ordered :
    items[s] = 0 => s \in missed \/ \E r \in Runs : s \in Left(r)

\* A subscription that is due all along has its order with items in the end,
\* unless something broke, whoever runs for it and whoever is skipped.
DueIsServed ==
  \A s \in Subs : []Due(s) => <>(broken \/ (s \in ordered /\ items[s] > 0))

\* So is a one-time order confirmed that was placed before any run.
PlacedIsConfirmed ==
  \A o \in OneTime : status[o] = "placed" => <>(broken \/ status[o] # "placed")
=============================================================================
