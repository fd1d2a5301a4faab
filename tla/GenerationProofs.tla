------------------------- MODULE GenerationProofs -------------------------
(***************************************************************************)
(* Theorems of Generation, for any set of subscriptions and any finite     *)
(* number of branches, instances and admins.                               *)
(***************************************************************************)
EXTENDS Generation, FiniteSetTheorems, TLAPS

-----------------------------------------------------------------------------
(* Types.                                                                  *)

LEMMA IdleType ==
  ASSUME NEW at \in {"idle", "waiting", "lock"}
  PROVE  Idle(at) \in Run /\ \A k \in Scopes : [Idle(at) EXCEPT !.scope = k] \in Run
BY DEF Idle, Run, Scopes

\* A run that goes on from its record, and one that starts again.
LEMMA Advances ==
  ASSUME TypeOK, NEW r \in Runs,
         NEW pc \in {"idle", "waiting", "lock"} \cup Steps,
         NEW fresh \in SUBSET Subs, NEW found \in SUBSET Subs, NEW lapsed \in BOOLEAN
  PROVE  /\ [run[r] EXCEPT !.pc = pc] \in Run
         /\ [run[r] EXCEPT !.pc = pc, !.fresh = fresh] \in Run
         /\ [run[r] EXCEPT !.pc = pc, !.found = found] \in Run
         /\ [run[r] EXCEPT !.pc = pc, !.fresh = fresh, !.found = found] \in Run
         /\ [run[r] EXCEPT !.lapsed = lapsed] \in Run
BY DEF TypeOK, Run

LEMMA Becoming ==
  ASSUME TypeOK, NEW r \in Runs, NEW new \in Run, Becomes(r, new)
  PROVE  /\ run' \in [Runs -> Run]
         /\ run'[r] = new
         /\ \A q \in Runs \ {r} : run'[q] = run[q]
BY DEF TypeOK, Becomes

LEMMA InitType == Init => TypeOK
<1> SUFFICES ASSUME Init PROVE TypeOK
  OBVIOUS
<1>1. run \in [Runs -> Run]
  BY IdleType DEF Init, Scopes
<1> QED BY <1>1 DEF Init, TypeOK

LEMMA StepType == TypeOK /\ [Next]_vars => TypeOK'
<1> SUFFICES ASSUME TypeOK, [Next]_vars PROVE TypeOK'
  OBVIOUS
<1>1. CASE UNCHANGED vars
  BY <1>1 DEF vars, TypeOK
<1>2. CASE Customers
  <2>1. ASSUME NEW s \in Subs, Suspend(s) \/ Activate(s) \/ Reschedule(s) PROVE TypeOK'
    BY <2>1 DEF Suspend, Activate, Reschedule, TypeOK, ghosts
  <2>2. ASSUME NEW o \in OneTime, Checkout(o) PROVE TypeOK'
    BY <2>2 DEF Checkout, TypeOK, ghosts, subscriptions
  <2> QED BY <1>2, <2>1, <2>2 DEF Customers
<1>3. ASSUME NEW i \in Instances, Tick(i) PROVE TypeOK'
  <2>1. run' \in [Runs -> Run]
    BY <1>3, Advances, Becoming DEF Tick, Go, Runs
  <2> QED BY <1>3, <2>1 DEF Tick, TypeOK, ghosts, subscriptions
<1>4. ASSUME NEW a \in Admins, NEW k \in Scopes, Trigger(a, k) PROVE TypeOK'
  <2>1. run' \in [Runs -> Run]
    BY <1>4, IdleType, Becoming DEF Trigger, Runs
  <2> QED BY <1>4, <2>1 DEF Trigger, TypeOK, ghosts, subscriptions
<1>5. ASSUME NEW r \in Runs, AcquireLock(r) PROVE TypeOK'
  <2>1. run' \in [Runs -> Run] /\ lock' \in [Scopes -> Runs \cup {Free, Dead}]
    <3>1. CASE lock[run[r].scope] = Free
      BY <1>5, <3>1, Advances, Becoming DEF AcquireLock, Go, Steps, TypeOK
    <3>2. CASE lock[run[r].scope] # Free
      BY <1>5, <3>2, IdleType, Becoming DEF AcquireLock, TypeOK
    <3> QED BY <3>1, <3>2
  <2> QED BY <1>5, <2>1 DEF AcquireLock, TypeOK, ghosts, subscriptions
<1>6. ASSUME NEW r \in Runs, InsertOrders(r) PROVE TypeOK'
  <2> DEFINE new == {s \in Subs : Within(r, s) /\ Due(s)} \ ordered
  <2>1. new \in SUBSET Subs
    OBVIOUS
  <2> HIDE DEF new
  <2>2. run' \in [Runs -> Run] /\ ordered' = ordered \cup new
    BY <1>6, <2>1, Advances, Becoming DEF InsertOrders, Steps, new
  <2> QED BY <1>6, <2>1, <2>2 DEF InsertOrders, TypeOK, ghosts, subscriptions
<1>7. ASSUME NEW r \in Runs, FindItemless(r) PROVE TypeOK'
  <2> DEFINE found == {s \in ordered : Within(r, s) /\ s \in scheduled /\ items[s] = 0}
  <2>1. found \in SUBSET Subs /\ run[r].fresh \in SUBSET Subs
    BY DEF TypeOK, Run
  <2> HIDE DEF found
  <2>2. run' \in [Runs -> Run]
    BY <1>7, <2>1, Advances, Becoming DEF FindItemless, Steps, found
  <2> QED BY <1>7, <2>1, <2>2 DEF FindItemless, TypeOK, subscriptions
<1>8. ASSUME NEW r \in Runs, InsertItems(r) PROVE TypeOK'
  <2>1. run' \in [Runs -> Run]
    BY <1>8, Advances, Becoming DEF InsertItems, Steps
  <2> QED BY <1>8, <2>1 DEF InsertItems, TypeOK, subscriptions
<1>9. ASSUME NEW r \in Runs, ConfirmOneTime(r) PROVE TypeOK'
  <2>1. run' \in [Runs -> Run]
    BY <1>9, Advances, Becoming DEF ConfirmOneTime, Go, Steps
  <2> QED BY <1>9, <2>1 DEF ConfirmOneTime, Confirmed, TypeOK, ghosts, subscriptions
<1>10. ASSUME NEW r \in Runs, Release(r) PROVE TypeOK'
  <2>1. run' \in [Runs -> Run]
    BY <1>10, IdleType, Becoming DEF Release
  <2> QED BY <1>10, <2>1 DEF Release, Unlocked, TypeOK, ghosts, subscriptions
<1>11. ASSUME NEW r \in Runs, Fail(r) PROVE TypeOK'
  <2>1. run' \in [Runs -> Run]
    BY <1>11, Advances, Becoming DEF Fail, Steps
  <2>2. Left(r) \subseteq Subs
    BY DEF Left, TypeOK, Run
  <2> QED BY <1>11, <2>1, <2>2 DEF Fail, TypeOK, subscriptions
<1>12. ASSUME NEW r \in Runs, Outlive(r) PROVE TypeOK'
  <2>1. run' \in [Runs -> Run]
    BY <1>12, Advances, Becoming DEF Outlive
  <2>2. outlived' \in Nat
    BY <1>12 DEF Outlive, TypeOK
  <2>4. lock' \in [Scopes -> Runs \cup {Free, Dead}]
    BY <1>12 DEF Outlive, TypeOK
  <2>3. UNCHANGED <<active, scheduled, ordered, items, status, claimed, missed, broken>>
    BY <1>12 DEF Outlive, subscriptions
  <2> QED BY <2>1, <2>2, <2>3, <2>4 DEF TypeOK
<1>13. ASSUME NEW r \in Runs, NEW at \in {"idle", "waiting"}, Die(r, at) PROVE TypeOK'
  <2>1. run' \in [Runs -> Run]
    BY <1>13, IdleType, Becoming DEF Die
  <2>2. Left(r) \subseteq Subs
    BY DEF Left, TypeOK, Run
  <2> QED BY <1>13, <2>1, <2>2 DEF Die, TypeOK, subscriptions
<1>14. ASSUME NEW i \in Instances, MissTick(i) PROVE TypeOK'
  <2>1. run' \in [Runs -> Run]
    BY <1>14, Advances, Becoming DEF MissTick, Go, Runs
  <2> QED BY <1>14, <2>1 DEF MissTick, TypeOK, subscriptions
<1>15. ASSUME NEW k \in Scopes, Expire(k) PROVE TypeOK'
  BY <1>15 DEF Expire, TypeOK, ghosts, subscriptions
<1> QED
  BY <1>1, <1>2, <1>3, <1>4, <1>5, <1>6, <1>7, <1>8, <1>9, <1>10, <1>11, <1>12,
     <1>13, <1>14, <1>15
  DEF Next, Step, Faults

THEOREM GenerationTypeCorrect == Spec => []TypeOK
<1> QED BY InitType, StepType, PTL DEF Spec

-----------------------------------------------------------------------------
(* The locks.                                                              *)

LEMMA StepHolds ==
  TypeOK /\ RunHoldsLock /\ [Next]_vars => RunHoldsLock'
<1> SUFFICES ASSUME TypeOK, RunHoldsLock, [Next]_vars PROVE RunHoldsLock'
  OBVIOUS
<1> USE DEF TypeOK, RunHoldsLock, Inside, At, Run, Steps
<1>1. CASE UNCHANGED vars
  BY <1>1 DEF vars
<1>2. CASE Customers
  BY <1>2 DEF Customers, Suspend, Activate, Reschedule, Checkout, ghosts
<1>3. ASSUME NEW i \in Instances, Tick(i) PROVE RunHoldsLock'
  BY <1>3, GenerationAssumption DEF Tick, Go, Becomes, Runs, subscriptions, ghosts
<1>4. ASSUME NEW a \in Admins, NEW k \in Scopes, Trigger(a, k) PROVE RunHoldsLock'
  BY <1>4, GenerationAssumption DEF Trigger, Idle, Becomes, Runs, subscriptions, ghosts
<1>5. ASSUME NEW r \in Runs, AcquireLock(r) PROVE RunHoldsLock'
  BY <1>5, GenerationAssumption DEF AcquireLock, Go, Idle, Becomes, Runs, subscriptions, ghosts
<1>6. ASSUME NEW r \in Runs, InsertOrders(r) PROVE RunHoldsLock'
  BY <1>6, GenerationAssumption DEF InsertOrders, Becomes, Runs, subscriptions, ghosts
<1>7. ASSUME NEW r \in Runs, FindItemless(r) PROVE RunHoldsLock'
  BY <1>7, GenerationAssumption DEF FindItemless, Becomes, Runs, subscriptions, ghosts
<1>8. ASSUME NEW r \in Runs, InsertItems(r) PROVE RunHoldsLock'
  BY <1>8, GenerationAssumption DEF InsertItems, Becomes, Runs, subscriptions, ghosts
<1>9. ASSUME NEW r \in Runs, ConfirmOneTime(r) PROVE RunHoldsLock'
  BY <1>9, GenerationAssumption DEF ConfirmOneTime, Go, Becomes, Runs, subscriptions, ghosts
<1>10. ASSUME NEW r \in Runs, Release(r) PROVE RunHoldsLock'
  BY <1>10, GenerationAssumption DEF Release, Unlocked, Idle, Becomes, Runs, subscriptions, ghosts
<1>11. ASSUME NEW r \in Runs, Fail(r) PROVE RunHoldsLock'
  BY <1>11, GenerationAssumption DEF Fail, Becomes, Runs, subscriptions, ghosts
<1>12. ASSUME NEW r \in Runs, Outlive(r) PROVE RunHoldsLock'
  BY <1>12, GenerationAssumption DEF Outlive, Becomes, Runs, subscriptions, ghosts
<1>13. ASSUME NEW r \in Runs, NEW at \in {"idle", "waiting"}, Die(r, at) PROVE RunHoldsLock'
  BY <1>13, GenerationAssumption DEF Die, Idle, Becomes, Runs, subscriptions, ghosts
<1>14. ASSUME NEW i \in Instances, MissTick(i) PROVE RunHoldsLock'
  BY <1>14, GenerationAssumption DEF MissTick, Go, Becomes, Runs, subscriptions, ghosts
<1>15. ASSUME NEW k \in Scopes, Expire(k) PROVE RunHoldsLock'
  BY <1>15, GenerationAssumption DEF Expire, Becomes, Runs, subscriptions, ghosts
<1> QED
  BY <1>1, <1>2, <1>3, <1>4, <1>5, <1>6, <1>7, <1>8, <1>9, <1>10, <1>11, <1>12,
     <1>13, <1>14, <1>15
  DEF Next, Step, Faults

THEOREM LocksAreHeld == Spec => []RunHoldsLock
<1>1. Init => RunHoldsLock
  BY DEF Init, RunHoldsLock, Inside, Steps, Idle
<1> QED BY <1>1, GenerationTypeCorrect, StepHolds, PTL DEF Spec

-----------------------------------------------------------------------------
(* Orders without items.                                                   *)

\* What a run is at work on lies in its scope.
RunsWithin == \A r \in Runs : \A s \in Left(r) : s \in Subs /\ Within(r, s)

LEMMA StepWithin ==
  TypeOK /\ RunsWithin /\ [Next]_vars => RunsWithin'
<1> SUFFICES ASSUME TypeOK, RunsWithin, [Next]_vars PROVE RunsWithin'
  OBVIOUS
<1> USE DEF TypeOK, RunsWithin, Left, Within, At, Run
<1>1. CASE UNCHANGED vars
  BY <1>1 DEF vars
<1>2. CASE Customers
  BY <1>2 DEF Customers, Suspend, Activate, Reschedule, Checkout, ghosts
<1>3. ASSUME NEW i \in Instances, Tick(i) PROVE RunsWithin'
  BY <1>3 DEF Tick, Go, Becomes, Runs, subscriptions, ghosts
<1>4. ASSUME NEW a \in Admins, NEW k \in Scopes, Trigger(a, k) PROVE RunsWithin'
  BY <1>4 DEF Trigger, Idle, Becomes, Runs, subscriptions, ghosts
<1>5. ASSUME NEW r \in Runs, AcquireLock(r) PROVE RunsWithin'
  BY <1>5 DEF AcquireLock, Go, Idle, Becomes, Runs, subscriptions, ghosts
<1>6. ASSUME NEW r \in Runs, InsertOrders(r) PROVE RunsWithin'
  BY <1>6 DEF InsertOrders, Becomes, Runs, subscriptions, ghosts
<1>7. ASSUME NEW r \in Runs, FindItemless(r) PROVE RunsWithin'
  BY <1>7 DEF FindItemless, Becomes, Runs, subscriptions, ghosts
<1>8. ASSUME NEW r \in Runs, InsertItems(r) PROVE RunsWithin'
  BY <1>8 DEF InsertItems, Becomes, Runs, subscriptions, ghosts
<1>9. ASSUME NEW r \in Runs, ConfirmOneTime(r) PROVE RunsWithin'
  BY <1>9 DEF ConfirmOneTime, Go, Becomes, Runs, subscriptions, ghosts
<1>10. ASSUME NEW r \in Runs, Release(r) PROVE RunsWithin'
  BY <1>10 DEF Release, Unlocked, Idle, Becomes, Runs, subscriptions, ghosts
<1>11. ASSUME NEW r \in Runs, Fail(r) PROVE RunsWithin'
  BY <1>11 DEF Fail, Becomes, Runs, subscriptions, ghosts
<1>12. ASSUME NEW r \in Runs, Outlive(r) PROVE RunsWithin'
  BY <1>12 DEF Outlive, Becomes, Runs, subscriptions, ghosts
<1>13. ASSUME NEW r \in Runs, NEW at \in {"idle", "waiting"}, Die(r, at) PROVE RunsWithin'
  BY <1>13 DEF Die, Idle, Becomes, Runs, subscriptions, ghosts
<1>14. ASSUME NEW i \in Instances, MissTick(i) PROVE RunsWithin'
  BY <1>14 DEF MissTick, Go, Becomes, Runs, subscriptions, ghosts
<1>15. ASSUME NEW k \in Scopes, Expire(k) PROVE RunsWithin'
  BY <1>15 DEF Expire, Becomes, Runs, subscriptions, ghosts
<1> QED
  BY <1>1, <1>2, <1>3, <1>4, <1>5, <1>6, <1>7, <1>8, <1>9, <1>10, <1>11, <1>12,
     <1>13, <1>14, <1>15
  DEF Next, Step, Faults

LEMMA StepCause ==
  TypeOK /\ RunsWithin /\ ItemlessHasCause /\ [Next]_vars => ItemlessHasCause'
<1> SUFFICES ASSUME TypeOK, RunsWithin, ItemlessHasCause, [Next]_vars
             PROVE  ItemlessHasCause'
  OBVIOUS
<1> USE DEF TypeOK, RunsWithin, ItemlessHasCause, Left, At, Run
<1>1. CASE UNCHANGED vars
  BY <1>1 DEF vars
<1>2. CASE Customers
  BY <1>2 DEF Customers, Suspend, Activate, Reschedule, Checkout, ghosts
<1>3. ASSUME NEW i \in Instances, Tick(i) PROVE ItemlessHasCause'
  BY <1>3 DEF Tick, Go, Becomes, Runs, subscriptions, ghosts
<1>4. ASSUME NEW a \in Admins, NEW k \in Scopes, Trigger(a, k) PROVE ItemlessHasCause'
  BY <1>4 DEF Trigger, Idle, Becomes, Runs, subscriptions, ghosts
<1>5. ASSUME NEW r \in Runs, AcquireLock(r) PROVE ItemlessHasCause'
  BY <1>5 DEF AcquireLock, Go, Idle, Becomes, Runs, subscriptions, ghosts
<1>6. ASSUME NEW r \in Runs, InsertOrders(r) PROVE ItemlessHasCause'
  BY <1>6 DEF InsertOrders, Becomes, Runs, subscriptions, ghosts
<1>7. ASSUME NEW r \in Runs, FindItemless(r) PROVE ItemlessHasCause'
  BY <1>7 DEF FindItemless, Becomes, Runs, subscriptions, ghosts
<1>8. ASSUME NEW r \in Runs, InsertItems(r) PROVE ItemlessHasCause'
  BY <1>8 DEF InsertItems, Becomes, Runs, subscriptions, ghosts
<1>9. ASSUME NEW r \in Runs, ConfirmOneTime(r) PROVE ItemlessHasCause'
  BY <1>9 DEF ConfirmOneTime, Go, Becomes, Runs, subscriptions, ghosts
<1>10. ASSUME NEW r \in Runs, Release(r) PROVE ItemlessHasCause'
  BY <1>10 DEF Release, Unlocked, Idle, Becomes, Runs, subscriptions, ghosts
<1>11. ASSUME NEW r \in Runs, Fail(r) PROVE ItemlessHasCause'
  BY <1>11 DEF Fail, Becomes, Runs, subscriptions, ghosts
<1>12. ASSUME NEW r \in Runs, Outlive(r) PROVE ItemlessHasCause'
  BY <1>12 DEF Outlive, Becomes, Runs, subscriptions, ghosts
<1>13. ASSUME NEW r \in Runs, NEW at \in {"idle", "waiting"}, Die(r, at) PROVE ItemlessHasCause'
  BY <1>13 DEF Die, Idle, Becomes, Runs, subscriptions, ghosts
<1>14. ASSUME NEW i \in Instances, MissTick(i) PROVE ItemlessHasCause'
  BY <1>14 DEF MissTick, Go, Becomes, Runs, subscriptions, ghosts
<1>15. ASSUME NEW k \in Scopes, Expire(k) PROVE ItemlessHasCause'
  BY <1>15 DEF Expire, Becomes, Runs, subscriptions, ghosts
<1> QED
  BY <1>1, <1>2, <1>3, <1>4, <1>5, <1>6, <1>7, <1>8, <1>9, <1>10, <1>11, <1>12,
     <1>13, <1>14, <1>15
  DEF Next, Step, Faults

THEOREM OrdersHaveItems == Spec => []ItemlessHasCause
<1>1. Init => RunsWithin /\ ItemlessHasCause
  BY DEF Init, RunsWithin, ItemlessHasCause, Left, At, Idle
<1> QED BY <1>1, GenerationTypeCorrect, StepWithin, StepCause, PTL DEF Spec

-----------------------------------------------------------------------------
(* How often the items of an order are inserted.                           *)

Lapsed == {r \in Runs : run[r].lapsed}
Overlapping(s) == {r \in Runs : Inside(r) /\ Within(r, s)}
Inserting(s) == {r \in Runs : At(r, "insert") /\ s \in run[r].found}

\* A lapse is counted at the latest when its run ends.
LapsesCounted == Cardinality(Lapsed) <= outlived

\* What runs have found to insert counts as inserted.
InsertsBounded ==
  \A s \in Subs : items[s] + Cardinality(Inserting(s)) <= Cardinality(Covering(s)) + outlived

LEMMA Finite ==
  ASSUME NEW s \in Subs
  PROVE  /\ IsFiniteSet(Runs) /\ IsFiniteSet(Covering(s))
         /\ Cardinality(Covering(s)) \in Nat
         /\ \A S \in SUBSET Runs : IsFiniteSet(S) /\ Cardinality(S) \in Nat
<1>1. IsFiniteSet(Scopes)
  BY GenerationAssumption, FS_AddElement DEF Scopes
<1>2. IsFiniteSet(Covering(s)) /\ Cardinality(Covering(s)) \in Nat
  BY <1>1, FS_Subset, FS_CardinalityType DEF Covering
<1>3. ASSUME NEW S \in SUBSET Runs PROVE IsFiniteSet(S) /\ Cardinality(S) \in Nat
  BY GenerationAssumption, FS_Subset, FS_CardinalityType
<1> QED BY <1>2, <1>3, GenerationAssumption

\* Runs that overlap on an order: one per scope, and those that lapsed.
LEMMA OverlapBound ==
  ASSUME TypeOK, RunHoldsLock, LapsesCounted, NEW s \in Subs
  PROVE  Cardinality(Overlapping(s)) <= Cardinality(Covering(s)) + outlived
<1> DEFINE O == Overlapping(s)
           K == O \ Lapsed
           f == [r \in K |-> run[r].scope]
<1>1. f \in Injection(K, Covering(s))
  <2>1. f \in [K -> Covering(s)]
    BY DEF TypeOK, Run, Overlapping, Within, Covering
  <2>2. ASSUME NEW q \in K, NEW r \in K, f[q] = f[r] PROVE q = r
    <3>1. lock[f[q]] = q /\ lock[f[r]] = r
      BY DEF RunHoldsLock, Overlapping, Lapsed
    <3> QED BY <2>2, <3>1
  <2> QED BY <2>1, <2>2 DEF Injection, IsInjective
<1>2. Cardinality(K) <= Cardinality(Covering(s))
  BY <1>1, FS_Injection, Finite
<1>3. Cardinality(O) <= Cardinality(K) + Cardinality(Lapsed)
  <2>1. K \in SUBSET Runs /\ Lapsed \in SUBSET Runs
    BY DEF Overlapping, Lapsed
  <2>2. /\ IsFiniteSet(K \cup Lapsed)
        /\ Cardinality(K \cup Lapsed) = Cardinality(K) + Cardinality(Lapsed) - Cardinality(K \cap Lapsed)
    BY <2>1, Finite, FS_Union
  <2>3. O \in SUBSET (K \cup Lapsed) /\ K \cap Lapsed \in SUBSET Runs
    BY <2>1
  <2>4. Cardinality(O) <= Cardinality(K \cup Lapsed)
    BY <2>2, <2>3, FS_Subset
  <2>5. Cardinality(K) \in Nat /\ Cardinality(Lapsed) \in Nat /\ Cardinality(K \cap Lapsed) \in Nat
    BY <2>1, <2>3, Finite
  <2>6. Cardinality(O) \in Nat
    BY Finite DEF Overlapping
  <2>7. Cardinality(K \cup Lapsed) <= Cardinality(K) + Cardinality(Lapsed)
    BY <2>2, <2>5
  <2> HIDE DEF O, K
  <2> QED BY <2>2, <2>4, <2>5, <2>6, <2>7
<1>4. /\ Cardinality(O) \in Nat /\ Cardinality(K) \in Nat
      /\ Cardinality(Lapsed) \in Nat /\ Cardinality(Covering(s)) \in Nat
  BY Finite DEF Overlapping, Lapsed
<1> HIDE DEF O, K
<1>5. Cardinality(O) <= Cardinality(Covering(s)) + outlived
  BY <1>2, <1>3, <1>4 DEF LapsesCounted, TypeOK
<1> QED BY <1>5 DEF O

LEMMA Fewer ==
  ASSUME NEW S \in SUBSET Runs, NEW T \in SUBSET S
  PROVE  /\ Cardinality(T) <= Cardinality(S)
         /\ Cardinality(S) \in Nat /\ Cardinality(T) \in Nat
<1>1. IsFiniteSet(S)
  BY GenerationAssumption, FS_Subset
<1> QED BY <1>1, FS_Subset, FS_CardinalityType

\* Only a lapse adds to the runs that lapsed.
LEMMA StepLapsed ==
  ASSUME TypeOK, [Next]_vars
  PROVE  \/ Lapsed' \subseteq Lapsed /\ outlived' = outlived
         \/ \E r \in Runs : Lapsed' = Lapsed \cup {r} /\ outlived' = outlived + 1
<1> DEFINE Same == Lapsed' \subseteq Lapsed /\ outlived' = outlived
           More == \E r \in Runs : Lapsed' = Lapsed \cup {r} /\ outlived' = outlived + 1
<1> USE DEF TypeOK, Lapsed, Run
<1>1. ASSUME UNCHANGED vars PROVE Same
  BY <1>1 DEF vars
<1>2. ASSUME Customers PROVE Same
  BY <1>2 DEF Customers, Suspend, Activate, Reschedule, Checkout, ghosts
<1>3. ASSUME NEW i \in Instances, Tick(i) PROVE Same
  BY <1>3 DEF Tick, Go, Becomes, Runs, subscriptions, ghosts
<1>4. ASSUME NEW a \in Admins, NEW k \in Scopes, Trigger(a, k) PROVE Same
  BY <1>4 DEF Trigger, Idle, Becomes, Runs, subscriptions, ghosts
<1>5. ASSUME NEW r \in Runs, AcquireLock(r) PROVE Same
  BY <1>5 DEF AcquireLock, Go, Idle, Becomes, Runs, subscriptions, ghosts
<1>6. ASSUME NEW r \in Runs, InsertOrders(r) PROVE Same
  BY <1>6 DEF InsertOrders, Becomes, Runs, subscriptions, ghosts
<1>7. ASSUME NEW r \in Runs, FindItemless(r) PROVE Same
  BY <1>7 DEF FindItemless, Becomes, Runs, subscriptions, ghosts
<1>8. ASSUME NEW r \in Runs, InsertItems(r) PROVE Same
  BY <1>8 DEF InsertItems, Becomes, Runs, subscriptions, ghosts
<1>9. ASSUME NEW r \in Runs, ConfirmOneTime(r) PROVE Same
  BY <1>9 DEF ConfirmOneTime, Go, Becomes, Runs, subscriptions, ghosts
<1>10. ASSUME NEW r \in Runs, Release(r) PROVE Same
  BY <1>10 DEF Release, Unlocked, Idle, Becomes, Runs, subscriptions, ghosts
<1>11. ASSUME NEW r \in Runs, Fail(r) PROVE Same
  BY <1>11 DEF Fail, Becomes, Runs, subscriptions, ghosts
<1>12. ASSUME NEW r \in Runs, Outlive(r) PROVE More
  BY <1>12 DEF Outlive, Becomes, Runs, subscriptions, ghosts
<1>13. ASSUME NEW r \in Runs, NEW at \in {"idle", "waiting"}, Die(r, at) PROVE Same
  BY <1>13 DEF Die, Idle, Becomes, Runs, subscriptions, ghosts
<1>14. ASSUME NEW i \in Instances, MissTick(i) PROVE Same
  BY <1>14 DEF MissTick, Go, Becomes, Runs, subscriptions, ghosts
<1>15. ASSUME NEW k \in Scopes, Expire(k) PROVE Same
  BY <1>15 DEF Expire, Becomes, Runs, subscriptions, ghosts
<1> HIDE DEF Same, More, Lapsed, TypeOK, Run
<1>16. Same \/ More
  BY <1>1, <1>2, <1>3, <1>4, <1>5, <1>6, <1>7, <1>8, <1>9, <1>10, <1>11, <1>12,
     <1>13, <1>14, <1>15
  DEF Next, Step, Faults
<1> QED BY <1>16 DEF Same, More

LEMMA StepCounts ==
  TypeOK /\ LapsesCounted /\ [Next]_vars => LapsesCounted'
<1> SUFFICES ASSUME TypeOK, LapsesCounted, [Next]_vars PROVE LapsesCounted'
  OBVIOUS
<1>1. Lapsed \in SUBSET Runs
  BY DEF Lapsed
<1>2. CASE Lapsed' \subseteq Lapsed /\ outlived' = outlived
  BY <1>1, <1>2, Fewer DEF LapsesCounted, TypeOK
<1>3. ASSUME NEW r \in Runs, Lapsed' = Lapsed \cup {r}, outlived' = outlived + 1
      PROVE  LapsesCounted'
  <2>1. IsFiniteSet(Lapsed) /\ Cardinality(Lapsed) \in Nat
    BY <1>1, GenerationAssumption, FS_Subset, FS_CardinalityType
  <2>2. Cardinality(Lapsed') <= Cardinality(Lapsed) + 1
    BY <1>3, <2>1, FS_AddElement
  <2>3. Cardinality(Lapsed') \in Nat
    BY <1>3, <2>1, FS_AddElement
  <2> QED BY <1>3, <2>1, <2>2, <2>3 DEF LapsesCounted, TypeOK
<1> QED BY <1>2, <1>3, StepLapsed

\* What a step does to the runs that are about to insert the items of s.
LEMMA StepInserting ==
  ASSUME TypeOK, RunsWithin, [Next]_vars, NEW s \in Subs
  PROVE  \/ /\ Inserting(s)' \subseteq Inserting(s)
            /\ items'[s] = items[s] /\ outlived <= outlived'
         \/ /\ Inserting(s)' \subseteq Overlapping(s)
            /\ items'[s] = 0 /\ outlived' = outlived
         \/ \E r \in Inserting(s) : /\ Inserting(s)' \subseteq Inserting(s) \ {r}
                                    /\ items'[s] = items[s] + 1 /\ outlived' = outlived
<1> DEFINE Keeps == /\ Inserting(s)' \subseteq Inserting(s)
                    /\ items'[s] = items[s] /\ outlived <= outlived'
           Finds == /\ Inserting(s)' \subseteq Overlapping(s)
                    /\ items'[s] = 0 /\ outlived' = outlived
           Inserts == \E r \in Inserting(s) :
                        /\ Inserting(s)' \subseteq Inserting(s) \ {r}
                        /\ items'[s] = items[s] + 1 /\ outlived' = outlived
<1> USE DEF TypeOK, Inserting, At, Run
<1>1. ASSUME UNCHANGED vars PROVE Keeps
  BY <1>1 DEF vars
<1>2. ASSUME Customers PROVE Keeps
  BY <1>2 DEF Customers, Suspend, Activate, Reschedule, Checkout, ghosts
<1>3. ASSUME NEW i \in Instances, Tick(i) PROVE Keeps
  BY <1>3 DEF Tick, Go, Becomes, Runs, subscriptions, ghosts
<1>4. ASSUME NEW a \in Admins, NEW k \in Scopes, Trigger(a, k) PROVE Keeps
  BY <1>4 DEF Trigger, Idle, Becomes, Runs, subscriptions, ghosts
<1>5. ASSUME NEW r \in Runs, AcquireLock(r) PROVE Keeps
  BY <1>5 DEF AcquireLock, Go, Idle, Becomes, Runs, subscriptions, ghosts
<1>6. ASSUME NEW r \in Runs, InsertOrders(r) PROVE Keeps
  BY <1>6 DEF InsertOrders, Becomes, Runs, subscriptions, ghosts
<1>7. ASSUME NEW r \in Runs, FindItemless(r) PROVE Keeps \/ Finds
  <2>1. CASE Within(r, s) /\ items[s] = 0
    <3>1. Inserting(s)' \subseteq Inserting(s) \cup {r}
      BY <1>7 DEF FindItemless, Becomes
    <3>2. Inserting(s) \cup {r} \subseteq Overlapping(s)
      BY <1>7, <2>1 DEF FindItemless, RunsWithin, Left, Overlapping, Inside, Steps
    <3> QED BY <1>7, <2>1, <3>1, <3>2 DEF FindItemless
  <2>2. CASE ~(Within(r, s) /\ items[s] = 0)
    BY <1>7, <2>2 DEF FindItemless, Becomes
  <2> QED BY <2>1, <2>2
<1>8. ASSUME NEW r \in Runs, InsertItems(r) PROVE Keeps \/ Inserts
  <2>1. CASE s \in run[r].found
    <3>1. r \in Inserting(s) /\ Inserting(s)' \subseteq Inserting(s) \ {r}
      BY <1>8, <2>1 DEF InsertItems, Becomes
    <3>2. items'[s] = items[s] + 1 /\ outlived' = outlived
      BY <1>8, <2>1 DEF InsertItems
    <3> QED BY <3>1, <3>2
  <2>2. CASE s \notin run[r].found
    BY <1>8, <2>2 DEF InsertItems, Becomes
  <2> QED BY <2>1, <2>2
<1>9. ASSUME NEW r \in Runs, ConfirmOneTime(r) PROVE Keeps
  BY <1>9 DEF ConfirmOneTime, Go, Becomes, Runs, subscriptions, ghosts
<1>10. ASSUME NEW r \in Runs, Release(r) PROVE Keeps
  BY <1>10 DEF Release, Unlocked, Idle, Becomes, Runs, subscriptions, ghosts
<1>11. ASSUME NEW r \in Runs, Fail(r) PROVE Keeps
  BY <1>11 DEF Fail, Becomes, Runs, subscriptions, ghosts
<1>12. ASSUME NEW r \in Runs, Outlive(r) PROVE Keeps
  BY <1>12 DEF Outlive, Becomes, Runs, subscriptions, ghosts
<1>13. ASSUME NEW r \in Runs, NEW at \in {"idle", "waiting"}, Die(r, at) PROVE Keeps
  BY <1>13 DEF Die, Idle, Becomes, Runs, subscriptions, ghosts
<1>14. ASSUME NEW i \in Instances, MissTick(i) PROVE Keeps
  BY <1>14 DEF MissTick, Go, Becomes, Runs, subscriptions, ghosts
<1>15. ASSUME NEW k \in Scopes, Expire(k) PROVE Keeps
  BY <1>15 DEF Expire, Becomes, Runs, subscriptions, ghosts
<1> HIDE DEF Keeps, Finds, Inserts, TypeOK, Inserting, Run
<1>16. Keeps \/ Finds \/ Inserts
  BY <1>1, <1>2, <1>3, <1>4, <1>5, <1>6, <1>7, <1>8, <1>9, <1>10, <1>11, <1>12,
     <1>13, <1>14, <1>15
  DEF Next, Step, Faults
<1> QED BY <1>16 DEF Keeps, Finds, Inserts

LEMMA StepInserts ==
  ASSUME TypeOK, TypeOK', RunHoldsLock, RunsWithin, LapsesCounted, InsertsBounded, [Next]_vars
  PROVE  InsertsBounded'
<1> SUFFICES ASSUME NEW s \in Subs
             PROVE  items'[s] + Cardinality(Inserting(s)') <= Cardinality(Covering(s)) + outlived'
  BY DEF InsertsBounded, Covering, Covers
<1> DEFINE I == Inserting(s)
           c == Cardinality(Covering(s))
<1>1. /\ items[s] \in Nat /\ items'[s] \in Nat
      /\ outlived \in Nat /\ outlived' \in Nat /\ c \in Nat
  BY Finite DEF TypeOK
<1>2. I \in SUBSET Runs /\ I' \in SUBSET Runs /\ Overlapping(s) \in SUBSET Runs
  BY DEF Inserting, Overlapping
<1>3. Cardinality(I) \in Nat /\ Cardinality(I') \in Nat
  BY <1>2, Fewer
<1>4. items[s] + Cardinality(I) <= c + outlived
  BY DEF InsertsBounded
<1>5. CASE I' \subseteq I /\ items'[s] = items[s] /\ outlived <= outlived'
  <2>1. Cardinality(I') <= Cardinality(I)
    BY <1>2, <1>5, Fewer
  <2> HIDE DEF I, c
  <2> QED BY <1>1, <1>3, <1>4, <1>5, <2>1 DEF I, c
<1>6. CASE I' \subseteq Overlapping(s) /\ items'[s] = 0 /\ outlived' = outlived
  <2>1. Cardinality(I') <= Cardinality(Overlapping(s)) /\ Cardinality(Overlapping(s)) \in Nat
    BY <1>2, <1>6, Fewer
  <2>2. Cardinality(Overlapping(s)) <= c + outlived
    BY OverlapBound
  <2> QED BY <1>1, <1>3, <1>6, <2>1, <2>2
<1>7. ASSUME NEW r \in I, I' \subseteq I \ {r}, items'[s] = items[s] + 1, outlived' = outlived
      PROVE  items'[s] + Cardinality(I') <= c + outlived'
  <2>1. IsFiniteSet(I)
    BY <1>2, GenerationAssumption, FS_Subset
  <2>2. Cardinality(I \ {r}) = Cardinality(I) - 1
    BY <2>1, FS_RemoveElement
  <2>3. Cardinality(I') <= Cardinality(I \ {r})
    BY <1>2, <1>7, Fewer
  <2> QED BY <1>1, <1>3, <1>4, <1>7, <2>2, <2>3
<1> QED BY <1>5, <1>6, <1>7, StepInserting

THEOREM ItemsAreBounded == Spec => []ItemsPerOverlap
<1> DEFINE IInv == TypeOK /\ RunHoldsLock /\ RunsWithin /\ LapsesCounted /\ InsertsBounded
<1>1. Init => IInv
  <2> SUFFICES ASSUME Init PROVE IInv
    OBVIOUS
  <2>1. Lapsed = {} /\ \A s \in Subs : Inserting(s) = {} /\ items[s] = 0
    BY DEF Init, Lapsed, Inserting, At, Idle
  <2>2. LapsesCounted
    BY <2>1, FS_EmptySet DEF LapsesCounted, Init
  <2>3. InsertsBounded
    BY <2>1, FS_EmptySet, Finite DEF InsertsBounded, Init
  <2>4. RunHoldsLock /\ RunsWithin
    BY DEF Init, RunHoldsLock, RunsWithin, Inside, Steps, Left, At, Idle
  <2> QED BY <2>2, <2>3, <2>4, InitType
<1>2. IInv /\ [Next]_vars => IInv'
  BY StepType, StepHolds, StepWithin, StepCounts, StepInserts
<1>3. IInv => ItemsPerOverlap
  <2> SUFFICES ASSUME TypeOK, InsertsBounded, NEW s \in Subs
               PROVE  items[s] <= Cardinality(Covering(s)) + outlived
    BY DEF ItemsPerOverlap
  <2>1. items[s] \in Nat /\ outlived \in Nat
    BY DEF TypeOK
  <2>2. Cardinality(Covering(s)) \in Nat /\ Cardinality(Inserting(s)) \in Nat
    BY Finite DEF Inserting
  <2>3. items[s] + Cardinality(Inserting(s)) <= Cardinality(Covering(s)) + outlived
    BY DEF InsertsBounded
  <2> QED BY <2>1, <2>2, <2>3
<1> QED BY <1>1, <1>2, <1>3, PTL DEF Spec

-----------------------------------------------------------------------------
(* Whatever is due has been ordered when the runs are over.                *)

\* The minute has come for every instance and nobody is at work.
Over == \A r \in Runs : At(r, "idle")

\* A lock is set for the run at work on its scope, unless its owner died.
OwnersWork ==
  \A k \in Scopes :
    /\ lock[k] \in Runs => Inside(lock[k]) /\ run[lock[k]].scope = k
    /\ lock[k] = Dead => broken

\* The run of the cron is one of all branches.
WaitsForAll == \A r \in Runs : At(r, "waiting") => run[r].scope = AllBranches

LEMMA StepOwners ==
  ASSUME TypeOK, OwnersWork, WaitsForAll, [Next]_vars
  PROVE  OwnersWork' /\ WaitsForAll'
<1> USE DEF TypeOK, OwnersWork, WaitsForAll, Inside, At, Run, Steps
<1>1. CASE UNCHANGED vars
  BY <1>1 DEF vars
<1>2. CASE Customers
  BY <1>2 DEF Customers, Suspend, Activate, Reschedule, Checkout, ghosts
<1>3. ASSUME NEW i \in Instances, Tick(i) PROVE OwnersWork' /\ WaitsForAll'
  BY <1>3, GenerationAssumption DEF Tick, Go, Becomes, Runs, subscriptions, ghosts
<1>4. ASSUME NEW a \in Admins, NEW k \in Scopes, Trigger(a, k)
      PROVE  OwnersWork' /\ WaitsForAll'
  BY <1>4, GenerationAssumption DEF Trigger, Idle, Becomes, Runs, subscriptions, ghosts
<1>5. ASSUME NEW r \in Runs, AcquireLock(r) PROVE OwnersWork' /\ WaitsForAll'
  BY <1>5, GenerationAssumption DEF AcquireLock, Go, Idle, Becomes, Runs, subscriptions, ghosts
<1>6. ASSUME NEW r \in Runs, InsertOrders(r) PROVE OwnersWork' /\ WaitsForAll'
  BY <1>6, GenerationAssumption DEF InsertOrders, Becomes, Runs, subscriptions, ghosts
<1>7. ASSUME NEW r \in Runs, FindItemless(r) PROVE OwnersWork' /\ WaitsForAll'
  BY <1>7, GenerationAssumption DEF FindItemless, Becomes, Runs, subscriptions, ghosts
<1>8. ASSUME NEW r \in Runs, InsertItems(r) PROVE OwnersWork' /\ WaitsForAll'
  BY <1>8, GenerationAssumption DEF InsertItems, Becomes, Runs, subscriptions, ghosts
<1>9. ASSUME NEW r \in Runs, ConfirmOneTime(r) PROVE OwnersWork' /\ WaitsForAll'
  BY <1>9, GenerationAssumption DEF ConfirmOneTime, Go, Becomes, Runs, subscriptions, ghosts
<1>10. ASSUME NEW r \in Runs, Release(r) PROVE OwnersWork' /\ WaitsForAll'
  BY <1>10, GenerationAssumption DEF Release, Unlocked, Idle, Becomes, Runs, subscriptions, ghosts
<1>11. ASSUME NEW r \in Runs, Fail(r) PROVE OwnersWork' /\ WaitsForAll'
  BY <1>11, GenerationAssumption DEF Fail, Becomes, Runs, subscriptions, ghosts
<1>12. ASSUME NEW r \in Runs, Outlive(r) PROVE OwnersWork' /\ WaitsForAll'
  BY <1>12, GenerationAssumption DEF Outlive, Becomes, Runs, subscriptions, ghosts
<1>13. ASSUME NEW r \in Runs, NEW at \in {"idle", "waiting"}, Die(r, at)
      PROVE  OwnersWork' /\ WaitsForAll'
  BY <1>13, GenerationAssumption DEF Die, Idle, Becomes, Runs, subscriptions, ghosts
<1>14. ASSUME NEW i \in Instances, MissTick(i) PROVE OwnersWork' /\ WaitsForAll'
  BY <1>14, GenerationAssumption DEF MissTick, Go, Becomes, Runs, subscriptions, ghosts
<1>15. ASSUME NEW k \in Scopes, Expire(k) PROVE OwnersWork' /\ WaitsForAll'
  BY <1>15, GenerationAssumption DEF Expire, Becomes, Runs, subscriptions, ghosts
<1> QED
  BY <1>1, <1>2, <1>3, <1>4, <1>5, <1>6, <1>7, <1>8, <1>9, <1>10, <1>11, <1>12,
     <1>13, <1>14, <1>15
  DEF Next, Step, Faults

\* The cron has still to run.
Unserved == ~claimed /\ \E i \in Instances : At(i, "waiting")

\* The runs that will come to the one-time order x, and to the subscription x.
Confirming(x) ==
  {r \in Runs : Within(r, x)
                  /\ run[r].pc \in {"lock", "orders", "items", "insert", "confirm"}}
Ordering(x) == {r \in Runs : Within(r, x) /\ run[r].pc \in {"lock", "orders"}}

\* The run that holds the lock does what the one it turns away would have done.
PlacedIsAwaited(o) ==
  ~broken =>
    /\ status[o] # "none"
    /\ status[o] = "placed" => Unserved \/ Confirming(o) # {}
    /\ \A r \in Runs : Within(r, o) /\ At(r, "release") => status[o] # "placed"

LEMMA StepPlaced ==
  ASSUME TypeOK, OwnersWork, WaitsForAll, NEW o \in OneTime, PlacedIsAwaited(o), [Next]_vars
  PROVE  PlacedIsAwaited(o)'
<1> USE DEF TypeOK, OwnersWork, WaitsForAll, PlacedIsAwaited, Unserved, Confirming,
            Within, Covers, Inside, At, Run, Steps
<1>1. CASE UNCHANGED vars
  BY <1>1 DEF vars
<1>2. CASE Customers
  BY <1>2 DEF Customers, Suspend, Activate, Reschedule, Checkout, ghosts
<1>3. ASSUME NEW i \in Instances, Tick(i) PROVE PlacedIsAwaited(o)'
  BY <1>3, GenerationAssumption DEF Tick, Go, Becomes, Runs, subscriptions, ghosts
<1>4. ASSUME NEW a \in Admins, NEW k \in Scopes, Trigger(a, k)
      PROVE  PlacedIsAwaited(o)'
  BY <1>4, GenerationAssumption DEF Trigger, Idle, Becomes, Runs, subscriptions, ghosts
<1>5. ASSUME NEW r \in Runs, AcquireLock(r) PROVE PlacedIsAwaited(o)'
  BY <1>5, GenerationAssumption DEF AcquireLock, Go, Idle, Becomes, Runs, subscriptions, ghosts
<1>6. ASSUME NEW r \in Runs, InsertOrders(r) PROVE PlacedIsAwaited(o)'
  BY <1>6, GenerationAssumption DEF InsertOrders, Becomes, Runs, subscriptions, ghosts
<1>7. ASSUME NEW r \in Runs, FindItemless(r) PROVE PlacedIsAwaited(o)'
  BY <1>7, GenerationAssumption DEF FindItemless, Becomes, Runs, subscriptions, ghosts
<1>8. ASSUME NEW r \in Runs, InsertItems(r) PROVE PlacedIsAwaited(o)'
  BY <1>8, GenerationAssumption DEF InsertItems, Becomes, Runs, subscriptions, ghosts
<1>9. ASSUME NEW r \in Runs, ConfirmOneTime(r) PROVE PlacedIsAwaited(o)'
  BY <1>9, GenerationAssumption DEF ConfirmOneTime, Go, Becomes, Confirmed, Runs, subscriptions,
     ghosts
<1>10. ASSUME NEW r \in Runs, Release(r) PROVE PlacedIsAwaited(o)'
  BY <1>10, GenerationAssumption DEF Release, Unlocked, Idle, Becomes, Runs, subscriptions, ghosts
<1>11. ASSUME NEW r \in Runs, Fail(r) PROVE PlacedIsAwaited(o)'
  BY <1>11, GenerationAssumption DEF Fail, Becomes, Runs, subscriptions, ghosts
<1>12. ASSUME NEW r \in Runs, Outlive(r) PROVE PlacedIsAwaited(o)'
  BY <1>12, GenerationAssumption DEF Outlive, Becomes, Runs, subscriptions, ghosts
<1>13. ASSUME NEW r \in Runs, NEW at \in {"idle", "waiting"}, Die(r, at)
      PROVE  PlacedIsAwaited(o)'
  BY <1>13, GenerationAssumption DEF Die, Idle, Becomes, Runs, subscriptions, ghosts
<1>14. ASSUME NEW i \in Instances, MissTick(i) PROVE PlacedIsAwaited(o)'
  BY <1>14, GenerationAssumption DEF MissTick, Go, Becomes, Runs, subscriptions, ghosts
<1>15. ASSUME NEW k \in Scopes, Expire(k) PROVE PlacedIsAwaited(o)'
  BY <1>15, GenerationAssumption DEF Expire, Becomes, Runs, subscriptions, ghosts
<1> QED
  BY <1>1, <1>2, <1>3, <1>4, <1>5, <1>6, <1>7, <1>8, <1>9, <1>10, <1>11, <1>12,
     <1>13, <1>14, <1>15
  DEF Next, Step, Faults

DueIsAwaited(s) ==
  ~broken =>
    /\ s \notin missed
    /\ s \notin ordered => Unserved \/ Ordering(s) # {}
    /\ \A r \in Runs : Within(r, s) /\ run[r].pc \in Steps \ {"orders"} => s \in ordered

LEMMA StepDue ==
  ASSUME TypeOK, OwnersWork, WaitsForAll, NEW s \in Subs, Due(s), DueIsAwaited(s), [Next]_vars
  PROVE  DueIsAwaited(s)'
<1> USE DEF TypeOK, OwnersWork, WaitsForAll, DueIsAwaited, Unserved, Ordering, Due,
            Within, Covers, Inside, At, Run, Steps
<1>1. CASE UNCHANGED vars
  BY <1>1 DEF vars
<1>2. CASE Customers
  BY <1>2 DEF Customers, Suspend, Activate, Reschedule, Checkout, ghosts
<1>3. ASSUME NEW i \in Instances, Tick(i) PROVE DueIsAwaited(s)'
  BY <1>3, GenerationAssumption DEF Tick, Go, Becomes, Runs, subscriptions, ghosts
<1>4. ASSUME NEW a \in Admins, NEW k \in Scopes, Trigger(a, k)
      PROVE  DueIsAwaited(s)'
  BY <1>4, GenerationAssumption DEF Trigger, Idle, Becomes, Runs, subscriptions, ghosts
<1>5. ASSUME NEW r \in Runs, AcquireLock(r) PROVE DueIsAwaited(s)'
  BY <1>5, GenerationAssumption DEF AcquireLock, Go, Idle, Becomes, Runs, subscriptions, ghosts
<1>6. ASSUME NEW r \in Runs, InsertOrders(r) PROVE DueIsAwaited(s)'
  BY <1>6, GenerationAssumption DEF InsertOrders, Becomes, Runs, subscriptions, ghosts
<1>7. ASSUME NEW r \in Runs, FindItemless(r) PROVE DueIsAwaited(s)'
  BY <1>7, GenerationAssumption DEF FindItemless, Becomes, Runs, subscriptions, ghosts
<1>8. ASSUME NEW r \in Runs, InsertItems(r) PROVE DueIsAwaited(s)'
  BY <1>8, GenerationAssumption DEF InsertItems, Becomes, Runs, subscriptions, ghosts
<1>9. ASSUME NEW r \in Runs, ConfirmOneTime(r) PROVE DueIsAwaited(s)'
  BY <1>9, GenerationAssumption DEF ConfirmOneTime, Go, Becomes, Runs, subscriptions, ghosts
<1>10. ASSUME NEW r \in Runs, Release(r) PROVE DueIsAwaited(s)'
  BY <1>10, GenerationAssumption DEF Release, Unlocked, Idle, Becomes, Runs, subscriptions, ghosts
<1>11. ASSUME NEW r \in Runs, Fail(r) PROVE DueIsAwaited(s)'
  BY <1>11, GenerationAssumption DEF Fail, Becomes, Left, Runs, subscriptions,
     ghosts
<1>12. ASSUME NEW r \in Runs, Outlive(r) PROVE DueIsAwaited(s)'
  BY <1>12, GenerationAssumption DEF Outlive, Becomes, Runs, subscriptions, ghosts
<1>13. ASSUME NEW r \in Runs, NEW at \in {"idle", "waiting"}, Die(r, at)
      PROVE  DueIsAwaited(s)'
  BY <1>13, GenerationAssumption DEF Die, Idle, Becomes, Left, Runs, subscriptions,
     ghosts
<1>14. ASSUME NEW i \in Instances, MissTick(i) PROVE DueIsAwaited(s)'
  BY <1>14, GenerationAssumption DEF MissTick, Go, Becomes, Runs, subscriptions, ghosts
<1>15. ASSUME NEW k \in Scopes, Expire(k) PROVE DueIsAwaited(s)'
  BY <1>15, GenerationAssumption DEF Expire, Becomes, Runs, subscriptions, ghosts
<1> QED
  BY <1>1, <1>2, <1>3, <1>4, <1>5, <1>6, <1>7, <1>8, <1>9, <1>10, <1>11, <1>12,
     <1>13, <1>14, <1>15
  DEF Next, Step, Faults

LEMMA InitAwaited ==
  ASSUME Init, Instances # {}
  PROVE  /\ OwnersWork /\ WaitsForAll
         /\ \A o \in OneTime : status[o] = "placed" => PlacedIsAwaited(o)
         /\ \A s \in Subs : DueIsAwaited(s)
<1>1. /\ \A k \in Scopes : lock[k] = Free
      /\ \A r \in Runs : run[r].scope = AllBranches /\ run[r].pc \in {"waiting", "idle"}
      /\ \A i \in Instances : At(i, "waiting")
  BY GenerationAssumption DEF Init, Idle, At, Runs
<1>2. OwnersWork /\ WaitsForAll
  BY <1>1, GenerationAssumption DEF OwnersWork, WaitsForAll
<1>3. Unserved
  BY <1>1 DEF Init, Unserved
<1> QED
  BY <1>1, <1>2, <1>3 DEF Init, PlacedIsAwaited, DueIsAwaited, At, Steps

LEMMA OwnersAreAtWork == Instances # {} /\ Spec => [](TypeOK /\ OwnersWork /\ WaitsForAll)
<1>1. Instances # {} /\ Init => OwnersWork /\ WaitsForAll
  BY InitAwaited
<1>2. TypeOK /\ OwnersWork /\ WaitsForAll /\ [Next]_vars => (OwnersWork /\ WaitsForAll)'
  BY StepOwners
<1> QED BY <1>1, <1>2, GenerationTypeCorrect, PTL DEF Spec

\* A one-time order that was placed before any run is confirmed when the runs are
\* over, whoever was skipped and whichever locks lapsed, unless something broke:
\* what PlacedIsConfirmed leaves to fairness is that the runs end.
THEOREM PlacedIsNotLeft ==
  ASSUME NEW o \in OneTime
  PROVE  Instances # {} /\ Spec /\ status[o] = "placed"
           => [](Over /\ ~broken => status[o] # "placed")
<1>1. Instances # {} /\ Init /\ status[o] = "placed" => PlacedIsAwaited(o)
  BY InitAwaited
<1>2. TypeOK /\ OwnersWork /\ WaitsForAll /\ PlacedIsAwaited(o) /\ [Next]_vars
        => PlacedIsAwaited(o)'
  BY StepPlaced
<1>3. PlacedIsAwaited(o) => (Over /\ ~broken => status[o] # "placed")
  BY DEF PlacedIsAwaited, Over, Unserved, Confirming, At, Runs
<1> QED BY <1>1, <1>2, <1>3, OwnersAreAtWork, PTL DEF Spec

\* A subscription that is due all along has its order with items when the runs are
\* over, likewise: what DueIsServed leaves to fairness is that the runs end.
THEOREM DueIsNotLeft ==
  ASSUME NEW s \in Subs
  PROVE  Instances # {} /\ Spec /\ []Due(s)
           => [](Over /\ ~broken => s \in ordered /\ items[s] > 0)
<1>1. Instances # {} /\ Init => DueIsAwaited(s)
  BY InitAwaited
<1>2. TypeOK /\ OwnersWork /\ WaitsForAll /\ Due(s) /\ DueIsAwaited(s) /\ [Next]_vars
        => DueIsAwaited(s)'
  BY StepDue
<1>3. TypeOK /\ ItemlessHasCause /\ DueIsAwaited(s)
        => (Over /\ ~broken => s \in ordered /\ items[s] > 0)
  <2> SUFFICES ASSUME TypeOK, ItemlessHasCause, DueIsAwaited(s), Over, ~broken
               PROVE  s \in ordered /\ items[s] > 0
    OBVIOUS
  <2>1. s \in ordered /\ s \notin missed
    BY DEF DueIsAwaited, Over, Unserved, Ordering, At, Runs
  <2>2. \A r \in Runs : Left(r) = {}
    BY DEF Over, Left, At
  <2> QED BY <2>1, <2>2 DEF ItemlessHasCause, TypeOK
<1> QED BY <1>1, <1>2, <1>3, OwnersAreAtWork, OrdersHaveItems, PTL DEF Spec
===========================================================================
