------------------------------- MODULE Stock -------------------------------
(***************************************************************************)
(* One row of stock_balances, a product variant in one warehouse, with the *)
(* stock_movements that name it.  Every operator is what one call writes   *)
(* to a row that it holds locked; its caller checks the condition the call *)
(* rolls back on.  The quantities dispatched and damaged, which only       *)
(* reports read, are left out.                                             *)
(***************************************************************************)
EXTENDS Integers

Balance == [available : Nat,
            reserved  : Nat,
            moved     : Int,   \* SUM(direction * quantity) over its movements
            twice     : Nat]   \* goods that a return added beside its movement

Goods(s) == s.available + s.reserved

Least(a, b) == IF a <= b THEN a ELSE b

\* Mutant: what is reserved counts as available.
CanMoveReserved(s, q) == -q <= Goods(s)

\* recordStockMovement with direction * quantity = q.
CanMove(s, q) == -q <= s.available
Moved(s, q) == [s EXCEPT !.available = @ + q, !.moved = @ + q]

CanReserve(s, q) == q <= s.available
Reserved(s, q) == [s EXCEPT !.available = @ - q, !.reserved = @ + q]

Released(s, q) == [s EXCEPT !.available = @ + q,
                            !.reserved = IF q <= @ THEN @ - q ELSE 0]

\* A dispatch takes q more units than before: reservations first, whosever
\* they are.  With q negative the units come back.
Drawn(s, q) == IF q > 0 THEN Least(q, s.reserved) ELSE 0
CanLoad(s, q) == CanMove(Released(s, Drawn(s, q)), -q)

\* Mutant: all of q is released, though less is reserved.
LoadedUnbounded(s, q) == Moved(Released(s, IF q > 0 THEN q ELSE 0), -q)

Loaded(s, q) == Moved(Released(s, Drawn(s, q)), -q)

\* recordReturn: the UPDATE adds the goods, then the movement adds them again.
TakenBack(s, q) == Moved([s EXCEPT !.available = @ + q, !.twice = @ + q], q)
=============================================================================
