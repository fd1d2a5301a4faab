----------------------------- MODULE MCDelivery -----------------------------
(* An instance of Delivery for TLC. *)
EXTENDS Delivery

CONSTANTS w1, o1, h1

\* No guard reads the sum of the movements or the units a run took out, and no
\* property does once the balance clashed or loaded_qty was recounted.
View ==
  <<IF clashed THEN [stock EXCEPT !.moved = 0] ELSE stock, clashed, order, run,
    dispatch, item, [r \in Runs \ recounted |-> out[r]], recounted, handler>>
=============================================================================
