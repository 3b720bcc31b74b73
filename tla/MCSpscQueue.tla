----------------------------- MODULE MCSpscQueue -----------------------------
(* Model checking of SpscQueue: two values and two usable slots, so the      *)
(* indices wrap, the queue fills and empties, and both views lag behind.     *)
EXTENDS SpscQueue
=============================================================================
