--------------------------- MODULE MCBoundedQueue ---------------------------
(* Two usable slots (four in the pool) and up to five elements: two claims *)
(* wait for each other's commit, the indices wrap, a producer finds the    *)
(* ring full, and a slow consumer reads a slot that is being written again. *)
EXTENDS BoundedQueue, TLC

CONSTANTS p1, p2
MCMaxEnqueues == p1 :> 4 @@ p2 :> 1
=============================================================================
