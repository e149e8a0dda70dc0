------------------------------ MODULE MCQueue ------------------------------
(* Queue with three goroutines in Pop; see MCQueue.cfg. *)
EXTENDS Queue
=============================================================================
