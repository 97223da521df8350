-------------------------- MODULE MCAsyncEventLoop --------------------------
(* AsyncEventLoop on small instances for TLC. *)
EXTENDS AsyncEventLoop

(* A delay in the past, which is clamped, and one longer than StreamDelay. *)
MCDelays == {-1, 2}
=============================================================================
