------------------------ MODULE MCThreadPoolManager ------------------------
(* ThreadPoolManager on small instances for TLC. *)
EXTENDS ThreadPoolManager
=============================================================================
