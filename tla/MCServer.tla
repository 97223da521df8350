------------------------------ MODULE MCServer ------------------------------
(* Server on a small instance for TLC. *)
EXTENDS Server
=============================================================================
