---------------------------- MODULE MCPageCache ----------------------------
(* Instance of PageCache for TLC. *)
EXTENDS PageCache
=============================================================================
