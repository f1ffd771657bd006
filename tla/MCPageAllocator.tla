--------------------------- MODULE MCPageAllocator ---------------------------
(* Instance of PageAllocator for TLC. *)
EXTENDS PageAllocator
=============================================================================
