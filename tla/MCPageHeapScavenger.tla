---------------------- MODULE MCPageHeapScavenger ----------------------
(* Instances of PageHeapScavenger for TLC. *)
EXTENDS PageHeapScavenger
=============================================================================
