--------------------------- MODULE MCCentralCache ---------------------------
(* Instances of CentralCache for TLC; threads are interchangeable. *)
EXTENDS CentralCache, TLC

Symmetry == Permutations(Threads)
=============================================================================
