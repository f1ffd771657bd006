----------------------------- MODULE MCAmMalloc -----------------------------
(* Instances of AmMalloc for TLC; blocks are interchangeable, and so are threads. *)
EXTENDS AmMalloc, TLC

Symmetry == Permutations(Threads) \cup Permutations(Blocks)
=============================================================================
