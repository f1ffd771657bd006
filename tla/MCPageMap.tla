------------------------------ MODULE MCPageMap ------------------------------
(***************************************************************************)
(* Nodes of two cells: eight pages below the root's one cell.  The mappings *)
(* cross a leaf node, a second-level node and the end of the root.          *)
(***************************************************************************)
EXTENDS PageMap, TLC

MCPageIds == {2, 3, 4, 7, 8}
MCRequests == {<<2, 1>>, <<3, 2>>, <<7, 2>>}
Symmetry == Permutations(Shards)
=============================================================================
