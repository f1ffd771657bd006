-------------------------- MODULE RangeAllocator --------------------------
(***************************************************************************)
(* What a page allocator promises its clients: it hands out runs of pages   *)
(* that are disjoint from every run handed out before and not returned, and *)
(* a run stays exactly as it was handed out until its owner returns it.     *)
(***************************************************************************)
EXTENDS Integers, Sequences

CONSTANTS Pages,    \* page numbers
          Sizes     \* run lengths that can be asked for

VARIABLE runs       \* the runs clients own, as pairs <<first page, length>>

RunPages(r) == r[1] .. r[1] + r[2] - 1

Init == runs = {}

Acquire ==
    \E start \in Pages, n \in Sizes :
        /\ RunPages(<<start, n>>) \subseteq Pages
        /\ \A r \in runs : RunPages(r) \cap RunPages(<<start, n>>) = {}
        /\ runs' = runs \cup {<<start, n>>}

Return == \E r \in runs : runs' = runs \ {r}

Next == Acquire \/ Return

Spec == Init /\ [][Next]_runs
=============================================================================
