---------------------------- MODULE MCContainers ----------------------------
(***************************************************************************)
(* The data structures and the size arithmetic, one at a time: a behaviour  *)
(* exercises the structure `focus' names and leaves the others in their     *)
(* initial state, so that the state space is the sum of theirs.  All are    *)
(* sequential but the lock-free HugePageCache, whose threads are            *)
(* interchangeable, and so are its aligned pages.                           *)
(***************************************************************************)
EXTENDS Span, TransferRing, FreeList, SpanList, ObjectPool, SizeClass, HugePageCache

CONSTANTS a, b

VARIABLES focus, probe       \* probe is a request in bytes

Structures == {"span", "ring", "list", "spans", "pool", "size", "huge"}

\* The next request, one past MAX_TC_SIZE included.
SizeNext == probe' = (probe + 1) % (MAX_TC_SIZE + 2)

MCInit == /\ focus \in Structures
          /\ SpanInit /\ RingInit /\ ListInit /\ SpanListInit /\ PoolInit /\ Init
          /\ probe = 0
          /\ focus # "span" => sp = InitSpan(1)
          /\ focus # "ring" => ring = [i \in 0 .. Capacity - 1 |-> a]

Others(here) ==
    /\ focus = here /\ UNCHANGED focus
    /\ here # "span"  => UNCHANGED spanVars
    /\ here # "ring"  => UNCHANGED ringVars
    /\ here # "list"  => UNCHANGED listVars
    /\ here # "spans" => UNCHANGED spanListVars
    /\ here # "pool"  => UNCHANGED poolVars
    /\ here # "size"  => UNCHANGED probe
    /\ here # "huge"  => UNCHANGED vars

MCNext == \/ Others("span")  /\ SpanNext
          \/ Others("ring")  /\ RingNext
          \/ Others("list")  /\ ListNext
          \/ Others("spans") /\ SpanListNext
          \/ Others("pool")  /\ PoolNext
          \/ Others("size")  /\ SizeNext
          \/ Others("huge")  /\ Next

MCSpec == MCInit /\ [][MCNext]_<<focus, spanVars, ringVars, listVars, spanListVars,
                                 poolVars, probe, vars>>

Symmetry == Permutations(Threads) \cup Permutations(AlignedPages)

-----------------------------------------------------------------------------
\* Every request up to MAX_TC_SIZE is served by the smallest class that holds
\* it, whether Index reads small_index_table_ or computes; RoundUp leaves
\* larger requests alone.  size_class.h checks this at class boundaries only,
\* because all sizes exceed the compiler's constexpr budget.
SizeClassExact == focus = "size" => IsExact(probe)

\* The span CentralCache::GetOneSpan asks for holds at least one batch of the
\* class, and Span::Init's grid passes all its checks for every class.
GridFits == focus = "size" => GridOf(probe)
=============================================================================
