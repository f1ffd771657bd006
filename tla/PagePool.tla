------------------------------ MODULE PagePool ------------------------------
(***************************************************************************)
(* What HugePageCache promises PageAllocator: a bounded set of mappings     *)
(* that are put in and taken out atomically, one at a time.                 *)
(***************************************************************************)
EXTENDS FiniteSets, Naturals

CONSTANTS Pages, kCapacity

VARIABLES cached,   \* pages in the pool
          outside   \* mapped pages that are not

Init == cached = {} /\ outside = {}

Put == \E p \in outside : /\ Cardinality(cached) < kCapacity
                          /\ cached' = cached \cup {p} /\ outside' = outside \ {p}

Get == \E p \in cached : cached' = cached \ {p} /\ outside' = outside \cup {p}

Map == \E p \in Pages \ (cached \cup outside) :
            outside' = outside \cup {p} /\ UNCHANGED cached

Unmap == \E p \in outside : outside' = outside \ {p} /\ UNCHANGED cached

Spec == Init /\ [][Put \/ Get \/ Map \/ Unmap]_<<cached, outside>>
=============================================================================
