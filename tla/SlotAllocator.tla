--------------------------- MODULE SlotAllocator ---------------------------
(***************************************************************************)
(* What a Span promises CentralCache: an allocation takes the lowest free   *)
(* slot whenever there is one, and a freed slot is free again.              *)
(***************************************************************************)
EXTENDS Integers

VARIABLES avail, taken

IsLowest(x) == x \in avail /\ \A y \in avail : x <= y

Init == taken = {} /\ avail \subseteq Nat

Take == \E x \in avail : /\ IsLowest(x)
                         /\ avail' = avail \ {x}
                         /\ taken' = taken \cup {x}

Give == \E x \in taken : /\ avail' = avail \cup {x}
                         /\ taken' = taken \ {x}

Spec == Init /\ [][Take \/ Give]_<<avail, taken>>
=============================================================================
