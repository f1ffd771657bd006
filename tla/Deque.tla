------------------------------- MODULE Deque -------------------------------
(***************************************************************************)
(* What the TransferCache array is to CentralCache: a bounded sequence that *)
(* grows and shrinks at its hot end and is drained from its cold end.       *)
(***************************************************************************)
EXTENDS Integers, Sequences

CONSTANTS Values, Capacity

VARIABLE q

Init == q = <<>>

PushBack == Len(q) < Capacity /\ \E v \in Values : q' = Append(q, v)

PopBack == Len(q) > 0 /\ q' = SubSeq(q, 1, Len(q) - 1)

DropFront == \E k \in 1 .. Len(q) : q' = SubSeq(q, k + 1, Len(q))

Next == PushBack \/ PopBack \/ DropFront

Spec == Init /\ [][Next]_q
=============================================================================
