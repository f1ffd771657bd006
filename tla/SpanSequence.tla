---------------------------- MODULE SpanSequence ----------------------------
(***************************************************************************)
(* What a SpanList is to its users: a sequence without repetitions.         *)
(***************************************************************************)
EXTENDS Integers, Sequences

CONSTANT Members

VARIABLE seq

Elements == {seq[i] : i \in 1 .. Len(seq)}

Init == seq = <<>>

InsertFront == \E s \in Members \ Elements : seq' = <<s>> \o seq

InsertBack == \E s \in Members \ Elements : seq' = Append(seq, s)

Remove == \E i \in 1 .. Len(seq) :
             seq' = SubSeq(seq, 1, i - 1) \o SubSeq(seq, i + 1, Len(seq))

Next == InsertFront \/ InsertBack \/ Remove

Spec == Init /\ [][Next]_seq
=============================================================================
