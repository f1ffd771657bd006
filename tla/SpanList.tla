------------------------------ MODULE SpanList ------------------------------
(***************************************************************************)
(* The circular doubly linked list of Span descriptors with a sentinel      *)
(* (class SpanList, src/include/ammalloc/span.h) that CentralCache's        *)
(* buckets and PageCache's page buckets are made of.  A span outside the    *)
(* list may have its next link reused: CentralCache::ReleaseBatch and       *)
(* PageCache collect detached spans through it.                             *)
(***************************************************************************)
EXTENDS Integers, Sequences, FiniteSets

CONSTANTS Members,      \* Span descriptors
          Sentinel,     \* &head_
          NoSpan        \* nullptr

ASSUME ListAssumption ==
    /\ Sentinel \notin Members /\ NoSpan \notin Members \cup {Sentinel}

VARIABLES fwd, bwd      \* the fields next and prev

spanListVars == <<fwd, bwd>>

Nodes == Members \cup {Sentinel}

SpanListInit ==
    /\ fwd = [n \in Nodes |-> IF n = Sentinel THEN Sentinel ELSE NoSpan]
    /\ bwd = fwd

\* The node i links after the sentinel.
Follow(i) == LET at[j \in 0 .. i] == IF j = 0 THEN Sentinel ELSE fwd[at[j - 1]] IN at[i]

Linked == {n \in Members : bwd[n] # NoSpan}

InsertNoBack(pos, s) == /\ fwd' = [fwd EXCEPT ![s] = pos, ![bwd[pos]] = s]
                        /\ bwd' = [bwd EXCEPT ![s] = bwd[pos]]

insert(pos, s) == /\ fwd' = [fwd EXCEPT ![s] = pos, ![bwd[pos]] = s]
                  /\ bwd' = [bwd EXCEPT ![s] = bwd[pos], ![pos] = s]

push_front == \E s \in Members \ Linked : insert(fwd[Sentinel], s)

push_back == \E s \in Members \ Linked : insert(Sentinel, s)

erase(s) == /\ fwd' = [fwd EXCEPT ![bwd[s]] = fwd[s], ![s] = NoSpan]
            /\ bwd' = [bwd EXCEPT ![fwd[s]] = bwd[s], ![s] = NoSpan]

pop_front == fwd[Sentinel] # Sentinel /\ erase(fwd[Sentinel])

\* A caller links a span it has erased into a list of its own through `next'.
Collect == \E s \in Members \ Linked, t \in (Members \cup {NoSpan}) \ Linked :
    /\ fwd' = [fwd EXCEPT ![s] = t]
    /\ UNCHANGED bwd

SpanListNext == \/ push_front \/ push_back \/ pop_front \/ Collect
                \/ \E s \in Linked : erase(s)

SpanListSpec == SpanListInit /\ [][SpanListNext]_spanListVars

-----------------------------------------------------------------------------
\* The spans an iteration from begin() to end() visits.
Iterated ==
    LET n == CHOOSE i \in 1 .. Cardinality(Nodes) : Follow(i) = Sentinel
    IN  [i \in 1 .. n - 1 |-> Follow(i)]

SpanListTypeOK == fwd \in [Nodes -> Nodes \cup {NoSpan}] /\ bwd \in [Nodes -> Nodes \cup {NoSpan}]

\* Neighbours agree about their link, and both links of a linked span lead to
\* nodes of the list.
LinksMutual ==
    \A n \in Linked \cup {Sentinel} :
        /\ fwd[n] \in Linked \cup {Sentinel} /\ bwd[fwd[n]] = n
        /\ bwd[n] \in Linked \cup {Sentinel} /\ fwd[bwd[n]] = n

\* The links form the sequence the callers mean: insertion at either end,
\* removal from anywhere, the order of the others kept; an iteration ends at
\* the sentinel after exactly the spans inserted and not erased.
Order == INSTANCE SpanSequence WITH seq <- Iterated
IsSpanSequence == Order!Spec
=============================================================================
