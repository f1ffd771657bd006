------------------------------ MODULE FreeList ------------------------------
(***************************************************************************)
(* The intrusive singly linked lists that carry small objects: FreeList,    *)
(* FreeChain and ObjectBatch (src/include/ammalloc/free_list.h), with the   *)
(* code of CentralCache that builds and walks a chain.                      *)
(*                                                                          *)
(* The link is the first word of the object itself, so whoever holds an     *)
(* object may overwrite it.                                                 *)
(***************************************************************************)
EXTENDS Integers, Sequences, SequencesExt

CONSTANTS Objects, Null

VARIABLES next_,    \* FreeBlock::next, the first word of every object
          head_, size_,
          batch,    \* the chain or batch in flight: [head, tail, count]
          held,     \* objects the application holds
          central   \* objects below: TransferCache pointers, bitmap bits

listVars == <<next_, head_, size_, batch, held, central>>

EmptyBatch == [head |-> Null, tail |-> Null, count |-> 0]

ListInit == /\ next_ = [o \in Objects |-> Null]
            /\ head_ = Null /\ size_ = 0 /\ batch = EmptyBatch
            /\ held = {} /\ central = Objects

\* The node i links behind o.
NthNode(o, i) ==
    LET at[j \in 0 .. i] ==
            IF j = 0 THEN o ELSE IF at[j - 1] = Null THEN Null ELSE next_[at[j - 1]]
    IN  at[i]

Push == \E o \in held :
    /\ next_' = [next_ EXCEPT ![o] = head_]
    /\ head_' = o
    /\ size_' = size_ + 1
    /\ held' = held \ {o}
    /\ UNCHANGED <<batch, central>>

Pop == /\ head_ # Null
       /\ head_' = next_[head_]
       /\ size_' = size_ - 1
       /\ held' = held \cup {head_}
       /\ UNCHANGED <<next_, batch, central>>

\* PushRange and PushBatch.
PushBatch == /\ batch.count > 0
             /\ next_' = [next_ EXCEPT ![batch.tail] = head_]
             /\ head_' = batch.head
             /\ size_' = size_ + batch.count
             /\ batch' = EmptyBatch
             /\ UNCHANGED <<held, central>>

\* How far the loop of PopRange gets: n nodes, or all up to the null link,
\* whichever comes first; it does not look at size_.
Walked(n) == CHOOSE k \in 0 .. n : /\ NthNode(head_, k) = Null \/ k = n
                                  /\ \A j \in 0 .. k - 1 : NthNode(head_, j) # Null

PopUnterminated(n) ==
    LET count == Walked(n)
    IN  /\ batch.count = 0 /\ count > 0
        /\ batch' = [head |-> head_, tail |-> NthNode(head_, count - 1), count |-> count]
        /\ head_' = NthNode(head_, count)
        /\ size_' = size_ - count
        /\ UNCHANGED <<next_, held, central>>

\* PopRange and PopBatch.
PopRange(n) ==
    LET count == Walked(n)
        tail  == NthNode(head_, count - 1)
    IN  /\ batch.count = 0 /\ count > 0
        /\ batch' = [head |-> head_, tail |-> tail, count |-> count]
        /\ head_' = NthNode(head_, count)
        /\ size_' = size_ - count
        /\ next_' = [next_ EXCEPT ![tail] = Null]
        /\ UNCHANGED <<held, central>>

\* PopRangeTail and PopBatchTail: size_ decides how many nodes stay.
PopRangeTail(n) ==
    LET count == IF n < size_ THEN n ELSE size_
        keep  == size_ - count
        first == NthNode(head_, keep)
        last  == CHOOSE i \in 0 .. Cardinality(Objects) :
                    NthNode(first, i) # Null /\ NthNode(first, i + 1) = Null
    IN  /\ batch.count = 0 /\ count > 0
        /\ batch' = [head |-> first, tail |-> NthNode(first, last), count |-> count]
        /\ head_' = IF keep = 0 THEN Null ELSE head_
        /\ next_' = IF keep = 0 THEN next_
                   ELSE [next_ EXCEPT ![NthNode(head_, keep - 1)] = Null]
        /\ size_' = keep
        /\ UNCHANGED <<held, central>>

\* am_free without a ThreadCache: ObjectBatch::FromSingleObject.
FromSingleObject == \E o \in held :
    /\ batch.count = 0
    /\ next_' = [next_ EXCEPT ![o] = Null]
    /\ batch' = [head |-> o, tail |-> o, count |-> 1]
    /\ held' = held \ {o}
    /\ UNCHANGED <<head_, size_, central>>

\* CentralCache::FetchBatch links the objects it extracted by head insertion:
\* s is the order of extraction.
FetchBatch == \E k \in 1 .. Cardinality(central) : \E s \in [1 .. k -> central] :
    /\ batch.count = 0 /\ IsInjective(s)
    /\ next_' = [o \in Objects |->
                  IF o \in Range(s)
                  THEN LET i == CHOOSE j \in 1 .. k : s[j] = o
                       IN  IF i = 1 THEN Null ELSE s[i - 1]
                  ELSE next_[o]]
    /\ batch' = [head |-> s[k], tail |-> s[1], count |-> k]
    /\ central' = central \ Range(s)
    /\ UNCHANGED <<head_, size_, held>>

\* CentralCache::ReleaseBatch walks exactly count nodes and checks that it
\* then stands on the null link.
ReleaseBatch ==
    /\ batch.count > 0
    /\ central' = central \cup {NthNode(batch.head, i) : i \in 0 .. batch.count - 1}
    /\ batch' = EmptyBatch
    /\ UNCHANGED <<next_, head_, size_, held>>

\* The application writes to the first word of an object it holds.
Write == \E o \in held, v \in Objects \cup {Null} :
    /\ next_' = [next_ EXCEPT ![o] = v]
    /\ UNCHANGED <<head_, size_, batch, held, central>>

ListNext ==
    \/ Push \/ Pop \/ PushBatch \/ FromSingleObject \/ FetchBatch \/ ReleaseBatch \/ Write
    \/ \E n \in 1 .. Cardinality(Objects) : PopRange(n) \/ PopRangeTail(n)

ListSpec == ListInit /\ [][ListNext]_listVars

-----------------------------------------------------------------------------
\* The nodes from o up to the null link, as a sequence.
ChainFrom(o) == [i \in 1 .. Cardinality({j \in 0 .. Cardinality(Objects) : NthNode(o, j) # Null})
                |-> NthNode(o, i - 1)]

\* The list and the batch in flight are sequences of objects that nobody else
\* owns, whatever the application writes into its own objects: pushes and pops
\* work at the front, PopRangeTail takes the coldest suffix, and a batch keeps
\* its order through every transfer.  Null links and the counters size_ and
\* count agree, or an operation that trusts one of them would show it.
Stack == INSTANCE ObjectStack WITH list <- ChainFrom(head_), flight <- ChainFrom(batch.head)
IsStack == Stack!Spec
=============================================================================
