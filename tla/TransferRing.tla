---------------------------- MODULE TransferRing ----------------------------
(***************************************************************************)
(* The circular pointer array behind a bucket's TransferCache: the fields   *)
(* transfer_cache, transfer_cache_begin and transfer_cache_size of          *)
(* CentralCache::Bucket and the statements that use them under              *)
(* transfer_cache_lock (src/src/central_cache.cpp).                         *)
(***************************************************************************)
EXTENDS Integers, Sequences

CONSTANTS Values,       \* pointers
          Capacity      \* transfer_cache_capacity, 0 without backing

ASSUME RingAssumption == Capacity \in Nat

VARIABLES ring,     \* the array, indexed from 0
          begin,    \* physical slot of the cold end
          size

ringVars == <<ring, begin, size>>

\* Logical offset, counted from the cold end, to physical slot.
TransferIndex(offset) ==
    IF begin + offset < Capacity THEN begin + offset ELSE begin + offset - Capacity

\* The mapping is uninitialised memory at first.
RingInit == /\ ring \in [0 .. Capacity - 1 -> Values]
            /\ begin = 0 /\ size = 0

\* transfer_cache[TransferIndex(transfer_cache_size++)] = ptr
PushHot == /\ size < Capacity
           /\ \E v \in Values : ring' = [ring EXCEPT ![TransferIndex(size)] = v]
           /\ size' = size + 1
           /\ UNCHANGED begin

\* ptr = transfer_cache[TransferIndex(--transfer_cache_size)]
PopHot == /\ size > 0
          /\ size' = size - 1
          /\ UNCHANGED <<ring, begin>>

DetachHot(detached) ==
    /\ detached \in 1 .. size
    /\ size' = size - detached
    /\ UNCHANGED <<ring, begin>>

\* A drain detaches the `detached' coldest pointers.
Detach(detached) ==
    /\ detached \in 1 .. size
    /\ begin' = IF detached = Capacity THEN 0 ELSE TransferIndex(detached)
    /\ size' = size - detached
    /\ UNCHANGED ring

RingNext == PushHot \/ PopHot \/ \E detached \in 1 .. size : Detach(detached)

RingSpec == RingInit /\ [][RingNext]_ringVars

-----------------------------------------------------------------------------
\* begin stays inside the array and size within its capacity, through every
\* wrap-around: no access of the array is out of bounds.
RingTypeOK == /\ ring \in [0 .. Capacity - 1 -> Values]
          /\ size \in 0 .. Capacity
          /\ begin \in Nat /\ (Capacity > 0 => begin < Capacity)

\* The pointers in logical order.
Content == [i \in 1 .. size |-> ring[TransferIndex(i - 1)]]

\* The circular array behaves as the sequence that CentralCache's FetchBatch,
\* ReleaseBatch and DrainTransferCaches mean: LIFO at the hot end, and a drain
\* removes the coldest pointers without disturbing the order of the others.
Sequence == INSTANCE Deque WITH q <- Content
IsDeque == Sequence!Spec
=============================================================================
