---------------------------- MODULE CentralCache ----------------------------
(***************************************************************************)
(* One size-class bucket of CentralCache (src/src/central_cache.cpp): the   *)
(* TransferCache under its spin lock, the SpanList under its mutex, and     *)
(* threads running FetchBatch, ReleaseBatch and DrainTransferCaches.        *)
(*                                                                          *)
(* A section under the spin lock is one step.  Sections under the SpanList  *)
(* mutex go one object, rotation or free at a time with `lock' naming the   *)
(* holder, because other threads use the TransferCache meanwhile.  PageCache *)
(* is the set of spans it can still lend (external here; module PageCache   *)
(* is the real one).  An object is <<span, slot>>; PageMap::GetSpan of an   *)
(* object is its first component.  transfer_cache is the logical sequence,  *)
(* cold end first; module TransferRing is the circular array behind it.     *)
(***************************************************************************)
EXTENDS SpanObjects, Sequences, Functions

CONSTANTS
    Threads,
    NoThread,
    NumSpans,       \* how many spans PageCache can lend to this bucket
    Capacity,       \* objects per span
    kMaxBatchSize,  \* bound of one batch
    TransferCap     \* transfer_cache_capacity when the backing was allocated

ASSUME CentralConstants ==
    /\ NoThread \notin Threads
    /\ {NumSpans, Capacity, kMaxBatchSize} \subseteq Nat \ {0}
    /\ TransferCap \in Nat

VARIABLES
    span_list,          \* sequence of spans, front first
    sp,                 \* span -> its object fields
    lent,               \* spans PageCache has handed to this bucket
    lock,               \* holder of span_list_lock
    transfer_cache,     \* sequence of objects
    transfer_capacity,  \* transfer_cache_capacity
    cache,              \* thread -> objects its callers own
    loc                 \* thread -> where it is and its local variables

vars == <<span_list, sp, lent, lock, transfer_cache, transfer_capacity, cache, loc>>

Spans == 1 .. NumSpans
Objects == Spans \X (0 .. Capacity - 1)

\* fetch_num; objects fetched so far; objects carved in this call; scratch_ptrs
\* of prefetched objects; objects still to release and the current chunk of
\* them; release mode; emptied spans; the span GetOneSpan got; what is left of
\* the drain snapshot (0 outside a drain).
Idle == [pc |-> "idle", n |-> 0, fetched |-> {}, extracted |-> 0, need |-> 0,
         scratch |-> <<>>, rest |-> <<>>, chunk |-> <<>>, mode |-> "transfer",
         empty |-> <<>>, span |-> 0, drain |-> 0]

Init ==
    /\ span_list = <<>> /\ lent = {} /\ lock = NoThread
    /\ sp = [s \in Spans |-> InitSpan(Capacity)]
    /\ transfer_cache = <<>>
    /\ transfer_capacity \in {0, TransferCap}       \* TryInitTransferCache
    /\ cache = [t \in Threads |-> {}]
    /\ loc = [t \in Threads |-> Idle]

At(t, pc) == loc[t].pc = pc
Shorter(m, n) == IF m < n THEN m ELSE n

\* Sequences the threads build: backwards, one place less; and the orders
\* in which a set of objects can be linked.
Reversed(seq) == [i \in 1 .. Len(seq) |-> seq[(Len(seq) - i) + 1]]
Orders(S) == {f \in [1 .. Cardinality(S) -> S] : IsInjective(f)}
Without(seq, i) == SubSeq(seq, 1, i - 1) \o SubSeq(seq, i + 1, Len(seq))

\* The front span goes behind the others.
Rotate(list) == Append(Tail(list), Head(list))

-----------------------------------------------------------------------------
(* FetchBatch *)

\* Probe the TransferCache: pop from the hot end.
FetchBatch(t) ==
    /\ At(t, "idle")
    /\ \E n \in 1 .. kMaxBatchSize :
         LET k   == Shorter(n, Len(transfer_cache))
             cut == Len(transfer_cache) - k
             got == Range(SubSeq(transfer_cache, cut + 1, Len(transfer_cache)))
         IN  /\ transfer_cache' = SubSeq(transfer_cache, 1, cut)
             /\ IF k = n
                THEN cache' = [cache EXCEPT ![t] = @ \cup got] /\ UNCHANGED loc
                ELSE /\ loc' = [loc EXCEPT ![t] = [Idle EXCEPT !.pc = "lock", !.n = n,
                                                    !.fetched = got, !.need = n - k]]
                     /\ UNCHANGED cache
    /\ UNCHANGED <<span_list, sp, lent, lock, transfer_capacity>>

FetchLock(t) ==
    /\ At(t, "lock") /\ lock = NoThread
    /\ lock' = t
    /\ loc' = [loc EXCEPT ![t].pc = "outer"]
    /\ UNCHANGED <<span_list, sp, lent, transfer_cache, transfer_capacity, cache>>

ExtractTarget(t) == loc[t].need + loc[t].n

HeadFull == span_list # <<>> /\ IsFull(sp[Head(span_list)])

\* Loop heads of the outer while: go on carving, or drop the lock, either for
\* GetOneSpan or because the target is met.
OuterCarve(t) ==
    /\ At(t, "outer") /\ loc[t].extracted < ExtractTarget(t)
    /\ span_list # <<>> /\ ~HeadFull
    /\ loc' = [loc EXCEPT ![t].pc = "inner"]
    /\ UNCHANGED <<span_list, sp, lent, lock, transfer_cache, transfer_capacity, cache>>

OuterUnlock(t) ==
    /\ At(t, "outer")
    /\ \/ loc[t].extracted = ExtractTarget(t) /\ loc' = [loc EXCEPT ![t].pc = "publish"]
       \/ /\ loc[t].extracted < ExtractTarget(t) /\ (span_list = <<>> \/ HeadFull)
          /\ loc' = [loc EXCEPT ![t].pc = "getspan"]
    /\ lock' = NoThread
    /\ UNCHANGED <<span_list, sp, lent, transfer_cache, transfer_capacity, cache>>

\* GetOneSpan outside the lock: PageCache lends a span, which is initialised
\* before anyone can see it, or it has none (out of memory).
GetOneSpan(t) ==
    /\ At(t, "getspan")
    /\ \/ \E s \in Spans \ lent :
            /\ \A r \in Spans \ lent : s <= r       \* which one does not matter
            /\ lent' = lent \cup {s}
            /\ sp' = [sp EXCEPT ![s] = InitSpan(Capacity)]
            /\ loc' = [loc EXCEPT ![t].span = s, ![t].pc = "install"]
       \/ /\ loc' = [loc EXCEPT ![t].pc = "nospan"]
          /\ UNCHANGED <<lent, sp>>
    /\ UNCHANGED <<span_list, lock, transfer_cache, transfer_capacity, cache>>

InstallSpan(t) ==
    /\ At(t, "install") /\ lock = NoThread
    /\ lock' = t
    /\ span_list' = <<loc[t].span>> \o span_list
    /\ loc' = [loc EXCEPT ![t].span = 0, ![t].pc = "inner"]
    /\ UNCHANGED <<sp, lent, transfer_cache, transfer_capacity, cache>>

\* No span: lock again, leave the loop, unlock.
FetchGiveUp(t) ==
    /\ At(t, "nospan") /\ lock = NoThread
    /\ loc' = [loc EXCEPT ![t].pc = "publish"]
    /\ UNCHANGED <<span_list, sp, lent, lock, transfer_cache, transfer_capacity, cache>>

\* One AllocObject on the front span.  The first `need' objects are the
\* caller's, the others are prefetched for the TransferCache.
InnerAlloc(t) ==
    LET s == Head(span_list)
        x == AllocSlot(sp[s])
        l == loc[t]
    IN  /\ At(t, "inner") /\ l.extracted < ExtractTarget(t) /\ x # NoSlot
        /\ sp' = [sp EXCEPT ![s] = AllocObject(@, x)]
        /\ loc' = [loc EXCEPT ![t] =
              IF l.extracted < l.need
              THEN [l EXCEPT !.extracted = @ + 1, !.fetched = @ \cup {<<s, x>>}]
              ELSE [l EXCEPT !.extracted = @ + 1, !.scratch = Append(@, <<s, x>>)]]
        /\ UNCHANGED <<span_list, lent, lock, transfer_cache, transfer_capacity, cache>>

\* AllocObject returned null: rotate the exhausted span away.
InnerNull(t) ==
    /\ At(t, "inner") /\ loc[t].extracted < ExtractTarget(t)
    /\ AllocSlot(sp[Head(span_list)]) = NoSlot
    /\ span_list' = Rotate(span_list)
    /\ loc' = [loc EXCEPT ![t].pc = "after"]
    /\ UNCHANGED <<sp, lent, lock, transfer_cache, transfer_capacity, cache>>

InnerDone(t) ==
    /\ At(t, "inner") /\ loc[t].extracted = ExtractTarget(t)
    /\ loc' = [loc EXCEPT ![t].pc = "after"]
    /\ UNCHANGED <<span_list, sp, lent, lock, transfer_cache, transfer_capacity, cache>>

\* After the inner loop: a front span that is full is rotated too.
AfterInner(t) ==
    /\ At(t, "after")
    /\ span_list' = IF HeadFull THEN Rotate(span_list) ELSE span_list
    /\ loc' = [loc EXCEPT ![t].pc = "outer"]
    /\ UNCHANGED <<sp, lent, lock, transfer_cache, transfer_capacity, cache>>

\* Append as many of objs to the TransferCache as fit.
Room == transfer_capacity - Len(transfer_cache)
NotPushedButOne(objs) == SubSeq(objs, Shorter(Room, Len(objs)) + 2, Len(objs))
Pushed(objs) == SubSeq(objs, 1, Shorter(Room, Len(objs)))
NotPushed(objs) == SubSeq(objs, Shorter(Room, Len(objs)) + 1, Len(objs))

\* Publish the prefetched objects; what the TransferCache, filled by others in
\* the meantime, has no room for goes through ReleaseBatch.  The batch is the
\* caller's.
PublishPrefetch(t) ==
    /\ At(t, "publish")
    /\ transfer_cache' = transfer_cache \o Pushed(loc[t].scratch)
    /\ cache' = [cache EXCEPT ![t] = @ \cup loc[t].fetched]
    /\ LET left == NotPushed(loc[t].scratch)
       IN  loc' = [loc EXCEPT ![t] = IF left = <<>> THEN Idle
                                     ELSE [Idle EXCEPT !.pc = "chunk", !.rest = Reversed(left)]]
    /\ UNCHANGED <<span_list, sp, lent, lock, transfer_capacity>>

-----------------------------------------------------------------------------
(* ReleaseBatch *)

\* A caller hands back some of its objects.
ReleaseBatch(t) ==
    /\ At(t, "idle")
    /\ \E objs \in SUBSET cache[t] \ {{}}, mode \in {"transfer", "bitmap"} :
         /\ cache' = [cache EXCEPT ![t] = @ \ objs]
         /\ \E batch \in Orders(objs) :
              loc' = [loc EXCEPT ![t] = [Idle EXCEPT !.pc = "chunk", !.mode = mode,
                                                        !.rest = batch]]
    /\ UNCHANGED <<span_list, sp, lent, lock, transfer_cache, transfer_capacity>>

\* The application frees an object in another thread than the one that
\* allocated it: the object is in that thread's ThreadCache from then on.
HandOver(t, u) ==
    /\ t # u
    /\ \E o \in cache[t] : cache' = [cache EXCEPT ![t] = @ \ {o}, ![u] = @ \cup {o}]
    /\ UNCHANGED <<span_list, sp, lent, lock, transfer_cache, transfer_capacity, loc>>

\* What follows a finished chunk: the next one, the drain loop, or return.
AfterChunk(l) ==
    IF l.rest # <<>> THEN [l EXCEPT !.pc = "chunk"]
    ELSE IF l.drain > 0 THEN [l EXCEPT !.pc = "drain"]
    ELSE Idle

\* The next chunk of at most kMaxBatchSize objects, first offered to the
\* TransferCache unless the mode is kSpanBitmap.
ReleaseChunk(t) ==
    LET l     == loc[t]
        k     == Shorter(Len(l.rest), kMaxBatchSize)
        local == SubSeq(l.rest, 1, k)
        left  == IF l.mode = "transfer" THEN NotPushed(local) ELSE local
        m     == [l EXCEPT !.rest = SubSeq(@, k + 1, Len(@))]
    IN  /\ At(t, "chunk")
        /\ transfer_cache' = IF l.mode = "transfer" THEN transfer_cache \o Pushed(local)
                             ELSE transfer_cache
        /\ loc' = [loc EXCEPT ![t] = IF left = <<>> THEN AfterChunk(m)
                                     ELSE [m EXCEPT !.chunk = left, !.pc = "rellock"]]
        /\ UNCHANGED <<span_list, sp, lent, lock, transfer_capacity, cache>>

ReleaseLock(t) ==
    /\ At(t, "rellock") /\ lock = NoThread
    /\ lock' = t
    /\ loc' = [loc EXCEPT ![t].pc = "free"]
    /\ UNCHANGED <<span_list, sp, lent, transfer_cache, transfer_capacity, cache>>

\* The list without span s.
Erased(s) == IF s \in Range(span_list)
             THEN Without(span_list, CHOOSE i \in DOMAIN span_list : span_list[i] = s)
             ELSE span_list

RelistKeepsEmpty(s, next) ==
    IF next.use_count = next.capacity - 1 THEN <<s>> \o Erased(s) ELSE span_list
RelistInPlace(s, next) ==
    IF next.use_count = 0 THEN Erased(s) ELSE span_list

\* The list after a free: an empty span leaves it, a span that just stopped
\* being full goes to the front.
Relist(s, next) ==
    IF next.use_count = 0 THEN Erased(s)
    ELSE IF next.use_count = next.capacity - 1 THEN <<s>> \o Erased(s)
    ELSE span_list

\* One object back to its bitmap.
FreeToSpan(t) ==
    LET s    == Head(loc[t].chunk)[1]
        next == FreeObject(sp[s], Head(loc[t].chunk)[2])
    IN  /\ At(t, "free") /\ loc[t].chunk # <<>>
        /\ sp' = [sp EXCEPT ![s] = next]
        /\ span_list' = Relist(s, next)
        /\ loc' = [loc EXCEPT ![t].chunk = Tail(@),
                              ![t].empty = IF next.use_count = 0 THEN <<s>> \o @ ELSE @]
        /\ UNCHANGED <<lent, lock, transfer_cache, transfer_capacity, cache>>

ReleaseUnlock(t) ==
    /\ At(t, "free") /\ loc[t].chunk = <<>>
    /\ lock' = NoThread
    /\ loc' = [loc EXCEPT ![t].pc = "return"]
    /\ UNCHANGED <<span_list, sp, lent, transfer_cache, transfer_capacity, cache>>

\* PageCache::ReleaseSpan for each emptied span, without the bucket lock.
ReturnSpan(t) ==
    /\ At(t, "return") /\ loc[t].empty # <<>>
    /\ lent' = lent \ {Head(loc[t].empty)}
    /\ loc' = [loc EXCEPT ![t].empty = Tail(@)]
    /\ UNCHANGED <<span_list, sp, lock, transfer_cache, transfer_capacity, cache>>

ReleaseDone(t) ==
    /\ At(t, "return") /\ loc[t].empty = <<>>
    /\ loc' = [loc EXCEPT ![t] = AfterChunk(loc[t])]
    /\ UNCHANGED <<span_list, sp, lent, lock, transfer_cache, transfer_capacity, cache>>

-----------------------------------------------------------------------------
(* DrainTransferCaches and Reset *)

\* Snapshot how much to drain; max_bytes allows any number of objects.
DrainTransferCaches(t) ==
    /\ At(t, "idle") /\ transfer_cache # <<>>
    /\ \E k \in 1 .. Len(transfer_cache) :
         loc' = [loc EXCEPT ![t] = [Idle EXCEPT !.pc = "drain", !.mode = "bitmap", !.drain = k]]
    /\ UNCHANGED <<span_list, sp, lent, lock, transfer_cache, transfer_capacity, cache>>

\* What is left of the snapshot after k objects.
DrainLeftForever(drain, k) == drain
DrainLeft(drain, k) == drain - k

\* Detach one batch from the cold end and release it to the bitmaps.
DrainDetach(t) ==
    LET l == loc[t]
        k == Shorter(Shorter(kMaxBatchSize, l.drain), Len(transfer_cache))
    IN  /\ At(t, "drain")
        /\ transfer_cache' = SubSeq(transfer_cache, k + 1, Len(transfer_cache))
        /\ loc' = [loc EXCEPT ![t] = IF k = 0 THEN Idle
                     ELSE [l EXCEPT !.pc = "chunk", !.drain = DrainLeft(@, k),
                                    !.rest = Reversed(SubSeq(transfer_cache, 1, k))]]
        /\ UNCHANGED <<span_list, sp, lent, lock, transfer_capacity, cache>>

\* Reset, whose contract is quiescence with every ThreadCache drained: free
\* the TransferCache, give every span back, allocate the backing again.
Reset ==
    /\ \A t \in Threads : At(t, "idle") /\ cache[t] = {}
    /\ transfer_cache' = <<>> /\ span_list' = <<>>
    /\ sp' = [s \in Spans |-> InitSpan(Capacity)]
    /\ lent' = lent \ Range(span_list)
    /\ transfer_capacity' \in {0, TransferCap}
    /\ UNCHANGED <<lock, cache, loc>>

Fetch(t) == \/ FetchLock(t) \/ OuterCarve(t) \/ OuterUnlock(t) \/ GetOneSpan(t)
            \/ InstallSpan(t) \/ FetchGiveUp(t) \/ InnerAlloc(t) \/ InnerNull(t)
            \/ InnerDone(t) \/ AfterInner(t) \/ PublishPrefetch(t)

Release(t) == \/ ReleaseChunk(t) \/ ReleaseLock(t) \/ FreeToSpan(t) \/ ReleaseUnlock(t)
              \/ ReturnSpan(t) \/ ReleaseDone(t)

Next == \/ \E t \in Threads : \/ FetchBatch(t) \/ Fetch(t) \/ ReleaseBatch(t) \/ Release(t)
                              \/ DrainTransferCaches(t) \/ DrainDetach(t)
        \/ \E t, u \in Threads : HandOver(t, u)
        \/ Reset

Spec == Init /\ [][Next]_vars

\* Every thread inside a call keeps running, and a thread that waits for the
\* SpanList mutex again and again gets it at last.
Fairness ==
    \A t \in Threads :
        /\ WF_vars(Fetch(t) \/ Release(t) \/ DrainDetach(t))
        /\ SF_vars(FetchLock(t)) /\ SF_vars(InstallSpan(t))
        /\ SF_vars(FetchGiveUp(t)) /\ SF_vars(ReleaseLock(t))

LiveSpec == Spec /\ Fairness

-----------------------------------------------------------------------------
(* Properties *)

\* The variables have their types: the TransferCache stays within its capacity.
TypeOK ==
    /\ span_list \in Seq(Spans) /\ lent \subseteq Spans
    /\ \A s \in Spans : sp[s].bitmap \subseteq Slots(sp[s]) /\ sp[s].use_count \in 0 .. Capacity
    /\ lock \in Threads \cup {NoThread}
    /\ transfer_cache \in Seq(Objects) /\ transfer_capacity \in {0, TransferCap}
    /\ Len(transfer_cache) <= transfer_capacity
    /\ cache \in [Threads -> SUBSET Objects]

Hand(t) == loc[t].fetched \cup Range(loc[t].scratch)
           \cup Range(loc[t].rest) \cup Range(loc[t].chunk)
Held(t) == cache[t] \cup Hand(t)

\* Objects that are not in a bitmap, and those of one span.
Out == Range(transfer_cache) \cup UNION {Held(t) : t \in Threads}
OutOf(s) == {o \in Out : o[1] = s}

\* A thread has every object it holds once.
HeldOnce(t) ==
    LET l == loc[t]
    IN  /\ IsInjective(l.scratch) /\ IsInjective(l.rest) /\ IsInjective(l.chunk)
        /\ l.fetched \cap Range(l.scratch) = {} /\ Range(l.rest) \cap Range(l.chunk) = {}
        /\ (l.fetched \cup Range(l.scratch)) \cap (Range(l.rest) \cup Range(l.chunk)) = {}
        /\ cache[t] \cap Hand(t) = {}

\* No object is lost or duplicated while it moves between bitmap, TransferCache
\* and threads: each object of a borrowed span is free in the bitmap or in
\* exactly one other place, and use_count counts the latter.  Hence a span with
\* use_count zero, which goes back to PageCache, has no object anywhere.
ObjectsConserved ==
    /\ TypeOK
    /\ IsInjective(transfer_cache)
    /\ \A t \in Threads :
         /\ HeldOnce(t) /\ Range(transfer_cache) \cap Held(t) = {}
         /\ \A u \in Threads \ {t} : Held(t) \cap Held(u) = {}
    /\ \A s \in Spans :
         IF s \in lent THEN /\ {o[2] : o \in OutOf(s)} = Slots(sp[s]) \ sp[s].bitmap
                            /\ sp[s].use_count = Cardinality(OutOf(s))
                       ELSE OutOf(s) = {}

\* Every borrowed span is at one place: listed once, on its way into the list,
\* or emptied and on its way back to PageCache.
SpansConserved ==
    LET incoming(t) == {loc[t].span} \ {0}
        moving == UNION {incoming(t) \cup Range(loc[t].empty) : t \in Threads}
    IN  /\ lent = Range(span_list) \cup moving
        /\ Range(span_list) \cap moving = {} /\ IsInjective(span_list)
        /\ \A t \in Threads : \A s \in Range(loc[t].empty) : sp[s].use_count = 0

\* Whenever the mutex is free the list holds partial spans before full ones and
\* no empty span, so the front span alone tells whether any span has room and
\* no idle span stays pinned.
ListOrdered ==
    lock = NoThread =>
        /\ \A i, j \in DOMAIN span_list :
             i < j /\ IsFull(sp[span_list[i]]) => IsFull(sp[span_list[j]])
        /\ \A s \in Range(span_list) : sp[s].use_count > 0

\* Every FetchBatch, ReleaseBatch and drain returns, also while other threads
\* keep filling the TransferCache (the drain works on a snapshot).
CallsReturn == \A t \in Threads : ~At(t, "idle") ~> At(t, "idle")
=============================================================================
