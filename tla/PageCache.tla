----------------------------- MODULE PageCache -----------------------------
(***************************************************************************)
(* The page heap: PageCache with its one active PageCacheShard, the PageMap *)
(* leaves, the descriptor pool span_pool_, and the operating system below   *)
(* (src/src/page_cache.cpp).                                                *)
(*                                                                          *)
(* Every operation runs under the shard mutex.  The two that loop are       *)
(* modelled one iteration per step: `cs' is what the thread inside the      *)
(* mutex is doing, and cs.op = "free" says that the mutex is free.  What an *)
(* unlocked PageMap reader can see in the middle of a release is therefore  *)
(* a state of the model.  Which thread is inside does not matter to the     *)
(* heap, so clients are the set `held' of spans they own.                   *)
(*                                                                          *)
(* Data abstraction: a Span descriptor is a name; pages are small numbers;  *)
(* aligned_obj_size is a Boolean (zero or not); owner_shard_id is left out, *)
(* SelectShardForAlloc returning 0 whatever it is asked.                    *)
(***************************************************************************)
EXTENDS Integers, Sequences, Functions

CONSTANTS
    NumPages,       \* page numbers 0 .. NumPages-1 are what mmap may return
    MaxPageNum,     \* PageConfig::MAX_PAGE_NUM
    ReqSizes,       \* page counts that clients ask for
    NumDescriptors, \* bound on the Span descriptors span_pool_ can hold
    MaxTime         \* bound on the clock

ASSUME PageConstants ==
    /\ NumPages \in Nat \ {0}
    /\ MaxPageNum \in 1 .. NumPages
    /\ ReqSizes \subseteq 1 .. NumPages
    /\ NumDescriptors \in Nat
    /\ MaxTime \in Nat

VARIABLES
    span_lists,     \* page count -> sequence of free spans, head first
    span,           \* descriptor -> its fields
    live,           \* descriptors obtained from span_pool_ and not deleted
    page_map,       \* page -> descriptor its PageMap leaf points to
    mapped,         \* pages PageAllocator::SystemAlloc has given this heap
    held,           \* spans returned by AllocSpan and not yet released
    cs,             \* the critical section in progress
    clock           \* GetCurrentTimeMs(), which the heap only stores; the module
                    \* that reads the time stamps makes it advance

pcVars == <<span_lists, span, live, page_map, mapped, held, cs, clock>>

Descriptors == 1 .. NumDescriptors
NoSpan == 0     \* the null Span*
PageIds == 0 .. NumPages - 1
Buckets == 1 .. MaxPageNum

SpanRec == [start: 0 .. NumPages, num: 0 .. NumPages, used: BOOLEAN,
            committed: BOOLEAN, obj: BOOLEAN, last: 0 .. MaxTime]

\* The constructor Span(start, num): flags, sizes and time are zero.
MakeSpan(start, num) ==
    [start |-> start, num |-> num, used |-> FALSE, committed |-> FALSE,
     obj |-> FALSE, last |-> 0]

\* Contents of descriptor storage that is not a Span at the moment.
Blank == MakeSpan(0, 0)

PagesOf(s) == s.start .. s.start + s.num - 1

\* The storage span_pool_.TryNew hands out next.  Which free storage it is
\* makes no difference to the heap; taking the lowest reuses it at once.
Fresh == {d \in Descriptors \ live : \A e \in Descriptors \ live : d <= e}

Free == [op |-> "free", n |-> 0, d |-> NoSpan, retired |-> {}]
InAlloc(n) == [op |-> "alloc", n |-> n, d |-> NoSpan, retired |-> {}]
InRelease(op, d, retired) == [op |-> op, n |-> 0, d |-> d, retired |-> retired]

-----------------------------------------------------------------------------
(* PageMap leaves and the intrusive lists *)

GetSpan(p) == IF p \in PageIds THEN page_map[p] ELSE NoSpan

SetSpanEnds(m, d, s) ==
    [p \in PageIds |-> IF p \in {s.start, s.start + s.num - 1} THEN d ELSE m[p]]
SetSpan(m, d, s) == [p \in PageIds |-> IF p \in PagesOf(s) THEN d ELSE m[p]]

ClearRange(m, s) == [p \in PageIds |-> IF p \in PagesOf(s) THEN NoSpan ELSE m[p]]

PushFront(lists, k, d) == [lists EXCEPT ![k] = <<d>> \o @]

PopFront(lists, k) == [lists EXCEPT ![k] = Tail(@)]

\* The members of q that are in S, in order: what a walk along a list collects.
Keep(q, S) ==
    LET walk[i \in 0 .. Len(q)] == IF i = 0 THEN <<>>
                                   ELSE IF q[i] \in S THEN Append(walk[i - 1], q[i])
                                   ELSE walk[i - 1]
    IN  walk[Len(q)]

Erase(lists, k, d) == [lists EXCEPT ![k] = Keep(@, Descriptors \ {d})]

\* mmap picks any range of unmapped pages.
SystemRanges(n) == {s \in PageIds : s + n <= NumPages
                                    /\ (s .. s + n - 1) \cap mapped = {}}

-----------------------------------------------------------------------------
Init ==
    /\ span_lists = [k \in Buckets |-> <<>>]
    /\ span = [d \in Descriptors |-> Blank]
    /\ live = {}
    /\ page_map = [p \in PageIds |-> NoSpan]
    /\ mapped = {}
    /\ held = {}
    /\ cs = Free
    /\ clock = 0

-----------------------------------------------------------------------------
(* AllocSpan *)

\* Oversized request: straight from the OS, never in a bucket.
AllocOversized(n) ==
    /\ cs = Free /\ n > MaxPageNum
    /\ \E start \in SystemRanges(n), d \in Fresh :
         LET s == [MakeSpan(start, n) EXCEPT !.used = TRUE, !.committed = TRUE]
         IN  /\ mapped' = mapped \cup PagesOf(s)
             /\ span' = [span EXCEPT ![d] = s]
             /\ live' = live \cup {d}
             /\ page_map' = SetSpan(page_map, d, s)
             /\ held' = held \cup {d}
    /\ UNCHANGED <<span_lists, cs, clock>>

MapAndForget(n) ==
    \E start \in SystemRanges(n) : mapped' = mapped \cup (start .. start + n - 1)

\* A fresh mapping whose descriptor or radix path cannot be allocated goes
\* back to the OS: SystemAlloc, TryNew (or EnsureRange) fails, SystemFree.
MapAndUndo(n) ==
    \E start \in SystemRanges(n) :
        LET range == start .. start + n - 1
        IN  mapped' = (mapped \cup range) \ range

AllocOversizedFail(n) ==
    /\ cs = Free /\ n > MaxPageNum
    /\ UNCHANGED mapped \/ MapAndUndo(n)
    /\ UNCHANGED <<span_lists, span, live, page_map, held, cs, clock>>

\* Take the mutex for a request a bucket can hold.  A request for no page, or
\* for more pages than 32 bits can count, returns null at once and changes
\* nothing: it is a stuttering step.
AllocBegin(n) ==
    /\ cs = Free /\ n \in Buckets
    /\ cs' = InAlloc(n)
    /\ UNCHANGED <<span_lists, span, live, page_map, mapped, held, clock>>

AllocExact ==
    /\ cs.op = "alloc" /\ span_lists[cs.n] # <<>>
    /\ LET d == Head(span_lists[cs.n])
       IN  /\ span_lists' = PopFront(span_lists, cs.n)
           /\ span' = [span EXCEPT ![d].used = TRUE, ![d].committed = TRUE]
           /\ held' = held \cup {d}
    /\ cs' = Free
    /\ UNCHANGED <<live, page_map, mapped, clock>>

\* The first non-empty bucket above the request.
SplitFrom(i) ==
    /\ cs.op = "alloc" /\ span_lists[cs.n] = <<>>
    /\ i \in cs.n + 1 .. MaxPageNum /\ span_lists[i] # <<>>
    /\ \A k \in cs.n + 1 .. i - 1 : span_lists[k] = <<>>

\* What is left of span b when n pages are taken from its front.
Remainder(b, n) ==
    [b EXCEPT !.start = @ + n, !.num = @ - n, !.used = FALSE, !.committed = TRUE,
              !.last = clock]

\* Carve the request from the front of a larger span; the rest goes back.
AllocSplit ==
    \E i \in Buckets, d \in Fresh :
        /\ SplitFrom(i)
        /\ LET big   == Head(span_lists[i])
               small == [MakeSpan(span[big].start, cs.n)
                           EXCEPT !.used = TRUE, !.committed = TRUE]
               rest  == Remainder(span[big], cs.n)
           IN  /\ span' = [span EXCEPT ![d] = small, ![big] = rest]
               /\ live' = live \cup {d}
               /\ span_lists' = PushFront(PopFront(span_lists, i), rest.num, big)
               /\ page_map' = SetSpan(SetSpan(page_map, d, small), big, rest)
               /\ held' = held \cup {d}
        /\ cs' = Free
        /\ UNCHANGED <<mapped, clock>>

\* TryNew fails: the larger span returns to the head of its bucket.
AllocSplitFail ==
    /\ \E i \in Buckets :
         /\ SplitFrom(i)
         /\ span_lists' = PushFront(PopFront(span_lists, i), i, Head(span_lists[i]))
    /\ cs' = Free
    /\ UNCHANGED <<span, live, page_map, mapped, held, clock>>

NothingFits == cs.op = "alloc" /\ \A k \in cs.n .. MaxPageNum : span_lists[k] = <<>>

\* Map MAX_PAGE_NUM pages, put them in the last bucket and look again.
AllocRefill ==
    /\ NothingFits
    /\ \E start \in SystemRanges(MaxPageNum), d \in Fresh :
         LET s == [MakeSpan(start, MaxPageNum) EXCEPT !.committed = TRUE, !.last = clock]
         IN  /\ mapped' = mapped \cup PagesOf(s)
             /\ span' = [span EXCEPT ![d] = s]
             /\ live' = live \cup {d}
             /\ span_lists' = PushFront(span_lists, MaxPageNum, d)
             /\ page_map' = SetSpan(page_map, d, s)
    /\ UNCHANGED <<held, cs, clock>>

AllocRefillFail ==
    /\ NothingFits
    /\ UNCHANGED mapped \/ MapAndUndo(MaxPageNum)
    /\ cs' = Free
    /\ UNCHANGED <<span_lists, span, live, page_map, held, clock>>

-----------------------------------------------------------------------------
(* ReleaseSpan *)

ReleaseOversized(d) ==
    /\ cs = Free /\ d \in held /\ span[d].num > MaxPageNum
    /\ page_map' = ClearRange(page_map, span[d])
    /\ mapped' = mapped \ PagesOf(span[d])
    /\ live' = live \ {d}
    /\ span' = [span EXCEPT ![d] = Blank]
    /\ held' = held \ {d}
    /\ UNCHANGED <<span_lists, cs, clock>>

ReleaseBegin(d) ==
    /\ cs = Free /\ d \in held /\ span[d].num <= MaxPageNum
    /\ held' = held \ {d}
    /\ cs' = InRelease("left", d, {})
    /\ UNCHANGED <<span_lists, span, live, page_map, mapped, clock>>

AbsorbableUsed(nb) == nb # NoSpan /\ span[cs.d].num + span[nb].num <= MaxPageNum
AbsorbableAnySize(nb) == nb # NoSpan /\ ~span[nb].used

\* A neighbour the released span may absorb.
Absorbable(nb) ==
    /\ nb # NoSpan
    /\ ~span[nb].used
    /\ span[cs.d].num + span[nb].num <= MaxPageNum

LeftNeighbour  == GetSpan(span[cs.d].start - 1)
RightNeighbour == GetSpan(span[cs.d].start + span[cs.d].num)

AbsorbLeft ==
    /\ cs.op = "left" /\ span[cs.d].start # 0 /\ Absorbable(LeftNeighbour)
    /\ LET nb == LeftNeighbour
       IN  /\ span_lists' = Erase(span_lists, span[nb].num, nb)
           /\ span' = [span EXCEPT ![cs.d].start = span[nb].start,
                                   ![cs.d].num = @ + span[nb].num]
           /\ cs' = [cs EXCEPT !.retired = @ \cup {nb}]
    /\ UNCHANGED <<live, page_map, mapped, held, clock>>

LeftDone ==
    /\ cs.op = "left" /\ (span[cs.d].start = 0 \/ ~Absorbable(LeftNeighbour))
    /\ cs' = [cs EXCEPT !.op = "right"]
    /\ UNCHANGED <<span_lists, span, live, page_map, mapped, held, clock>>

AbsorbRight ==
    /\ cs.op = "right" /\ Absorbable(RightNeighbour)
    /\ LET nb == RightNeighbour
       IN  /\ span_lists' = Erase(span_lists, span[nb].num, nb)
           /\ span' = [span EXCEPT ![cs.d].num = @ + span[nb].num]
           /\ cs' = [cs EXCEPT !.retired = @ \cup {nb}]
    /\ UNCHANGED <<live, page_map, mapped, held, clock>>

\* The fields of a span that goes back to a bucket.
Freed(s) == [s EXCEPT !.used = FALSE, !.committed = TRUE, !.obj = FALSE, !.last = clock]

\* The right loop ends: reset the fields, point every leaf at the survivor,
\* delete the absorbed descriptors, push the survivor, unlock.
ReleaseFinish ==
    /\ cs.op = "right" /\ ~Absorbable(RightNeighbour)
    /\ LET s == Freed(span[cs.d])
       IN  /\ page_map' = SetSpan(page_map, cs.d, s)
           /\ live' = live \ cs.retired
           /\ span' = [d \in Descriptors |-> IF d = cs.d THEN s
                                             ELSE IF d \in cs.retired THEN Blank
                                             ELSE span[d]]
           /\ span_lists' = PushFront(span_lists, s.num, cs.d)
    /\ cs' = Free
    /\ UNCHANGED <<mapped, held, clock>>

-----------------------------------------------------------------------------
(* What the owner of a span does with it *)

\* CentralCache carves the span into objects (Span::Init sets aligned_obj_size).
InitObjects(d) ==
    /\ d \in held /\ ~span[d].obj /\ span[d].num <= MaxPageNum
    /\ span' = [span EXCEPT ![d].obj = TRUE]
    /\ UNCHANGED <<span_lists, live, page_map, mapped, held, cs, clock>>

Alloc == \/ \E n \in ReqSizes : AllocOversized(n) \/ AllocOversizedFail(n) \/ AllocBegin(n)
         \/ AllocExact \/ AllocSplit \/ AllocSplitFail \/ AllocRefill \/ AllocRefillFail

Release == \/ \E d \in held : ReleaseOversized(d) \/ ReleaseBegin(d)
           \/ AbsorbLeft \/ LeftDone \/ AbsorbRight \/ ReleaseFinish

Use == \E d \in held : InitObjects(d)

\* Reset, whose contract is that every user and borrower is quiescent: unmap
\* the free spans, drop their descriptors, clear the PageMap.
Reset ==
    /\ cs = Free /\ held = {}
    /\ LET listed == UNION {Range(span_lists[k]) : k \in Buckets}
           pages  == UNION {PagesOf(span[d]) : d \in listed}
       IN  /\ mapped' = mapped \ pages
           /\ live' = live \ listed
           /\ span' = [d \in Descriptors |-> IF d \in listed THEN Blank ELSE span[d]]
    /\ span_lists' = [k \in Buckets |-> <<>>]
    /\ page_map' = [p \in PageIds |-> NoSpan]
    /\ UNCHANGED <<held, cs, clock>>

Next == Alloc \/ Release \/ Use \/ Reset

Spec == Init /\ [][Next]_pcVars

-----------------------------------------------------------------------------
(* Properties *)

\* The variables have their types: descriptors, pages and buckets stay in range.
TypeOK ==
    /\ span_lists \in [Buckets -> Seq(Descriptors)]
    /\ span \in [Descriptors -> SpanRec]
    /\ live \subseteq Descriptors
    /\ page_map \in [PageIds -> Descriptors \cup {NoSpan}]
    /\ mapped \subseteq PageIds
    /\ held \subseteq Descriptors
    /\ cs \in [op: {"free", "alloc", "left", "right"}, n: 0 .. MaxPageNum,
               d: Descriptors \cup {NoSpan}, retired: SUBSET Descriptors]
    /\ clock \in 0 .. MaxTime

\* Spans that own their pages: all but the ones a release has absorbed.
Owners == live \ cs.retired

\* What PageMap::GetSpan answers is right at every moment, also in the middle
\* of a release: a leaf is set exactly for the pages of live spans, points to
\* a descriptor that has not been deleted, and, outside the range a release
\* is coalescing, points to the one span that contains the page.  In
\* particular the owner of a span always finds it (am_free's lookup), and no
\* two spans share a page.
MapExact ==
    /\ TypeOK
    /\ \A p \in PageIds :
         IF page_map[p] = NoSpan THEN \A d \in Owners : p \notin PagesOf(span[d])
         ELSE /\ page_map[p] \in live
              /\ p \in PagesOf(span[page_map[p]])
              /\ \A d \in Owners : p \in PagesOf(span[d])
                     => d = page_map[p] \/ (d = cs.d /\ page_map[p] \in cs.retired)

\* Bucket k of span_lists_ holds, once each, exactly the unused spans of k
\* pages that no release has absorbed: a free span is never lost, listed twice
\* or listed under a stale page count, and none outgrows the buckets.
BucketsExact ==
    /\ \A k \in Buckets :
         /\ IsInjective(span_lists[k])
         /\ Range(span_lists[k]) = {d \in Owners : ~span[d].used /\ span[d].num = k}
    /\ \A d \in Owners : span[d].used \/ span[d].num \in Buckets

\* Every page obtained from the OS belongs to exactly the spans that are alive:
\* no failure path of AllocSpan leaks a mapping and no release unmaps a page
\* that another span still covers.
NoPageLost == mapped = UNION {PagesOf(span[d]) : d \in Owners}

\* The page heap hands out disjoint runs of pages and leaves a run alone until
\* its owner returns it, whatever splitting and coalescing happen around it:
\* PageCache implements RangeAllocator.
Ranges == INSTANCE RangeAllocator
            WITH Pages <- PageIds, Sizes <- ReqSizes,
                 runs <- {<<span[d].start, span[d].num>> : d \in held}
HandsOutRanges == Ranges!Spec
=============================================================================
