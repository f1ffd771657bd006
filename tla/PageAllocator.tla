---------------------------- MODULE PageAllocator ----------------------------
(***************************************************************************)
(* SystemAlloc and SystemFree over mmap, munmap and madvise calls that may  *)
(* fail (src/src/page_allocator.cpp).                                       *)
(*                                                                          *)
(* Each system call is a step; threads interleave between them.  Addresses  *)
(* are page numbers and a run of pages is a pair <<first, count>>.  The     *)
(* cache of 2 MiB mappings is the abstract pool that HugePageCache.tla      *)
(* shows it to implement.  Telemetry and the THP and populate hints change  *)
(* nothing here and are left out, as are the tests that refuse page counts  *)
(* whose size in bytes would wrap.                                          *)
(***************************************************************************)
EXTENDS Integers, FiniteSets, Sequences

CONSTANTS
    Threads,
    NumPages,       \* page numbers the OS may map
    HugePages,      \* HUGE_PAGE_SIZE in pages
    HugeThreshold,  \* HUGE_PAGE_SIZE >> 1 in pages: smaller requests get normal pages
    ReqPages,       \* page counts asked for
    kMaxRetries,    \* PageConfig::MAX_ALLOC_RETRIES
    kCapacity,      \* HUGE_PAGE_CACHE_SIZE
    MaxRefused      \* bound on the pages that failed munmaps leave behind

ASSUME AllocatorAssumption ==
    /\ NumPages \in Nat /\ HugePages \in Nat \ {0} /\ HugeThreshold \in 1 .. HugePages
    /\ ReqPages \subseteq Nat \ {0}
    /\ kMaxRetries \in Nat \ {0} /\ kCapacity \in Nat /\ MaxRefused \in Nat

VARIABLES
    mapped,     \* pages mapped by this process
    dirty,      \* those that hold something else than zeros
    cache,      \* first pages of the 2 MiB mappings in the HugePageCache
    owned,      \* runs that callers hold
    refused,    \* pages that a failed munmap has left behind
    loc         \* what each thread is doing

vars == <<mapped, dirty, cache, owned, refused, loc>>

PageIds == 0 .. NumPages - 1
RunPages(r) == r[1] .. r[1] + r[2] - 1
NoRun == <<0, 0>>                           \* the null pointer
IsHugePageAligned(p) == p % HugePages = 0

Idle == [pc |-> "idle"]
\* AllocWithRetry of n pages, or of n + HugePages in stage "over".
Mapping(stage, n) == [pc |-> "mmap", stage |-> stage, n |-> n, tries |-> 0]
\* The over-allocated mapping at `raw': its head and its tail are to go.
Trimming(pc, raw, n) == [pc |-> pc, raw |-> raw, n |-> n]
\* munmap of the runs of `pieces' one after the other, then on to `next'.
Dropping(pieces, next) == [pc |-> "munmap", pieces |-> pieces, next |-> next]
Discarding(r) == [pc |-> "madvise", run |-> r]
Putting(r) == [pc |-> "put", run |-> r]
Returned(r) == [pc |-> "returned", run |-> r]

At(t, pc) == loc[t].pc = pc
Goto(t, l) == loc' = [loc EXCEPT ![t] = l]

Init ==
    /\ mapped = {} /\ dirty = {} /\ cache = {} /\ owned = {} /\ refused = {}
    /\ loc = [t \in Threads |-> Idle]

-----------------------------------------------------------------------------
(* The calls *)

\* Where SystemAlloc starts; a 2 MiB request asks the cache first.
SystemAlloc(t, n) ==
    /\ IF n = HugePages /\ cache # {}
       THEN \E p \in cache : cache' = cache \ {p} /\ Goto(t, Returned(<<p, n>>))
       ELSE /\ Goto(t, Mapping(IF n < HugeThreshold THEN "normal" ELSE "exact", n))
            /\ UNCHANGED cache
    /\ UNCHANGED <<mapped, dirty, owned, refused>>

\* Where SystemFree starts; an aligned 2 MiB mapping may be cached.
FreeStart(r) ==
    IF r[2] = HugePages /\ IsHugePageAligned(r[1])
    THEN Discarding(r) ELSE Dropping(<<r>>, Idle)

Call(t) == At(t, "idle") /\ \E n \in ReqPages : SystemAlloc(t, n)

\* The caller has its result and writes to it.
Take(t) ==
    /\ At(t, "returned")
    /\ LET r == loc[t].run
       IN  /\ owned' = IF r = NoRun THEN owned ELSE owned \cup {r}
           /\ dirty' = dirty \cup RunPages(r)
    /\ Goto(t, Idle)
    /\ UNCHANGED <<mapped, cache, refused>>

Free(t) ==
    /\ At(t, "idle")
    /\ \E r \in owned : owned' = owned \ {r} /\ Goto(t, FreeStart(r))
    /\ UNCHANGED <<mapped, dirty, cache, refused>>

-----------------------------------------------------------------------------
(* AllocWithRetry, and what its callers do with the answer *)

\* First page at or after p that starts a huge page.
AlignedAt(p) == ((p + HugePages - 1) \div HugePages) * HugePages
HeadRun(raw) == <<raw, AlignedAt(raw) - raw>>
BodyRun(raw, n) == <<AlignedAt(raw), n>>
TailRun(raw, n) == <<AlignedAt(raw) + n, HugePages - (AlignedAt(raw) - raw)>>

\* AllocHugePage gives up: SystemAlloc falls back to normal pages.
HugeFailed(n) == Mapping("normal", n)

Length(l) == IF l.stage = "over" THEN l.n + HugePages ELSE l.n

\* AllocHugePage: an aligned mapping is taken, another one is dropped first.
AfterExact(p, n) ==
    IF IsHugePageAligned(p) THEN Returned(<<p, n>>)
    ELSE Dropping(<<<<p, n>>>>, Mapping("over", n))

Mmap(t) ==
    LET l == loc[t]
    IN  /\ At(t, "mmap")
        /\ \E p \in PageIds :
             LET r == <<p, Length(l)>>
             IN  /\ RunPages(r) \subseteq PageIds \ mapped
                 /\ mapped' = mapped \cup RunPages(r)
                 /\ Goto(t, CASE l.stage = "normal" -> Returned(r)
                              [] l.stage = "exact" -> AfterExact(p, l.n)
                              [] l.stage = "over" -> Trimming("head", p, l.n))
        /\ UNCHANGED <<dirty, cache, owned, refused>>

GiveUp(l) == IF l.stage = "normal" THEN Returned(NoRun) ELSE HugeFailed(l.n)

RetryForever(l) == [l EXCEPT !.tries = (@ + 1) % kMaxRetries]

\* ENOMEM is tried again a few times, ...
Retry(l) == IF l.tries + 1 < kMaxRetries THEN [l EXCEPT !.tries = @ + 1] ELSE GiveUp(l)

MmapEnomem(t) ==
    /\ At(t, "mmap")
    /\ Goto(t, Retry(loc[t]))
    /\ UNCHANGED <<mapped, dirty, cache, owned, refused>>

\* ... any other error is not.
MmapError(t) ==
    /\ At(t, "mmap")
    /\ Goto(t, GiveUp(loc[t]))
    /\ UNCHANGED <<mapped, dirty, cache, owned, refused>>

-----------------------------------------------------------------------------
(* munmap *)

\* SafeMunmap of run r, with its result.
SafeMunmap(r, ok) ==
    IF ok THEN /\ mapped' = mapped \ RunPages(r) /\ dirty' = dirty \ RunPages(r)
               /\ UNCHANGED refused
    ELSE /\ refused' = refused \cup RunPages(r) /\ UNCHANGED <<mapped, dirty>>
         /\ Cardinality(refused') <= MaxRefused

\* One munmap of a cleanup, of a misaligned mapping or of SystemFree.
Drop(t) ==
    LET rest == Tail(loc[t].pieces)
    IN  /\ At(t, "munmap")
        /\ \E ok \in BOOLEAN : SafeMunmap(loc[t].pieces[1], ok)
        /\ Goto(t, IF rest = <<>> THEN loc[t].next ELSE Dropping(rest, loc[t].next))
        /\ UNCHANGED <<cache, owned>>

CleanupBodyOnly(raw, n) == Dropping(<<BodyRun(raw, n)>>, HugeFailed(n))

\* cleanup_remaining_mappings after the head could not be unmapped.
CleanupAfterHead(raw, n) == Dropping(<<BodyRun(raw, n), TailRun(raw, n)>>, HugeFailed(n))

TrimHead(t) ==
    LET l == loc[t]
    IN  /\ At(t, "head")
        /\ \/ /\ HeadRun(l.raw)[2] = 0
              /\ Goto(t, Trimming("tail", l.raw, l.n))
              /\ UNCHANGED <<mapped, dirty, refused>>
           \/ /\ HeadRun(l.raw)[2] > 0
              /\ \E ok \in BOOLEAN :
                   /\ SafeMunmap(HeadRun(l.raw), ok)
                   /\ Goto(t, IF ok THEN Trimming("tail", l.raw, l.n)
                              ELSE CleanupAfterHead(l.raw, l.n))
        /\ UNCHANGED <<cache, owned>>

\* The tail is never empty: the head is shorter than a huge page.
TrimTail(t) ==
    LET l == loc[t]
    IN  /\ At(t, "tail")
        /\ \E ok \in BOOLEAN :
             /\ SafeMunmap(TailRun(l.raw, l.n), ok)
             /\ Goto(t, IF ok THEN Returned(BodyRun(l.raw, l.n))
                        ELSE Dropping(<<BodyRun(l.raw, l.n)>>, HugeFailed(l.n)))
        /\ UNCHANGED <<cache, owned>>

-----------------------------------------------------------------------------
(* SystemFree of an aligned 2 MiB mapping *)

MadviseFailedKept(r) == Putting(r)

\* A mapping that could not be discarded is not cached.
MadviseFailed(r) == Dropping(<<r>>, Idle)

MadviseDontneed(t) ==
    LET r == loc[t].run
    IN  /\ At(t, "madvise")
        /\ \/ dirty' = dirty \ RunPages(r) /\ Goto(t, Putting(r))
           \/ UNCHANGED dirty /\ Goto(t, MadviseFailed(r))
        /\ UNCHANGED <<mapped, cache, owned, refused>>

Put(t) ==
    LET r == loc[t].run
    IN  /\ At(t, "put")
        /\ IF Cardinality(cache) < kCapacity
           THEN cache' = cache \cup {r[1]} /\ Goto(t, Idle)
           ELSE UNCHANGED cache /\ Goto(t, Dropping(<<r>>, Idle))
        /\ UNCHANGED <<mapped, dirty, owned, refused>>

\* A step inside a call.
Step(t) ==
    \/ Mmap(t) \/ MmapEnomem(t) \/ MmapError(t) \/ Drop(t) \/ TrimHead(t) \/ TrimTail(t)
    \/ MadviseDontneed(t) \/ Put(t)

Next == \E t \in Threads : Step(t) \/ Call(t) \/ Take(t) \/ Free(t)

Spec == Init /\ [][Next]_vars

-----------------------------------------------------------------------------
(* Properties *)

PagesOf(rs) == UNION {RunPages(r) : r \in rs}

\* The runs a thread is holding in the middle of a call.
InFlight(l) ==
    CASE l.pc \in {"madvise", "put", "returned"} -> {l.run}
      [] l.pc = "munmap" -> {l.pieces[i] : i \in 1 .. Len(l.pieces)}
      [] l.pc = "head" -> {HeadRun(l.raw), BodyRun(l.raw, l.n), TailRun(l.raw, l.n)}
      [] l.pc = "tail" -> {BodyRun(l.raw, l.n), TailRun(l.raw, l.n)}
      [] OTHER -> {}
CachedRuns == {<<p, HugePages>> : p \in cache}

\* Every mapped page has exactly one place: a caller, the cache, one thread in
\* the middle of a call, or the pages the OS refused to unmap.  Through
\* over-allocation, trimming, every failure and its cleanup no page is leaked,
\* and none that someone holds is unmapped.
PagesAccounted ==
    LET held == owned \cup CachedRuns \cup UNION {InFlight(loc[t]) : t \in Threads}
    IN  /\ PagesOf(held) \cup refused = mapped
        /\ PagesOf(held) \cap refused = {}
        /\ \A r, s \in held : r # s => RunPages(r) \cap RunPages(s) = {}
        /\ owned \cap CachedRuns = {}
        /\ \A t \in Threads : InFlight(loc[t]) \cap (owned \cup CachedRuns) = {}
        /\ \A t, u \in Threads : t # u =>
             PagesOf(InFlight(loc[t])) \cap PagesOf(InFlight(loc[u])) = {}

\* Memory that SystemAlloc returns is zero-filled, also when it comes from the
\* cache after another owner had written to it.
ZeroFilled == \A t \in Threads : At(t, "returned") => RunPages(loc[t].run) \cap dirty = {}

\* Retries are bounded: every call comes to its end.
LiveSpec == Spec /\ \A t \in Threads : WF_vars(Step(t))
CallsEnd == \A t \in Threads : ~At(t, "idle") ~> (At(t, "idle") \/ At(t, "returned"))
=============================================================================
