------------------------------ MODULE AmMalloc ------------------------------
(***************************************************************************)
(* The entry points am_malloc and am_free, the lazy creation and the        *)
(* destruction of a thread's ThreadCache, and the one start of the          *)
(* scavenger (src/src/ammalloc.cpp).                                        *)
(*                                                                          *)
(* A block is what one allocation returns.  A block "below" belongs to      *)
(* CentralCache, PageCache or the operating system; modules of their own    *)
(* say what happens there.  The arithmetic of sizes is SizeClass's.         *)
(***************************************************************************)
EXTENDS SizeClass, FiniteSets

CONSTANTS Threads, Blocks,
          Sizes,        \* the requests considered, below 2^SizeBits
          SizeBits,     \* the width of size_t
          MayDropCleaner \* whether the build may leave tc_cleaner's destructor
                         \* unregistered

ASSUME RequestAssumption == Sizes \subseteq Nat /\ 2^SizeBits \in Nat

VARIABLES
    ptls,        \* whether the thread has a ThreadCache
    destructed,  \* g_ThreadCacheAlreadyDestructed
    registered,  \* the build registers tc_cleaner's destructor
    phase,       \* "running", "exiting" (TLS destructors run) or "gone"
    block,       \* where every block is
    pages,       \* threads whose ThreadCache pages are allocated
    enabled,     \* RuntimeConfig::EnableScavenger
    started,     \* EnsureScavengerStarted's flag
    starts,      \* history: calls of PageHeapScavenger::Start
    loc          \* where in am_malloc's slow path a thread is

vars == <<ptls, destructed, registered, phase, block, pages,
          enabled, started, starts, loc>>
tls == <<ptls, destructed, registered, phase, pages>>
scavenger == <<enabled, started, starts>>

SizeMax == 2^SizeBits - 1

Below == [at |-> "below"]
Large == -2     \* the class of a block that is a span of its own

InApp(class, bytes, wanted) == [at |-> "app", class |-> class, bytes |-> bytes, wanted |-> wanted]
InCache(t, class) == [at |-> "cache", thread |-> t, class |-> class]

Idle == [pc |-> "idle"]
Goto(t, p) == loc' = [loc EXCEPT ![t].pc = p]
Return(t) == loc' = [loc EXCEPT ![t] = Idle]

\* Cached blocks of one class of thread t.
List(t, class) == {b \in Blocks : block[b] = InCache(t, class)}
Cached(t) == {b \in Blocks : block[b].at = "cache" /\ block[b].thread = t}
Free == {b \in Blocks : block[b] = Below}
Held == {b \in Blocks : block[b].at = "app"}

Init ==
    /\ ptls = [t \in Threads |-> FALSE] /\ destructed = [t \in Threads |-> FALSE]
    /\ registered \in (IF MayDropCleaner THEN BOOLEAN ELSE {TRUE})
    /\ phase = [t \in Threads |-> "running"]
    /\ block = [b \in Blocks |-> Below] /\ pages = {}
    /\ enabled \in BOOLEAN /\ started = FALSE /\ starts = 0
    /\ loc = [t \in Threads |-> Idle]

Calls(t) == phase[t] # "gone" /\ loc[t] = Idle

-----------------------------------------------------------------------------
(* The ThreadCache                                                          *)

CreateIgnoresFlag(t) ==
    /\ \/ ptls' = [ptls EXCEPT ![t] = TRUE] /\ pages' = pages \cup {t}
       \/ UNCHANGED <<ptls, pages>>
    /\ UNCHANGED <<destructed, registered, phase>>

\* `if (!ptls) ptls = CreateThreadCache()': SystemAlloc may fail.
CreateThreadCache(t) ==
    /\ IF ptls[t] \/ destructed[t] THEN UNCHANGED <<ptls, pages>>
       ELSE \/ ptls' = [ptls EXCEPT ![t] = TRUE] /\ pages' = pages \cup {t}
            \/ UNCHANGED <<ptls, pages>>
    /\ UNCHANGED <<destructed, registered, phase>>

\* Blocks given back to CentralCache, PageCache or the operating system.
Returned(blocks) == [b \in Blocks |-> IF b \in blocks THEN Below ELSE block[b]]

\* ThreadCache::Allocate: pop, or serve a pending trim request with any part
\* of the cache and refill the list from CentralCache, one block for the caller
\* and any number for the list; null when nothing comes back.
Allocate(t, size) ==
    LET c == Index(size)
    IN  \/ \E b \in List(t, c) :
              block' = [block EXCEPT ![b] = InApp(c, size_table_[c], size)]
        \/ /\ List(t, c) = {}
           /\ \E trimmed \in SUBSET Cached(t) :
                 \/ \E b \in Free \cup trimmed, more \in SUBSET (Free \cup trimmed) :
                       block' = [x \in Blocks |->
                                   IF x = b THEN InApp(c, size_table_[c], size)
                                   ELSE IF x \in more THEN InCache(t, c)
                                   ELSE IF x \in trimmed THEN Below
                                   ELSE block[x]]
                 \/ block' = Returned(trimmed)

\* ThreadCache::Deallocate: push, and on overflow evict from the list or
\* serve a trim request with any part of the cache.
Deallocate(t, b) ==
    \E evicted \in SUBSET (Cached(t) \cup {b}) :
       block' = [Returned(evicted) EXCEPT ![b] =
                    IF b \in evicted THEN Below ELSE InCache(t, block[b].class)]

-----------------------------------------------------------------------------
(* am_malloc                                                                *)

am_malloc(t, size) ==
    /\ Calls(t)
    /\ IF size > MAX_TC_SIZE \/ ~ptls[t]
       THEN loc' = [loc EXCEPT ![t] = [pc |-> "ensure", size |-> size]] /\ UNCHANGED block
       ELSE Allocate(t, size) /\ UNCHANGED loc
    /\ UNCHANGED <<tls, scavenger>>

\* EnsureScavengerStarted: the configuration and the load.
EnsureLoad(t) ==
    /\ loc[t].pc = "ensure"
    /\ Goto(t, IF enabled /\ ~started THEN "cas" ELSE "slow")
    /\ UNCHANGED <<tls, block, scavenger>>

EnsureStore(t) ==
    /\ loc[t].pc = "cas"
    /\ started' = TRUE /\ Goto(t, "start")
    /\ UNCHANGED <<tls, block, enabled, starts>>

EnsureCas(t) ==
    /\ loc[t].pc = "cas"
    /\ started' = TRUE
    /\ Goto(t, IF started THEN "slow" ELSE "start")
    /\ UNCHANGED <<tls, block, enabled, starts>>

\* Start may throw; the exception is swallowed and the flag stays set.
EnsureStart(t) ==
    /\ loc[t].pc = "start"
    /\ starts' = starts + 1 /\ Goto(t, "slow")
    /\ UNCHANGED <<tls, block, enabled, started>>

kMaxRequestBytes == SizeMax - (PAGE_SIZE - 1)

\* detail::AlignUp in size_t arithmetic.
AlignUpWrapping(n) == (((n + PAGE_SIZE - 1) % 2^SizeBits) \div PAGE_SIZE) * PAGE_SIZE

AnyRequest(size) == TRUE

Representable(size) == size <= kMaxRequestBytes

SlowLarge(t) ==
    /\ loc[t].pc = "slow" /\ loc[t].size > MAX_TC_SIZE
    /\ \/ /\ Representable(loc[t].size)
          /\ \E b \in Free :
                block' = [block EXCEPT ![b] =
                            InApp(Large, AlignUpWrapping(loc[t].size), loc[t].size)]
       \/ UNCHANGED block       \* too large, or AllocSpan failed
    /\ Return(t)
    /\ UNCHANGED <<tls, scavenger>>

SlowSmall(t) ==
    /\ loc[t].pc = "slow" /\ loc[t].size <= MAX_TC_SIZE
    /\ CreateThreadCache(t)
    /\ IF ptls'[t] THEN Allocate(t, loc[t].size) ELSE UNCHANGED block
    /\ Return(t)
    /\ UNCHANGED scavenger

-----------------------------------------------------------------------------
(* am_free, am_thread_cache_purge and thread exit                           *)

\* Any thread may free a block.  A large one goes to PageCache; without a
\* ThreadCache a small one goes to CentralCache as a batch of its own.
am_free(t, b) ==
    /\ Calls(t) /\ b \in Held
    /\ IF block[b].class = Large
       THEN block' = Returned({b}) /\ UNCHANGED tls
       ELSE /\ CreateThreadCache(t)
            /\ IF ptls'[t] THEN Deallocate(t, b) ELSE block' = Returned({b})
    /\ UNCHANGED <<scavenger, loc>>

\* HandleGlobalTrimRequest and a trim to a target keep any part of the cache.
am_thread_cache_trim(t) ==
    /\ Calls(t) /\ ptls[t]
    /\ \E trimmed \in SUBSET Cached(t) : block' = Returned(trimmed)
    /\ UNCHANGED <<tls, scavenger, loc>>

am_thread_cache_purge(t) ==
    /\ Calls(t) /\ ptls[t]
    /\ block' = Returned(Cached(t))
    /\ UNCHANGED <<tls, scavenger, loc>>

\* The thread function returns; TLS destructors begin.  Those of the
\* application may still allocate and free, before and after tc_cleaner's.
BeginExit(t) == /\ Calls(t) /\ phase[t] = "running"
                /\ phase' = [phase EXCEPT ![t] = "exiting"]
                /\ UNCHANGED <<ptls, destructed, registered, block, pages, scavenger, loc>>

Cleaner(t) ==
    /\ Calls(t) /\ phase[t] = "exiting" /\ registered /\ ~destructed[t]
    /\ destructed' = [destructed EXCEPT ![t] = TRUE]
    /\ block' = Returned(Cached(t))     \* ReleaseAll
    /\ pages' = pages \ {t}             \* ReleaseThreadCache
    /\ ptls' = [ptls EXCEPT ![t] = FALSE]
    /\ UNCHANGED <<registered, phase, scavenger, loc>>

EndExit(t) == /\ Calls(t) /\ phase[t] = "exiting" /\ (registered => destructed[t])
              /\ phase' = [phase EXCEPT ![t] = "gone"]
              /\ UNCHANGED <<ptls, destructed, registered, block, pages, scavenger, loc>>

Step(t) == \/ \E size \in Sizes : am_malloc(t, size)
           \/ EnsureLoad(t) \/ EnsureCas(t) \/ EnsureStart(t)
           \/ SlowLarge(t) \/ SlowSmall(t)
           \/ \E b \in Blocks : am_free(t, b)
           \/ am_thread_cache_trim(t) \/ am_thread_cache_purge(t)
           \/ BeginExit(t) \/ Cleaner(t) \/ EndExit(t)

Next == \E t \in Threads : Step(t)

Spec == Init /\ [][Next]_vars

-----------------------------------------------------------------------------
\* An allocation holds what was asked for: the class rounding never rounds
\* down, and the page rounding of a request near SIZE_MAX never wraps to a
\* small span (am_malloc_slow_path rejects it first).
ServedInFull == \A b \in Held : block[b].bytes >= block[b].wanted

\* A thread that is gone has left no block in its ThreadCache and no
\* ThreadCache pages mapped, although destructors that run after the cleaner
\* may still allocate and free: those never bring a ThreadCache back.
Drained(t) == /\ ~ptls[t] /\ t \notin pages
              /\ Cached(t) = {}

\* What ThreadCacheCleaner promises once its destructor has run.
CleanerDrains == \A t \in Threads : destructed[t] => Drained(t)

\* Whatever threads race for the flag, the scavenger is started at most once
\* and a failed start is not retried; the thread that sets the flag does start
\* it, and a disabled scavenger is never started.
StartedOnce == /\ starts <= 1 /\ (starts = 1 => enabled /\ started)
               /\ started => starts = 1 \/ \E t \in Threads : loc[t].pc = "start"

\* tests/unit/test_ammalloc.cpp: "Thread exit with a live cache runs
\* ThreadCacheCleaner, which must drain every FreeList back to CentralCache
\* (ReleaseAll) and free the metadata page".
ExitDrains == \A t \in Threads : phase[t] = "gone" => Drained(t)
=============================================================================
