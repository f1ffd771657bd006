# TLA+ specifications of ammalloc

Specifications of the concurrent memory allocator in `src/`, model-checked with
TLC and, where marked, proved with TLAPS.

## The system

`am_malloc` and `am_free` are served by tiers, each with its own locking:

| part | code | locking |
|---|---|---|
| entry points: fast and slow path, a thread's ThreadCache, start of the scavenger | `ammalloc.cpp` | thread-local state, one atomic flag |
| ThreadCache: one free list and quota per size class, a byte budget, cooperative trims | `thread_cache.cpp`, `free_list.h` | owner thread only; one atomic word for trim requests |
| CentralCache: per class a TransferCache (circular array of pointers) and a list of spans | `central_cache.cpp` | spin lock for the array, mutex for the spans, never both |
| Span: objects in one page range, a bitmap with a scan cursor; SpanList | `span.cpp`, `span.h` | the bucket mutex or the shard mutex |
| PageCache: buckets of free spans, split and coalesce | `page_cache.cpp` | one shard mutex |
| PageMap: radix tree from page to span | `page_cache.cpp` | leaves: the shard mutex; links: `structure_mutex_`; readers take no lock |
| PageHeapScavenger: background thread that drops idle memory | `page_heap_scavenger.cpp` | the shard mutex, released around `madvise` |
| PageAllocator and HugePageCache: `mmap`, a cache of 2 MiB mappings; ObjectPool | `page_allocator.cpp`, `page_allocator.h` | none; lock-free tagged stacks; the pool's owner |

Spans flow from PageCache up to CentralCache and back, objects from CentralCache
up to ThreadCache and back. Only one shard is active, so `owner_shard_id` is
always 0; the `#else` variant of PageCache is not compiled.

## Modules

A component's module holds its state, one action per step that others can
observe, and its properties. An `MC` module gives it values for TLC. Definitions
whose name says what is wrong with them (`SetSpanEnds`, `PackUntagged`,
`RotateNot` ...) stand before the definition they are a faulty version of and
are used by nothing: each is a plausible bug, and putting it in the place of the
original makes a property fail (`mutants` in `PROJECT.json`). Theorems and their
proofs are in modules of their own (see *Proofs*).

- **AmMalloc** - a block is what one allocation returns, with the class or "large"
  it came from, the bytes it has and the bytes that were asked for. `ptls`,
  `destructed`, `pages` and `phase` are a thread's life; application destructors
  may allocate and free before and after the cleaner. `registered` says whether
  the build registers the cleaner's destructor (see *thread_exit* below). What a
  ThreadCache does with a call is any of the outcomes ThreadCache.tla allows: pop,
  refill with any number, evict any part. `SizeBits` is the width of `size_t`.
- **SizeClass** - pure operators: `Index`, `RoundUp`, the tables, `ComputeSpanLayout`.
  `SizeAssumption` is what the header's static assertions demand of the constants.
- **ThreadCache** - `size`, `max_size`, `overages` per thread and class,
  `reserved`, `g_reserved`, `trim_request`, `observed`. A call is cut where it
  reads `trim_request_`; a trim is one step per class. Freed objects may come
  from any thread, so `Deallocate` is always possible. The drain of the
  TransferCache that ends a purge is CentralCache's operation. **TrimHistory**
  adds the history variable `due`, the requests a thread has not begun to serve;
  **MCThreadCache** adds a controller thread.
- **FreeList** - the intrusive chains: `next_` is the first word of an object, which
  the application overwrites while it holds the object. FreeList and the one
  `batch` in flight between the tiers. **ObjectStack** is what it implements.
- **CentralCache** - one size class and any number of threads: `span_list`, `sp`
  (built on SpanObjects), `transfer_cache`, `lock` (the mutex), `lent` (spans on
  loan from PageCache), `cache[t]` (what ThreadCaches and the application hold),
  `loc[t]` (the locals of a call). A section under the spin lock is one step; one
  under the mutex is one step per object. `HandOver` moves objects from thread to
  thread, as the application does; a released batch has any order.
- **TransferRing** - the circular array that CentralCache takes for a sequence;
  **Deque** is that sequence.
- **SpanObjects** - `Init`, `AllocObject`, `FreeObject` as operators on a span's
  fields; the bitmap is the set of free slots, the word of a slot is
  `slot \div WordBits`. **Span** is the state machine, **SlotAllocator** what it
  promises (always the lowest free slot).
- **SpanList** - the links of the circular list; `Collect` is an owner using the
  `next` link of a span it has taken out. **SpanSequence** is what it implements.
- **PageCache** - `span_lists`, `span` (the descriptors), `live` (span_pool_),
  `page_map` (leaves), `mapped` (what the OS gave), `held` (what clients own),
  `cs` (the critical section in progress). `AllocSpanLocked` and
  `ReleaseSpanLocked` are one step per iteration of their loops. The pool gives
  out the lowest free descriptor, so that storage is reused at once and a stale
  pointer shows. **RangeAllocator** is its abstract specification: clients get
  and give back disjoint ranges of pages.
- **PageMap** - the tree that PageCache takes for a function: `root_`, `children`,
  `in_use` (nodes of `radix_node_pool_`), `structure_mutex_`. A shard's step is one
  link or leaf store, or one decision; `TryNewRadixNode` may fail at every level; a
  lookup is one step per load. Around the tree the shards are reduced to the page
  ranges of their descriptors. Production has one shard. The model has several,
  because `structure_mutex_` exists for that case and its comments promise it.
  **FlatMap** is one word per page.
- **PageHeapScavenger** extends PageCache with the background thread (`phase`,
  `idx`, `now`, `detached`, `advised`) and with `resident`, the pages that have
  contents. Scanning a bucket and reattaching are one step each (mutex held),
  every `madvise` is a step of its own, free to fail. The unlocked write of
  `flags` by `SetCommitted` races reads under the mutex; every value such a read
  can yield has the used bit set, so the model needs no extra outcome.
- **PageAllocator** - `mapped`, `dirty` (pages with something else than zeros),
  `cache`, `owned`, `refused` (a failed `munmap` leaves them). Every system call is
  a step and may fail. HugePageCache is the set it is shown to implement.
- **HugePageCache** - two stacks of slot indexes with tagged heads, one step per
  atomic access, spurious failures of the weak compare-exchange included, with
  the 2 MiB cases of `SystemAlloc` and `SystemFree` around them. Memory is
  sequentially consistent; a stale relaxed load of a head in `Push` is a
  failing compare-exchange. **PagePool** is the abstract pool.
- **ObjectPool** - addresses as numbers: chunk header, padding, bump pointer, free
  list.

The modules meet at these abstractions: PageAllocator uses the pool that
HugePageCache implements, CentralCache the deque of TransferRing, the bitmap of
SpanObjects and the sequence of SpanList, PageCache the sequence of SpanList and
the flat map of PageMap. PageHeapScavenger and PageCache are composed in full.

`PROJECT.json` maps every definition to its lines.

## Runs

| run | instance | shows |
|---|---|---|
| entry_points | 2 threads, 3 blocks, 6-bit `size_t`, 16-byte pages, requests 3, 5, 9, 48, 49 | no request is served short; after the cleaner nothing returns to the ThreadCache; the scavenger starts once |
| thread_cache | a thread and a controller, 2 classes, budget below the ceilings, 2 requests | accounting of quotas, bound of list lengths, trims reach their target, the newest request is honoured |
| central_cache | 2 threads, 2 spans of 2 objects, batches up to 2 | objects and spans have one owner, non-full spans lead the list |
| central_cache_live | 2 threads, 2 spans of one object | every call returns |
| containers | see below | bitmap, ring, free list, span list and pool implement their abstractions; size arithmetic; slots of HugePageCache are partitioned between stacks and threads, no mapping is lost or given out twice |
| page_cache | 6 pages, buckets up to 3, requests of 1 to 4 pages, 4 descriptors | PageMap, buckets and OS mappings agree; clients get disjoint ranges |
| page_map | 2 shards, 1 reader, nodes of 2 cells, 6 nodes, mappings across a leaf, a second-level node and the end of the root | paths, nodes and leaves are right after partial failures and races; lookups are atomic |
| scavenger | 2 pages, 2 descriptors, clock up to 2 | one owner per span with the scavenger at work, no client loses data, `committed` is honest, nothing is detached after Stop; detached spans come back, Stop returns |
| page_allocator | 2 threads, 5 pages, huge pages of 2, 2 tries, cache of 1 | every page has one place through all failures; memory handed out is zero; calls end |
| list_bound, scavenger_idle, thread_exit | as thread_cache (decay threshold of the code), scavenger, entry_points | a counterexample each, see below |

`containers` runs the data structures one at a time. `focus` chooses one in the
initial state and the others stay put, so the state space is the sum of theirs:
capacities 1 to 8 with 3-bit words, a ring of 4, 4 objects, 4 spans, two chunks of
three objects, every request from 0 to `MAX_TC_SIZE + 1` bytes with the constants of
`config.h`, and a HugePageCache of 2 slots under 3 threads, with 4 mappings (one
misaligned) and tags up to 4.

Three runs end in a counterexample on purpose; each checks one statement of the
repository that the code does not meet:

- **scavenger_idle**: the scavenger reads `now` once per pass and subtracts
  unsigned numbers. A span released later in the same pass has a time stamp after
  `now`; the difference wraps and the span is reclaimed at once instead of after
  `kIdleThresholdMs`. It costs page faults, not correctness.
- **list_bound**: `docs/designs/02-thread-cache.md` lists `size_ <= max_size_ + 1`
  among its standing invariants (`QuotaPlusOne`), and both that document and
  `08-free-list.md` derive the cost of an eviction from it. An overflow that decays
  the quota evicts a batch and lowers the quota by a batch, so the list stays one
  above the new quota, and the next free makes it two. `OccupancyBound` is the bound
  that holds, in the run `thread_cache` and, proved, for every table of classes.
- **thread_exit**: `tc_cleaner` in `ammalloc.cpp` is a `thread_local` object that
  nothing refers to. C++ requires it to be constructed only before its first
  odr-use and destroyed only if constructed, so a build is free to leave its
  destructor unregistered, and g++ 12 does: the object file of `ammalloc.cpp` has
  no call of `__cxa_thread_atexit`. Threads then exit with their cached objects
  and the pages of their ThreadCache still allocated. The comment of
  `ThreadExitDrainsCacheToCentralCache` in `tests/unit/test_ammalloc.cpp` says that
  exit drains. `CleanerDrains` is what holds: once the destructor has run,
  the drain is complete and final.

Two more disagreements with the documentation were met while modelling and have no
run of their own:

- A span whose `madvise` failed is reattached with a fresh time stamp, so the next
  pass skips it, although `page_heap_scavenger.h` says it "retries next pass".
- `NewestHonoured` speaks of the newest request only, and no more holds: the word
  keeps one request, so a soft one published after a purge replaces it for every
  thread that has not looked yet, although `docs/designs/02-thread-cache.md` says
  that requests do not overwrite each other.

### Bounds

`NumDescriptors`, `NumPages`, `MaxTime`, `MaxTag`, `MaxEpoch`, `NumSpans`, `Blocks`,
`Nodes`, `Chunks` and `MaxRefused` bound the state space. Three free neighbours, a
split of each size, a request above `MAX_PAGE_NUM`, an exhausted descriptor pool
and coalescing at and beyond the largest bucket occur within six pages. Six radix
nodes are what all mappings need together, and each allocation of one may fail, so
`EnsureRange` stops half-way at every level; the last mapping reaches beyond the
root and always fails after its first page has its path. Five pages let the
over-allocation of a huge page start aligned or not, beside another mapping. Two slots and three threads are the least with which an untagged
stack goes wrong (the faulty `PackUntagged` shows it); within four updates of its
head either stack gets into the state that the tag is for: the slot a stalled `Pop`
has read is on top again, with another `next`. Word widths of 3 give full,
partial and single-bit last words. In `entry_points` 48 is the last request that
can be rounded up to pages and 49 the first that would wrap to zero. Time is in
ticks; only the order of the interval, the threshold and a release matter.

### Fairness

Three runs assume fairness, the others none. `scavenger` assumes that the scavenger
thread and the joiner are scheduled and that a thread inside the shard mutex leaves
it; the two liveness properties are conditional on the mutex being free from some
time on, so no fairness of `std::mutex` is needed. Time need not pass.
`page_allocator` assumes that a thread inside a call is scheduled and that system
calls return. `central_cache_live` assumes that a thread inside a call is
scheduled, and that a thread that contends for the bucket mutex again and again
gets it at last. The C++ standard does not promise the latter; it is a property of
the platform's mutex, and without it a single call can starve, though never all of
them. The same is assumed of the TransferCache's spin lock, less visibly: a section
under it is one step, so a thread that is scheduled gets through. SpinLock is a
test-and-set bit without a queue and promises a waiting thread nothing; its sections
are a few instructions long. What `CallsReturn` shows of the code itself is that its
loops end, whatever other threads do between their iterations. No fairness starts a
call.

## Proofs

Proved for every value of the constants that the named assumptions admit. The
assumptions say what the code guarantees: sizes and capacities are natural numbers,
null values are no members, a batch is at least 2 (`batch_table_` clamps),
`kMaxOverages` is at least 2 (3 in the code), threads are finitely many
(`ThreadsAssumption`, where bytes are summed over them), the size-class constants
pass the header's static assertions (`SizeAssumption`). `PowersOfTwo` states what
the exponents the header can meet are, because the provers know nothing of `2^w`.
TLC evaluates all of them.

- **PageHeapProofs**, the page heap: `MapExact`, `BucketsExact`, `NoPageLost` and the
  refinement `HandsOutRanges`, for any number of pages, buckets and descriptors
  (`PageConstants`). `HeapInv(Away)` says that leaves and descriptors describe the
  same runs of pages, that bucket k lists exactly the unused spans of k pages, each
  once, and that used spans are held by clients or in `Away`. It speaks of the
  middle of a release too, when absorbed spans are still named by leaves
  (`cs.retired`). `Away` is empty for the heap alone. Beside the scavenger it is the
  set of detached spans: `ScavInv` is `HeapInv(Range(detached))` with `DetachedOK`
  (the private list holds spans of the bucket it was filled from, each once) and
  `SpareHonest` (a free span that is not committed has no contents). From it follow
  `OneOwner`, `HonestCommitted`, `QuiescentWhenStopped` and the action property
  `ClientDataKept`. The heap's part of every step is reused as it is, through
  `Frame(Away)`: the heap leaves spans that are away, and pages of clients, alone.
- **PageMapProofs**: `PathPrepared`, the refinement `ImplementsFlatMap`,
  `PublishedExact`, `LeavesNameLive` and `NodesConserved`, for any number of shards,
  readers, nodes and pages and any node size (`TreeAssumption`). `MapInv` has three
  parts. `TreeInv`: there are levels for the nodes such that links lead one level
  down, leaves hold descriptors and no two links lead to one node; hence two pages
  share a leaf cell only if they are the same page. `OpInv`: the pages of a
  descriptor have their paths unless `EnsureRange` still works for it, and then the
  pages before `cur` have them, and `cur` has the levels above the one it is at.
  `RdInv`: a lookup stands on the node of its page's path. What makes lock-free
  reading right is `Kept`: a shard's step never takes a link away, so a node once on
  the path of a page stays on it; Reset does, and needs quiescence. `LeafInv` says
  what every leaf holds while its shard is half-way through `SetSpan` or
  `ClearRange`. `ReachInv` says that every node in use hangs on a link; with
  `TreeInv`, where no two links lead to one node, this is `NodesConserved`.
- **HugePageCacheProofs**: `SlotsPartitioned`, `MappingsConserved` and the refinement
  `ImplementsPool`, for any number of threads and slots. `SlotsInv` gives each stack
  a set of slots that its head links in order of their heights, `MappingsInv` says
  which mapping each used slot holds, `ThreadOK` what a thread has read. The crux is
  `Seen`: a thread's copy of a head with the head's tag is the head, so the `next`
  it read belongs to the slot it is about to unlink.
- **CentralCacheInvariant** and **CentralCacheProofs**: `ObjectsConserved`,
  `SpansConserved` and `ListOrdered`, for any number of threads, spans and objects,
  any batch bound and any TransferCache. `IInv` is `Control` (one holder of the
  mutex), `Data` (what a thread's locals are at each place), `Once` (no object in two
  hands, in the TransferCache or twice in one sequence), `Match` (a bit is 0 exactly
  when its object is out), `SpansOnce`, and `ListInv` (spans with room lead, with
  the exception of the front span inside the inner loop). The laws of a span and a
  batch that the steps use (`SpanLaws`, `BatchLaw`) need cardinalities and are proved
  in CentralCacheProofs.
- **ThreadCacheProofs**: `QuotaInRange`, `OccupancyBound`, `GrowthOnlyByRefill`,
  `NewestHonoured`, `QuotaAccounting` and `TrimMeetsTarget`. `IInv` relates the
  length of a list, its quota, the overage counter and where the thread is. A list
  above its quota outside an overflow has just decayed and has a zero counter; since
  `kMaxOverages` is at least 2 the next overflow cannot decay again, and since a
  batch is at least 2 it takes the list back below the quota. A refill needs that a
  thread on its way to CentralCache still has an empty list, which trims preserve.
  `HistInv` bounds the epochs a thread knows by the word's, strictly while a request
  is due. `SumInv` says that a reservation is the sum of the quotas and that a trim
  has counted the classes it has passed; that a changed entry changes a sum by the
  difference is shown for every finite set, from a least counterexample.
- **PageAllocatorProofs**: `PagesAccounted`, `ZeroFilled` and, for ObjectPool,
  `PoolDisjoint`. `AllocInv` is `Typed`, `Accounted` (owned, cached, refused and in
  flight are disjoint and together the mapped pages) and `Clean` (cached pages and
  pages about to be returned or cached hold zeros). `PoolInv` puts every object and the
  region still to be carved on aligned addresses of one chunk, apart from each other.
- **ComponentProofs**, the parts that stand alone:
  - `ClassesExact`: Index picks the smallest class that fits and RoundUp its size, for
    every ladder and every request. Each group of classes is `2^kStepShift` steps
    between two powers of two; the groups cover the sizes without a gap, and the
    table for small sizes and the computed index agree on them.
  - `LayoutSound`: the grid of `ComputeSpanLayout` passes the checks of `Span::Init`.
  - `ServedInFull`: with the type of a call's locals it is inductive. It rests on
    `ClassesExact`, and for large requests on the test that refuses what would wrap
    when rounded up to pages.
  - `StartedOnce` and `CleanerDrains`. The first is inductive only with at most one
    thread between the compare-exchange and `Start`; the second as it stands: blocks
    are cached only by a thread that has a ThreadCache, which `CreateThreadCache`
    denies to one whose cleaner has run.
  - `CountExact`, `NullOnlyWhenFull` and the refinement `LowestFirst` of a span. The
    first two are inductive only with `CursorInv`, no free bit lies in a word below
    the cursor: an allocation moves the cursor past a word only when it took its last
    bit, a free moves it back.
  - `LinksMutual` of SpanList: a linked span's links stay inside the list, so `insert`
    and `erase` never touch a link that an owner reuses.
  - `RingTypeOK` and the refinement `IsDeque` of the transfer ring. `TransferIndex`
    stays in the array and is injective on the offsets in use, so a push disturbs no
    other element, and it composes with a shift of `begin`.

Only model-checked:

- liveness (`CallsReturn`, `CallsEnd`, `DetachedComeBack`, `StopReturns`), which needs
  fairness and ENABLED;
- `IsStack` and `IsSpanSequence`: the sequence behind a chain of links is computed by
  a walk whose result for every length needs induction over data;
- `SizeClassExact` and `GridFits` as the run states them, about the constants of
  `config.h` and exhaustively for every request. `ClassesExact` and `LayoutSound`
  prove what they say about classes and layout for all configurations; that a span
  has room for a batch and at most `MAX_PAGE_NUM` pages is true of the code's
  constants, not of all.

## Not modelled

- SpinLock: a test-and-set bit. CentralCache takes its sections as atomic, which is
  all the lock promises (it is neither fair nor recursive).
- RuntimeConfig and `ParseSize`: read once from the environment into constants,
  before any other state exists.
- Telemetry, lock instrumentation, fatal-error output, THP and populate hints,
  benchmarks.
- `am_free` of a pointer that `am_malloc` did not return, and the hardened build's
  aborts for it: outside the contract.
- `munmap` failures above PageAllocator: PageCache takes `SystemFree` to succeed; a
  failure leaks address space and is counted, which `refused` of PageAllocator shows.
- Weak memory: every module is sequentially consistent. The acquire and release
  pairs of PageMap and HugePageCache are what makes that adequate for data reached
  through a loaded pointer.
- Requests that a function refuses before it looks at any state, such as
  `AllocSpan` of no page or of more pages than 32 bits can count: stuttering steps.
- A tag of HugePageCache that wraps (2^48 updates within one stalled `Pop`).
