CONSTANTS
    a = a
    b = b
    \* Span: capacities below, at and just above multiples of the word width
    WordBits = 3
    Capacities = {1, 2, 3, 4, 5, 6, 7, 8}
    \* TransferRing
    Values = {a, b}
    Capacity = 4
    \* FreeList
    Objects = {o1, o2, o3, o4}
    Null = null
    \* SpanList
    Members = {s1, s2, s3, s4}
    Sentinel = sentinel
    NoSpan = nullspan
    \* ObjectPool: three objects to a chunk, the header forces padding
    PageSize = 16
    HeaderSize = 2
    ObjSize = 4
    ObjAlign = 4
    ChunkSize = 4
    MinObjs = 2
    Chunks = {0, 1}
    \* SizeClass: the values of src/include/ammalloc/config.h
    ALIGNMENT = 16
    kSmallLinearLimit = 128
    kStepShift = 2
    kSmallSizeThreshold = 1024
    MAX_TC_SIZE = 32768
    kMaxBatchSize = 512
    PAGE_SIZE = 4096
    MAX_PAGE_NUM = 128
    BITMAP_BITS = 64
    \* HugePageCache, three threads and two slots: one thread stalls in Pop while
    \* two others bring the slot it read back to the top of the stack, with
    \* another next; on either stack this happens within four updates of the
    \* head.  A third aligned mapping finds the cache full.
    Threads = {t1, t2, t3}
    kCapacity = 2
    Pages = {p1, p2, p3, p4}
    AlignedPages = {p1, p2, p3}
    NoPage = NoPage
    MaxTag = 4
SYMMETRY Symmetry
SPECIFICATION MCSpec
INVARIANTS CountExact PoolDisjoint SizeClassExact GridFits SlotsPartitioned MappingsConserved
PROPERTIES LowestFirst IsDeque IsStack IsSpanSequence ImplementsPool
