------------------------------ MODULE SizeClass ------------------------------
(***************************************************************************)
(* The arithmetic between a request in bytes and the objects that serve it: *)
(* size classes, batch and page tables (src/include/ammalloc/size_class.h)  *)
(* and the layout of a span's bitmap and object grid (ComputeSpanLayout,    *)
(* src/include/ammalloc/span.h).                                            *)
(***************************************************************************)
EXTENDS Integers

CONSTANTS ALIGNMENT, kSmallLinearLimit, kStepShift, kSmallSizeThreshold,
          MAX_TC_SIZE, kMaxBatchSize, PAGE_SIZE, MAX_PAGE_NUM, BITMAP_BITS

NoIndex == -1       \* numeric_limits<size_t>::max()

MaxWidth == 30      \* no size that a class is computed for needs more bits

\* The powers of two up to that width, as the shifts of the code use them.
ASSUME PowersOfTwo ==
    /\ 2^0 = 1 /\ 2^1 = 2
    /\ \A w \in 0 .. MaxWidth : 2^w \in Nat /\ \A v \in 0 .. w : 2^w = 2^v * 2^(w - v)

\* The number of bits of n.
bit_width(n) == CHOOSE w \in 0 .. MaxWidth : n < 2^w /\ (w > 0 => n >= 2^(w - 1))

kLinearBucketCount == kSmallLinearLimit \div ALIGNMENT
kLinearMsb == bit_width(kSmallLinearLimit) - 1
kStepsPerGroup == 2^kStepShift

IndexOfUpperBound(size) ==
    LET msb == bit_width(size) - 1
    IN  IF size = 0 THEN 0
        ELSE IF size <= kSmallLinearLimit THEN (size - 1) \div ALIGNMENT
        ELSE kLinearBucketCount + (msb - kLinearMsb) * kStepsPerGroup
             + ((size \div 2^(msb - kStepShift)) % kStepsPerGroup)

CalculateIndex(size) ==
    LET msb == bit_width(size - 1) - 1
    IN  IF size = 0 THEN 0
        ELSE IF size <= kSmallLinearLimit THEN (size - 1) \div ALIGNMENT
        ELSE kLinearBucketCount + (msb - kLinearMsb) * kStepsPerGroup
             + (((size - 1) \div 2^(msb - kStepShift)) % kStepsPerGroup)

CalculateSize(idx) ==
    LET relative == idx - kLinearBucketCount
        msb      == (relative \div kStepsPerGroup) + kLinearMsb
    IN  IF idx < kLinearBucketCount THEN (idx + 1) * ALIGNMENT
        ELSE 2^msb + ((relative % kStepsPerGroup) + 1) * 2^(msb - kStepShift)

kNumSizeClasses == CalculateIndex(MAX_TC_SIZE) + 1

\* What the static_asserts of size_class.h demand of a configuration.
ASSUME SizeAssumption ==
    /\ {kStepShift, kSmallSizeThreshold} \subseteq Nat
    /\ {ALIGNMENT, PAGE_SIZE, BITMAP_BITS} \subseteq Nat \ {0}
    /\ \E limit, max \in 0 .. MaxWidth :
          /\ kSmallLinearLimit = 2^limit /\ MAX_TC_SIZE = 2^max
          /\ kStepShift < limit /\ limit < max
    /\ kSmallLinearLimit % ALIGNMENT = 0
    /\ (kSmallLinearLimit \div kStepsPerGroup) % ALIGNMENT = 0
    /\ kNumSizeClasses <= 2^8

\* The tables; their elements are cut to eight and sixteen bits (those of
\* size_table_ to thirty-two, far above any size).
small_index_table_ == [size \in 0 .. kSmallSizeThreshold |-> CalculateIndex(size) % 2^8]

size_table_ == [idx \in 0 .. kNumSizeClasses - 1 |-> CalculateSize(idx)]

Clamp(x, low, high) == IF x < low THEN low ELSE IF x > high THEN high ELSE x

batch_table_ == [idx \in DOMAIN size_table_ |->
                    Clamp(MAX_TC_SIZE \div size_table_[idx], 2, kMaxBatchSize) % 2^16]

PagesFor(bytes) == (bytes + PAGE_SIZE - 1) \div PAGE_SIZE

move_page_table_ ==
    [idx \in DOMAIN size_table_ |->
        LET bytes == 8 * batch_table_[idx] * size_table_[idx]
            pages == PagesFor(IF bytes < 32 * 1024 THEN 32 * 1024 ELSE bytes)
        IN  (IF pages > MAX_PAGE_NUM THEN MAX_PAGE_NUM ELSE pages) % 2^16]

Index(size) == IF size > MAX_TC_SIZE THEN NoIndex
               ELSE IF size <= kSmallSizeThreshold THEN small_index_table_[size]
               ELSE CalculateIndex(size)

RoundUp(size) == IF Index(size) = NoIndex THEN size ELSE size_table_[Index(size)]

AlignUp(x, a) == ((x + a - 1) \div a) * a

LayoutUnreserved(size, pages) ==
    LET objs  == (pages * PAGE_SIZE) \div size
        words == (objs + BITMAP_BITS - 1) \div BITMAP_BITS
    IN  [bitmap_num |-> words, obj_offset |-> AlignUp(8 * words, ALIGNMENT), capacity |-> objs]

\* The bitmap comes first, the objects after it; the early returns guard
\* against sums that no configured class comes near.
ComputeSpanLayout(size, pages) ==
    LET total == pages * PAGE_SIZE
        objs  == (total * 8) \div (size * 8 + 1)
        words == (objs + BITMAP_BITS - 1) \div BITMAP_BITS
        start == AlignUp(8 * words, ALIGNMENT)
        raw   == IF start >= total THEN 0 ELSE (total - start) \div size
    IN  [bitmap_num |-> words, obj_offset |-> start,
         capacity |-> IF raw < objs THEN raw ELSE objs]

-----------------------------------------------------------------------------
\* A request up to MAX_TC_SIZE is served by the smallest class that holds
\* it, although Index reads a table below kSmallSizeThreshold and computes
\* above it; RoundUp leaves larger requests alone.  (The header checks this at
\* class boundaries only: all sizes exceed the compiler's constexpr budget.)
IsExact(request) ==
    LET i == Index(request)
    IN  IF request > MAX_TC_SIZE THEN i = NoIndex /\ RoundUp(request) = request
        ELSE /\ i \in DOMAIN size_table_
             /\ request <= size_table_[i]
             /\ i > 0 => size_table_[i - 1] < request
             /\ RoundUp(request) % ALIGNMENT = 0 /\ Index(RoundUp(request)) = i

\* Span::Init's checks on a grid: the bitmap has a bit for every slot, and
\* bitmap, padding and objects fit into the pages without overlapping.
GridSound(grid, size, pages) ==
    /\ grid.capacity <= grid.bitmap_num * BITMAP_BITS
    /\ 8 * grid.bitmap_num <= grid.obj_offset /\ grid.obj_offset % ALIGNMENT = 0
    /\ grid.capacity > 0 => grid.obj_offset + grid.capacity * size <= pages * PAGE_SIZE

\* The span CentralCache::GetOneSpan asks PageCache for holds at least one
\* batch of the class, at most MAX_PAGE_NUM pages, and Span::Init's grid
\* passes every one of its checks.
GridOf(request) ==
    request <= MAX_TC_SIZE =>
        LET i     == Index(request)
            size  == size_table_[i]
            pages == move_page_table_[i]
            grid  == ComputeSpanLayout(size, pages)
        IN  /\ pages \in 1 .. MAX_PAGE_NUM
            /\ grid.capacity >= batch_table_[i] /\ batch_table_[i] \in 2 .. kMaxBatchSize
            /\ GridSound(grid, size, pages)
=============================================================================
