------------------------------ MODULE ThreadCache ------------------------------
(***************************************************************************)
(* The per-thread front end (src/thread_cache.cpp): one free list and one  *)
(* quota per size class, the aggregate byte budget over the quotas, and    *)
(* the cooperative trim requests every owner picks up on its slow paths.   *)
(*                                                                         *)
(* A list is modelled by its length.  The objects a thread frees may come  *)
(* from any thread, so Deallocate is always possible; CentralCache is      *)
(* modelled by its answer: FetchBatch hands out any number of objects up   *)
(* to the request (CentralCache.tla says what it does with them).          *)
(*                                                                         *)
(* Only the owner touches a ThreadCache.  What other threads can change    *)
(* under its feet is trim_request_, so an operation is one step between    *)
(* two reads of that word, and a trim is one step per class it visits.     *)
(***************************************************************************)
EXTENDS Integers, FiniteSetsExt

CONSTANTS
    Threads,
    NumClasses,        \* SizeClass::kNumSizeClasses
    ClassSize,         \* SizeClass::Size, a function on the classes
    Batch,             \* SizeClass::CalculateBatchSize of each class
    kMaxQuotaBatches,
    kMaxOverages,
    GivenBudget,       \* the constructor's cache_budget_bytes
    TrimTarget,        \* kDefaultTrimTargetBytes
    OwnerTargets,      \* targets of the owner's direct calls of Trim
    MaxEpoch           \* bound: no request is started at or beyond this epoch

Classes == 1 .. NumClasses
kReuse == "kReuse"
kRelease == "kRelease"
Modes == {kReuse, kRelease}

ASSUME ClassesAssumption ==
    /\ NumClasses \in Nat \ {0}
    /\ ClassSize \in [Classes -> Nat \ {0}]
    /\ Batch \in [Classes -> Nat \ {0, 1}]      \* batch_table_ clamps at 2

ASSUME ThreadsAssumption == IsFiniteSet(Threads)

Total(f, S) == MapThenSumSet(LAMBDA x : f[x], S)
SumOver(f) == Total([c \in Classes |-> f[c] * ClassSize[c]], Classes)
InitialReservedQuotaBytes == SumOver([c \in Classes |-> 1])

ASSUME PolicyAssumption ==
    /\ kMaxQuotaBatches \in Nat \ {0}
    /\ kMaxOverages \in Nat \ {0, 1}
    /\ GivenBudget \in Nat /\ TrimTarget \in Nat /\ MaxEpoch \in Nat
    /\ OwnerTargets \subseteq Nat

VARIABLES
    size,         \* FreeList::size_ of each thread and class
    max_size,     \* FreeList::max_size_
    overages,     \* FreeList::overages_
    reserved,     \* reserved_quota_bytes_ of each thread
    g_reserved,   \* g_thread_cache_stats.reserved_quota_bytes
    trim_request, \* trim_request_: the packed epoch and mode
    observed,     \* observed_trim_epoch_ of each thread
    loc           \* what each thread is doing

vars == <<size, max_size, overages, reserved, g_reserved, trim_request,
          observed, loc>>
lists == <<size, max_size, overages>>
quotas == <<max_size, overages, reserved, g_reserved>>

Lesser(a, b) == IF a < b THEN a ELSE b
Greater(a, b) == IF a > b THEN a ELSE b

cache_budget_bytes == Greater(GivenBudget, InitialReservedQuotaBytes)

Dead == [pc |-> "dead"]
Idle == [pc |-> "idle"]
Fetching(c) == [pc |-> "fetch", class |-> c]
Overflowing(c) == [pc |-> "overflow", class |-> c]
SoftTrim == [pc |-> "soft"]
Requesting(r, m) == [pc |-> "request", seen |-> r, mode |-> m]
\* Trim(m, target): first the count of the cached bytes, then the eviction;
\* epoch is the request it serves, or -1; next is what follows it
Trimming(m, target, epoch, next) ==
    [pc |-> "count", mode |-> m, target |-> target, cached |-> 0,
     idx |-> 1, epoch |-> epoch, next |-> next]

At(t, p) == loc[t].pc = p
Goto(t, l) == loc' = [loc EXCEPT ![t] = l]
Alive(t) == loc[t].pc # "dead"

Init ==
    /\ size = [t \in Threads |-> [c \in Classes |-> 0]]
    /\ max_size = [t \in Threads |-> [c \in Classes |-> 1]]
    /\ overages = [t \in Threads |-> [c \in Classes |-> 0]]
    /\ reserved = [t \in Threads |-> 0]
    /\ g_reserved = 0
    /\ trim_request = [epoch |-> 0, mode |-> kReuse]
    /\ observed = [t \in Threads |-> 0]
    /\ loc = [t \in Threads |-> Dead]

-----------------------------------------------------------------------------
(* Construction, and destruction after ReleaseAll at thread exit.          *)

Construct(t) ==
    /\ At(t, "dead")
    /\ reserved' = [reserved EXCEPT ![t] = InitialReservedQuotaBytes]
    /\ g_reserved' = g_reserved + InitialReservedQuotaBytes
    /\ observed' = [observed EXCEPT ![t] = trim_request.epoch]
    /\ Goto(t, Idle)
    /\ UNCHANGED <<lists, trim_request>>

\* The reservation ReleaseAll gives up by setting every quota back to 1.
ReleaseAllBytes(t) == SumOver([c \in Classes |-> max_size[t][c] - 1])

\* ReleaseAll sets every quota back to 1, the destructor then gives up what
\* is still reserved.
Exit(t) ==
    /\ At(t, "idle")
    /\ size' = [size EXCEPT ![t] = [c \in Classes |-> 0]]
    /\ max_size' = [max_size EXCEPT ![t] = [c \in Classes |-> 1]]
    /\ overages' = [overages EXCEPT ![t] = [c \in Classes |-> 0]]
    /\ LET freed == ReleaseAllBytes(t)
       IN  g_reserved' = (g_reserved - freed) - (reserved[t] - freed)
    /\ reserved' = [reserved EXCEPT ![t] = 0]
    /\ Goto(t, Dead)
    /\ UNCHANGED <<trim_request, observed>>

-----------------------------------------------------------------------------
(* Quotas.                                                                 *)

NextAfterRefill(m, b) ==
    IF m < b THEN Lesser(b, m + Greater(1, m))
    ELSE IF m < b * kMaxQuotaBatches
         THEN Lesser(b * kMaxQuotaBatches, m + Greater(1, b \div kMaxQuotaBatches))
         ELSE m

OverflowKeepsCount(m, b, o) ==
    IF m <= b THEN [max_size |-> m, overages |-> 0]
    ELSE IF o + 1 >= kMaxOverages
         THEN [max_size |-> Greater(m - b, b), overages |-> o]
         ELSE [max_size |-> m, overages |-> o + 1]

NextAfterOverflow(m, b, o) ==
    IF m <= b THEN [max_size |-> m, overages |-> 0]
    ELSE IF o + 1 >= kMaxOverages
         THEN [max_size |-> Greater(m - b, b), overages |-> 0]
         ELSE [max_size |-> m, overages |-> o + 1]

CanSetQuotaAlone(t, c, n) ==
    \/ n <= max_size[t][c]
    \/ n * ClassSize[c] <= cache_budget_bytes

CanSetQuota(t, c, n) ==
    \/ n <= max_size[t][c]
    \/ (n - max_size[t][c]) * ClassSize[c] <= cache_budget_bytes - reserved[t]

SetQuota(t, c, n) ==
    LET delta == (n - max_size[t][c]) * ClassSize[c]
    IN  /\ max_size' = [max_size EXCEPT ![t][c] = n]
        /\ reserved' = [reserved EXCEPT ![t] = @ + delta]
        /\ g_reserved' = g_reserved + delta

\* A free list is its length, which Push, Pop, PushBatch and PopBatchTail keep
\* in size_; FreeList.tla has the chain itself.
SetSize(t, c, n) == size' = [size EXCEPT ![t][c] = n]
SetOverages(t, c, n) == overages' = [overages EXCEPT ![t][c] = n]

-----------------------------------------------------------------------------
(* Trim requests and trims.                                                *)

RequestGlobalTrim(t, m) ==
    /\ At(t, "idle")
    /\ trim_request.epoch < MaxEpoch
    /\ Goto(t, Requesting(trim_request, m))
    /\ UNCHANGED <<lists, reserved, g_reserved, trim_request, observed>>

RequestCas(t) ==
    /\ At(t, "request")
    /\ trim_request = loc[t].seen
    /\ trim_request' = [epoch |-> loc[t].seen.epoch + 1, mode |-> loc[t].mode]
    /\ Goto(t, Idle)
    /\ UNCHANGED <<lists, reserved, g_reserved, observed>>

\* a failed compare_exchange (a weak one may fail on equal values) reloads
RequestRetry(t) ==
    /\ At(t, "request")
    /\ Goto(t, Requesting(trim_request, loc[t].mode))
    /\ UNCHANGED <<lists, reserved, g_reserved, trim_request, observed>>

TrimTargetForMode(m) == IF m = kRelease THEN 0 ELSE TrimTarget

\* HandleGlobalTrimRequest at the start of an operation that goes on at next.
HandleGlobalTrimRequest(t, next) ==
    IF trim_request.epoch = observed[t]
    THEN Goto(t, next)
    ELSE LET m == trim_request.mode
         IN  Goto(t, Trimming(m, TrimTargetForMode(m), trim_request.epoch, next))

Evictable(t, c, m) ==
    IF m = kReuse THEN size[t][c] - Lesser(size[t][c], Batch[c]) ELSE size[t][c]

EvictRoundedDown(t, c, m, cached, target) ==
    IF cached > target
    THEN Lesser(Evictable(t, c, m), (cached - target) \div ClassSize[c])
    ELSE 0

EvictCount(t, c, m, cached, target) ==
    IF cached > target
    THEN Lesser(Evictable(t, c, m),
                (cached - target + ClassSize[c] - 1) \div ClassSize[c])
    ELSE 0

\* The quota a trim leaves to a list that keeps n objects.
ContractedQuota(t, c, m, n) ==
    IF m = kRelease THEN Lesser(max_size[t][c], Greater(1, n))
    ELSE IF max_size[t][c] > Batch[c]
         THEN Lesser(max_size[t][c], Greater(Batch[c], n))
         ELSE max_size[t][c]

CachedBytesSnapshot(t) ==
    /\ At(t, "count")
    /\ LET c == loc[t].idx
           total == loc[t].cached + size[t][c] * ClassSize[c]
       IN  Goto(t, IF c = NumClasses
                   THEN [loc[t] EXCEPT !.cached = total, !.pc = "trim"]
                   ELSE [loc[t] EXCEPT !.cached = total, !.idx = c + 1])
    /\ UNCHANGED <<lists, reserved, g_reserved, trim_request, observed>>

TrimClass(t) ==
    /\ At(t, "trim") /\ loc[t].idx > 0
    /\ LET c == loc[t].idx
           m == loc[t].mode
           e == EvictCount(t, c, m, loc[t].cached, loc[t].target)
       IN  /\ SetSize(t, c, size[t][c] - e)
           /\ SetQuota(t, c, ContractedQuota(t, c, m, size[t][c] - e))
           /\ SetOverages(t, c, IF m = kRelease \/ max_size[t][c] > Batch[c]
                                THEN 0 ELSE overages[t][c])
           /\ Goto(t, [loc[t] EXCEPT !.idx = c - 1, !.cached = @ - e * ClassSize[c]])
    /\ UNCHANGED <<trim_request, observed>>

TrimEndReloads(t) ==
    /\ At(t, "trim") /\ loc[t].idx = 0
    /\ observed' = IF loc[t].epoch = -1 THEN observed
                   ELSE [observed EXCEPT ![t] = trim_request.epoch]
    /\ Goto(t, loc[t].next)
    /\ UNCHANGED <<lists, reserved, g_reserved, trim_request>>

TrimEnd(t) ==
    /\ At(t, "trim") /\ loc[t].idx = 0
    /\ observed' = IF loc[t].epoch = -1 THEN observed
                   ELSE [observed EXCEPT ![t] = loc[t].epoch]
    /\ Goto(t, loc[t].next)
    /\ UNCHANGED <<lists, reserved, g_reserved, trim_request>>

\* Trim called by the owner itself: am_thread_cache_purge, and embedders.
Trim(t, m, target) ==
    /\ At(t, "idle")
    /\ Goto(t, Trimming(m, target, -1, Idle))
    /\ UNCHANGED <<lists, reserved, g_reserved, trim_request, observed>>

am_thread_cache_trim(t) ==
    /\ At(t, "idle")
    /\ HandleGlobalTrimRequest(t, SoftTrim)
    /\ UNCHANGED <<lists, reserved, g_reserved, trim_request, observed>>

am_thread_cache_trim_own(t) ==
    /\ At(t, "soft")
    /\ Goto(t, Trimming(kReuse, TrimTarget, -1, Idle))
    /\ UNCHANGED <<lists, reserved, g_reserved, trim_request, observed>>

-----------------------------------------------------------------------------
(* Allocation and deallocation.                                            *)

Allocate(t, c) ==
    /\ At(t, "idle") /\ size[t][c] > 0
    /\ SetSize(t, c, size[t][c] - 1)
    /\ UNCHANGED <<quotas, trim_request, observed, loc>>

FetchFromCentralCache(t, c) ==
    /\ At(t, "idle") /\ size[t][c] = 0
    /\ HandleGlobalTrimRequest(t, Fetching(c))
    /\ UNCHANGED <<lists, reserved, g_reserved, trim_request, observed>>

\* CentralCache hands out n objects; one of them goes to the caller.
AcceptFetchedBatch(t) ==
    /\ At(t, "fetch")
    /\ LET c == loc[t].class
           fetch_num == Lesser(Batch[c], max_size[t][c])
           grown == NextAfterRefill(max_size[t][c], Batch[c])
       IN  \E n \in 0 .. fetch_num :
             /\ SetSize(t, c, IF n = 0 THEN 0 ELSE n - 1)
             /\ IF n = fetch_num /\ CanSetQuota(t, c, grown)
                THEN SetQuota(t, c, grown)
                ELSE UNCHANGED <<max_size, reserved, g_reserved>>
             /\ IF n = fetch_num THEN SetOverages(t, c, 0)
                ELSE UNCHANGED overages
    /\ Goto(t, Idle)
    /\ UNCHANGED <<trim_request, observed>>

Deallocate(t, c) ==
    /\ At(t, "idle")
    /\ SetSize(t, c, size[t][c] + 1)
    /\ IF size[t][c] + 1 > max_size[t][c]
       THEN HandleGlobalTrimRequest(t, Overflowing(c))
       ELSE UNCHANGED loc
    /\ UNCHANGED <<quotas, trim_request, observed>>

DeallocateSlowPath(t) ==
    /\ At(t, "overflow")
    /\ LET c == loc[t].class
           q == NextAfterOverflow(max_size[t][c], Batch[c], overages[t][c])
       IN  IF size[t][c] <= max_size[t][c]
           THEN UNCHANGED <<size, quotas>>
           ELSE /\ SetSize(t, c, size[t][c] - Lesser(size[t][c], Batch[c]))
                /\ SetQuota(t, c, q.max_size)
                /\ SetOverages(t, c, q.overages)
    /\ Goto(t, Idle)
    /\ UNCHANGED <<trim_request, observed>>

-----------------------------------------------------------------------------
Step(t) ==
    \/ Construct(t) \/ Exit(t)
    \/ \E m \in Modes : RequestGlobalTrim(t, m)
    \/ RequestCas(t) \/ RequestRetry(t)
    \/ \E m \in Modes, n \in OwnerTargets : Trim(t, m, n)
    \/ am_thread_cache_trim(t) \/ am_thread_cache_trim_own(t)
    \/ CachedBytesSnapshot(t) \/ TrimClass(t) \/ TrimEnd(t)
    \/ \E c \in Classes : \/ Allocate(t, c) \/ FetchFromCentralCache(t, c)
                          \/ Deallocate(t, c)
    \/ AcceptFetchedBatch(t) \/ DeallocateSlowPath(t)

Next == \E t \in Threads : Step(t)

Spec == Init /\ [][Next]_vars

-----------------------------------------------------------------------------
(* Properties.                                                             *)

Places ==
    {Dead, Idle, SoftTrim} \cup {Fetching(c) : c \in Classes}
        \cup {Overflowing(c) : c \in Classes}
Epochs == 0 .. MaxEpoch + Cardinality(Threads)
Requests == [epoch : Epochs, mode : Modes]

\* The variables have their types; in particular no unsigned counter of the
\* code (list length, quota, reservation, bytes left in a trim) wraps below 0.
TypeOK ==
    /\ size \in [Threads -> [Classes -> Nat]]
    /\ max_size \in [Threads -> [Classes -> Nat]]
    /\ overages \in [Threads -> [Classes -> Nat]]
    /\ reserved \in [Threads -> Nat]
    /\ g_reserved \in Nat
    /\ trim_request \in Requests
    /\ observed \in [Threads -> Epochs]
    /\ DOMAIN loc = Threads
    /\ \A t \in Threads :
          \/ loc[t] \in Places
          \/ loc[t] \in [pc : {"request"}, seen : Requests, mode : Modes]
          \/ loc[t] \in [pc : {"count", "trim"}, mode : Modes,
                         target : OwnerTargets \cup {0, TrimTarget},
                         cached : Nat, idx : 0 .. NumClasses,
                         epoch : Epochs \cup {-1}, next : Places]

\* The reservation a thread keeps by adding and subtracting deltas is exactly
\* the sum of its quotas in bytes; it never falls below one object per class
\* nor exceeds the byte budget that the classes share.  The process-wide
\* telemetry is the sum over the live threads (CanSetQuota, SetQuota,
\* constructor and destructor).
QuotaAccounting ==
    /\ \A t \in Threads : Alive(t) =>
          /\ reserved[t] = SumOver(max_size[t])
          /\ reserved[t] >= InitialReservedQuotaBytes
          /\ reserved[t] <= cache_budget_bytes
    /\ g_reserved = Total(reserved, Threads)

\* Every quota is between 1 and kMaxQuotaBatches batches, the overage counter
\* stays below the decay threshold, a class at or below one batch keeps no
\* decay state, and no thread reserves more bytes than its budget
\* (NextAfterRefill, NextAfterOverflow, CanSetQuota, Trim, ReleaseAll).
QuotaInRange ==
    /\ \A t \in Threads : reserved[t] <= cache_budget_bytes
    /\ \A t \in Threads, c \in Classes :
         /\ max_size[t][c] \in 1 .. Batch[c] * kMaxQuotaBatches
         /\ overages[t][c] < kMaxOverages
         /\ max_size[t][c] <= Batch[c] => overages[t][c] = 0

\* The overflow of class c that t is in the middle of, in Deallocate's slow
\* path or in a trim that runs inside it.
InOverflow(t, c) ==
    \/ loc[t] = Overflowing(c)
    \/ loc[t].pc \in {"count", "trim"} /\ loc[t].next = Overflowing(c)

\* How far a list may exceed its quota.  Between operations by one object, and
\* only just after a decay (the overage counter is 0); inside Deallocate by one
\* more (Deallocate, DeallocateSlowPath, NextAfterOverflow).
OccupancyBound ==
    \A t \in Threads, c \in Classes :
      /\ size[t][c] <= max_size[t][c] + 2
      /\ size[t][c] = max_size[t][c] + 2 => overages[t][c] = 0 /\ InOverflow(t, c)
      /\ size[t][c] = max_size[t][c] + 1 => overages[t][c] = 0 \/ InOverflow(t, c)

\* The bound that docs/designs/02-thread-cache.md lists among its standing
\* invariants (section 6.7) and derives from Deallocate pushing before it
\* compares: a list is never more than one object above its quota.
QuotaPlusOne ==
    \A t \in Threads, c \in Classes : size[t][c] <= max_size[t][c] + 1

\* A trim counts the bytes it has left correctly and ends where it promises: a
\* purge (kRelease to 0) leaves every list empty and every quota at 1, so only
\* one object per class stays reserved; any other kRelease trim reaches its
\* target; a kReuse trim reaches it or leaves no list with more than a batch.
TrimMeetsTarget ==
    \A t \in Threads : At(t, "trim") =>
      LET l == loc[t]
      IN  /\ l.cached = SumOver(size[t])
          /\ l.idx = 0 =>
               /\ l.mode = kRelease => l.cached <= l.target
               /\ l.mode = kRelease /\ l.target = 0 =>
                    /\ \A c \in Classes : size[t][c] = 0 /\ max_size[t][c] = 1
                    /\ reserved[t] = InitialReservedQuotaBytes
               /\ l.mode = kReuse =>
                    \/ l.cached <= l.target
                    \/ \A c \in Classes : size[t][c] <= Batch[c]

\* Quotas grow only in a refill that was served in full, of a list that was
\* empty; whatever else a thread does - trims included, also one picked up in
\* the middle of an overflow - leaves every quota where it is or lowers it.
GrowthOnlyByRefill ==
    [][\A t \in Threads, c \in Classes :
          max_size'[t][c] > max_size[t][c] =>
            /\ loc[t] = Fetching(c)
            /\ size[t][c] = 0
            /\ size'[t][c] = Lesser(Batch[c], max_size[t][c]) - 1]_vars
=============================================================================
