------------------------ MODULE PageHeapScavenger ------------------------
(***************************************************************************)
(* The background scavenger (src/src/page_heap_scavenger.cpp) running beside *)
(* the page heap of module PageCache.                                        *)
(*                                                                           *)
(* A pass visits the buckets from the largest down.  For each it detaches    *)
(* the idle spans under the shard mutex, calls madvise on them without the   *)
(* mutex, one step per span, and puts them back under the mutex.             *)
(*                                                                           *)
(* `resident' is the set of pages whose contents have been written and not   *)
(* dropped: what MADV_DONTNEED takes away.                                   *)
(* flags is read under the mutex while SetCommitted writes it outside; both  *)
(* values the race can yield have the used bit set, so IsUsed is unaffected. *)
(***************************************************************************)
EXTENDS PageCache

CONSTANTS
    kScavengeInterval,  \* delay between passes, in clock ticks
    kIdleThreshold,     \* idle time before a span is reclaimed, in clock ticks
    TimeMod             \* last_used_time_ms is unsigned: arithmetic modulo this

ASSUME ScavengerConstants ==
    /\ kScavengeInterval \in Nat /\ kIdleThreshold \in Nat
    /\ TimeMod \in Nat /\ TimeMod > MaxTime + kIdleThreshold

VARIABLES
    phase,      \* "off", "wait", "scan", "advise" or "exited"
    stop,       \* stop_requested() of the jthread's token
    wake,       \* when wait_for times out
    idx,        \* i, the bucket the pass is at
    now,        \* now, read once at the start of the pass
    detached,   \* the local list head .. tail, in order
    advised,    \* how many of them madvise has been called on
    resident    \* pages with contents

thread == <<phase, stop, wake, idx, now, detached, advised>>
vars == <<pcVars, thread, resident>>

Listed == UNION {Range(span_lists[k]) : k \in Buckets}

ScavInit ==
    /\ Init
    /\ phase = "off" /\ stop = FALSE /\ wake = 0
    /\ idx = 0 /\ now = 0 /\ detached = <<>> /\ advised = 0
    /\ resident = {}

-----------------------------------------------------------------------------
(* Thread lifecycle; Start and Stop are externally serialised *)

\* Start: nothing to do when the thread is joinable.
Start ==
    /\ phase = "off"
    /\ phase' = "wait" /\ stop' = FALSE /\ wake' = clock + kScavengeInterval
    /\ UNCHANGED <<pcVars, idx, now, detached, advised, resident>>

\* Stop, first half: request_stop.
RequestStop ==
    /\ phase # "off" /\ ~stop
    /\ stop' = TRUE
    /\ UNCHANGED <<pcVars, phase, wake, idx, now, detached, advised, resident>>

\* Stop, second half: join returns once the thread function has.
Join ==
    /\ phase = "exited"
    /\ phase' = "off" /\ stop' = FALSE
    /\ UNCHANGED <<pcVars, wake, idx, now, detached, advised, resident>>

LoopExitAnywhere ==
    /\ phase \in {"wait", "advise"} /\ stop
    /\ phase' = "exited"
    /\ UNCHANGED <<pcVars, stop, wake, idx, now, detached, advised, resident>>

LoopExitOnTimeout ==
    /\ phase = "wait" /\ stop /\ clock >= wake
    /\ phase' = "exited"
    /\ UNCHANGED <<pcVars, stop, wake, idx, now, detached, advised, resident>>

\* The loop sees the stop request, in its condition or in the wait.
LoopExit ==
    /\ phase = "wait" /\ stop
    /\ phase' = "exited"
    /\ UNCHANGED <<pcVars, stop, wake, idx, now, detached, advised, resident>>

-----------------------------------------------------------------------------
(* ScavengeOnePass *)

\* The largest page count a bucket is for.
FirstBucket == MaxPageNum

PassStart ==
    /\ phase = "wait" /\ ~stop /\ clock >= wake
    /\ phase' = "scan" /\ idx' = FirstBucket /\ now' = clock
    /\ UNCHANGED <<pcVars, stop, wake, detached, advised, resident>>

\* now - last_used_time_ms >= kIdleThresholdMs, in unsigned arithmetic.
IdleAt(d) == (now - span[d].last) % TimeMod >= kIdleThreshold

Eligible(d) == ~span[d].used /\ span[d].committed /\ IdleAt(d)

\* A detached span is marked used, so that nobody else claims it.
ReservedNot(s) == s
Reserved(s) == [s EXCEPT !.used = TRUE]

\* Walk bucket idx under the mutex, detaching and reserving what is idle.
Scan ==
    /\ phase = "scan" /\ idx > 0 /\ cs = Free
    /\ LET idle == {d \in Descriptors : Eligible(d)}
       IN  /\ detached' = Keep(span_lists[idx], idle)
           /\ span_lists' = [span_lists EXCEPT ![idx] = Keep(@, Descriptors \ idle)]
    /\ span' = [d \in Descriptors |->
                  IF d \in Range(detached') THEN Reserved(span[d]) ELSE span[d]]
    /\ advised' = 0
    /\ IF detached' = <<>> THEN idx' = idx - 1 /\ phase' = "scan"
                           ELSE idx' = idx /\ phase' = "advise"
    /\ UNCHANGED <<live, page_map, mapped, held, cs, clock, stop, wake, now, resident>>

\* The descriptor after madvise; ok when it succeeded.
AdvisedAnyway(s, ok) == [s EXCEPT !.committed = FALSE]
Advised(s, ok) == [s EXCEPT !.committed = @ /\ ~ok]

\* madvise(MADV_DONTNEED) on the next detached span, without the mutex.
Advise ==
    /\ phase = "advise" /\ advised < Len(detached)
    /\ LET d == detached[advised + 1]
       IN  \E ok \in BOOLEAN :
             /\ span' = [span EXCEPT ![d] = Advised(@, ok)]
             /\ resident' = IF ok THEN resident \ PagesOf(span[d]) ELSE resident
    /\ advised' = advised + 1
    /\ UNCHANGED <<span_lists, live, page_map, mapped, held, cs, clock,
                   phase, stop, wake, idx, now, detached>>

\* The spans that go back.
ReturnedIfAdvised == Keep(detached, {d \in Descriptors : ~span[d].committed})
Returned == detached

\* Return every detached span to the tail of its bucket under the mutex.
Reattach ==
    /\ phase = "advise" /\ advised = Len(detached) /\ cs = Free
    /\ span' = [d \in Descriptors |-> IF d \in Range(Returned)
                                      THEN [span[d] EXCEPT !.used = FALSE, !.last = clock]
                                      ELSE span[d]]
    /\ span_lists' = [span_lists EXCEPT ![idx] = @ \o Returned]
    /\ detached' = <<>> /\ advised' = 0
    /\ idx' = idx - 1 /\ phase' = "scan"
    /\ UNCHANGED <<live, page_map, mapped, held, cs, clock, stop, wake, now, resident>>

PassEnd ==
    /\ phase = "scan" /\ idx = 0
    /\ phase' = "wait" /\ wake' = clock + kScavengeInterval
    /\ UNCHANGED <<pcVars, stop, idx, now, detached, advised, resident>>

-----------------------------------------------------------------------------
(* The page heap and its clients *)

Tick == /\ clock < MaxTime
        /\ clock' = clock + 1
        /\ UNCHANGED <<span_lists, span, live, page_map, mapped, held, cs>>

\* A step of the page heap.  A page it unmaps loses its contents.  Reset requires
\* the scavenger to be stopped.
HeapStep ==
    /\ Tick \/ Alloc \/ Release \/ Use \/ (phase = "off" /\ Reset)
    /\ resident' = resident \cap mapped'
    /\ UNCHANGED thread

\* The owner of a span writes to its pages.
Write ==
    /\ \E d \in held : resident' = resident \cup PagesOf(span[d])
    /\ UNCHANGED <<pcVars, thread>>

Pass == PassStart \/ Scan \/ Advise \/ Reattach \/ PassEnd

ScavNext == HeapStep \/ Write \/ Start \/ RequestStop \/ Join \/ LoopExit \/ Pass

ScavSpec == ScavInit /\ [][ScavNext]_vars

\* The scavenger thread is scheduled, and whoever is inside the mutex leaves.
Fairness ==
    /\ WF_vars(LoopExit \/ Scan \/ Advise \/ Reattach \/ PassEnd)
    /\ WF_vars(Join)
    /\ WF_vars(HeapStep /\ cs # Free)

LiveSpec == ScavSpec /\ Fairness

-----------------------------------------------------------------------------
(* Properties *)

\* The variables have their types: the pass never leaves the array of buckets.
ScavTypeOK ==
    /\ TypeOK
    /\ phase \in {"off", "wait", "scan", "advise", "exited"}
    /\ stop \in BOOLEAN
    /\ wake \in 0 .. MaxTime + kScavengeInterval /\ now \in 0 .. MaxTime
    /\ idx \in 0 .. MaxPageNum
    /\ detached \in Seq(Descriptors) /\ advised \in 0 .. Len(detached)
    /\ resident \subseteq mapped

\* A live span has exactly one owner at any moment: a free bucket, a client,
\* the scavenger's private list, the release in progress, or that release's
\* retired list.  So AllocSpan and coalescing never touch a span the scavenger
\* works on without the lock, and the scavenger never keeps one that it gave
\* back.
OneOwner ==
    LET parts == <<Listed, held, Range(detached),
                   IF cs.op \in {"left", "right"} THEN {cs.d} ELSE {}, cs.retired>>
    IN  /\ ScavTypeOK
        /\ live = UNION Range(parts)
        /\ \A i, j \in DOMAIN parts : i # j => parts[i] \cap parts[j] = {}

\* The committed flag of a free span is honest: when it is clear the pages have
\* no contents left, so skipping the span in the next pass loses nothing, and a
\* failed madvise never clears it.
HonestCommitted == \A d \in Listed : span[d].committed \/ PagesOf(span[d]) \cap resident = {}

\* What a client has written to its span stays there until it releases it: no
\* madvise, racing with allocation, splitting and coalescing, hits it.
ClientDataKept ==
    [][\A d \in held \cap held' : PagesOf(span[d]) \cap resident \subseteq resident']_vars

\* Stop is the quiescent-state boundary its comment promises: after it returns
\* no span is missing from the free lists.
QuiescentWhenStopped == phase \in {"off", "exited", "wait"} => detached = <<>>

\* Once clients leave the mutex alone, a span the scavenger detached comes back
\* to its bucket, madvise or not.
DetachedComeBack ==
    <>[](cs = Free) => \A d \in Descriptors : d \in Range(detached) ~> d \in Listed

\* Under the same condition a Stop that was requested returns, whatever the
\* thread was doing: no matter how long the scavenge interval is.
StopReturns == <>[](cs = Free) => (stop ~> phase = "off")

\* "Minimum idle time before a committed free span is reclaimed": a span is
\* detached only after it has been free for the threshold.
IdleBeforeReclaim ==
    [][\A d \in Range(detached') \ Range(detached) :
          clock - span[d].last >= kIdleThreshold]_vars
=============================================================================
