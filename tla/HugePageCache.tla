--------------------------- MODULE HugePageCache ---------------------------
(***************************************************************************)
(* The lock-free cache of 2 MiB mappings and the SystemAlloc / SystemFree   *)
(* calls of that size around it (src/src/page_allocator.cpp).               *)
(*                                                                          *)
(* Two Treiber stacks, free and used, share one array of slots; a head is   *)
(* an index with a tag.  Each load, store and compare-exchange on shared    *)
(* memory is a step of its own.  The acquire / release pairs on the heads   *)
(* order the plain accesses to slots_[i].ptr, so interleaving is enough.    *)
(* The 48-bit tag is an integer that the guards keep below MaxTag.          *)
(***************************************************************************)
EXTENDS Integers, Sequences, FiniteSets

CONSTANTS
    Threads,
    kCapacity,      \* number of slots
    Pages,          \* 2 MiB regions mmap may return
    AlignedPages,   \* those that start on a 2 MiB boundary
    NoPage,         \* the null pointer
    MaxTag          \* bound on the tags

ASSUME HugeConstants ==
    /\ kCapacity \in Nat \ {0}
    /\ AlignedPages \subseteq Pages /\ NoPage \notin Pages
    /\ MaxTag \in Nat

VARIABLES
    head,       \* "free" / "used" -> [index, tag]: free_head_ and used_head_
    next,       \* slot -> slots_[i].next
    ptr,        \* slot -> slots_[i].ptr
    loc,        \* thread -> where it is and its local variables
    owned,      \* 2 MiB mappings that callers of SystemAlloc hold
    mapped      \* 2 MiB mappings the OS has given out

vars == <<head, next, ptr, loc, owned, mapped>>

SlotIndexes == 0 .. kCapacity - 1
kInvalid == kCapacity           \* any index that is not a slot
Stacks == {"free", "used"}

Idle == [pc |-> "idle", op |-> "get", stack |-> "free", old |-> [index |-> kInvalid, tag |-> 0],
         next |-> kInvalid, index |-> kInvalid, page |-> NoPage]

Init ==
    /\ head = [s \in Stacks |-> [index |-> IF s = "free" THEN 0 ELSE kInvalid, tag |-> 0]]
    /\ next = [i \in SlotIndexes |-> i + 1]           \* the last one is kInvalid
    /\ ptr = [i \in SlotIndexes |-> NoPage]
    /\ loc = [t \in Threads |-> Idle]
    /\ owned = {} /\ mapped = {}

PackUntagged(index, old) == [index |-> index, tag |-> old.tag]

\* Pack(index, Tag(old) + 1): the head a successful compare-exchange installs.
Pack(index, old) == [index |-> index, tag |-> old.tag + 1]

\* A Get pops "used" and then pushes "free"; a Put does the opposite.
Start(op, page) == [Idle EXCEPT !.pc = "load", !.op = op, !.page = page,
                                !.stack = IF op = "get" THEN "used" ELSE "free"]

-----------------------------------------------------------------------------
(* SystemAlloc and SystemFree of 2 MiB *)

BeginGet(t) ==
    /\ loc[t].pc = "idle"
    /\ loc' = [loc EXCEPT ![t] = Start("get", NoPage)]
    /\ UNCHANGED <<head, next, ptr, owned, mapped>>

BeginPutMisaligned(t) ==
    /\ loc[t].pc = "idle"
    /\ \E p \in owned : /\ loc' = [loc EXCEPT ![t] = Start("put", p)]
                        /\ owned' = owned \ {p}
    /\ UNCHANGED <<head, next, ptr, mapped>>

\* madvise succeeded on an aligned mapping: try to cache it.
BeginPut(t) ==
    /\ loc[t].pc = "idle"
    /\ \E p \in owned \cap AlignedPages :
         /\ loc' = [loc EXCEPT ![t] = Start("put", p)]
         /\ owned' = owned \ {p}
    /\ UNCHANGED <<head, next, ptr, mapped>>

\* Misaligned, or madvise failed: unmap without caching.
FreeUncached(t) ==
    /\ loc[t].pc = "idle"
    /\ \E p \in owned : owned' = owned \ {p} /\ mapped' = mapped \ {p}
    /\ UNCHANGED <<head, next, ptr, loc>>

\* Pop found its stack empty.  Get: AllocHugePage maps anew, or fails.
GetMiss(t) ==
    /\ loc[t].pc = "empty" /\ loc[t].op = "get"
    /\ \/ \E p \in Pages \ mapped : mapped' = mapped \cup {p} /\ owned' = owned \cup {p}
       \/ UNCHANGED <<mapped, owned>>
    /\ loc' = [loc EXCEPT ![t] = Idle]
    /\ UNCHANGED <<head, next, ptr>>

\* Put: the cache is full and the caller unmaps.
PutFull(t) ==
    /\ loc[t].pc = "empty" /\ loc[t].op = "put"
    /\ mapped' = mapped \ {loc[t].page}
    /\ loc' = [loc EXCEPT ![t] = Idle]
    /\ UNCHANGED <<head, next, ptr, owned>>

-----------------------------------------------------------------------------
(* Pop *)

\* The value of head in hand: leave when the stack is empty, else go on.
Loaded(t, old) ==
    [loc[t] EXCEPT !.old = old, !.pc = IF old.index = kInvalid THEN "empty" ELSE "next"]

PopLoad(t) ==
    /\ loc[t].pc = "load"
    /\ loc' = [loc EXCEPT ![t] = Loaded(t, head[loc[t].stack])]
    /\ UNCHANGED <<head, next, ptr, owned, mapped>>

PopNext(t) ==
    /\ loc[t].pc = "next"
    /\ loc' = [loc EXCEPT ![t].next = next[loc[t].old.index], ![t].pc = "cas"]
    /\ UNCHANGED <<head, next, ptr, owned, mapped>>

PopCas(t) ==
    LET l == loc[t]
    IN  /\ l.pc = "cas"
        /\ head[l.stack] = l.old /\ l.old.tag < MaxTag
        /\ head' = [head EXCEPT ![l.stack] = Pack(l.next, l.old)]
        /\ loc' = [loc EXCEPT ![t] = [l EXCEPT !.index = l.old.index, !.pc = "popped",
                                               !.old = Idle.old, !.next = kInvalid]]
        /\ UNCHANGED <<next, ptr, owned, mapped>>

\* compare_exchange_weak fails, also spuriously, and reloads the head.
PopRetry(t) ==
    /\ loc[t].pc = "cas"
    /\ loc' = [loc EXCEPT ![t] = [Loaded(t, head[loc[t].stack]) EXCEPT !.next = kInvalid]]
    /\ UNCHANGED <<head, next, ptr, owned, mapped>>

-----------------------------------------------------------------------------
(* Between Pop and Push: read or write the slot's pointer *)

ReadSlot(t) ==
    /\ loc[t].pc = "popped" /\ loc[t].op = "get"
    /\ loc' = [loc EXCEPT ![t].page = ptr[loc[t].index], ![t].stack = "free",
                          ![t].pc = "pushload"]
    /\ UNCHANGED <<head, next, ptr, owned, mapped>>

WriteSlot(t) ==
    /\ loc[t].pc = "popped" /\ loc[t].op = "put"
    /\ ptr' = [ptr EXCEPT ![loc[t].index] = loc[t].page]
    /\ loc' = [loc EXCEPT ![t].stack = "used", ![t].pc = "pushload"]
    /\ UNCHANGED <<head, next, owned, mapped>>

-----------------------------------------------------------------------------
(* Push *)

PushLoad(t) ==
    /\ loc[t].pc = "pushload"
    /\ loc' = [loc EXCEPT ![t].old = head[loc[t].stack], ![t].pc = "link"]
    /\ UNCHANGED <<head, next, ptr, owned, mapped>>

PushLink(t) ==
    /\ loc[t].pc = "link"
    /\ next' = [next EXCEPT ![loc[t].index] = loc[t].old.index]
    /\ loc' = [loc EXCEPT ![t].pc = "pushcas"]
    /\ UNCHANGED <<head, ptr, owned, mapped>>

\* The slot is published.  Put returns true; Get returns the page it read, and
\* SystemAlloc drops a misaligned one and maps anew.
PushCas(t) ==
    LET l == loc[t]
    IN  /\ l.pc = "pushcas"
        /\ head[l.stack] = l.old /\ l.old.tag < MaxTag
        /\ head' = [head EXCEPT ![l.stack] = Pack(l.index, l.old)]
        /\ owned' = IF l.op = "get" THEN owned \cup ({l.page} \cap AlignedPages) ELSE owned
        /\ loc' = [loc EXCEPT ![t] = IF l.op = "get" /\ l.page \notin AlignedPages
                                     THEN [Idle EXCEPT !.pc = "empty"] ELSE Idle]
        /\ UNCHANGED <<next, ptr, mapped>>

PushRetry(t) ==
    /\ loc[t].pc = "pushcas"
    /\ loc' = [loc EXCEPT ![t].old = head[loc[t].stack], ![t].pc = "link"]
    /\ UNCHANGED <<head, next, ptr, owned, mapped>>

Next ==
    \E t \in Threads :
        \/ BeginGet(t) \/ BeginPut(t) \/ FreeUncached(t) \/ GetMiss(t) \/ PutFull(t)
        \/ PopLoad(t) \/ PopNext(t) \/ PopCas(t) \/ PopRetry(t)
        \/ ReadSlot(t) \/ WriteSlot(t)
        \/ PushLoad(t) \/ PushLink(t) \/ PushCas(t) \/ PushRetry(t)

Spec == Init /\ [][Next]_vars

-----------------------------------------------------------------------------
(* Properties *)

\* The indexes of a stack, following next from its head: the n-th, and all.
Nth(first, nxt) ==
    LET nth[n \in 0 .. kCapacity] ==
          IF n = 0 THEN first
          ELSE IF nth[n - 1] = kInvalid THEN kInvalid ELSE nxt[nth[n - 1]]
    IN  nth
Chain(s) == {Nth(head[s].index, next)[n] : n \in 0 .. kCapacity} \ {kInvalid}

InHand == {loc[t].index : t \in Threads} \ {kInvalid}

Indexes == SlotIndexes \cup {kInvalid}
Heads == [index: Indexes, tag: 0 .. MaxTag]
PopPCs  == {"load", "next", "cas"}
PushPCs == {"pushload", "link", "pushcas"}
Locals == [pc: {"idle", "empty", "popped"} \cup PopPCs \cup PushPCs, op: {"get", "put"},
           stack: Stacks, old: Heads, next: Indexes, index: Indexes, page: Pages \cup {NoPage}]

\* The variables have their types: indexes are slots or the invalid index.
TypeOK ==
    /\ head \in [Stacks -> Heads]
    /\ next \in [SlotIndexes -> Indexes]
    /\ ptr \in [SlotIndexes -> Pages \cup {NoPage}]
    /\ loc \in [Threads -> Locals]
    /\ owned \subseteq Pages /\ mapped \subseteq Pages

\* No slot is lost, duplicated or shared: each is on exactly one of the two
\* stacks or in the hands of exactly one thread, and both stacks end.  This is
\* what the tag in the head is for (ABA).
SlotsPartitioned ==
    /\ TypeOK
    /\ \A s \in Stacks : Nth(head[s].index, next)[kCapacity] = kInvalid
    /\ Chain("free") \cup Chain("used") \cup InHand = SlotIndexes
    /\ Chain("free") \cap Chain("used") = {}
    /\ (Chain("free") \cup Chain("used")) \cap InHand = {}
    /\ \A t, u \in Threads :
         t # u /\ loc[t].index # kInvalid => loc[t].index # loc[u].index

\* Pages the cache holds, and pages a thread is moving in or out of it.
Cached == {ptr[i] : i \in Chain("used")}
Moving(t) == IF loc[t].op = "get" /\ loc[t].pc = "popped" THEN {ptr[loc[t].index]}
             ELSE {loc[t].page} \ {NoPage}
AllMoving == UNION {Moving(t) : t \in Threads}

\* Every mapping has exactly one place: a caller, the cache (once) or one
\* thread on its way between them.  No mapping is leaked and none is handed to
\* two callers.
MappingsConserved ==
    /\ mapped = owned \cup Cached \cup AllMoving
    /\ owned \cap (Cached \cup AllMoving) = {} /\ Cached \cap AllMoving = {}
    /\ \A i, j \in Chain("used") : i # j => ptr[i] # ptr[j]
    /\ \A t, u \in Threads : t # u => Moving(t) \cap Moving(u) = {}

\* The two stacks implement a pool: a Put adds its page at one instant, a Get
\* removes one at one instant, and pages come and go only through mmap/munmap.
Pool == INSTANCE PagePool WITH cached <- Cached, outside <- mapped \ Cached
ImplementsPool == Pool!Spec
=============================================================================
