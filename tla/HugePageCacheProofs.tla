------------------------ MODULE HugePageCacheProofs ------------------------
(***************************************************************************)
(* Proofs about the lock-free cache of 2 MiB mappings, for any number of     *)
(* threads, slots, pages and tags.  The first half is the inductive          *)
(* invariant, the linked lists its stacks are, and the steps of a thread     *)
(* that leave both stacks as they are; then come the two steps that change a *)
(* stack, the invariants, and the pool the cache implements.                 *)
(***************************************************************************)
EXTENDS HugePageCache, FunctionTheorems, FiniteSetTheorems, WellFoundedInduction, TLAPS

USE HugeConstants

\* The slots C form the linked list that starts at index `first': height h[i]
\* counts from the bottom, so a pop or a push leaves the other heights alone.
Linked(first, nxt, C, h) ==
    /\ C \subseteq SlotIndexes
    /\ \A i \in C : h[i] \in 1 .. Cardinality(C)
    /\ \A i, j \in C : h[i] = h[j] => i = j
    /\ \A i \in C : IF h[i] = 1 THEN nxt[i] = kInvalid
                    ELSE nxt[i] \in C /\ h[nxt[i]] = h[i] - 1
    /\ IF C = {} THEN first = kInvalid ELSE first \in C /\ h[first] = Cardinality(C)

\* A thread's copy of a head is no newer than the head, and one with the head's
\* tag is the head.
Seen(l) == /\ l.old.tag <= head[l.stack].tag
           /\ l.old.tag = head[l.stack].tag => l.old = head[l.stack]

\* What holds of a thread at each of its steps.
ThreadOK(l) ==
    /\ l.index \in SlotIndexes <=> l.pc \in {"popped"} \cup PushPCs
    /\ l.pc \in {"next", "cas", "link", "pushcas"} => Seen(l)
    /\ l.pc \in {"next", "cas"} => l.old.index \in SlotIndexes
    /\ l.pc = "cas" /\ l.old = head[l.stack] => l.next = next[l.old.index]
    /\ l.pc = "pushcas" => next[l.index] = l.old.index
    /\ l.pc \in PopPCs \cup {"popped"} => l.stack = IF l.op = "get" THEN "used" ELSE "free"
    /\ l.pc \in PushPCs => l.stack = IF l.op = "get" THEN "free" ELSE "used"
    /\ l.page \in AlignedPages \cup {NoPage}
    /\ l.page = NoPage <=> \/ l.pc = "idle"
                           \/ l.op = "get" /\ l.pc \notin PushPCs
    /\ l.pc = "popped" /\ l.op = "get" => ptr[l.index] \in AlignedPages
    /\ l.pc \in PushPCs /\ l.op = "put" => ptr[l.index] = l.page

Distinct == \A t, u \in Threads :
              t # u /\ loc[t].index # kInvalid => loc[t].index # loc[u].index

\* F and U are the slots of the free and of the used stack.
SlotsInv(F, U, h) ==
    /\ Linked(head["free"].index, next, F, h)
    /\ Linked(head["used"].index, next, U, h)
    /\ F \cap U = {} /\ (F \cup U) \cap InHand = {} /\ F \cup U \cup InHand = SlotIndexes
    /\ Distinct

PagesIn(C) == {ptr[i] : i \in C}

MappingsInv(U) ==
    /\ mapped = owned \cup PagesIn(U) \cup AllMoving
    /\ owned \cap (PagesIn(U) \cup AllMoving) = {} /\ PagesIn(U) \cap AllMoving = {}
    /\ \A i, j \in U : i # j => ptr[i] # ptr[j]
    /\ \A i \in U : ptr[i] \in AlignedPages
    /\ \A t, u \in Threads : t # u => Moving(t) \cap Moving(u) = {}

IInv(F, U, h) ==
    /\ TypeOK
    /\ \A t \in Threads : ThreadOK(loc[t])
    /\ SlotsInv(F, U, h)
    /\ MappingsInv(U)

\* The inductive invariant.
Inv == \E F, U \in SUBSET SlotIndexes, h \in [SlotIndexes -> 0 .. kCapacity] : IInv(F, U, h)

-----------------------------------------------------------------------------
(* What following the links from a head computes *)

\* A non-empty set of naturals has a least element: induction over numbers.
LEMMA Least ==
    ASSUME NEW S \in SUBSET Nat, S # {}
    PROVE  \E x \in S : \A y \in S : x <= y
<1> DEFINE R == {ss \in Nat \X Nat : ss[1] < ss[2]}
<1>1. IsWellFoundedOn(R, Nat)
  BY NatLessThanWellFounded, Zenon DEF OpToRel
<1>2. PICK x \in S : \A y \in S : ~ (<<y, x>> \in R)
  <2> HIDE DEF R
  <2> QED BY <1>1, WFMin, Zenon
<1>3. ASSUME NEW y \in S, y < x PROVE FALSE
  <2>1. <<y, x>> \in Nat \X Nat /\ <<y, x>>[1] < <<y, x>>[2]
    BY <1>3, Zenon
  <2> QED BY <2>1, <1>2, Zenon
<1> QED
  BY <1>3

LEMMA SlotsFinite == IsFiniteSet(SlotIndexes) /\ Cardinality(SlotIndexes) = kCapacity
  BY FS_Interval DEF SlotIndexes

LEMMA SlotSets ==
    ASSUME NEW C \in SUBSET SlotIndexes
    PROVE  IsFiniteSet(C) /\ Cardinality(C) \in 0 .. kCapacity /\ (C = {} <=> Cardinality(C) = 0)
  BY SlotsFinite, FS_Subset, FS_CardinalityType, FS_EmptySet

\* A linked list has a slot at every height from its top down to 1.
LEMMA EveryHeight ==
    ASSUME NEW first, NEW nxt, NEW C, NEW h, Linked(first, nxt, C, h)
    PROVE  \A k \in 1 .. Cardinality(C) : \E i \in C : h[i] = k
<1> DEFINE c == Cardinality(C)
           Missing == {n \in 0 .. c - 1 : \A i \in C : h[i] # c - n}
<1>1. C \subseteq SlotIndexes /\ c \in Nat
  BY SlotSets DEF Linked
<1>2. SUFFICES ASSUME Missing # {} PROVE FALSE
  <2> SUFFICES ASSUME NEW k \in 1 .. c, \A i \in C : h[i] # k PROVE FALSE
    BY Zenon
  <2>1. c - k \in 0 .. c - 1 /\ c - (c - k) = k
    BY <1>1
  <2>2. c - k \in Missing
    BY <2>1, Zenon
  <2> QED BY <1>2, <2>2, Zenon
<1>3. PICK n \in Missing : \A m \in Missing : n <= m
  <2>1. Missing \in SUBSET Nat
    BY <1>1
  <2> HIDE DEF Missing
  <2> QED BY <2>1, <1>2, Least, Zenon
<1>4. n # 0
  <2>1. ASSUME n = 0 PROVE C # {}
    BY <2>1, <1>1, SlotSets
  <2> QED BY <1>1, <2>1 DEF Linked
<1>5. n - 1 \in 0 .. c - 1 /\ n - 1 \notin Missing
  BY <1>1, <1>3, <1>4
<1>6. PICK i \in C : h[i] = c - (n - 1)
  BY <1>5, Zenon
<1>7. h[i] # 1 /\ h[i] - 1 = c - n
  BY <1>1, <1>5, <1>6
<1> QED
  BY <1>6, <1>7, Zenon DEF Linked

\* So the n-th index from the head is the slot n below the top, and the walk
\* ends within kCapacity steps.
LEMMA WalkIsChain ==
    ASSUME NEW first, NEW nxt, NEW C, NEW h, Linked(first, nxt, C, h)
    PROVE  /\ {Nth(first, nxt)[n] : n \in 0 .. kCapacity} \ {kInvalid} = C
           /\ Nth(first, nxt)[kCapacity] = kInvalid
<1> DEFINE c == Cardinality(C)
           Slot(k) == CHOOSE i \in C : h[i] = k
           g == [n \in 0 .. kCapacity |-> IF n < c THEN Slot(c - n) ELSE kInvalid]
           w == Nth(first, nxt)
           Good(n) == IF n < c THEN w[n] \in C /\ h[w[n]] = c - n ELSE w[n] = kInvalid
           Bad == {n \in 0 .. kCapacity : ~Good(n)}
<1>1. C \subseteq SlotIndexes /\ c \in 0 .. kCapacity /\ kInvalid \notin C
  BY SlotSets DEF Linked, SlotIndexes, kInvalid
<1>2. ASSUME NEW k \in 1 .. c PROVE Slot(k) \in C /\ h[Slot(k)] = k
  BY EveryHeight
<1>3. g = [n \in 0 .. kCapacity |-> IF n = 0 THEN first
                                    ELSE IF g[n - 1] = kInvalid THEN kInvalid ELSE nxt[g[n - 1]]]
  <2> SUFFICES ASSUME NEW n \in 0 .. kCapacity
               PROVE  g[n] = IF n = 0 THEN first
                             ELSE IF g[n - 1] = kInvalid THEN kInvalid ELSE nxt[g[n - 1]]
    <3> DEFINE G(n) == IF n = 0 THEN first
                       ELSE IF g[n - 1] = kInvalid THEN kInvalid ELSE nxt[g[n - 1]]
    <3>1. g = [n \in 0 .. kCapacity |-> g[n]]
      OBVIOUS
    <3>2. (\A n \in 0 .. kCapacity : g[n] = G(n)) => g = [n \in 0 .. kCapacity |-> G(n)]
      <4> HIDE DEF g, G
      <4> QED BY <3>1, Zenon
    <3> QED BY <3>2, Zenon
  <2> HIDE DEF Slot
  <2>1. CASE n = 0
    <3>1. CASE c = 0
      BY <2>1, <3>1, <1>1, SlotSets DEF Linked
    <3>2. CASE c # 0
      <4>1. Slot(c) \in C /\ h[Slot(c)] = c
        BY <1>1, <1>2, <3>2
      <4>2. C # {} /\ first \in C /\ h[first] = c
        BY <4>1, Zenon DEF Linked
      <4>3. Slot(c) = first
        BY <4>1, <4>2, Zenon DEF Linked
      <4> QED BY <2>1, <1>1, <3>2, <4>3
    <3> QED BY <3>1, <3>2, Zenon
  <2>2. CASE n # 0 /\ n - 1 < c
    <3>1. c - (n - 1) \in 1 .. c /\ n - 1 \in 0 .. kCapacity
      BY <1>1, <2>2
    <3> DEFINE i == Slot(c - (n - 1))
    <3>2. i \in C /\ h[i] = c - (n - 1)
      BY <1>2, <3>1, Zenon
    <3>3. g[n - 1] = i /\ i # kInvalid
      BY <2>2, <3>1, <3>2, <1>1, Zenon
    <3> HIDE DEF i
    <3>4. CASE n < c
      <4>1. c - n \in 1 .. c /\ h[i] # 1 /\ h[i] - 1 = c - n
        BY <1>1, <3>2, <3>4, <2>2
      <4>2. nxt[i] \in C /\ h[nxt[i]] = c - n
        BY <3>2, <4>1, Zenon DEF Linked
      <4>3. Slot(c - n) = nxt[i]
        BY <4>1, <4>2, <1>2 DEF Linked
      <4> QED BY <2>2, <3>3, <3>4, <4>3, Zenon
    <3>5. CASE ~(n < c)
      <4>1. h[i] = 1
        BY <1>1, <2>2, <3>2, <3>5
      <4>2. nxt[i] = kInvalid
        BY <4>1, <3>2, Zenon DEF Linked
      <4> QED BY <2>2, <3>3, <3>5, <4>2, Zenon
    <3> QED BY <3>4, <3>5, Zenon
  <2>3. CASE n # 0 /\ ~(n - 1 < c)
    <3>1. n - 1 \in 0 .. kCapacity /\ ~(n < c)
      BY <1>1, <2>3
    <3> QED BY <2>3, <3>1, Zenon
  <2> QED BY <2>1, <2>2, <2>3, Zenon
<1>4. w = [n \in 0 .. kCapacity |-> IF n = 0 THEN first
                                    ELSE IF w[n - 1] = kInvalid THEN kInvalid ELSE nxt[w[n - 1]]]
  <2> HIDE DEF g
  <2> QED BY <1>3, Zenon DEF Nth
<1> HIDE DEF g, w, Slot
<1>5. Bad = {}
  <2> SUFFICES ASSUME Bad # {} PROVE FALSE
    BY Zenon
  <2>1. PICK n \in Bad : \A m \in Bad : n <= m
    <3>1. Bad \in SUBSET Nat
      OBVIOUS
    <3> HIDE DEF Bad
    <3> QED BY <3>1, Least, Zenon
  <2>2. n # 0
    <3>1. w[0] = first
      BY <1>4
    <3> QED BY <1>1, <2>1, <3>1, SlotSets DEF Linked
  <2>3. n - 1 \in 0 .. kCapacity /\ Good(n - 1)
    BY <2>1, <2>2
  <2>4. w[n] = IF w[n - 1] = kInvalid THEN kInvalid ELSE nxt[w[n - 1]]
    BY <1>4, <2>1, <2>2, Zenon
  <2>5. ~Good(n)
    BY <2>1, Zenon
  <2>6. CASE n - 1 < c
    <3>1. w[n - 1] \in C /\ h[w[n - 1]] = c - (n - 1) /\ w[n - 1] # kInvalid
      BY <2>3, <2>6, <1>1, Zenon
    <3>2. CASE n < c
      <4>1. h[w[n - 1]] # 1 /\ h[w[n - 1]] - 1 = c - n
        BY <1>1, <3>1, <3>2, <2>1
      <4> QED BY <2>4, <2>5, <3>1, <3>2, <4>1, Zenon DEF Linked
    <3>3. CASE ~(n < c)
      <4>1. h[w[n - 1]] = 1
        BY <1>1, <3>1, <3>3, <2>6, <2>1
      <4> QED BY <2>4, <2>5, <3>1, <3>3, <4>1, Zenon DEF Linked
    <3> QED BY <3>2, <3>3, Zenon
  <2>7. CASE ~(n - 1 < c)
    BY <2>3, <2>4, <2>5, <2>7, <1>1, <2>1
  <2> QED BY <2>6, <2>7, Zenon
<1>6. \A n \in 0 .. kCapacity : Good(n)
  BY <1>5, Zenon
<1>7. w[kCapacity] = kInvalid
  BY <1>6, <1>1
<1>8. ASSUME NEW i \in C PROVE \E n \in 0 .. kCapacity : w[n] = i
  <2>1. h[i] \in 1 .. c
    BY Zenon DEF Linked
  <2>2. c - h[i] \in 0 .. kCapacity /\ c - h[i] < c /\ c - (c - h[i]) = h[i]
    BY <2>1, <1>1
  <2>3. w[c - h[i]] \in C /\ h[w[c - h[i]]] = h[i]
    BY <2>2, <1>6, Zenon
  <2> QED BY <2>2, <2>3, Zenon DEF Linked
<1>9. ASSUME NEW n \in 0 .. kCapacity, w[n] # kInvalid PROVE w[n] \in C
  BY <1>6, <1>9, Zenon
<1>10. {w[n] : n \in 0 .. kCapacity} \ {kInvalid} = C
  BY <1>1, <1>8, <1>9, Zenon
<1> QED
  BY <1>7, <1>10, Zenon DEF w

-----------------------------------------------------------------------------
(* Popping and pushing keep a linked list linked *)

LEMMA LinkedSame ==
    ASSUME NEW first, NEW nxt, NEW C, NEW h, Linked(first, nxt, C, h),
           NEW nxt2, NEW h2, \A i \in C : nxt2[i] = nxt[i] /\ h2[i] = h[i]
    PROVE  Linked(first, nxt2, C, h2)
  BY DEF Linked

LEMMA LinkedPop ==
    ASSUME NEW first \in SlotIndexes, NEW nxt, NEW C, NEW h, Linked(first, nxt, C, h)
    PROVE  first \in C /\ Linked(nxt[first], nxt, C \ {first}, h)
<1> DEFINE c == Cardinality(C)
           D == C \ {first}
<1>1. C \subseteq SlotIndexes /\ C # {} /\ first \in C /\ h[first] = c
  BY DEF Linked, SlotIndexes, kInvalid
<1>2. IsFiniteSet(C) /\ c \in Nat \ {0} /\ Cardinality(D) = c - 1
  BY <1>1, SlotSets, FS_RemoveElement
<1>3. D \subseteq SlotIndexes /\ (D = {} <=> c = 1)
  BY <1>1, <1>2, SlotSets
<1>4. \A i \in D : h[i] \in 1 .. c - 1
  BY <1>1, <1>2 DEF Linked
<1>5. ASSUME NEW i \in C, h[i] # 1 PROVE nxt[i] \in D /\ h[nxt[i]] = h[i] - 1
  <2>1. nxt[i] \in C /\ h[nxt[i]] = h[i] - 1 /\ h[i] \in 1 .. c
    BY <1>5, Zenon DEF Linked
  <2> QED BY <1>1, <1>2, <2>1
<1>6. IF D = {} THEN nxt[first] = kInvalid ELSE nxt[first] \in D /\ h[nxt[first]] = c - 1
  BY <1>1, <1>2, <1>3, <1>5, Zenon DEF Linked
<1> HIDE DEF c, D
<1>7. \A i \in D : IF h[i] = 1 THEN nxt[i] = kInvalid ELSE nxt[i] \in D /\ h[nxt[i]] = h[i] - 1
  BY <1>5, Zenon DEF Linked, D
<1>8. \A i, j \in D : h[i] = h[j] => i = j
  BY Zenon DEF Linked, D
<1>9. Linked(nxt[first], nxt, D, h)
  BY <1>2, <1>3, <1>4, <1>6, <1>7, <1>8, Zenon DEF Linked
<1> QED
  BY <1>1, <1>9, Zenon DEF D

LEMMA LinkedPush ==
    ASSUME NEW first, NEW nxt, NEW C, NEW h \in [SlotIndexes -> 0 .. kCapacity],
           Linked(first, nxt, C, h), NEW x \in SlotIndexes, x \notin C, nxt[x] = first
    PROVE  /\ Cardinality(C) < kCapacity
           /\ Linked(x, nxt, C \cup {x}, [h EXCEPT ![x] = Cardinality(C) + 1])
<1> DEFINE c == Cardinality(C)
           D == C \cup {x}
           k == [h EXCEPT ![x] = c + 1]
<1>1. C \subseteq SlotIndexes /\ D \subseteq SlotIndexes
  BY Zenon DEF Linked
<1>2. c \in Nat /\ Cardinality(D) = c + 1 /\ c + 1 <= kCapacity /\ (C = {} <=> c = 0)
  BY <1>1, SlotSets, FS_AddElement
<1>3. k[x] = c + 1 /\ \A i \in C : k[i] = h[i] /\ h[i] \in 1 .. c
  BY <1>1, Zenon DEF Linked
<1> HIDE DEF c, k
<1>4. \A i \in D : k[i] \in 1 .. c + 1
  BY <1>2, <1>3
<1>5. \A i, j \in D : k[i] = k[j] => i = j
  BY <1>2, <1>3 DEF Linked
<1>6. ASSUME NEW i \in C
      PROVE  IF k[i] = 1 THEN nxt[i] = kInvalid ELSE nxt[i] \in D /\ k[nxt[i]] = k[i] - 1
  BY <1>3, Zenon DEF Linked
<1>7. IF k[x] = 1 THEN nxt[x] = kInvalid ELSE nxt[x] \in D /\ k[nxt[x]] = k[x] - 1
  BY <1>2, <1>3 DEF Linked, c
<1>8. Linked(x, nxt, D, k)
  BY <1>1, <1>2, <1>3, <1>4, <1>5, <1>6, <1>7, Zenon DEF Linked
<1> QED
  BY <1>2, <1>8 DEF c, k

-----------------------------------------------------------------------------
(* The steps of a thread *)

LEMMA InvalidIsNoSlot == kInvalid \notin SlotIndexes
  BY DEF kInvalid, SlotIndexes

LEMMA IdleType == MaxTag \in Nat => Idle \in Locals
  BY DEF Idle, Locals, Heads, Indexes, Stacks

\* Steps that touch neither the heads, nor the slots, nor an index in hand.
LEMMA QuietSlots ==
    ASSUME NEW F, NEW U, NEW h, TypeOK, SlotsInv(F, U, h), head' = head, next' = next,
           \A u \in Threads : loc'[u].index = loc[u].index
    PROVE  SlotsInv(F, U, h)'
<1>1. InHand' = InHand /\ (Distinct <=> Distinct')
  BY Zenon DEF InHand, Distinct
<1> QED BY <1>1, Zenon DEF SlotsInv

\* Steps of t that leave shared memory alone keep the other threads' facts.
LEMMA QuietThreads ==
    ASSUME NEW t \in Threads, \A u \in Threads : ThreadOK(loc[u]),
           UNCHANGED <<head, next, ptr>>, ThreadOK(loc'[t]),
           \A u \in Threads \ {t} : loc'[u] = loc[u]
    PROVE  \A u \in Threads : ThreadOK(loc[u])'
<1> SUFFICES ASSUME NEW u \in Threads PROVE ThreadOK(loc[u])'
  BY Zenon
<1>1. ThreadOK(loc'[u])
  BY Zenon
<1> QED BY <1>1, Zenon DEF ThreadOK, Seen

\* Steps that move no mapping.
LEMMA QuietMappings ==
    ASSUME NEW U, MappingsInv(U), UNCHANGED <<owned, mapped>>,
           \A i \in U : ptr'[i] = ptr[i], \A u \in Threads : Moving(u)' = Moving(u)
    PROVE  MappingsInv(U)'
<1>1. PagesIn(U)' = PagesIn(U) /\ AllMoving' = AllMoving
  BY Zenon DEF PagesIn, AllMoving
<1> QED BY <1>1, Zenon DEF MappingsInv

QuietStep(t) == PopLoad(t) \/ PopNext(t) \/ PopRetry(t) \/ PushLoad(t) \/ PushRetry(t)
                \/ BeginGet(t) \/ ReadSlot(t)

LEMMA QuietSteps ==
    ASSUME NEW F, NEW U, NEW h, IInv(F, U, h), NEW t \in Threads, QuietStep(t)
    PROVE  IInv(F, U, h)'
<1> DEFINE l == loc[t]
           Local(m) == /\ m \in Locals /\ m.index = l.index /\ ThreadOK(m)
                       /\ loc' = [loc EXCEPT ![t] = m]
                       /\ Moving(t)' = Moving(t)
<1>1. l \in Locals /\ head \in [Stacks -> Heads] /\ next \in [SlotIndexes -> Indexes] /\ ThreadOK(l)
      /\ ptr \in [SlotIndexes -> Pages \cup {NoPage}] /\ loc \in [Threads -> Locals]
  BY Zenon DEF IInv, TypeOK
<1>2. UNCHANGED <<head, next, ptr, owned, mapped>>
  BY Zenon DEF QuietStep, PopLoad, PopNext, PopRetry, PushLoad, PushRetry, BeginGet, ReadSlot
<1>3. ASSUME PopLoad(t) PROVE \E m : Local(m)
  <2> DEFINE m == Loaded(t, head[l.stack])
  <2>1. m \in Locals /\ m.index = l.index
    BY <1>1, <1>3, IdleType, ZenonT(60) DEF PopLoad, Loaded, Start, Idle, ThreadOK, Locals, Heads, Indexes, Stacks, PopPCs, PushPCs
  <2>2. ThreadOK(m)
    BY <1>1, <1>3, InvalidIsNoSlot DEF PopLoad, Loaded, Start, Idle, ThreadOK, Seen, Locals, Heads, Indexes, PopPCs, PushPCs
  <2>3. loc' = [loc EXCEPT ![t] = m] /\ Moving(t)' = Moving(t)
    BY <1>1, <1>2, <1>3, Zenon DEF PopLoad, Moving, Loaded, Start, Idle, ThreadOK, Locals, PushPCs
  <2> QED BY <2>1, <2>2, <2>3, Zenon
<1>4. ASSUME PopNext(t) PROVE \E m : Local(m)
  <2> DEFINE m == [l EXCEPT !.next = next[l.old.index], !.pc = "cas"]
  <2>1. m \in Locals /\ m.index = l.index
    BY <1>1, <1>4, IdleType, ZenonT(60) DEF PopNext, Loaded, Start, Idle, ThreadOK, Locals, Heads, Indexes, Stacks, PopPCs, PushPCs
  <2>2. ThreadOK(m)
    BY <1>1, <1>4, InvalidIsNoSlot, ZenonT(60) DEF PopNext, Loaded, Start, Idle, ThreadOK, Seen, Locals, Heads, Indexes, PopPCs, PushPCs
  <2>3. loc' = [loc EXCEPT ![t] = m] /\ Moving(t)' = Moving(t)
    BY <1>1, <1>2, <1>4, Zenon DEF PopNext, Moving, Loaded, Start, Idle, ThreadOK, Locals, PushPCs
  <2> QED BY <2>1, <2>2, <2>3, Zenon
<1>5. ASSUME PopRetry(t) PROVE \E m : Local(m)
  <2> DEFINE m == [Loaded(t, head[l.stack]) EXCEPT !.next = kInvalid]
  <2>1. m \in Locals /\ m.index = l.index
    BY <1>1, <1>5, IdleType, ZenonT(60) DEF PopRetry, Loaded, Start, Idle, ThreadOK, Locals, Heads, Indexes, Stacks, PopPCs, PushPCs
  <2>2. ThreadOK(m)
    BY <1>1, <1>5, InvalidIsNoSlot DEF PopRetry, Loaded, Start, Idle, ThreadOK, Seen, Locals, Heads, Indexes, PopPCs, PushPCs
  <2>3. loc' = [loc EXCEPT ![t] = m] /\ Moving(t)' = Moving(t)
    BY <1>1, <1>2, <1>5, Zenon DEF PopRetry, Moving, Loaded, Start, Idle, ThreadOK, Locals, PushPCs
  <2> QED BY <2>1, <2>2, <2>3, Zenon
<1>6. ASSUME PushLoad(t) PROVE \E m : Local(m)
  <2> DEFINE m == [l EXCEPT !.old = head[l.stack], !.pc = "link"]
  <2>1. m \in Locals /\ m.index = l.index
    BY <1>1, <1>6, IdleType, ZenonT(60) DEF PushLoad, Loaded, Start, Idle, ThreadOK, Locals, Heads, Indexes, Stacks, PopPCs, PushPCs
  <2>2. ThreadOK(m)
    BY <1>1, <1>6, InvalidIsNoSlot DEF PushLoad, Loaded, Start, Idle, ThreadOK, Seen, Locals, Heads, Indexes, PopPCs, PushPCs
  <2>3. loc' = [loc EXCEPT ![t] = m] /\ Moving(t)' = Moving(t)
    BY <1>1, <1>2, <1>6, Zenon DEF PushLoad, Moving, Loaded, Start, Idle, ThreadOK, Locals, PushPCs
  <2> QED BY <2>1, <2>2, <2>3, Zenon
<1>7. ASSUME PushRetry(t) PROVE \E m : Local(m)
  <2> DEFINE m == [l EXCEPT !.old = head[l.stack], !.pc = "link"]
  <2>1. m \in Locals /\ m.index = l.index
    BY <1>1, <1>7, IdleType DEF PushRetry, Loaded, Start, Idle, ThreadOK, Locals, Heads, Indexes, Stacks, PopPCs, PushPCs
  <2>2. ThreadOK(m)
    BY <1>1, <1>7, InvalidIsNoSlot DEF PushRetry, Loaded, Start, Idle, ThreadOK, Seen, Locals, Heads, Indexes, PopPCs, PushPCs
  <2>3. loc' = [loc EXCEPT ![t] = m] /\ Moving(t)' = Moving(t)
    BY <1>1, <1>2, <1>7, Zenon DEF PushRetry, Moving, Loaded, Start, Idle, ThreadOK, Locals, PushPCs
  <2> QED BY <2>1, <2>2, <2>3, Zenon
<1>8. ASSUME BeginGet(t) PROVE \E m : Local(m)
  <2> DEFINE m == Start("get", NoPage)
  <2>1. m \in Locals /\ m.index = l.index
    BY <1>1, <1>8, IdleType, Zenon DEF BeginGet, Loaded, Start, Idle, ThreadOK, Locals, Heads, Indexes, Stacks, PopPCs, PushPCs
  <2>2. ThreadOK(m)
    BY <1>1, <1>8, InvalidIsNoSlot, Zenon DEF BeginGet, Loaded, Start, Idle, ThreadOK, Seen, Locals, Heads, Indexes, PopPCs, PushPCs
  <2>3. loc' = [loc EXCEPT ![t] = m] /\ Moving(t)' = Moving(t)
    BY <1>1, <1>2, <1>8, Zenon DEF BeginGet, Moving, Loaded, Start, Idle, ThreadOK, Locals, PushPCs
  <2> QED BY <2>1, <2>2, <2>3, Zenon
<1>9. ASSUME ReadSlot(t) PROVE \E m : Local(m)
  <2> DEFINE m == [l EXCEPT !.page = ptr[l.index], !.stack = "free", !.pc = "pushload"]
  <2>1. m \in Locals /\ m.index = l.index
    BY <1>1, <1>9, IdleType, Zenon DEF ReadSlot, Loaded, Start, Idle, ThreadOK, Locals, Heads, Indexes, Stacks, PopPCs, PushPCs
  <2>2. ThreadOK(m)
    BY <1>1, <1>9, InvalidIsNoSlot DEF ReadSlot, Loaded, Start, Idle, ThreadOK, Seen, Locals, Heads, Indexes, PopPCs, PushPCs
  <2>3. loc' = [loc EXCEPT ![t] = m] /\ Moving(t)' = Moving(t)
    BY <1>1, <1>2, <1>9 DEF ReadSlot, Moving, Loaded, Start, Idle, ThreadOK, Locals, PushPCs
  <2> QED BY <2>1, <2>2, <2>3, Zenon
<1>10. PICK m : Local(m)
  BY <1>3, <1>4, <1>5, <1>6, <1>7, <1>8, <1>9, Zenon DEF QuietStep
<1>11. \A u \in Threads : loc'[u] = IF u = t THEN m ELSE loc[u]
  BY <1>1, <1>10, Zenon
<1>12. TypeOK'
  BY <1>1, <1>2, <1>10, Zenon DEF IInv, TypeOK
<1>13. \A u \in Threads : ThreadOK(loc[u])'
  BY <1>2, <1>10, <1>11, QuietThreads DEF IInv
<1>14. SlotsInv(F, U, h)'
  BY <1>2, <1>10, <1>11, QuietSlots, Zenon DEF IInv
<1>15. MappingsInv(U)'
  <2>1. \A u \in Threads : Moving(u)' = Moving(u)
    BY <1>2, <1>10, <1>11 DEF Moving
  <2> QED BY <1>2, <2>1, QuietMappings, Zenon DEF IInv
<1> QED BY <1>12, <1>13, <1>14, <1>15, Zenon DEF IInv

\* Steps that start or end a call: a mapping changes hands, no slot does.
CallStep(t) == BeginPut(t) \/ FreeUncached(t) \/ GetMiss(t) \/ PutFull(t)

LEMMA CallSteps ==
    ASSUME NEW F, NEW U, NEW h, IInv(F, U, h), NEW t \in Threads, CallStep(t)
    PROVE  IInv(F, U, h)'
<1> DEFINE l == loc[t]
           Local(m) == /\ m \in Locals /\ m.index = l.index /\ ThreadOK(m)
                       /\ loc' = [loc EXCEPT ![t] = m]
                       /\ mapped' \subseteq Pages /\ owned' \subseteq Pages
           Moved(m) == {m.page} \ {NoPage}
<1>1. l \in Locals /\ ThreadOK(l) /\ loc \in [Threads -> Locals]
      /\ owned \subseteq Pages /\ mapped \subseteq Pages
  BY Zenon DEF IInv, TypeOK
<1>2. UNCHANGED <<head, next, ptr>>
  BY Zenon DEF CallStep, BeginPut, FreeUncached, GetMiss, PutFull
<1>3. Idle \in Locals /\ Idle.index = kInvalid /\ ThreadOK(Idle) /\ Idle.page = NoPage
      /\ Idle.pc = "idle"
  BY IdleType, InvalidIsNoSlot, Zenon DEF Idle, ThreadOK, PopPCs, PushPCs
<1>4. l.pc \in {"idle", "empty"} /\ l.index = kInvalid
  BY <1>1, InvalidIsNoSlot, Zenon DEF CallStep, BeginPut, FreeUncached, GetMiss, PutFull, ThreadOK,
                               Locals, Indexes, PushPCs
<1>5. PICK m : Local(m) /\ m.pc # "popped"
  <2>1. CASE BeginPut(t)
    <3>1. PICK p \in owned \cap AlignedPages : /\ loc' = [loc EXCEPT ![t] = Start("put", p)]
                                              /\ owned' = owned \ {p} /\ mapped' = mapped
      BY <2>1, Zenon DEF BeginPut
    <3>2. Start("put", p) \in Locals /\ Start("put", p).index = kInvalid
          /\ ThreadOK(Start("put", p)) /\ Start("put", p).pc # "popped"
      BY <1>3, InvalidIsNoSlot, ZenonT(60) DEF Start, Idle, Locals, Stacks, ThreadOK, PopPCs, PushPCs
    <3> QED BY <1>1, <1>4, <3>1, <3>2, Zenon
  <2>2. CASE FreeUncached(t)
    BY <1>1, <1>4, <2>2, Zenon DEF FreeUncached
  <2>3. CASE GetMiss(t)
    BY <1>1, <1>3, <1>4, <2>3, Zenon DEF GetMiss
  <2>4. CASE PutFull(t)
    BY <1>1, <1>3, <1>4, <2>4, Zenon DEF PutFull
  <2> QED BY <2>1, <2>2, <2>3, <2>4, Zenon DEF CallStep
<1>6. \A u \in Threads : loc'[u] = IF u = t THEN m ELSE loc[u]
  BY <1>1, <1>5, Zenon
<1>7. TypeOK'
  BY <1>1, <1>2, <1>5, Zenon DEF IInv, TypeOK
<1>8. \A u \in Threads : ThreadOK(loc[u])'
  BY <1>2, <1>5, <1>6, QuietThreads DEF IInv
<1>9. SlotsInv(F, U, h)'
  BY <1>2, <1>5, <1>6, QuietSlots, Zenon DEF IInv
<1>10. MappingsInv(U)'
  <2>1. /\ Moving(t) = Moved(l) /\ Moving(t)' = Moved(m)
        /\ \A u \in Threads \ {t} : Moving(u)' = Moving(u)
    BY <1>2, <1>4, <1>5, <1>6, ZenonT(60) DEF Moving
  <2>2. PagesIn(U)' = PagesIn(U)
    BY <1>2, Zenon DEF PagesIn
  <2>3. \E p : \/ p \in owned /\ owned' = owned \ {p} /\ Moved(l) = {} /\ Moved(m) = {p}
                  /\ mapped' = mapped
               \/ p \in owned /\ owned' = owned \ {p} /\ Moved(l) = {} /\ Moved(m) = {}
                  /\ mapped' = mapped \ {p}
               \/ p \notin mapped /\ owned' = owned \cup {p} /\ Moved(l) = {} /\ Moved(m) = {}
                  /\ mapped' = mapped \cup {p}
               \/ owned' = owned /\ Moved(l) = {} /\ Moved(m) = {} /\ mapped' = mapped
               \/ owned' = owned /\ Moved(l) = {p} /\ Moved(m) = {} /\ mapped' = mapped \ {p}
    <3>1. CASE BeginPut(t)
      <4>1. PICK p \in owned : /\ loc' = [loc EXCEPT ![t] = Start("put", p)]
                              /\ owned' = owned \ {p} /\ mapped' = mapped
        BY <3>1, Zenon DEF BeginPut
      <4>2. m = Start("put", p)
        BY <1>1, <1>6, <4>1, Zenon
      <4>3. l.page = NoPage /\ p # NoPage /\ m.page = p
        BY <1>1, <3>1, <4>2, Zenon DEF BeginPut, ThreadOK, Start, Idle
      <4> QED BY <4>1, <4>3, Zenon
    <3>2. CASE FreeUncached(t)
      <4>1. PICK p \in owned : owned' = owned \ {p} /\ mapped' = mapped \ {p}
        BY <3>2, Zenon DEF FreeUncached
      <4>2. l.page = NoPage /\ m.page = NoPage
        BY <1>1, <1>6, <3>2, Zenon DEF FreeUncached, ThreadOK
      <4> QED BY <4>1, <4>2, Zenon
    <3>3. CASE GetMiss(t)
      BY <1>1, <1>3, <1>6, <3>3, ZenonT(60) DEF GetMiss, ThreadOK, PushPCs
    <3>4. CASE PutFull(t)
      BY <1>1, <1>3, <1>6, <3>4 DEF PutFull, ThreadOK, PushPCs
    <3> QED BY <3>1, <3>2, <3>3, <3>4, Zenon DEF CallStep
  <2> DEFINE Rest == UNION {Moving(u) : u \in Threads \ {t}}
  <2>4. AllMoving = Moved(l) \cup Rest /\ AllMoving' = Moved(m) \cup Rest
    BY <2>1 DEF AllMoving
  <2>5. Rest \cap Moved(l) = {} /\ Rest \subseteq mapped
    BY <2>1, <2>4 DEF IInv, MappingsInv
  <2> HIDE DEF Moved, Rest
  <2>6. /\ mapped' = owned' \cup PagesIn(U) \cup Moved(m) \cup Rest
        /\ owned' \cap (PagesIn(U) \cup Moved(m) \cup Rest) = {}
        /\ PagesIn(U) \cap (Moved(m) \cup Rest) = {}
        /\ Rest \cap Moved(m) = {}
    BY <2>3, <2>4, <2>5 DEF IInv, MappingsInv
  <2>7. \A u, v \in Threads : u # v => Moving(u)' \cap Moving(v)' = {}
    BY <2>1, <2>6 DEF IInv, MappingsInv, Rest
  <2> QED BY <1>2, <2>2, <2>4, <2>6, <2>7 DEF IInv, MappingsInv
<1> QED BY <1>7, <1>8, <1>9, <1>10, Zenon DEF IInv

\* Steps that write to the slot in hand, which is on no stack and in no other
\* hand.
HandStep(t) == WriteSlot(t) \/ PushLink(t)

LEMMA HandSteps ==
    ASSUME NEW F, NEW U, NEW h, IInv(F, U, h), NEW t \in Threads, HandStep(t)
    PROVE  IInv(F, U, h)'
<1> DEFINE l == loc[t]
           x == l.index
<1>1. l \in Locals /\ ThreadOK(l) /\ loc \in [Threads -> Locals] /\ next \in [SlotIndexes -> Indexes]
      /\ ptr \in [SlotIndexes -> Pages \cup {NoPage}] /\ head \in [Stacks -> Heads]
  BY Zenon DEF IInv, TypeOK
<1>2. x \in SlotIndexes /\ x \notin F \cup U /\ UNCHANGED <<head, owned, mapped>>
  <2>1. x \in SlotIndexes
    BY <1>1, Zenon DEF HandStep, WriteSlot, PushLink, ThreadOK, PushPCs
  <2>2. x \in InHand
    BY <2>1, InvalidIsNoSlot, Zenon DEF InHand
  <2> QED BY <2>1, <2>2, Zenon DEF IInv, SlotsInv, HandStep, WriteSlot, PushLink
<1>3. \A i \in SlotIndexes \ {x} : next'[i] = next[i] /\ ptr'[i] = ptr[i]
  BY <1>1, Zenon DEF HandStep, WriteSlot, PushLink
<1>4. PICK m \in Locals : /\ m.index = x /\ m.page = l.page /\ m.op = l.op /\ m.pc # "popped"
                         /\ loc' = [loc EXCEPT ![t] = m] /\ ThreadOK(m)'
  <2>1. CASE WriteSlot(t)
    <3>1. PICK m : m = [l EXCEPT !.stack = "used", !.pc = "pushload"]
      BY Zenon
    <3>2. /\ m \in Locals /\ m.index = x /\ m.page = l.page /\ m.op = l.op /\ m.pc # "popped"
          /\ loc' = [loc EXCEPT ![t] = m]
      BY <1>1, <2>1, <3>1, Zenon DEF WriteSlot, Locals, Stacks, PushPCs
    <3>3. ThreadOK(m)'
      BY <1>1, <1>2, <2>1, <3>1, Zenon DEF WriteSlot, ThreadOK, Locals, PopPCs, PushPCs
    <3> QED BY <3>2, <3>3, Zenon
  <2>2. CASE PushLink(t)
    <3>1. PICK m : m = [l EXCEPT !.pc = "pushcas"]
      BY Zenon
    <3>2. /\ m \in Locals /\ m.index = x /\ m.page = l.page /\ m.op = l.op /\ m.pc # "popped"
          /\ loc' = [loc EXCEPT ![t] = m]
      BY <1>1, <2>2, <3>1, Zenon DEF PushLink, Locals, PushPCs
    <3>3. next'[x] = l.old.index
      BY <1>1, <1>2, <2>2, Zenon DEF PushLink
    <3>4. ThreadOK(m)'
      BY <1>1, <1>2, <2>2, <3>1, <3>3, Zenon DEF PushLink, ThreadOK, Seen, Locals, PopPCs, PushPCs
    <3> QED BY <3>2, <3>4, Zenon
  <2> QED BY <2>1, <2>2, Zenon DEF HandStep
<1>5. \A u \in Threads : loc'[u] = IF u = t THEN m ELSE loc[u]
  BY <1>1, <1>4, Zenon
<1>6. TypeOK'
  BY <1>1, <1>4, Zenon DEF IInv, TypeOK, HandStep, WriteSlot, PushLink, Locals, Heads
<1>7. ASSUME NEW u \in Threads PROVE ThreadOK(loc[u])'
  <2>1. CASE u = t
    BY <1>4, <1>5, <2>1, Zenon
  <2>2. CASE u # t
    <3>1. loc'[u] = loc[u] /\ ThreadOK(loc[u]) /\ loc[u] \in Locals /\ loc[u].index # x
      BY <1>1, <1>2, <1>5, <2>2, InvalidIsNoSlot, Zenon DEF IInv, SlotsInv, Distinct
    <3>2. loc[u].pc = "cas" /\ loc[u].old = head[loc[u].stack] => loc[u].old.index \in F \cup U
      <4>1. loc[u].pc = "cas" => loc[u].old.index # kInvalid /\ loc[u].stack \in {"free", "used"}
        BY <3>1, InvalidIsNoSlot, Zenon DEF ThreadOK, Locals, Stacks
      <4>2. \A s \in {"free", "used"} : head[s].index = kInvalid \/ head[s].index \in F \cup U
        BY Zenon DEF IInv, SlotsInv, Linked
      <4> QED BY <4>1, <4>2, Zenon
    <3>3. Seen(loc[u])' <=> Seen(loc[u])
      BY <1>2, <3>1, Zenon DEF Seen
    <3>4. loc[u].pc = "cas" /\ loc[u].old = head[loc[u].stack] => loc[u].next = next'[loc[u].old.index]
      <4>1. x \notin F \cup U /\ F \cup U \subseteq SlotIndexes
        BY <1>2, Zenon DEF IInv, SlotsInv
      <4> QED BY <1>3, <3>1, <3>2, <4>1, Zenon DEF ThreadOK
    <3>5. loc[u].index \in SlotIndexes => next'[loc[u].index] = next[loc[u].index]
                                  /\ ptr'[loc[u].index] = ptr[loc[u].index]
      BY <1>3, <3>1, Zenon
    <3> HIDE DEF Seen
    <3> QED BY <1>2, <3>1, <3>3, <3>4, <3>5, Zenon DEF ThreadOK, PushPCs
  <2> QED BY <2>1, <2>2, Zenon
<1>8. SlotsInv(F, U, h)'
  <2>1. InHand' = InHand /\ (Distinct <=> Distinct')
    BY <1>4, <1>5 DEF InHand, Distinct
  <2>2. F \subseteq SlotIndexes /\ U \subseteq SlotIndexes
    BY Zenon DEF IInv, SlotsInv, Linked
  <2>3. Linked(head["free"].index, next', F, h) /\ Linked(head["used"].index, next', U, h)
    BY <1>2, <1>3, <2>2, LinkedSame DEF IInv, SlotsInv
  <2> QED BY <1>2, <2>1, <2>3, Zenon DEF IInv, SlotsInv
<1>9. MappingsInv(U)'
  <2>1. ASSUME NEW u \in Threads PROVE Moving(u)' = Moving(u)
    <3>1. CASE u = t
      <4>1. ~(l.op = "get" /\ l.pc = "popped")
        BY Zenon DEF HandStep, WriteSlot, PushLink
      <4> QED BY <1>4, <1>5, <3>1, <4>1 DEF Moving
    <3>2. CASE u # t
      <4>1. loc'[u] = loc[u] /\ loc[u].index # x /\ (loc[u].pc = "popped" => loc[u].index \in SlotIndexes)
        BY <1>2, <1>5, <3>2, InvalidIsNoSlot, Zenon DEF IInv, SlotsInv, Distinct, ThreadOK
      <4> QED BY <1>3, <4>1, Zenon DEF Moving
    <3> QED BY <3>1, <3>2, Zenon
  <2>2. \A i \in U : ptr'[i] = ptr[i]
    BY <1>2, <1>3, Zenon DEF IInv, SlotsInv, Linked
  <2> QED BY <1>2, <2>1, <2>2, QuietMappings, Zenon DEF IInv
<1> QED BY <1>6, <1>7, <1>8, <1>9, Zenon DEF IInv

-----------------------------------------------------------------------------
(* The steps that change a stack *)

\* A thread that has only looked at a head keeps what it knows while the head
\* moves on: the tag only grows, so a stale copy never equals the head again.
LEMMA OthersKeep ==
    ASSUME NEW l \in Locals, ThreadOK(l), UNCHANGED <<next, ptr>>,
           \/ head'[l.stack] = head[l.stack]
           \/ head'[l.stack].tag = head[l.stack].tag + 1,
           head[l.stack].tag \in Nat
    PROVE  ThreadOK(l)'
<1>1. l.old.tag \in Nat
  BY DEF Locals, Heads
<1>2. Seen(l) => Seen(l)'
  BY <1>1 DEF Seen
<1>3. Seen(l) /\ l.old = head'[l.stack] => l.old = head[l.stack]
  BY <1>1 DEF Seen
<1>4. l.pc = "cas" /\ l.old = head'[l.stack] => l.next = next'[l.old.index]
  BY <1>3, Zenon DEF ThreadOK
<1> HIDE DEF Seen
<1> QED BY <1>2, <1>4, Zenon DEF ThreadOK

\* A successful exchange in Pop takes the top slot off its stack.  Because the
\* tags agree nobody has changed the stack since next was read.
LEMMA PopStep ==
    ASSUME NEW F, NEW U, NEW h, IInv(F, U, h), NEW t \in Threads, PopCas(t),
           NEW x, x = loc[t].old.index
    PROVE  /\ x \in IF loc[t].op = "get" THEN U ELSE F
           /\ IInv(F \ {x}, U \ {x}, h)'
<1>1. PICK l : l = loc[t]
  BY Zenon
<1>2. l \in Locals /\ ThreadOK(l) /\ loc \in [Threads -> Locals] /\ next \in [SlotIndexes -> Indexes]
      /\ ptr \in [SlotIndexes -> Pages \cup {NoPage}] /\ head \in [Stacks -> Heads]
  BY <1>1, Zenon DEF IInv, TypeOK
<1>3. PICK s \in Stacks : s = l.stack
  BY <1>2, Zenon DEF Locals
<1>4. PICK nh : nh = Pack(l.next, l.old)
  BY Zenon
<1>5. PICK m : m = [l EXCEPT !.index = x, !.pc = "popped", !.old = Idle.old, !.next = kInvalid]
  BY Zenon
<1>6. /\ l.pc = "cas" /\ head[s] = l.old /\ l.old.tag < MaxTag
      /\ head' = [head EXCEPT ![s] = nh] /\ loc' = [loc EXCEPT ![t] = m]
      /\ UNCHANGED <<next, ptr, owned, mapped>>
  BY <1>1, <1>3, <1>4, <1>5, Zenon DEF PopCas
<1>7. x \in SlotIndexes /\ head[s].index = x /\ l.next = next[x]
  BY <1>1, <1>3, <1>6, <1>2, Zenon DEF ThreadOK
<1>8. s = IF l.op = "get" THEN "used" ELSE "free"
  BY <1>2, <1>3, <1>6, Zenon DEF ThreadOK, PopPCs
<1>9. nh \in Heads /\ nh.index = next[x] /\ nh.tag = head[s].tag + 1
  BY <1>2, <1>4, <1>6, <1>7 DEF Pack, Heads, Locals, Indexes
<1>10. m \in Locals /\ m.index = x /\ m.pc = "popped" /\ m.page = l.page /\ m.op = l.op
       /\ m.stack = s
  <2>1. Idle.old \in Heads /\ kInvalid \in Indexes /\ x \in Indexes
    BY <1>7 DEF Idle, Heads, Indexes
  <2> HIDE DEF Idle
  <2> QED BY <1>2, <1>3, <1>5, <2>1, Zenon DEF Locals
<1>11. \A u \in Threads : loc'[u] = IF u = t THEN m ELSE loc[u]
  BY <1>2, <1>6, Zenon
<1>12. \A r \in Stacks : head'[r] = IF r = s THEN nh ELSE head[r]
  BY <1>2, <1>6, Zenon
<1>13. TypeOK'
  BY <1>2, <1>6, <1>9, <1>10, Zenon DEF IInv, TypeOK
<1>14. x \in (IF s = "used" THEN U ELSE F) /\ F \cap U = {}
  <2>1. Linked(head["free"].index, next, F, h) /\ Linked(head["used"].index, next, U, h)
        /\ F \cap U = {}
    BY Zenon DEF IInv, SlotsInv
  <2>2. CASE s = "used"
    <3>1. Linked(x, next, U, h)
      BY <1>7, <2>1, <2>2, Zenon
    <3>2. x \in U
      BY <1>7, <3>1, LinkedPop, Zenon
    <3> QED BY <2>1, <2>2, <3>2, Zenon
  <2>3. CASE s = "free"
    <3>1. Linked(x, next, F, h)
      BY <1>7, <2>1, <2>3, Zenon
    <3>2. x \in F
      BY <1>7, <3>1, LinkedPop, Zenon
    <3> QED BY <2>1, <2>3, <3>2, Zenon
  <2> QED BY <2>2, <2>3, Zenon DEF Stacks
<1>15. SlotsInv(F \ {x}, U \ {x}, h)'
  <2>1. Linked(head'["free"].index, next, F \ {x}, h)
    <3>1. CASE s = "free"
      <4>1. Linked(x, next, F, h)
        BY <1>7, <3>1, Zenon DEF IInv, SlotsInv
      <4>2. Linked(next[x], next, F \ {x}, h)
        BY <1>7, <4>1, LinkedPop, Zenon
      <4> QED BY <1>9, <1>12, <3>1, <4>2, Zenon
    <3>2. CASE s = "used"
      <4>1. F \ {x} = F
        BY <1>14, <3>2, Zenon
      <4> QED BY <1>12, <3>2, <4>1, Zenon DEF IInv, SlotsInv, Stacks
    <3> QED BY <3>1, <3>2, Zenon DEF Stacks
  <2>2. Linked(head'["used"].index, next, U \ {x}, h)
    <3>1. CASE s = "used"
      <4>1. Linked(x, next, U, h)
        BY <1>7, <3>1, Zenon DEF IInv, SlotsInv
      <4>2. Linked(next[x], next, U \ {x}, h)
        BY <1>7, <4>1, LinkedPop, Zenon
      <4> QED BY <1>9, <1>12, <3>1, <4>2, Zenon
    <3>2. CASE s = "free"
      <4>1. U \ {x} = U
        BY <1>14, <3>2, Zenon
      <4> QED BY <1>12, <3>2, <4>1, Zenon DEF IInv, SlotsInv, Stacks
    <3> QED BY <3>1, <3>2, Zenon DEF Stacks
  <2>3. l.index = kInvalid
    BY <1>2, <1>6, Zenon DEF ThreadOK, Locals, Indexes, PushPCs
  <2>4. InHand' = InHand \cup {x}
    BY <1>1, <1>7, <1>10, <1>11, <2>3, InvalidIsNoSlot DEF InHand
  <2>5. x \notin InHand
    BY <1>14, Zenon DEF IInv, SlotsInv
  <2>6. Distinct'
    <3>1. \A u \in Threads : loc[u].index # x
      BY <1>7, <2>5, InvalidIsNoSlot, Zenon DEF InHand
    <3> QED BY <1>10, <1>11, <3>1 DEF IInv, SlotsInv, Distinct
  <2>7. /\ (F \ {x}) \cap (U \ {x}) = {} /\ ((F \ {x}) \cup (U \ {x})) \cap InHand' = {}
        /\ (F \ {x}) \cup (U \ {x}) \cup InHand' = SlotIndexes
    BY <1>7, <2>4, Zenon DEF IInv, SlotsInv
  <2> QED BY <1>6, <2>1, <2>2, <2>6, <2>7, Zenon DEF SlotsInv
<1>16. ASSUME NEW u \in Threads PROVE ThreadOK(loc[u])'
  <2>1. CASE u = t
    <3>1. m.op = "get" => ptr[x] \in AlignedPages
      BY <1>8, <1>10, <1>14, Zenon DEF IInv, MappingsInv
    <3>2. l.page \in AlignedPages \cup {NoPage} /\ (l.page = NoPage <=> l.op = "get")
      BY <1>2, <1>6, ZenonT(60) DEF ThreadOK, PushPCs, Locals
    <3> QED BY <1>6, <1>7, <1>8, <1>10, <1>11, <2>1, <3>1, <3>2, ZenonT(60) DEF ThreadOK, PopPCs, PushPCs
  <2>2. CASE u # t
    <3>1. loc'[u] = loc[u] /\ ThreadOK(loc[u]) /\ loc[u] \in Locals
      BY <1>2, <1>11, <2>2, Zenon DEF IInv
    <3>2. \A r \in Stacks : /\ head'[r] = head[r] \/ head'[r].tag = head[r].tag + 1
                            /\ head[r].tag \in Nat
      BY <1>2, <1>9, <1>12 DEF Heads
    <3>3. loc[u].stack \in Stacks
      BY <3>1, Zenon DEF Locals
    <3> HIDE DEF ThreadOK
    <3>4. PICK v : v = loc[u]
      BY Zenon
    <3>5. ThreadOK(v)'
      BY <1>6, <3>1, <3>2, <3>3, <3>4, OthersKeep, Zenon
    <3> QED BY <3>1, <3>4, <3>5, ZenonT(60) DEF ThreadOK, Seen
  <2> QED BY <2>1, <2>2, Zenon
<1>17. MappingsInv(U \ {x})'
  <2>1. \A u \in Threads \ {t} : Moving(u)' = Moving(u)
    BY <1>6, <1>11, Zenon DEF Moving
  <2>2. PagesIn(U \ {x})' = {ptr[i] : i \in U \ {x}}
    BY <1>6, Zenon DEF PagesIn
  <2>3. CASE l.op = "get"
    <3>1. Moving(t) = {} /\ Moving(t)' = {ptr[x]}
      BY <1>1, <1>2, <1>6, <1>10, <1>11, <2>3, Zenon DEF Moving, ThreadOK, PushPCs
    <3>2. x \in U
      BY <1>8, <1>14, <2>3, Zenon
    <3>3. PagesIn(U \ {x})' = PagesIn(U) \ {ptr[x]} /\ ptr[x] \in PagesIn(U)
      <4>1. \A i \in U : i # x => ptr[i] # ptr[x]
        BY <3>2, Zenon DEF IInv, MappingsInv
      <4> QED BY <2>2, <3>2, <4>1, Zenon DEF PagesIn
    <3>4. AllMoving' = AllMoving \cup {ptr[x]}
      BY <2>1, <3>1, Zenon DEF AllMoving
    <3>5. \A u, v \in Threads : u # v => Moving(u)' \cap Moving(v)' = {}
      <4>1. \A u \in Threads : ptr[x] \notin Moving(u)
        BY <3>3, Zenon DEF IInv, MappingsInv, AllMoving
      <4> QED BY <2>1, <3>1, <4>1 DEF IInv, MappingsInv
    <3>6. MappingsInv(U) /\ UNCHANGED <<mapped, owned, ptr>>
      BY <1>6, Zenon DEF IInv
    <3>7. mapped' = owned' \cup PagesIn(U \ {x})' \cup AllMoving'
      BY <3>3, <3>4, <3>6, Zenon DEF MappingsInv
    <3>8. /\ owned' \cap (PagesIn(U \ {x})' \cup AllMoving') = {}
          /\ PagesIn(U \ {x})' \cap AllMoving' = {}
      <4>1. owned' = owned /\ owned \cap (PagesIn(U) \cup AllMoving) = {} /\ PagesIn(U) \cap AllMoving = {}
        BY <3>6, Zenon DEF MappingsInv
      <4>2. ASSUME NEW p, p \in PagesIn(U \ {x})'
            PROVE  p \in PagesIn(U) /\ p # ptr[x]
        BY <3>3, <4>2, Zenon
      <4>3. ASSUME NEW p, p \in AllMoving'
            PROVE  p \in AllMoving \/ p = ptr[x]
        BY <3>4, <4>3, Zenon
      <4> QED BY <3>3, <4>1, <4>2, <4>3, Zenon
    <3>9. /\ \A i, j \in U \ {x} : i # j => ptr'[i] # ptr'[j]
          /\ \A i \in U \ {x} : ptr'[i] \in AlignedPages
      BY <3>6, Zenon DEF MappingsInv
    <3> QED BY <3>5, <3>7, <3>8, <3>9, Zenon DEF MappingsInv
  <2>4. CASE l.op # "get"
    <3>1. Moving(t)' = Moving(t)
      BY <1>1, <1>10, <1>11, <2>4, Zenon DEF Moving
    <3>2. U \ {x} = U
      BY <1>8, <1>14, <2>4, Zenon
    <3>3. \A u \in Threads : Moving(u)' = Moving(u)
      BY <2>1, <3>1, Zenon
    <3> QED BY <1>6, <3>2, <3>3, QuietMappings, Zenon DEF IInv
  <2> QED BY <2>3, <2>4, Zenon
<1> QED BY <1>1, <1>8, <1>13, <1>14, <1>15, <1>16, <1>17, Zenon DEF IInv

\* The stacks after thread t has pushed the slot in its hand: a Get gives the
\* slot back to the free ones, a Put adds it to the used ones.
FreeAfter(F, l) == IF l.op = "get" THEN F \cup {l.index} ELSE F
UsedAfter(U, l) == IF l.op = "get" THEN U ELSE U \cup {l.index}

LEMMA PushStep ==
    ASSUME NEW F, NEW U, NEW h \in [SlotIndexes -> 0 .. kCapacity], IInv(F, U, h),
           NEW t \in Threads, PushCas(t), NEW l, l = loc[t]
    PROVE  \E k \in [SlotIndexes -> 0 .. kCapacity] : IInv(FreeAfter(F, l), UsedAfter(U, l), k)'
<1>2. l \in Locals /\ ThreadOK(l) /\ loc \in [Threads -> Locals] /\ next \in [SlotIndexes -> Indexes]
      /\ ptr \in [SlotIndexes -> Pages \cup {NoPage}] /\ head \in [Stacks -> Heads]
  BY Zenon DEF IInv, TypeOK
<1>3. PICK s \in Stacks : s = l.stack
  BY <1>2, Zenon DEF Locals
<1>4. PICK nh : nh = Pack(l.index, l.old)
  BY Zenon
<1>5. PICK x : x = l.index
  BY Zenon
<1>6. l.pc = "pushcas" /\ head[s] = l.old /\ l.old.tag < MaxTag
  BY <1>3, Zenon DEF PushCas
<1>7. x \in SlotIndexes /\ x \in InHand /\ x \notin F \cup U /\ next[x] = head[s].index
      /\ \A u \in Threads \ {t} : loc[u].index # x
  <2>1. x \in SlotIndexes /\ next[x] = head[s].index
    BY <1>2, <1>5, <1>6, Zenon DEF ThreadOK, PushPCs
  <2> QED BY <1>5, <2>1, InvalidIsNoSlot, Zenon DEF InHand, IInv, SlotsInv, Distinct
<1>8. s = (IF l.op = "get" THEN "free" ELSE "used") /\ l.page \in AlignedPages /\ l.page # NoPage
      /\ (l.op # "get" => ptr[x] = l.page)
  BY <1>2, <1>3, <1>5, <1>6, Zenon DEF ThreadOK, PushPCs, Locals
<1>9. /\ head' = [head EXCEPT ![s] = nh] /\ loc' = [loc EXCEPT ![t] = Idle]
      /\ owned' = IF l.op = "get" THEN owned \cup {l.page} ELSE owned
      /\ UNCHANGED <<next, ptr, mapped>>
  BY <1>3, <1>4, <1>8, Zenon DEF PushCas
<1>10. nh \in Heads /\ nh.index = x /\ nh.tag = head[s].tag + 1
  BY <1>2, <1>4, <1>5, <1>6, <1>7 DEF Pack, Heads, Locals, Indexes
<1>11. Idle \in Locals /\ Idle.index = kInvalid /\ Idle.page = NoPage /\ Idle.pc = "idle"
       /\ ThreadOK(Idle)'
  BY IdleType, InvalidIsNoSlot, Zenon DEF Idle, ThreadOK, PopPCs, PushPCs
<1> HIDE DEF Idle
<1>12. \A u \in Threads : loc'[u] = IF u = t THEN Idle ELSE loc[u]
  BY <1>2, <1>9, Zenon
<1>13. \A r \in Stacks : head'[r] = IF r = s THEN nh ELSE head[r]
  BY <1>2, <1>9, Zenon
<1>14. TypeOK'
  BY <1>2, <1>8, <1>9, <1>10, <1>11, Zenon DEF IInv, TypeOK
<1>15. PICK k \in [SlotIndexes -> 0 .. kCapacity] : SlotsInv(FreeAfter(F, l), UsedAfter(U, l), k)'
  <2>1. /\ Linked(head["free"].index, next, F, h) /\ Linked(head["used"].index, next, U, h)
        /\ F \cap U = {} /\ (F \cup U) \cap InHand = {} /\ F \cup U \cup InHand = SlotIndexes
    BY Zenon DEF IInv, SlotsInv
  <2>2. InHand' = InHand \ {x}
    BY <1>5, <1>7, <1>11, <1>12 DEF InHand
  <2>3. Distinct'
    BY <1>11, <1>12, Zenon DEF IInv, SlotsInv, Distinct
  <2>4. PICK C : C = IF s = "free" THEN F ELSE U
    BY Zenon
  <2>5. PICK k : k = [h EXCEPT ![x] = Cardinality(C) + 1]
    BY Zenon
  <2>6. Linked(head[s].index, next, C, h)
    BY <2>1, <2>4, Zenon DEF Stacks
  <2>7. C \subseteq SlotIndexes /\ x \notin C /\ Cardinality(C) \in Nat
    BY <1>7, <2>4, <2>6, SlotSets DEF Linked
  <2>8. Cardinality(C) < kCapacity /\ Linked(x, next, C \cup {x}, k)
    <3> DEFINE first == head[s].index
    <3>1. Linked(first, next, C, h) /\ next[x] = first
      BY <1>7, <2>6, Zenon
    <3> HIDE DEF first
    <3> QED BY <1>7, <2>5, <2>7, <3>1, LinkedPush, Zenon
  <2>9. k \in [SlotIndexes -> 0 .. kCapacity] /\ \A i \in SlotIndexes \ {x} : k[i] = h[i]
    <3>1. Cardinality(C) + 1 \in 0 .. kCapacity
      BY <2>7, <2>8
    <3> QED BY <1>7, <2>5, <3>1, Zenon
  <2>10. CASE s = "free"
    <3>1. FreeAfter(F, l) = F \cup {x} /\ UsedAfter(U, l) = U /\ C = F
      BY <1>5, <1>8, <2>4, <2>10, Zenon DEF FreeAfter, UsedAfter
    <3>2. Linked(head'["free"].index, next', F \cup {x}, k)
      BY <1>9, <1>10, <1>13, <2>8, <2>10, <3>1, Zenon
    <3>3. Linked(head'["used"].index, next', U, k)
      <4>1. \A i \in U : k[i] = h[i]
        BY <1>7, <2>1, <2>9 DEF Linked
      <4>2. Linked(head["used"].index, next, U, k)
        BY <2>1, <4>1, LinkedSame, Zenon
      <4> QED BY <1>9, <1>13, <2>10, <4>2, Zenon DEF Stacks
    <3>4. (F \cup {x}) \cap U = {} /\ ((F \cup {x}) \cup U) \cap InHand' = {}
          /\ (F \cup {x}) \cup U \cup InHand' = SlotIndexes
      BY <1>7, <2>1, <2>2, Zenon
    <3>5. SlotsInv(F \cup {x}, U, k)'
      BY <2>3, <3>2, <3>3, <3>4, Zenon DEF SlotsInv
    <3> QED BY <2>9, <3>1, <3>5, Zenon
  <2>11. CASE s = "used"
    <3>1. FreeAfter(F, l) = F /\ UsedAfter(U, l) = U \cup {x} /\ C = U
      BY <1>5, <1>8, <2>4, <2>11, Zenon DEF FreeAfter, UsedAfter
    <3>2. Linked(head'["used"].index, next', U \cup {x}, k)
      BY <1>9, <1>10, <1>13, <2>8, <2>11, <3>1, Zenon
    <3>3. Linked(head'["free"].index, next', F, k)
      <4>1. \A i \in F : k[i] = h[i]
        BY <1>7, <2>1, <2>9 DEF Linked
      <4>2. Linked(head["free"].index, next, F, k)
        BY <2>1, <4>1, LinkedSame, Zenon
      <4> QED BY <1>9, <1>13, <2>11, <4>2, Zenon DEF Stacks
    <3>4. F \cap (U \cup {x}) = {} /\ (F \cup (U \cup {x})) \cap InHand' = {}
          /\ F \cup (U \cup {x}) \cup InHand' = SlotIndexes
      BY <1>7, <2>1, <2>2, Zenon
    <3>5. SlotsInv(F, U \cup {x}, k)'
      BY <2>3, <3>2, <3>3, <3>4, Zenon DEF SlotsInv
    <3> QED BY <2>9, <3>1, <3>5, Zenon
  <2> QED BY <2>10, <2>11, Zenon DEF Stacks
<1>16. ASSUME NEW u \in Threads PROVE ThreadOK(loc[u])'
  <2>1. CASE u = t
    BY <1>11, <1>12, <2>1, Zenon
  <2>2. CASE u # t
    <3>1. loc'[u] = loc[u] /\ ThreadOK(loc[u]) /\ loc[u] \in Locals
      BY <1>2, <1>12, <2>2, Zenon DEF IInv
    <3>2. \A r \in Stacks : /\ head'[r] = head[r] \/ head'[r].tag = head[r].tag + 1
                            /\ head[r].tag \in Nat
      BY <1>2, <1>10, <1>13 DEF Heads
    <3>3. loc[u].stack \in Stacks
      BY <3>1, Zenon DEF Locals
    <3> HIDE DEF ThreadOK
    <3>4. PICK v : v = loc[u]
      BY Zenon
    <3>5. ThreadOK(v)'
      BY <1>9, <3>1, <3>2, <3>3, <3>4, OthersKeep, Zenon
    <3> QED BY <3>1, <3>4, <3>5, ZenonT(60) DEF ThreadOK, Seen
  <2> QED BY <2>1, <2>2, Zenon
<1>17. MappingsInv(UsedAfter(U, l))'
  <2>1. \A u \in Threads \ {t} : Moving(u)' = Moving(u)
    BY <1>9, <1>12, Zenon DEF Moving
  <2>2. Moving(t) = {l.page} /\ Moving(t)' = {}
    BY <1>6, <1>8, <1>11, <1>12, Zenon DEF Moving
  <2>3. AllMoving' = AllMoving \ {l.page} /\ l.page \in AllMoving
    BY <2>1, <2>2 DEF AllMoving, IInv, MappingsInv
  <2>4. \A u, v \in Threads : u # v => Moving(u)' \cap Moving(v)' = {}
    BY <2>1, <2>2, Zenon DEF IInv, MappingsInv
  <2>5. CASE l.op = "get"
    <3>1. PagesIn(U)' = PagesIn(U) /\ UsedAfter(U, l) = U
      BY <1>9, <2>5, Zenon DEF PagesIn, UsedAfter
    <3>2. MappingsInv(U)'
      <4>1. /\ mapped' = owned' \cup PagesIn(U) \cup AllMoving'
            /\ owned' \cap (PagesIn(U) \cup AllMoving') = {} /\ PagesIn(U) \cap AllMoving' = {}
        BY <1>9, <2>3, <2>5 DEF IInv, MappingsInv
      <4>2. /\ \A i, j \in U : i # j => ptr'[i] # ptr'[j]
            /\ \A i \in U : ptr'[i] \in AlignedPages
        BY <1>9, Zenon DEF IInv, MappingsInv
      <4> QED BY <2>4, <3>1, <4>1, <4>2, ZenonT(60) DEF MappingsInv
    <3> QED BY <3>1, <3>2, Zenon
  <2>6. CASE l.op # "get"
    <3>1. PagesIn(U \cup {x})' = PagesIn(U) \cup {l.page} /\ UsedAfter(U, l) = U \cup {x}
      BY <1>5, <1>8, <1>9, <2>6, Zenon DEF PagesIn, UsedAfter
    <3>2. l.page \notin PagesIn(U)
      BY <2>3, Zenon DEF IInv, MappingsInv
    <3>3. \A i, j \in U \cup {x} : i # j => ptr[i] # ptr[j]
      BY <1>8, <2>6, <3>2, Zenon DEF IInv, MappingsInv, PagesIn
    <3>4. \A i \in U \cup {x} : ptr'[i] \in AlignedPages
      BY <1>8, <1>9, <2>6, ZenonT(60) DEF IInv, MappingsInv
    <3>5. /\ mapped' = owned' \cup (PagesIn(U) \cup {l.page}) \cup AllMoving'
          /\ owned' \cap ((PagesIn(U) \cup {l.page}) \cup AllMoving') = {}
          /\ (PagesIn(U) \cup {l.page}) \cap AllMoving' = {}
      BY <1>9, <2>3, <2>6 DEF IInv, MappingsInv
    <3>6. MappingsInv(U \cup {x})'
      BY <1>9, <2>4, <3>1, <3>3, <3>4, <3>5, Zenon DEF MappingsInv
    <3> QED BY <3>1, <3>6, Zenon
  <2> QED BY <2>5, <2>6, Zenon
<1> QED BY <1>14, <1>15, <1>16, <1>17, Zenon DEF IInv

-----------------------------------------------------------------------------
(* The theorems *)

LEMMA InitInv == Init => Inv
<1> SUFFICES ASSUME Init PROVE Inv
  BY Zenon
<1> DEFINE h == [i \in SlotIndexes |-> kCapacity - i]
<1>1. h \in [SlotIndexes -> 0 .. kCapacity] /\ {} \subseteq SlotIndexes
  BY DEF SlotIndexes
<1>2. TypeOK
  <2>1. next \in [SlotIndexes -> Indexes] /\ 0 \in Indexes /\ kInvalid \in Indexes
    BY DEF Init, SlotIndexes, Indexes, kInvalid
  <2>2. head \in [Stacks -> Heads]
    BY <2>1 DEF Init, Heads
  <2>3. loc \in [Threads -> Locals]
    <3> HIDE DEF Idle
    <3> QED BY IdleType, Zenon DEF Init
  <2> QED BY <2>1, <2>2, <2>3, Zenon DEF Init, TypeOK
<1>3. \A t \in Threads : ThreadOK(loc[t])
  BY InvalidIsNoSlot, Zenon DEF Init, ThreadOK, Idle, PopPCs, PushPCs
<1>4. SlotsInv(SlotIndexes, {}, h)
  <2>1. Linked(0, next, SlotIndexes, h)
    <3>1. Cardinality(SlotIndexes) = kCapacity
      BY SlotsFinite, Zenon
    <3>2. \A i \in SlotIndexes : h[i] = kCapacity - i /\ next[i] = i + 1
      BY Zenon DEF Init
    <3> HIDE DEF h
    <3>3. \A i \in SlotIndexes : i \in 0 .. kCapacity - 1 /\ h[i] \in 1 .. kCapacity
      BY <3>2 DEF SlotIndexes
    <3>4. ASSUME NEW i \in SlotIndexes
          PROVE  IF h[i] = 1 THEN next[i] = kInvalid ELSE next[i] \in SlotIndexes /\ h[next[i]] = h[i] - 1
      <4>1. CASE h[i] = 1
        BY <3>2, <3>3, <4>1 DEF kInvalid
      <4>2. CASE h[i] # 1
        <5>1. i + 1 \in SlotIndexes
          BY <3>2, <3>3, <4>2 DEF SlotIndexes
        <5> QED BY <3>2, <3>3, <4>2, <5>1
      <4> QED BY <4>1, <4>2, Zenon
    <3>5. 0 \in SlotIndexes /\ h[0] = kCapacity
      BY <3>2 DEF SlotIndexes
    <3>6. \A i, j \in SlotIndexes : h[i] = h[j] => i = j
      BY <3>2, <3>3
    <3> QED BY <3>1, <3>3, <3>4, <3>5, <3>6, Zenon DEF Linked
  <2>2. Linked(kInvalid, next, {}, h)
    BY Zenon DEF Linked
  <2>3. InHand = {} /\ Distinct
    BY Zenon DEF Init, InHand, Distinct, Idle
  <2>4. head["free"].index = 0 /\ head["used"].index = kInvalid
    BY Zenon DEF Init, Stacks
  <2> QED BY <2>1, <2>2, <2>3, <2>4, Zenon DEF SlotsInv
<1>5. MappingsInv({})
  <2>1. \A t \in Threads : Moving(t) = {}
    BY Zenon DEF Init, Moving, Idle
  <2> QED BY <2>1, Zenon DEF Init, MappingsInv, PagesIn, AllMoving
<1> QED BY <1>1, <1>2, <1>3, <1>4, <1>5, Zenon DEF Inv, IInv

LEMMA StutterInv ==
    ASSUME NEW F, NEW U, NEW h, IInv(F, U, h), UNCHANGED vars
    PROVE  IInv(F, U, h)'
<1>1. UNCHANGED <<head, next, ptr, loc, owned, mapped>>
  BY ZenonT(60) DEF vars
<1>2. TypeOK' /\ \A t \in Threads : ThreadOK(loc[t])'
  BY <1>1 DEF IInv, TypeOK, ThreadOK, Seen
<1>3. SlotsInv(F, U, h)'
  BY <1>1, QuietSlots, Zenon DEF IInv
<1>4. MappingsInv(U)'
  BY <1>1, QuietMappings, Zenon DEF IInv, Moving
<1> QED BY <1>2, <1>3, <1>4, Zenon DEF IInv

LEMMA NextInv == Inv /\ [Next]_vars => Inv'
<1> SUFFICES ASSUME Inv, [Next]_vars PROVE Inv'
  BY Zenon
<1>1. PICK F, U \in SUBSET SlotIndexes, h \in [SlotIndexes -> 0 .. kCapacity] : IInv(F, U, h)
  BY Zenon DEF Inv
<1>2. CASE UNCHANGED vars
  BY <1>1, <1>2, StutterInv, Zenon DEF Inv
<1>3. ASSUME NEW t \in Threads, QuietStep(t) \/ CallStep(t) \/ HandStep(t) PROVE Inv'
  BY <1>1, <1>3, QuietSteps, CallSteps, HandSteps DEF Inv
<1>4. ASSUME NEW t \in Threads, PopCas(t) PROVE Inv'
  <2>1. PICK x : x = loc[t].old.index
    BY Zenon
  <2>2. IInv(F \ {x}, U \ {x}, h)'
    BY <1>1, <1>4, <2>1, PopStep, Zenon
  <2> QED BY <1>1, <2>2, Zenon DEF Inv
<1>5. ASSUME NEW t \in Threads, PushCas(t) PROVE Inv'
  <2>1. PICK l : l = loc[t]
    BY Zenon
  <2>2. PICK k \in [SlotIndexes -> 0 .. kCapacity] : IInv(FreeAfter(F, l), UsedAfter(U, l), k)'
    BY <1>1, <1>5, <2>1, PushStep, Zenon
  <2>3. FreeAfter(F, l) \in SUBSET SlotIndexes /\ UsedAfter(U, l) \in SUBSET SlotIndexes
    BY <2>2, Zenon DEF IInv, SlotsInv, Linked
  <2> QED BY <2>2, <2>3, Zenon DEF Inv
<1> QED
  BY <1>2, <1>3, <1>4, <1>5, Zenon DEF Next, QuietStep, CallStep, HandStep

LEMMA Invariance == Spec => []Inv
  BY InitInv, NextInv, PTL DEF Spec

\* In a good state the chains that the links spell out are the two stacks.
LEMMA ChainsAre ==
    ASSUME NEW F, NEW U, NEW h, SlotsInv(F, U, h)
    PROVE  /\ Chain("free") = F /\ Chain("used") = U
           /\ \A s \in Stacks : Nth(head[s].index, next)[kCapacity] = kInvalid
  BY WalkIsChain, Zenon DEF SlotsInv, Chain, Stacks

\* No slot is lost, duplicated or shared by the lock-free Pop and Push, and the
\* lists end, however threads interleave and retry: SlotsPartitioned always
\* holds, for any number of threads and slots.
THEOREM SlotsSafety == Spec => []SlotsPartitioned
<1>1. Inv => SlotsPartitioned
  <2> SUFFICES ASSUME Inv PROVE SlotsPartitioned
    BY Zenon
  <2>1. PICK F, U \in SUBSET SlotIndexes, h \in [SlotIndexes -> 0 .. kCapacity] : IInv(F, U, h)
    BY Zenon DEF Inv
  <2>2. /\ Chain("free") = F /\ Chain("used") = U
        /\ \A s \in Stacks : Nth(head[s].index, next)[kCapacity] = kInvalid
    BY <2>1, ChainsAre, Zenon DEF IInv
  <2> HIDE DEF Chain, Nth
  <2> QED BY <2>1, <2>2, Zenon DEF IInv, SlotsInv, Distinct, SlotsPartitioned
<1> QED BY <1>1, Invariance, PTL

\* No mapping is leaked, and none is handed to two callers: MappingsConserved
\* always holds.
THEOREM MappingsSafety == Spec => []MappingsConserved
<1>1. Inv => MappingsConserved
  <2> SUFFICES ASSUME Inv PROVE MappingsConserved
    BY Zenon
  <2>1. PICK F, U \in SUBSET SlotIndexes, h \in [SlotIndexes -> 0 .. kCapacity] : IInv(F, U, h)
    BY Zenon DEF Inv
  <2>2. Chain("used") = U
    BY <2>1, ChainsAre, Zenon DEF IInv
  <2> HIDE DEF Chain
  <2>3. Cached = PagesIn(U)
    BY <2>2, Zenon DEF Cached, PagesIn
  <2> QED BY <2>1, <2>2, <2>3, Zenon DEF IInv, MappingsInv, MappingsConserved
<1> QED BY <1>1, Invariance, PTL

-----------------------------------------------------------------------------
(* The refinement of PagePool *)

\* Distinct slots hold distinct pages, so there are at most as many pages.
LEMMA PagesBounded ==
    ASSUME NEW U, NEW x \in SlotIndexes, U \subseteq SlotIndexes, x \notin U
    PROVE  Cardinality(PagesIn(U)) < kCapacity
<1>1. IsFiniteSet(U) /\ Cardinality(U) < kCapacity /\ Cardinality(U) \in Nat
  <2>1. Cardinality(U \cup {x}) = Cardinality(U) + 1 /\ U \cup {x} \subseteq SlotIndexes
    BY SlotSets, FS_AddElement, Zenon
  <2> QED BY <2>1, SlotSets
<1> DEFINE f == [i \in U |-> ptr[i]]
<1>2. f \in Surjection(U, PagesIn(U))
  BY Zenon DEF Surjection, PagesIn
<1>3. Cardinality(PagesIn(U)) <= Cardinality(U) /\ IsFiniteSet(PagesIn(U))
  BY <1>1, <1>2, FS_Surjection, Zenon
<1> QED BY <1>1, <1>3, FS_CardinalityType

PoolStep == Pool!Put \/ Pool!Get \/ Pool!Map \/ Pool!Unmap \/ UNCHANGED <<Cached, mapped \ Cached>>

LEMMA NextRefines ==
    ASSUME Inv, Next
    PROVE  PoolStep
<1>1. PICK F, U \in SUBSET SlotIndexes, h \in [SlotIndexes -> 0 .. kCapacity] : IInv(F, U, h)
  BY Zenon DEF Inv
<1> DEFINE c == PagesIn(U)
<1>2. Cached = c /\ c \subseteq mapped
  BY <1>1, ChainsAre, Zenon DEF Cached, IInv, MappingsInv, PagesIn
<1>3. ASSUME NEW F2, NEW U2, NEW k, IInv(F2, U2, k)' PROVE Cached' = PagesIn(U2)'
  <2>1. Linked(head'["used"].index, next', U2, k)
    BY <1>3, Zenon DEF IInv, SlotsInv
  <2>2. Chain("used")' = U2
    BY <2>1, WalkIsChain, Zenon DEF Chain
  <2> QED BY <2>2, Zenon DEF Cached, PagesIn
<1> HIDE DEF c
<1>4. ASSUME NEW t \in Threads, QuietStep(t) \/ HandStep(t) PROVE PoolStep
  <2>1. IInv(F, U, h)'
    BY <1>1, <1>4, QuietSteps, HandSteps, Zenon
  <2>2. \A i \in U : ptr'[i] = ptr[i]
    <3>1. CASE WriteSlot(t)
      <4>1. loc[t].index \in SlotIndexes /\ loc[t].index \notin U
        BY <1>1, <3>1, InvalidIsNoSlot DEF WriteSlot, IInv, ThreadOK, SlotsInv, InHand
      <4> QED BY <1>1, <3>1, <4>1, Zenon DEF WriteSlot, IInv, TypeOK
    <3>2. CASE ~WriteSlot(t)
      BY <1>4, <3>2, ZenonT(60) DEF QuietStep, PopLoad, PopNext, PopRetry, PushLoad, PushRetry, BeginGet,
           ReadSlot, HandStep, PushLink
    <3> QED BY <3>1, <3>2, Zenon
  <2>3. mapped' = mapped /\ Cached' = c
    BY <1>3, <1>4, <2>1, <2>2 DEF c, PagesIn, QuietStep, PopLoad, PopNext, PopRetry, PushLoad,
         PushRetry, BeginGet, ReadSlot, HandStep, WriteSlot, PushLink
  <2> QED BY <1>2, <2>3, Zenon DEF PoolStep
<1>5. ASSUME NEW t \in Threads, CallStep(t) PROVE PoolStep
  <2>1. IInv(F, U, h)'
    BY <1>1, <1>5, CallSteps, ZenonT(60)
  <2>2. Cached' = c
    BY <1>3, <1>5, <2>1 DEF c, PagesIn, CallStep, BeginPut, FreeUncached, GetMiss, PutFull
  <2>3. owned \subseteq mapped \ c /\ mapped \subseteq Pages
    BY <1>1, Zenon DEF c, IInv, MappingsInv, TypeOK
  <2>4. CASE BeginPut(t)
    BY <1>2, <2>2, <2>4, Zenon DEF BeginPut, PoolStep
  <2>5. CASE FreeUncached(t)
    <3>1. PICK p \in mapped \ c : mapped' = mapped \ {p}
      BY <2>3, <2>5, Zenon DEF FreeUncached
    <3>2. Pool!Unmap
      BY <1>2, <2>2, <3>1, Zenon DEF Pool!Unmap
    <3> QED BY <3>2, Zenon DEF PoolStep
  <2>6. CASE GetMiss(t)
    <3>1. CASE mapped' = mapped
      BY <1>2, <2>2, <3>1, Zenon DEF PoolStep
    <3>2. CASE mapped' # mapped
      <4>1. PICK p \in Pages \ mapped : mapped' = mapped \cup {p}
        BY <2>6, <3>2, Zenon DEF GetMiss
      <4>2. Pool!Map
        BY <1>2, <2>2, <4>1 DEF Pool!Map
      <4> QED BY <4>2, Zenon DEF PoolStep
    <3> QED BY <3>1, <3>2, Zenon
  <2>7. CASE PutFull(t)
    <3>1. loc[t].page \in Moving(t)
      BY <1>1, <2>7, Zenon DEF PutFull, Moving, IInv, ThreadOK
    <3>2. loc[t].page \in mapped \ c
      BY <1>1, <3>1, Zenon DEF c, IInv, MappingsInv, AllMoving
    <3>3. Pool!Unmap
      BY <1>2, <2>2, <2>7, <3>2, Zenon DEF Pool!Unmap, PutFull
    <3> QED BY <3>3, Zenon DEF PoolStep
  <2> QED BY <1>5, <2>4, <2>5, <2>6, <2>7, Zenon DEF CallStep
<1>6. ASSUME NEW t \in Threads, PopCas(t) PROVE PoolStep
  <2>1. PICK x : x = loc[t].old.index
    BY Zenon
  <2>2. x \in (IF loc[t].op = "get" THEN U ELSE F) /\ IInv(F \ {x}, U \ {x}, h)'
    BY <1>1, <1>6, <2>1, PopStep, Zenon
  <2>3. Cached' = {ptr[i] : i \in U \ {x}} /\ mapped' = mapped
    BY <1>3, <1>6, <2>2 DEF PagesIn, PopCas
  <2>4. CASE loc[t].op = "get"
    <3>1. Cached' = c \ {ptr[x]} /\ ptr[x] \in c
      BY <1>1, <2>2, <2>3, <2>4 DEF c, PagesIn, IInv, MappingsInv
    <3>2. Pool!Get
      BY <1>2, <2>3, <3>1 DEF Pool!Get
    <3> QED BY <3>2, Zenon DEF PoolStep
  <2>5. CASE loc[t].op # "get"
    <3>1. U \ {x} = U
      BY <1>1, <2>2, <2>5, Zenon DEF IInv, SlotsInv
    <3>2. Cached' = c
      BY <2>3, <3>1, Zenon DEF c, PagesIn
    <3> QED BY <1>2, <2>3, <3>2, Zenon DEF PoolStep
  <2> QED BY <2>4, <2>5, Zenon
<1>7. ASSUME NEW t \in Threads, PushCas(t) PROVE PoolStep
  <2>1. PICK l : l = loc[t]
    BY Zenon
  <2>2. PICK k \in [SlotIndexes -> 0 .. kCapacity] : IInv(FreeAfter(F, l), UsedAfter(U, l), k)'
    BY <1>1, <1>7, <2>1, PushStep, Zenon
  <2>3. Cached' = {ptr[i] : i \in UsedAfter(U, l)} /\ mapped' = mapped
    BY <1>3, <1>7, <2>2 DEF PagesIn, PushCas
  <2>4. CASE l.op = "get"
    BY <1>2, <2>3, <2>4, Zenon DEF UsedAfter, c, PagesIn, PoolStep
  <2>5. CASE l.op # "get"
    <3>1. l \in Locals /\ ThreadOK(l) /\ l.pc = "pushcas"
      BY <1>1, <1>7, <2>1, Zenon DEF IInv, TypeOK, PushCas
    <3>2. l.index \in SlotIndexes /\ ptr[l.index] = l.page /\ l.page # NoPage
      BY <2>5, <3>1, Zenon DEF ThreadOK, Locals, PushPCs
    <3>3. l.index \notin U
      BY <1>1, <2>1, <3>2, InvalidIsNoSlot DEF IInv, SlotsInv, InHand
    <3>4. Cached' = c \cup {l.page}
      <4>1. Cached' = {ptr[i] : i \in U \cup {l.index}}
        BY <2>3, <2>5, Zenon DEF UsedAfter
      <4> QED BY <3>2, <4>1, Zenon DEF c, PagesIn
    <3>5. l.page \in Moving(t)
      BY <2>1, <2>5, <3>2, Zenon DEF Moving
    <3>6. l.page \in mapped \ c
      BY <1>1, <3>5 DEF c, IInv, MappingsInv, AllMoving
    <3>7. Cardinality(c) < kCapacity
      BY <3>2, <3>3, PagesBounded, Zenon DEF c
    <3>8. Pool!Cardinality(c) = Cardinality(c)
      BY Zenon DEF Pool!Cardinality, Cardinality
    <3>9. Pool!Put
      BY <1>2, <2>3, <3>4, <3>6, <3>7, <3>8, Zenon DEF Pool!Put
    <3> QED BY <3>9, Zenon DEF PoolStep
  <2> QED BY <2>4, <2>5, Zenon
<1> QED
  BY <1>4, <1>5, <1>6, <1>7, Zenon DEF Next, QuietStep, CallStep, HandStep

\* The two stacks implement the abstract pool: every Put adds its page and
\* every Get takes one out at one instant, the successful exchange on the used
\* stack, and never beyond the capacity: ImplementsPool holds.
THEOREM PoolRefinement == Spec => ImplementsPool
<1>1. Init => Pool!Init
  <2> SUFFICES ASSUME Init PROVE Pool!Init
    BY Zenon
  <2>1. Linked(head["used"].index, next, {}, [i \in SlotIndexes |-> 0])
    BY Zenon DEF Init, Linked, Stacks
  <2>2. Chain("used") = {}
    BY <2>1, WalkIsChain, Zenon DEF Chain
  <2> QED BY <2>2, Zenon DEF Init, Pool!Init, Cached
<1>2. Inv /\ [Next]_vars => [Pool!Put \/ Pool!Get \/ Pool!Map \/ Pool!Unmap]_<<Cached, mapped \ Cached>>
  <2>1. ASSUME UNCHANGED vars PROVE UNCHANGED <<Cached, mapped \ Cached>>
    BY <2>1, Zenon DEF vars, Cached, Chain
  <2> QED BY <2>1, NextRefines, Zenon DEF PoolStep
<1> QED
  BY <1>1, <1>2, Invariance, PTL DEF Spec, ImplementsPool, Pool!Spec
=============================================================================
