--------------------------- MODULE PageHeapProofs ---------------------------
(***************************************************************************)
(* Proofs about the page heap, for any number of pages, buckets, request   *)
(* sizes and descriptors: the map, the buckets and the mapped pages are    *)
(* exact, and clients get disjoint runs of pages.  Then the scavenger beside *)
(* the heap, for any interval and threshold: no span has two owners, and no *)
(* client loses what it wrote.                                             *)
(***************************************************************************)
EXTENDS PageCache, PageHeapScavenger, WellFoundedInduction, TLAPS

USE PageConstants

\* The span that owns page p: during a release the leaves of the spans it has
\* absorbed still name those.
Own(p) == IF page_map[p] \in cs.retired THEN cs.d ELSE page_map[p]

Releasing == IF cs.op \in {"left", "right"} THEN {cs.d} ELSE {}

SectionOK ==
    /\ cs.op = "free" => cs = Free
    /\ cs.op = "alloc" => cs.retired = {} /\ cs.n \in ReqSizes \cap Buckets
    /\ cs.op \in {"left", "right"} => cs.d \in Owners /\ span[cs.d].num <= MaxPageNum
    /\ cs.retired \subseteq live

SpansOK == \A d \in Owners : span[d].num >= 1 /\ span[d].start + span[d].num <= NumPages

MapOK ==
    /\ \A p \in PageIds : page_map[p] # NoSpan
                           => page_map[p] \in live /\ p \in PagesOf(span[page_map[p]])
    /\ \A p \in PageIds, d \in Owners : p \in PagesOf(span[d]) <=> d = Own(p)

MappedOK == \A p \in PageIds : p \in mapped <=> page_map[p] # NoSpan

\* Away is the set of spans that somebody has taken out of the buckets without
\* being a client: the ones the scavenger works on.
UsedOK(Away) ==
    /\ {d \in Owners : span[d].used} = held \cup Away \cup Releasing
    /\ held \cap Away = {} /\ Releasing \cap (held \cup Away) = {}

\* The list q holds the spans S, each once.
Holds(q, S) == q \in Seq(Descriptors) /\ IsInjective(q) /\ Range(q) = S

\* The lists hold, bucket by bucket, the spans F names.
AllHold(lists, F) ==
    lists \in [Buckets -> Seq(Descriptors)] /\ \A k \in Buckets : Holds(lists[k], F[k])

Frees == [k \in Buckets |-> {d \in Owners : ~span[d].used /\ span[d].num = k}]

ListsOK == /\ AllHold(span_lists, Frees)
           /\ \A d \in Owners : span[d].used \/ span[d].num \in Buckets

\* The inductive invariant of the heap.
HeapInv(Away) ==
    TypeOK /\ SectionOK /\ SpansOK /\ MapOK /\ MappedOK /\ UsedOK(Away) /\ ListsOK

\* What the heap leaves alone: the spans that are away, and the pages of the
\* spans that clients hold.
Frame(Away) ==
    /\ \A d \in Away : span'[d] = span[d]
    /\ \A d \in held \cap held' : span'[d].start = span[d].start /\ span'[d].num = span[d].num

-----------------------------------------------------------------------------
(* Free lists as duplicate-free sequences *)

\* A non-empty set of naturals has a least element: induction over numbers.
LEMMA Least ==
    ASSUME NEW S \in SUBSET Nat, S # {}
    PROVE  \E x \in S : \A y \in S : x <= y
<1> DEFINE R == {ss \in Nat \X Nat : ss[1] < ss[2]}
<1>1. IsWellFoundedOn(R, Nat)
  BY NatLessThanWellFounded, Zenon DEF OpToRel
<1>2. PICK x \in S : \A y \in S : ~ (<<y, x>> \in R)
  <2> HIDE DEF R
  <2> QED BY <1>1, WFMin, Zenon
<1>3. ASSUME NEW y \in S, y < x PROVE FALSE
  <2>1. <<y, x>> \in Nat \X Nat /\ <<y, x>>[1] < <<y, x>>[2]
    BY <1>3, Zenon
  <2> QED BY <2>1, <1>2, Zenon
<1> QED
  BY <1>3

LEMMA EmptyHolds == Holds(<<>>, {})
  BY DEF Holds, IsInjective, Range

LEMMA PushHolds ==
    ASSUME NEW q, NEW S, Holds(q, S), NEW d \in Descriptors, d \notin S
    PROVE  Holds(<<d>> \o q, S \cup {d})
<1> DEFINE r == <<d>> \o q
<1>1. r \in Seq(Descriptors) /\ Len(r) = Len(q) + 1 /\ DOMAIN r = 1 .. Len(q) + 1
      /\ DOMAIN q = 1 .. Len(q) /\ Len(q) \in Nat
  BY DEF Holds
<1>2. r[1] = d /\ \A i \in 1 .. Len(q) : r[i + 1] = q[i]
  BY DEF Holds
<1>3. \A i \in 2 .. Len(q) + 1 : i - 1 \in 1 .. Len(q) /\ r[i] = q[i - 1]
  BY <1>1 DEF Holds
<1> HIDE DEF r
<1>4. IsInjective(r)
  <2> SUFFICES ASSUME NEW a \in 1 .. Len(q) + 1, NEW b \in 1 .. Len(q) + 1, r[a] = r[b] PROVE a = b
    BY <1>1, Zenon DEF IsInjective
  <2>1. ASSUME NEW i \in 2 .. Len(q) + 1 PROVE r[i] # d
    BY <1>1, <1>3, Zenon DEF Holds, Range
  <2>2. CASE a # 1 /\ b # 1
    <3>1. a \in 2 .. Len(q) + 1 /\ b \in 2 .. Len(q) + 1
      BY <1>1, <2>2
    <3>2. a - 1 \in DOMAIN q /\ b - 1 \in DOMAIN q /\ q[a - 1] = q[b - 1]
      BY <1>1, <1>3, <3>1, Zenon
    <3>3. a - 1 = b - 1
      BY <3>2, Zenon DEF Holds, IsInjective
    <3> QED BY <1>1, <3>1, <3>3
  <2> QED BY <1>1, <1>2, <2>1, <2>2
<1>5. Range(r) = S \cup {d}
  <2>1. ASSUME NEW i \in DOMAIN r PROVE r[i] \in S \cup {d}
    <3>1. i = 1 \/ i \in 2 .. Len(q) + 1
      BY <1>1
    <3>2. i \in 2 .. Len(q) + 1 => r[i] \in S
      BY <1>1, <1>3, Zenon DEF Holds, Range
    <3> QED BY <1>2, <3>1, <3>2, Zenon
  <2>2. ASSUME NEW x \in S PROVE \E i \in DOMAIN r : r[i] = x
    <3>1. PICK i \in 1 .. Len(q) : q[i] = x
      BY <1>1, Zenon DEF Holds, Range
    <3>2. i + 1 \in 1 .. Len(q) + 1 /\ r[i + 1] = x
      BY <1>1, <1>2, <3>1
    <3> QED BY <1>1, <3>2, Zenon
  <2>3. 1 \in DOMAIN r
    BY <1>1
  <2> QED BY <1>2, <2>1, <2>2, <2>3 DEF Range
<1> QED BY <1>1, <1>4, <1>5, Zenon DEF Holds, r

LEMMA PopHolds ==
    ASSUME NEW q, NEW S, Holds(q, S), q # <<>>
    PROVE  Head(q) \in S /\ Head(q) \in Descriptors /\ Holds(Tail(q), S \ {Head(q)})
<1> DEFINE r == Tail(q)
<1>1. r \in Seq(Descriptors) /\ Len(q) \in Nat \ {0} /\ DOMAIN r = 1 .. Len(q) - 1
      /\ DOMAIN q = 1 .. Len(q) /\ Head(q) = q[1]
  BY DEF Holds
<1>2. \A i \in 1 .. Len(q) - 1 : i + 1 \in 1 .. Len(q) /\ r[i] = q[i + 1]
  BY <1>1 DEF Holds
<1>3. 1 \in DOMAIN q
  BY <1>1
<1> HIDE DEF r
<1>4. Head(q) \in S /\ Head(q) \in Descriptors
  BY <1>1, <1>3 DEF Holds, Range
<1>5. IsInjective(r)
  <2> SUFFICES ASSUME NEW a \in 1 .. Len(q) - 1, NEW b \in 1 .. Len(q) - 1, r[a] = r[b] PROVE a = b
    BY <1>1, Zenon DEF IsInjective
  <2>1. a + 1 = b + 1
    BY <1>1, <1>2 DEF Holds, IsInjective
  <2> QED BY <2>1
<1>6. ASSUME NEW i \in DOMAIN r PROVE r[i] \in S \ {Head(q)}
  <2>1. i + 1 \in DOMAIN q /\ r[i] = q[i + 1] /\ i + 1 # 1
    BY <1>1, <1>2, <1>6
  <2> QED BY <1>1, <1>3, <2>1, Zenon DEF Holds, IsInjective, Range
<1>7. ASSUME NEW x \in S \ {Head(q)} PROVE \E i \in DOMAIN r : r[i] = x
  <2>1. PICK j \in 1 .. Len(q) : q[j] = x
    BY <1>1, Zenon DEF Holds, Range
  <2>2. j - 1 \in 1 .. Len(q) - 1 /\ (j - 1) + 1 = j
    BY <1>1, <2>1
  <2> QED BY <1>1, <1>2, <2>1, <2>2, Zenon
<1>8. Range(r) = S \ {Head(q)}
  BY <1>6, <1>7, Zenon DEF Range
<1> QED BY <1>1, <1>4, <1>5, <1>8, Zenon DEF Holds, r

LEMMA AppendHolds ==
    ASSUME NEW q \in Seq(Descriptors), IsInjective(q), NEW d \in Descriptors, d \notin Range(q)
    PROVE  /\ Append(q, d) \in Seq(Descriptors) /\ IsInjective(Append(q, d))
           /\ Range(Append(q, d)) = Range(q) \cup {d}
<1> DEFINE r == Append(q, d)
           m == Len(q)
<1>1. /\ r \in Seq(Descriptors) /\ DOMAIN r = 1 .. m + 1 /\ DOMAIN q = 1 .. m /\ m \in Nat
      /\ r[m + 1] = d /\ \A i \in 1 .. m : r[i] = q[i]
  OBVIOUS
<1> HIDE DEF r, m
<1>2. IsInjective(r)
  <2> SUFFICES ASSUME NEW a \in 1 .. m + 1, NEW b \in 1 .. m + 1, r[a] = r[b] PROVE a = b
    BY <1>1, Zenon DEF IsInjective
  <2>1. \A i \in 1 .. m : r[i] # d
    BY <1>1, Zenon DEF Range
  <2>2. CASE a \in 1 .. m /\ b \in 1 .. m
    BY <1>1, <2>2, Zenon DEF IsInjective
  <2> QED BY <1>1, <2>1, <2>2
<1>3. Range(r) = Range(q) \cup {d}
  <2>1. 1 .. m + 1 = (1 .. m) \cup {m + 1}
    BY <1>1
  <2> QED BY <1>1, <2>1 DEF Range
<1> QED BY <1>1, <1>2, <1>3, Zenon DEF r

\* A walk along a list collects the members it is looking for, in order.
LEMMA KeepHolds ==
    ASSUME NEW q, NEW S, Holds(q, S), NEW R
    PROVE  Holds(Keep(q, R), S \cap R)
<1> DEFINE n == Len(q)
           D == Seq(Descriptors)
           Step(w, i) == IF q[i] \in R THEN Append(w, q[i]) ELSE w
           Walks(f, k) == /\ f \in [0 .. k -> D] /\ f[0] = <<>>
                          /\ \A i \in 1 .. k : f[i] = Step(f[i - 1], i)
           NoWalk == {k \in 0 .. n : ~\E f : Walks(f, k)}
<1>1. n \in Nat /\ q \in D /\ \A i \in 1 .. n : q[i] \in Descriptors
  BY DEF Holds
<1>2. \A w \in D, i \in 1 .. n : Step(w, i) \in D
  BY <1>1
<1>3. PICK g : Walks(g, n)
  <2>1. NoWalk \in SUBSET Nat
    OBVIOUS
  <2>2. SUFFICES ASSUME NoWalk # {} PROVE FALSE
    <3>1. n \in 0 .. n
      BY <1>1
    <3> HIDE DEF Walks
    <3> QED BY <2>2, <3>1, Zenon
  <2>3. PICK k \in NoWalk : \A j \in NoWalk : k <= j
    <3> HIDE DEF NoWalk
    <3> QED BY <2>1, <2>2, Least, Zenon
  <2>4. k \in 0 .. n /\ ~\E f : Walks(f, k)
    BY <2>3, Zenon
  <2>5. CASE k = 0
    <3>1. Walks([i \in 0 .. 0 |-> <<>>], 0)
      <4>1. <<>> \in D /\ 1 .. 0 = {} /\ 0 \in 0 .. 0
        OBVIOUS
      <4> HIDE DEF D
      <4>2. [i \in 0 .. 0 |-> <<>>] \in [0 .. 0 -> D] /\ [i \in 0 .. 0 |-> <<>>][0] = <<>>
        BY <4>1, Zenon
      <4> HIDE DEF Step
      <4> QED BY <4>1, <4>2, Zenon
    <3> HIDE DEF Walks
    <3> QED BY <2>4, <2>5, <3>1, Zenon
  <2>6. CASE k # 0
    <3>1. k - 1 \in 0 .. n /\ k - 1 \notin NoWalk
      <4> HIDE DEF NoWalk, Walks
      <4> QED BY <1>1, <2>3, <2>4, <2>6
    <3>2. PICK f : Walks(f, k - 1)
      <4> HIDE DEF Walks
      <4> QED BY <3>1, Zenon
    <3>3. PICK h : h = [i \in 0 .. k |-> IF i = k THEN Step(f[k - 1], k) ELSE f[i]]
      BY Zenon
    <3>4. f[k - 1] \in D /\ k \in 1 .. n
      BY <2>4, <2>6, <3>2
    <3>5. Step(f[k - 1], k) \in D
      BY <1>2, <3>4, Zenon
    <3> HIDE DEF Step, D
    <3>6. h \in [0 .. k -> D] /\ h[0] = <<>>
      BY <2>4, <2>6, <3>2, <3>3, <3>5
    <3>7. \A i \in 1 .. k : h[i] = Step(h[i - 1], i)
      <4> SUFFICES ASSUME NEW i \in 1 .. k PROVE h[i] = Step(h[i - 1], i)
        BY Zenon
      <4>1. h[i - 1] = f[i - 1]
        BY <2>4, <3>3
      <4>2. CASE i = k
        BY <2>4, <3>3, <4>1, <4>2
      <4>3. CASE i # k
        BY <2>4, <3>2, <3>3, <4>1, <4>3
      <4> QED BY <4>2, <4>3, Zenon
    <3>8. Walks(h, k)
      BY <3>6, <3>7, Zenon
    <3> HIDE DEF Walks
    <3> QED BY <2>4, <3>8, Zenon
  <2> QED BY <2>5, <2>6, Zenon
<1>4. PICK w : /\ w = [i \in 0 .. n |-> IF i = 0 THEN <<>>
                                       ELSE IF q[i] \in R THEN Append(w[i - 1], q[i])
                                       ELSE w[i - 1]]
               /\ Keep(q, R) = w[n]
  <2>1. g = [i \in 0 .. n |-> IF i = 0 THEN <<>>
                              ELSE IF q[i] \in R THEN Append(g[i - 1], q[i]) ELSE g[i - 1]]
    <3> DEFINE G(i) == IF i = 0 THEN <<>>
                       ELSE IF q[i] \in R THEN Append(g[i - 1], q[i]) ELSE g[i - 1]
    <3>1. \A i \in 0 .. n : g[i] = G(i)
      <4>1. \A i \in 1 .. n : g[i] = Step(g[i - 1], i)
        BY <1>3, Zenon
      <4>2. g[0] = <<>>
        BY <1>3, Zenon
      <4> QED BY <1>1, <4>1, <4>2
    <3>2. g = [i \in 0 .. n |-> g[i]]
      BY <1>3, Zenon
    <3> HIDE DEF G
    <3>3. g = [i \in 0 .. n |-> G(i)]
      BY <3>1, <3>2, Zenon
    <3> QED BY <3>3, Zenon DEF G
  <2> QED BY <2>1, Zenon DEF Keep
<1> DEFINE Seen(i) == {q[j] : j \in 1 .. i}
           Good(i) == w[i] \in D /\ IsInjective(w[i]) /\ Range(w[i]) = Seen(i) \cap R
           Bad == {i \in 0 .. n : ~Good(i)}
<1>5. w[0] = <<>> /\ \A i \in 1 .. n : w[i] = Step(w[i - 1], i)
  <2>1. \A i \in 0 .. n : w[i] = IF i = 0 THEN <<>>
                                 ELSE IF q[i] \in R THEN Append(w[i - 1], q[i]) ELSE w[i - 1]
    BY <1>4, Zenon
  <2>2. 0 \in 0 .. n /\ \A i \in 1 .. n : i \in 0 .. n /\ i # 0
    BY <1>1
  <2> QED BY <2>1, <2>2, Zenon
<1>6. Good(0)
  <2>1. Seen(0) = {}
    OBVIOUS
  <2> QED BY <1>5, <2>1, EmptyHolds, Zenon DEF Holds
<1>7. ASSUME NEW i \in 1 .. n, Good(i - 1) PROVE Good(i)
  <2> DEFINE v == w[i - 1]
             y == q[i]
  <2>1. v \in D /\ IsInjective(v) /\ Range(v) = Seen(i - 1) \cap R /\ w[i] = Step(v, i)
    BY <1>5, <1>7, Zenon
  <2>2. Seen(i) = Seen(i - 1) \cup {y}
    BY <1>1
  <2>3. y \notin Seen(i - 1)
    BY <1>1 DEF Holds, IsInjective
  <2>4. y \in Descriptors
    BY <1>1, Zenon
  <2> HIDE DEF v, y, Seen
  <2>5. CASE y \notin R
    BY <2>1, <2>2, <2>5, Zenon DEF y
  <2>6. CASE y \in R
    <3>1. w[i] = Append(v, y)
      BY <2>1, <2>6, Zenon DEF y
    <3>2. Append(v, y) \in D /\ IsInjective(Append(v, y)) /\ Range(Append(v, y)) = Range(v) \cup {y}
      BY <2>1, <2>3, <2>4, AppendHolds, Zenon
    <3> QED BY <2>1, <2>2, <2>6, <3>1, <3>2, Zenon
  <2> QED BY <2>5, <2>6, Zenon
<1>8. Bad \in SUBSET Nat
  OBVIOUS
<1>9. SUFFICES ASSUME Bad # {} PROVE FALSE
  <2>1. Good(n)
    BY <1>1, <1>9
  <2>2. Seen(n) = S
    BY <1>1 DEF Holds, Range
  <2> QED BY <1>4, <2>1, <2>2, Zenon DEF Holds
<1>10. PICK i \in Bad : \A j \in Bad : i <= j
  <2> HIDE DEF Bad
  <2> QED BY <1>8, <1>9, Least, Zenon
<1> HIDE DEF Good
<1>11. i \in 1 .. n /\ i - 1 \in 0 .. n /\ i - 1 \notin Bad
  BY <1>1, <1>6, <1>10
<1> QED BY <1>7, <1>10, <1>11, Zenon

LEMMA FreesFcn == Frees = [k \in Buckets |-> Frees[k]]
  BY Zenon DEF Frees

LEMMA PushLists ==
    ASSUME NEW L, NEW F, AllHold(L, F), F = [k \in Buckets |-> F[k]], NEW k \in Buckets,
           NEW d \in Descriptors, d \notin F[k]
    PROVE  AllHold(PushFront(L, k, d), [F EXCEPT ![k] = @ \cup {d}])
<1>1. Holds(<<d>> \o L[k], F[k] \cup {d})
  BY PushHolds, Zenon DEF AllHold
<1> QED BY <1>1, Zenon DEF AllHold, PushFront, Holds

LEMMA PopLists ==
    ASSUME NEW L, NEW F, AllHold(L, F), F = [k \in Buckets |-> F[k]], NEW k \in Buckets,
           L[k] # <<>>
    PROVE  /\ Head(L[k]) \in F[k] /\ Head(L[k]) \in Descriptors
           /\ AllHold(PopFront(L, k), [F EXCEPT ![k] = @ \ {Head(L[k])}])
<1>1. Head(L[k]) \in F[k] /\ Head(L[k]) \in Descriptors /\ Holds(Tail(L[k]), F[k] \ {Head(L[k])})
  BY PopHolds, Zenon DEF AllHold
<1> QED BY <1>1, Zenon DEF AllHold, PopFront, Holds

LEMMA EraseLists ==
    ASSUME NEW L, NEW F, AllHold(L, F), F = [k \in Buckets |-> F[k]], NEW k \in Buckets, NEW d
    PROVE  AllHold(Erase(L, k, d), [F EXCEPT ![k] = @ \ {d}])
<1>1. Holds(Keep(L[k], Descriptors \ {d}), F[k] \cap (Descriptors \ {d}))
  BY KeepHolds, Zenon DEF AllHold
<1>2. F[k] \cap (Descriptors \ {d}) = F[k] \ {d}
  BY DEF AllHold, Holds, Range
<1> QED BY <1>1, <1>2, Zenon DEF AllHold, Erase, Holds

-----------------------------------------------------------------------------
(* Spans and their pages *)

CsType == [op: {"free", "alloc", "left", "right"}, n: 0 .. MaxPageNum,
           d: Descriptors \cup {NoSpan}, retired: SUBSET Descriptors]

\* The fields of a descriptor are numbers, and a span that owns pages owns at
\* least one and only pages that exist.
LEMMA SpanFields ==
    ASSUME TypeOK, NEW d \in Descriptors
    PROVE  /\ span[d] \in SpanRec /\ span[d].start \in Nat /\ span[d].num \in Nat
           /\ span[d].used \in BOOLEAN
  BY DEF TypeOK, SpanRec

LEMMA OwnerPages ==
    ASSUME NEW Away, HeapInv(Away), NEW d \in Owners
    PROVE  /\ d \in Descriptors /\ d # NoSpan
           /\ PagesOf(span[d]) \subseteq PageIds
           /\ span[d].start \in PagesOf(span[d])
           /\ span[d].start + span[d].num - 1 \in PagesOf(span[d])
<1>1. d \in Descriptors /\ d # NoSpan /\ TypeOK /\ SpansOK
  BY DEF HeapInv, TypeOK, Owners, NoSpan, Descriptors
<1>2. /\ span[d].start \in Nat /\ span[d].num \in Nat /\ span[d].num >= 1
      /\ span[d].start + span[d].num <= NumPages
  BY <1>1, SpanFields, Zenon DEF SpansOK
<1> QED BY <1>1, <1>2 DEF PagesOf, PageIds

\* No two spans own a page both.
LEMMA OwnersApart ==
    ASSUME NEW Away, HeapInv(Away), NEW d \in Owners, NEW e \in Owners, NEW p,
           p \in PagesOf(span[d]), p \in PagesOf(span[e])
    PROVE  d = e
<1>1. p \in PageIds
  BY OwnerPages, Zenon
<1> QED BY <1>1, Zenon DEF HeapInv, MapOK

-----------------------------------------------------------------------------
(* Steps that only enter or leave the mutex *)

SameShape ==
    \A d \in Descriptors : span'[d].start = span[d].start /\ span'[d].num = span[d].num

\* A step that moves no page leaves the map as right as it was.
LEMMA ShapeStep ==
    ASSUME NEW Away, HeapInv(Away), SameShape, UNCHANGED <<live, page_map, mapped>>,
           cs'.retired = cs.retired, cs.retired = {} \/ cs'.d = cs.d
    PROVE  Owners' = Owners /\ Owners \subseteq Descriptors /\ SpansOK' /\ MapOK' /\ MappedOK'
<1>1. Owners' = Owners /\ Owners \subseteq Descriptors /\ live \subseteq Descriptors
  BY Zenon DEF Owners, HeapInv, TypeOK
<1>2. \A p \in PageIds : Own(p)' = Own(p)
  BY Zenon DEF Own
<1>3. \A d \in Descriptors : PagesOf(span'[d]) = PagesOf(span[d])
  BY Zenon DEF SameShape, PagesOf
<1>4. MapOK'
  BY <1>1, <1>2, <1>3 DEF HeapInv, MapOK
<1> QED BY <1>1, <1>4, Zenon DEF HeapInv, SpansOK, MappedOK, SameShape

LEMMA SectionStep ==
    ASSUME NEW Away, HeapInv(Away), UNCHANGED <<span_lists, span, live, page_map, mapped, clock>>,
           cs' \in CsType, cs'.retired = cs.retired, cs.retired = {} \/ cs'.d = cs.d, SectionOK',
           \/ held' = held /\ Releasing' = Releasing
           \/ \E d \in held : held' = held \ {d} /\ Releasing = {} /\ Releasing' = {d}
    PROVE  HeapInv(Away)' /\ Frame(Away)
<1>1. Owners' = Owners /\ SpansOK' /\ MapOK' /\ MappedOK'
  BY ShapeStep, Zenon DEF SameShape
<1>2. Frees' = Frees
  BY <1>1, Zenon DEF Frees
<1>3. TypeOK'
  BY Zenon DEF HeapInv, TypeOK, CsType
<1>4. UsedOK(Away)'
  BY <1>1, Zenon DEF HeapInv, UsedOK
<1>5. ListsOK'
  BY <1>1, <1>2, Zenon DEF HeapInv, ListsOK
<1> QED BY <1>1, <1>3, <1>4, <1>5, Zenon DEF HeapInv, Frame

LEMMA EnterLeaveSteps ==
    ASSUME NEW Away, HeapInv(Away),
           \/ \E n \in ReqSizes : AllocOversizedFail(n) \/ AllocBegin(n)
           \/ AllocRefillFail \/ LeftDone \/ AllocSplitFail
           \/ (\E d \in held : ReleaseBegin(d)) \/ UNCHANGED pcVars
    PROVE  HeapInv(Away)' /\ Frame(Away)
<1>1. TypeOK /\ SectionOK /\ cs \in CsType
  BY Zenon DEF HeapInv, TypeOK, CsType
<1>2. Free \in CsType /\ Free.op = "free" /\ Free.retired = {}
  BY DEF Free, CsType
<1>3. ASSUME NEW k, MapAndUndo(k) PROVE mapped' = mapped
  BY <1>3, Zenon DEF MapAndUndo, SystemRanges
<1>4. ASSUME cs.op = "alloc", cs' = Free,
             UNCHANGED <<span_lists, span, live, page_map, mapped, held, clock>>
      PROVE  HeapInv(Away)' /\ Frame(Away)
  <2>1. cs.retired = {} /\ cs'.retired = {} /\ Releasing' = Releasing /\ cs' \in CsType
    BY <1>1, <1>2, <1>4, Zenon DEF SectionOK, Releasing
  <2>2. SectionOK'
    BY <1>2, <1>4, Zenon DEF SectionOK
  <2> QED BY <1>4, <2>1, <2>2, SectionStep, Zenon
<1>5. ASSUME cs' = cs, UNCHANGED <<span_lists, span, live, page_map, mapped, held, clock>>
      PROVE  HeapInv(Away)' /\ Frame(Away)
  <2>1. Releasing' = Releasing /\ SectionOK'
    BY <1>1, <1>5, Zenon DEF SectionOK, Releasing, Owners
  <2> QED BY <1>1, <1>5, <2>1, SectionStep, Zenon
<1>6. ASSUME NEW n \in ReqSizes, AllocOversizedFail(n) PROVE HeapInv(Away)' /\ Frame(Away)
  BY <1>3, <1>5, <1>6, Zenon DEF AllocOversizedFail
<1>7. CASE UNCHANGED pcVars
  BY <1>5, <1>7, Zenon DEF pcVars
<1>8. CASE AllocRefillFail
  BY <1>3, <1>4, <1>8, Zenon DEF AllocRefillFail, NothingFits
<1>9. ASSUME NEW n \in ReqSizes, AllocBegin(n) PROVE HeapInv(Away)' /\ Frame(Away)
  <2>1. cs = Free /\ cs' = InAlloc(n) /\ n \in Buckets
        /\ UNCHANGED <<span_lists, span, live, page_map, mapped, held, clock>>
    BY <1>9, Zenon DEF AllocBegin
  <2>2. cs'.op = "alloc" /\ cs'.n = n /\ cs'.retired = {} /\ cs' \in CsType
    BY <2>1 DEF InAlloc, CsType, Buckets
  <2>3. Releasing' = Releasing /\ SectionOK'
    BY <1>2, <2>1, <2>2, Zenon DEF SectionOK, Releasing
  <2> QED BY <1>2, <2>1, <2>2, <2>3, SectionStep, Zenon
<1>10. CASE LeftDone
  <2>1. cs.op = "left" /\ cs' = [cs EXCEPT !.op = "right"]
        /\ UNCHANGED <<span_lists, span, live, page_map, mapped, held, clock>>
    BY <1>10, Zenon DEF LeftDone
  <2>2. cs'.op = "right" /\ cs'.d = cs.d /\ cs'.retired = cs.retired /\ cs' \in CsType
    BY <1>1, <2>1, Zenon DEF CsType
  <2>3. Releasing' = Releasing /\ SectionOK'
    BY <1>1, <2>1, <2>2, Zenon DEF SectionOK, Releasing, Owners
  <2> QED BY <2>1, <2>2, <2>3, SectionStep, Zenon
<1>11. CASE AllocSplitFail
  <2>1. PICK i \in Buckets : /\ SplitFrom(i)
          /\ span_lists' = PushFront(PopFront(span_lists, i), i, Head(span_lists[i]))
    BY <1>11, Zenon DEF AllocSplitFail
  <2>2. PICK q : q = span_lists[i]
    BY Zenon
  <2>3. q \in Seq(Descriptors) /\ q # <<>>
    BY <1>1, <2>1, <2>2, Zenon DEF TypeOK, SplitFrom
  <2>4. <<Head(q)>> \o Tail(q) = q
    BY <2>3
  <2>5. PICK f : f = PopFront(span_lists, i)
    BY Zenon
  <2>6. DOMAIN f = Buckets /\ f[i] = Tail(q) /\ \A k \in Buckets \ {i} : f[k] = span_lists[k]
    BY <1>1, <2>2, <2>5, Zenon DEF TypeOK, PopFront
  <2>7. span_lists' = [f EXCEPT ![i] = <<Head(q)>> \o f[i]]
    BY <2>1, <2>2, <2>5, Zenon DEF PushFront
  <2>8. span_lists' = span_lists
    BY <1>1, <2>2, <2>4, <2>6, <2>7, Zenon DEF TypeOK
  <2> QED BY <1>4, <1>11, <2>1, <2>8, Zenon DEF AllocSplitFail, SplitFrom
<1>12. ASSUME NEW d \in held, ReleaseBegin(d) PROVE HeapInv(Away)' /\ Frame(Away)
  <2>1. cs = Free /\ cs' = InRelease("left", d, {}) /\ held' = held \ {d}
        /\ UNCHANGED <<span_lists, span, live, page_map, mapped, clock>>
        /\ span[d].num <= MaxPageNum
    BY <1>12, Zenon DEF ReleaseBegin
  <2>2. d \in Owners /\ d \in Descriptors
    BY Zenon DEF HeapInv, UsedOK, TypeOK
  <2>3. cs'.op = "left" /\ cs'.d = d /\ cs'.retired = {} /\ cs' \in CsType
    BY <2>1, <2>2 DEF InRelease, CsType
  <2>4. Releasing = {} /\ Releasing' = {d} /\ cs.retired = {}
    BY <1>2, <2>1, <2>3, Zenon DEF Releasing
  <2>5. Owners' = Owners
    BY <2>1, <2>3, <2>4, Zenon DEF Owners
  <2>6. SectionOK'
    BY <2>1, <2>2, <2>3, <2>5, Zenon DEF SectionOK
  <2> QED BY <2>1, <2>3, <2>4, <2>6, SectionStep, Zenon
<1> QED BY <1>6, <1>7, <1>8, <1>9, <1>10, <1>11, <1>12, Zenon

-----------------------------------------------------------------------------
(* Coalescing *)

\* One iteration of either loop of ReleaseSpan: the span that is released
\* takes over the pages of a free neighbour.
LEMMA AbsorbStep ==
    ASSUME NEW Away, HeapInv(Away), cs.op \in {"left", "right"},
           NEW nb \in Owners, nb # cs.d, ~span[nb].used,
           NEW s \in SpanRec, s.used = span[cs.d].used, s.num <= MaxPageNum, s.num >= 1,
           PagesOf(s) = PagesOf(span[cs.d]) \cup PagesOf(span[nb]),
           span' = [span EXCEPT ![cs.d] = s],
           span_lists' = Erase(span_lists, span[nb].num, nb),
           cs' = [cs EXCEPT !.retired = @ \cup {nb}],
           UNCHANGED <<live, page_map, mapped, held, clock>>
    PROVE  HeapInv(Away)' /\ Frame(Away)
<1>1. PICK c : c = cs.d
  BY Zenon
<1>2. /\ c \in Owners /\ c \in Descriptors /\ nb \in Descriptors /\ c # NoSpan
      /\ span \in [Descriptors -> SpanRec] /\ cs \in CsType
  BY <1>1, OwnerPages, Zenon DEF HeapInv, SectionOK, TypeOK, CsType
<1>3. \A d \in Descriptors : span'[d] = IF d = c THEN s ELSE span[d]
  BY <1>1, <1>2, Zenon
<1>4. cs'.op = cs.op /\ cs'.d = c /\ cs'.retired = cs.retired \cup {nb} /\ cs' \in CsType
  BY <1>1, <1>2, Zenon DEF CsType
<1>5. Owners' = Owners \ {nb} /\ Owners \subseteq Descriptors
  BY <1>4, Zenon DEF Owners, HeapInv, TypeOK
<1>6. span[c].used /\ Releasing = {c} /\ Releasing' = {c} /\ c \notin held \cup Away
  <2>1. Releasing = {c} /\ Releasing' = {c}
    BY <1>1, <1>4, Zenon DEF Releasing
  <2> QED BY <1>2, <2>1, Zenon DEF HeapInv, UsedOK
<1>7. span[nb].num \in Buckets
  BY Zenon DEF HeapInv, ListsOK
<1>8. TypeOK'
  <2>1. span' \in [Descriptors -> SpanRec]
    BY <1>1, <1>2, Zenon
  <2>2. span_lists' \in [Buckets -> Seq(Descriptors)]
    <3>1. AllHold(span_lists', [Frees EXCEPT ![span[nb].num] = @ \ {nb}])
      BY <1>7, EraseLists, FreesFcn, Zenon DEF HeapInv, ListsOK
    <3> QED BY <3>1, Zenon DEF AllHold
  <2> QED BY <1>4, <2>1, <2>2, Zenon DEF HeapInv, TypeOK, CsType
<1>9. SectionOK'
  <2>1. c \in Owners' /\ span'[c].num <= MaxPageNum
    BY <1>1, <1>2, <1>3, <1>5, Zenon
  <2>2. cs'.retired \subseteq live
    BY <1>4, Zenon DEF HeapInv, SectionOK, Owners
  <2> QED BY <1>4, <2>1, <2>2, Zenon DEF SectionOK
<1>10. SpansOK'
  <2>1. s.start + s.num <= NumPages
    <3>1. PagesOf(s) \subseteq PageIds
      BY <1>1, <1>2, OwnerPages, Zenon
    <3>2. s.start \in Nat /\ s.num \in Nat
      BY DEF SpanRec
    <3>3. s.start + s.num - 1 \in PagesOf(s)
      BY <3>2 DEF PagesOf
    <3> QED BY <3>1, <3>2, <3>3 DEF PageIds
  <2> QED BY <1>3, <1>5, <2>1, Zenon DEF HeapInv, SpansOK
<1>11. MapOK'
  <2>1. \A p \in PageIds : Own(p)' = IF Own(p) = nb THEN c ELSE Own(p)
    BY <1>1, <1>4, Zenon DEF Own, Owners
  <2>2. \A p \in PageIds, d \in Owners : p \in PagesOf(span[d]) <=> d = Own(p)
    BY Zenon DEF HeapInv, MapOK
  <2>3. ASSUME NEW p \in PageIds, NEW d \in Owners' PROVE p \in PagesOf(span'[d]) <=> d = Own(p)'
    <3>1. CASE d = c
      BY <1>1, <1>2, <1>3, <2>1, <2>2, <3>1
    <3>2. CASE d # c
      BY <1>3, <1>5, <2>1, <2>2, <3>2
    <3> QED BY <3>1, <3>2, Zenon
  <2>4. ASSUME NEW p \in PageIds, page_map[p] # NoSpan
        PROVE  page_map[p] \in live /\ p \in PagesOf(span'[page_map[p]])
    <3>1. page_map[p] \in live /\ p \in PagesOf(span[page_map[p]]) /\ live \subseteq Descriptors
      BY <2>4, Zenon DEF HeapInv, MapOK, TypeOK
    <3> QED BY <1>1, <1>3, <3>1, Zenon
  <2> QED BY <2>3, <2>4, Zenon DEF MapOK
<1>12. MappedOK'
  BY Zenon DEF HeapInv, MappedOK
<1>13. UsedOK(Away)'
  <2>1. {d \in Owners' : span'[d].used} = {d \in Owners : span[d].used}
    BY <1>1, <1>2, <1>3, <1>5, <1>6, Zenon
  <2> QED BY <1>6, <2>1, Zenon DEF HeapInv, UsedOK
<1>14. ListsOK'
  <2> s.used
    BY <1>1, <1>6, Zenon
  <2>1. Frees' = [Frees EXCEPT ![span[nb].num] = @ \ {nb}]
    <3>1. \A d \in Owners' : /\ span'[d].used <=> span[d].used
                             /\ ~span[d].used => span'[d].num = span[d].num
      BY <1>3, <1>5, <1>6, Zenon
    <3>2. \A k \in Buckets : Frees'[k] = IF k = span[nb].num THEN Frees[k] \ {nb} ELSE Frees[k]
      BY <1>5, <3>1 DEF Frees
    <3> QED BY <1>7, <3>2, Zenon DEF Frees
  <2>2. AllHold(span_lists, Frees)'
    <3>1. AllHold(span_lists', [Frees EXCEPT ![span[nb].num] = @ \ {nb}])
      BY <1>7, EraseLists, FreesFcn, Zenon DEF HeapInv, ListsOK
    <3> QED BY <2>1, <3>1, Zenon DEF AllHold
  <2>3. \A d \in Owners' : span'[d].used \/ span'[d].num \in Buckets
    BY <1>3, <1>5, ZenonT(60) DEF HeapInv, ListsOK
  <2> QED BY <2>2, <2>3, Zenon DEF ListsOK
<1>15. Frame(Away)
  <2>1. Away \cup held \subseteq Descriptors
    BY <1>5, Zenon DEF HeapInv, UsedOK
  <2> QED BY <1>3, <1>6, <2>1, Zenon DEF Frame
<1> QED BY <1>8, <1>9, <1>10, <1>11, <1>12, <1>13, <1>14, <1>15, Zenon DEF HeapInv

\* A leaf next to the span that is released names a span that owns the page:
\* no span the release has absorbed lies outside its range.
LEMMA NeighbourOwns ==
    ASSUME NEW Away, HeapInv(Away), cs.op \in {"left", "right"}, NEW p \in PageIds,
           p \notin PagesOf(span[cs.d]), page_map[p] # NoSpan
    PROVE  /\ page_map[p] \in Owners /\ page_map[p] # cs.d
           /\ p \in PagesOf(span[page_map[p]])
<1>1. cs.d \in Owners /\ page_map[p] \in live /\ p \in PagesOf(span[page_map[p]])
  BY Zenon DEF HeapInv, SectionOK, MapOK
<1>2. Own(p) # cs.d
  BY <1>1, Zenon DEF HeapInv, MapOK
<1> QED BY <1>1, <1>2, Zenon DEF Own, Owners

\* Two spans of which one starts where the other ends are one range together.
LEMMA Adjacent ==
    ASSUME NEW a \in SpanRec, NEW b \in SpanRec, NEW s \in SpanRec, a.num >= 1, b.num >= 1,
           a.start + a.num = b.start, s.start = a.start, s.num = a.num + b.num
    PROVE  PagesOf(s) = PagesOf(a) \cup PagesOf(b)
  BY DEF PagesOf, SpanRec

LEMMA AbsorbSteps ==
    ASSUME NEW Away, HeapInv(Away), AbsorbLeft \/ AbsorbRight
    PROVE  HeapInv(Away)' /\ Frame(Away)
<1>1. PICK c : c = cs.d
  BY Zenon
<1>2. cs.op \in {"left", "right"} /\ TypeOK /\ SpansOK
  BY Zenon DEF AbsorbLeft, AbsorbRight, HeapInv
<1>3. c \in Owners /\ c \in Descriptors /\ span \in [Descriptors -> SpanRec] /\ span[c].num >= 1
  BY <1>1, <1>2, OwnerPages, Zenon DEF HeapInv, SectionOK, TypeOK, SpansOK
<1>4. span[c].start \in Nat /\ span[c].num \in Nat
      /\ \A p \in PagesOf(span[c]) : span[c].start <= p /\ p < span[c].start + span[c].num
  BY <1>2, <1>3, SpanFields DEF PagesOf
<1>5. ASSUME NEW nb \in Owners, nb # c
      PROVE  /\ nb \in Descriptors /\ span[nb] \in SpanRec /\ span[nb].num >= 1
             /\ span[nb].start \in Nat /\ span[nb].num \in Nat
             /\ \A p : p \in PagesOf(span[c]) => p \notin PagesOf(span[nb])
  BY <1>2, <1>3, <1>5, OwnerPages, OwnersApart, SpanFields, Zenon DEF SpansOK
<1>6. CASE AbsorbLeft
  <2>1. PICK nb : nb = LeftNeighbour
    BY Zenon
  <2>2. PICK p : p = span[c].start - 1
    BY Zenon
  <2>3. p \in PageIds /\ p \notin PagesOf(span[c])
    <3>1. span[c].start # 0 /\ span[c].start \in PageIds
      BY <1>1, <1>3, <1>6, OwnerPages, Zenon DEF AbsorbLeft
    <3> QED BY <1>4, <2>2, <3>1 DEF PageIds
  <2>4. nb = page_map[p] /\ nb # NoSpan /\ ~span[nb].used /\ span[c].num + span[nb].num <= MaxPageNum
    BY <1>1, <1>6, <2>1, <2>2, <2>3, Zenon DEF AbsorbLeft, LeftNeighbour, GetSpan, Absorbable
  <2>5. nb \in Owners /\ nb # c /\ p \in PagesOf(span[nb])
    BY <1>1, <1>2, <2>3, <2>4, NeighbourOwns, Zenon
  <2>6. span[nb].start + span[nb].num = span[c].start
    <3>1. span[c].start \notin PagesOf(span[nb])
      BY <1>3, <1>5, <2>5, OwnerPages, Zenon
    <3> QED BY <1>4, <1>5, <2>2, <2>5, <3>1 DEF PagesOf
  <2>7. PICK s : s = [span[c] EXCEPT !.start = span[nb].start, !.num = span[c].num + span[nb].num]
    BY Zenon
  <2>8. s \in SpanRec /\ s.start = span[nb].start /\ s.num = span[c].num + span[nb].num
        /\ s.used = span[c].used
    <3>1. span[nb].start \in 0 .. NumPages /\ span[c].num + span[nb].num \in 0 .. NumPages
      BY <1>4, <1>5, <2>4, <2>5 DEF SpanRec
    <3> QED BY <1>3, <2>7, <3>1, Zenon DEF SpanRec
  <2>9. PagesOf(s) = PagesOf(span[c]) \cup PagesOf(span[nb])
    BY <1>3, <1>4, <1>5, <2>5, <2>6, <2>8, Adjacent
  <2>10. span' = [span EXCEPT ![c] = s]
    BY <1>1, <1>3, <1>6, <2>1, <2>7, Zenon DEF AbsorbLeft
  <2>11. /\ span_lists' = Erase(span_lists, span[nb].num, nb)
         /\ cs' = [cs EXCEPT !.retired = @ \cup {nb}]
         /\ UNCHANGED <<live, page_map, mapped, held, clock>>
    BY <1>6, <2>1, Zenon DEF AbsorbLeft
  <2>12. s.num <= MaxPageNum /\ s.num >= 1
    BY <1>3, <1>4, <1>5, <2>4, <2>5, <2>8
  <2> QED BY <1>1, <1>2, <2>4, <2>5, <2>8, <2>9, <2>10, <2>11, <2>12, AbsorbStep, Zenon
<1>7. CASE AbsorbRight
  <2>1. PICK nb : nb = RightNeighbour
    BY Zenon
  <2>2. PICK p : p = span[c].start + span[c].num
    BY Zenon
  <2>3. nb # NoSpan /\ ~span[nb].used /\ span[c].num + span[nb].num <= MaxPageNum
    BY <1>1, <1>7, <2>1, ZenonT(60) DEF AbsorbRight, Absorbable
  <2>4. p \in PageIds /\ p \notin PagesOf(span[c]) /\ nb = page_map[p]
    BY <1>1, <1>4, <2>1, <2>2, <2>3 DEF RightNeighbour, GetSpan
  <2>5. nb \in Owners /\ nb # c /\ p \in PagesOf(span[nb])
    BY <1>1, <1>2, <2>3, <2>4, NeighbourOwns, Zenon
  <2>6. span[c].start + span[c].num = span[nb].start
    <3>1. p - 1 \in PagesOf(span[c])
      BY <1>3, <1>4, <2>2 DEF PagesOf
    <3>2. p - 1 \notin PagesOf(span[nb])
      BY <1>5, <2>5, <3>1, Zenon
    <3> QED BY <1>4, <1>5, <2>2, <2>5, <3>2 DEF PagesOf
  <2>7. PICK s : s = [span[c] EXCEPT !.num = span[c].num + span[nb].num]
    BY Zenon
  <2>8. s \in SpanRec /\ s.start = span[c].start /\ s.num = span[c].num + span[nb].num
        /\ s.used = span[c].used
    BY <1>3, <1>4, <1>5, <2>3, <2>5, <2>7 DEF SpanRec
  <2>9. PagesOf(s) = PagesOf(span[c]) \cup PagesOf(span[nb])
    BY <1>3, <1>4, <1>5, <2>5, <2>6, <2>8, Adjacent, Zenon
  <2>10. span' = [span EXCEPT ![c] = s]
    BY <1>1, <1>3, <1>7, <2>1, <2>7, Zenon DEF AbsorbRight
  <2>11. /\ span_lists' = Erase(span_lists, span[nb].num, nb)
         /\ cs' = [cs EXCEPT !.retired = @ \cup {nb}]
         /\ UNCHANGED <<live, page_map, mapped, held, clock>>
    BY <1>7, <2>1, Zenon DEF AbsorbRight
  <2>12. s.num <= MaxPageNum /\ s.num >= 1
    BY <1>3, <1>4, <1>5, <2>3, <2>5, <2>8
  <2> QED BY <1>1, <1>2, <2>3, <2>5, <2>8, <2>9, <2>10, <2>11, <2>12, AbsorbStep, Zenon
<1> QED BY <1>6, <1>7, Zenon

\* A change of a span that the buckets do not look at.
LEMMA FieldStep ==
    ASSUME NEW Away, HeapInv(Away), SameShape, span' \in [Descriptors -> SpanRec],
           \A d \in Descriptors : span'[d].used = span[d].used,
           UNCHANGED <<span_lists, live, page_map, mapped, held, cs, clock>>
    PROVE  HeapInv(Away)'
<1>1. Owners' = Owners /\ Owners \subseteq Descriptors /\ SpansOK' /\ MapOK' /\ MappedOK'
  BY ShapeStep, Zenon
<1>2. TypeOK' /\ SectionOK'
  BY <1>1, Zenon DEF HeapInv, TypeOK, SectionOK, SameShape
<1>3. {d \in Owners : span'[d].used} = {d \in Owners : span[d].used}
  BY <1>1, Zenon
<1>4. UsedOK(Away)'
  BY <1>1, <1>3, Zenon DEF HeapInv, UsedOK, Releasing
<1>5. Frees' = Frees
  BY <1>1, Zenon DEF Frees, SameShape
<1>6. \A d \in Owners : span'[d].used \/ span'[d].num \in Buckets
  BY <1>1, Zenon DEF HeapInv, ListsOK, SameShape
<1>7. ListsOK'
  BY <1>1, <1>5, <1>6, Zenon DEF HeapInv, ListsOK
<1> QED BY <1>1, <1>2, <1>4, <1>7, Zenon DEF HeapInv

LEMMA UseStep ==
    ASSUME NEW Away, HeapInv(Away), Use
    PROVE  HeapInv(Away)' /\ Frame(Away)
<1>1. PICK d \in held : InitObjects(d)
  BY Zenon DEF Use
<1>2. /\ span \in [Descriptors -> SpanRec] /\ held \subseteq Descriptors
      /\ d \notin Away /\ Away \subseteq Descriptors
  BY Zenon DEF HeapInv, TypeOK, UsedOK, Owners
<1>3. PICK s : s = [span[d] EXCEPT !.obj = TRUE]
  BY Zenon
<1>4. s \in SpanRec /\ s.start = span[d].start /\ s.num = span[d].num /\ s.used = span[d].used
  BY <1>2, <1>3, Zenon DEF SpanRec
<1>5. span' = [span EXCEPT ![d] = s]
  BY <1>1, <1>2, <1>3, Zenon DEF InitObjects
<1>6. span' \in [Descriptors -> SpanRec] /\ \A e \in Descriptors : span'[e] = IF e = d THEN s ELSE span[e]
  BY <1>2, <1>4, <1>5, Zenon
<1>7. SameShape /\ \A e \in Descriptors : span'[e].used = span[e].used
  BY <1>4, <1>6, Zenon DEF SameShape
<1>8. Frame(Away)
  BY <1>2, <1>6, <1>7, Zenon DEF Frame, SameShape
<1> QED BY <1>1, <1>6, <1>7, <1>8, FieldStep, Zenon DEF InitObjects

\* The end of a release: every leaf of the coalesced range is pointed at the
\* survivor before the absorbed descriptors are deleted.
LEMMA FinishStep ==
    ASSUME NEW Away, HeapInv(Away), ReleaseFinish
    PROVE  HeapInv(Away)' /\ Frame(Away)
<1>1. PICK c : c = cs.d
  BY Zenon
<1>2. PICK s : s = Freed(span[c])
  BY Zenon
<1>3. /\ cs.op = "right" /\ cs' = Free /\ UNCHANGED <<mapped, held, clock>>
      /\ page_map' = SetSpan(page_map, c, s) /\ live' = live \ cs.retired
      /\ span' = [d \in Descriptors |-> IF d = c THEN s
                                        ELSE IF d \in cs.retired THEN Blank ELSE span[d]]
      /\ span_lists' = PushFront(span_lists, s.num, c)
  BY <1>1, <1>2, Zenon DEF ReleaseFinish
<1>4. /\ TypeOK /\ c \in Owners /\ c \in Descriptors /\ c # NoSpan /\ span[c] \in SpanRec
      /\ cs.retired \subseteq live /\ Owners \subseteq Descriptors /\ span[c].num <= MaxPageNum
  BY <1>1, <1>3, OwnerPages, Zenon DEF HeapInv, SectionOK, TypeOK, Owners
<1>5. s \in SpanRec /\ s.start = span[c].start /\ s.num = span[c].num /\ s.used = FALSE
      /\ PagesOf(s) = PagesOf(span[c])
  BY <1>2, <1>4, Zenon DEF Freed, SpanRec, PagesOf, TypeOK
<1>6. s.num \in Buckets
  BY <1>4, <1>5, SpanFields DEF Buckets, HeapInv, SpansOK
<1>7. Owners' = Owners /\ Releasing = {c} /\ Releasing' = {} /\ cs'.retired = {} /\ live' = Owners
  BY <1>1, <1>3, Zenon DEF Owners, Releasing, Free
<1>8. \A d \in Owners : span'[d] = IF d = c THEN s ELSE span[d]
  BY <1>3, <1>4, Zenon DEF Owners
<1>9. span[c].used /\ c \notin held \cup Away /\ held \cup Away \subseteq Owners
  BY <1>4, <1>7, Zenon DEF HeapInv, UsedOK
<1>10. \A p \in PageIds : page_map'[p] = Own(p)
  <2>1. \A p \in PageIds : p \in PagesOf(s) <=> Own(p) = c
    BY <1>4, <1>5, Zenon DEF HeapInv, MapOK
  <2> QED BY <1>1, <1>3, <2>1, Zenon DEF SetSpan, Own
<1>11. AllHold(span_lists, Frees)'
  <2>1. c \notin Frees[s.num]
    BY <1>6, <1>9, Zenon DEF Frees
  <2>2. AllHold(span_lists', [Frees EXCEPT ![s.num] = @ \cup {c}])
    BY <1>3, <1>4, <1>6, <2>1, FreesFcn, PushLists, Zenon DEF HeapInv, ListsOK
  <2>3. \A k \in Buckets : Frees'[k] = IF k = s.num THEN Frees[k] \cup {c} ELSE Frees[k]
    BY <1>4, <1>5, <1>7, <1>8, <1>9 DEF Frees
  <2>4. Frees' = [Frees EXCEPT ![s.num] = @ \cup {c}]
    BY <1>6, <2>3, ZenonT(60) DEF Frees
  <2> QED BY <2>2, <2>4, Zenon DEF AllHold
<1>12. TypeOK'
  <2>1. Blank \in SpanRec
    BY DEF Blank, MakeSpan, SpanRec
  <2>2. span' \in [Descriptors -> SpanRec]
    BY <1>3, <1>4, <1>5, <2>1, Zenon DEF TypeOK
  <2>3. page_map' \in [PageIds -> Descriptors \cup {NoSpan}]
    BY <1>3, <1>4, Zenon DEF TypeOK, SetSpan
  <2>4. cs' \in CsType
    BY <1>3 DEF Free, CsType
  <2> QED BY <1>3, <1>4, <1>11, <2>2, <2>3, <2>4, Zenon DEF TypeOK, AllHold, CsType
<1>13. SectionOK' /\ SpansOK'
  BY <1>3, <1>5, <1>7, <1>8 DEF HeapInv, SectionOK, SpansOK, Free
<1>14. MapOK'
  <2>1. \A d \in Owners : PagesOf(span'[d]) = PagesOf(span[d])
    BY <1>5, <1>8, Zenon
  <2>2. \A p \in PageIds, d \in Owners : p \in PagesOf(span[d]) <=> d = Own(p)
    BY Zenon DEF HeapInv, MapOK
  <2>3. \A p \in PageIds : Own(p)' = Own(p)
    BY <1>7, <1>10, Zenon DEF Own
  <2>4. \A p \in PageIds : Own(p) # NoSpan => Own(p) \in Owners
    BY <1>1, <1>4, Zenon DEF Own, HeapInv, MapOK, Owners
  <2> QED BY <1>7, <1>10, <2>1, <2>2, <2>3, <2>4 DEF MapOK
<1>15. MappedOK'
  <2>1. \A p \in PageIds : Own(p) # NoSpan <=> page_map[p] # NoSpan
    BY <1>1, <1>4 DEF Own, TypeOK, NoSpan, Descriptors
  <2> QED BY <1>3, <1>10, <2>1, Zenon DEF HeapInv, MappedOK
<1>16. UsedOK(Away)'
  <2>1. {d \in Owners' : span'[d].used} = {d \in Owners : span[d].used} \ {c}
    BY <1>5, <1>7, <1>8, Zenon
  <2> QED BY <1>3, <1>7, <1>9, <2>1, Zenon DEF HeapInv, UsedOK
<1>17. \A d \in Owners' : span'[d].used \/ span'[d].num \in Buckets
  BY <1>6, <1>7, <1>8, Zenon DEF HeapInv, ListsOK
<1>18. Frame(Away)
  BY <1>8, <1>9, Zenon DEF Frame
<1> QED BY <1>11, <1>12, <1>13, <1>14, <1>15, <1>16, <1>17, <1>18, Zenon DEF HeapInv, ListsOK

-----------------------------------------------------------------------------
(* Mapping and unmapping *)

LEMMA OversizedReleaseStep ==
    ASSUME NEW Away, HeapInv(Away), NEW d \in held, ReleaseOversized(d)
    PROVE  HeapInv(Away)' /\ Frame(Away)
<1>1. /\ cs = Free /\ cs' = cs /\ page_map' = ClearRange(page_map, span[d])
      /\ mapped' = mapped \ PagesOf(span[d]) /\ live' = live \ {d}
      /\ span' = [span EXCEPT ![d] = Blank] /\ held' = held \ {d}
      /\ UNCHANGED <<span_lists, clock>>
  BY Zenon DEF ReleaseOversized
<1>2. cs.retired = {} /\ Releasing = {} /\ Releasing' = {}
  BY <1>1, Zenon DEF Free, Releasing
<1>3. /\ TypeOK /\ d \in Owners /\ d \in Descriptors /\ span[d].used /\ d \notin Away
      /\ held \cup Away \subseteq Owners /\ Owners \subseteq Descriptors
  BY Zenon DEF HeapInv, UsedOK, Owners, TypeOK
<1>4. Owners = live /\ Owners' = Owners \ {d}
  BY <1>1, <1>2, Zenon DEF Owners
<1>5. \A e \in Owners' : span'[e] = span[e]
  BY <1>1, <1>3, <1>4, Zenon DEF TypeOK
<1>6. Frees' = Frees
  BY <1>3, <1>4, <1>5, Zenon DEF Frees
<1>7. TypeOK'
  <2>1. Blank \in SpanRec
    BY DEF Blank, MakeSpan, SpanRec
  <2>2. span' \in [Descriptors -> SpanRec]
    BY <1>1, <1>3, <2>1, Zenon DEF TypeOK
  <2>3. page_map' \in [PageIds -> Descriptors \cup {NoSpan}]
    BY <1>1, <1>3, Zenon DEF TypeOK, ClearRange
  <2> QED BY <1>1, <1>3, <2>2, <2>3, Zenon DEF TypeOK
<1>8. SectionOK' /\ SpansOK'
  BY <1>1, <1>4, <1>5, Zenon DEF HeapInv, SectionOK, SpansOK, Free
<1>9. \A p \in PageIds : Own(p) = page_map[p] /\ Own(p)' = page_map'[p]
  BY <1>1, <1>2, Zenon DEF Own
<1>10. \A p \in PageIds : /\ p \in PagesOf(span[d]) <=> page_map[p] = d
                          /\ page_map'[p] = IF page_map[p] = d THEN NoSpan ELSE page_map[p]
  <2>1. \A p \in PageIds : p \in PagesOf(span[d]) <=> page_map[p] = d
    BY <1>3, <1>9 DEF HeapInv, MapOK
  <2> QED BY <1>1, <2>1, Zenon DEF ClearRange
<1>11. MapOK'
  <2>1. ASSUME NEW p \in PageIds, page_map'[p] # NoSpan
        PROVE  page_map'[p] \in live' /\ p \in PagesOf(span'[page_map'[p]])
    BY <1>4, <1>5, <1>10, <2>1, Zenon DEF HeapInv, MapOK, Owners
  <2>2. ASSUME NEW p \in PageIds, NEW e \in Owners' PROVE p \in PagesOf(span'[e]) <=> e = Own(p)'
    <3>1. p \in PagesOf(span[e]) <=> e = page_map[p]
      BY <1>4, <1>9, Zenon DEF HeapInv, MapOK
    <3>2. e # NoSpan /\ e # d
      BY <1>3, <1>4 DEF NoSpan, Descriptors
    <3> QED BY <1>5, <1>9, <1>10, <3>1, <3>2, Zenon
  <2> QED BY <2>1, <2>2, Zenon DEF MapOK
<1>12. MappedOK'
  BY <1>1, <1>10, Zenon DEF HeapInv, MappedOK
<1>13. UsedOK(Away)'
  <2>1. {e \in Owners' : span'[e].used} = {e \in Owners : span[e].used} \ {d}
    BY <1>4, <1>5, Zenon
  <2> QED BY <1>1, <1>2, <1>3, <2>1 DEF HeapInv, UsedOK
<1>14. ListsOK'
  BY <1>1, <1>4, <1>5, <1>6, Zenon DEF HeapInv, ListsOK
<1>15. Frame(Away)
  BY <1>1, <1>3, <1>4, <1>5, Zenon DEF Frame
<1> QED BY <1>7, <1>8, <1>11, <1>12, <1>13, <1>14, <1>15, Zenon DEF HeapInv

\* A client gets a span that no client had, of a size clients ask for.
Grants == \E d \in Descriptors \ held : held' = held \cup {d} /\ span'[d].num \in ReqSizes

-----------------------------------------------------------------------------
(* Mapping, taking and splitting *)

LEMMA MadeSpan ==
    ASSUME NEW start \in 0 .. NumPages, NEW n \in 0 .. NumPages
    PROVE  /\ MakeSpan(start, n) \in SpanRec /\ MakeSpan(start, n).start = start
           /\ MakeSpan(start, n).num = n /\ MakeSpan(start, n).used = FALSE
  BY DEF MakeSpan, SpanRec

\* A span over pages that were just mapped.
LEMMA NewSpan ==
    ASSUME NEW Away, HeapInv(Away), cs.retired = {}, cs' = cs, NEW d \in Fresh, NEW s \in SpanRec,
           s.num >= 1, s.start + s.num <= NumPages, PagesOf(s) \cap mapped = {},
           mapped' = mapped \cup PagesOf(s), span' = [span EXCEPT ![d] = s],
           live' = live \cup {d}, page_map' = SetSpan(page_map, d, s)
    PROVE  /\ d \in Descriptors \ live /\ Owners = live /\ Owners' = Owners \cup {d}
           /\ \A e \in Descriptors : span'[e] = IF e = d THEN s ELSE span[e]
           /\ span' \in [Descriptors -> SpanRec] /\ mapped' \subseteq PageIds
           /\ page_map' \in [PageIds -> Descriptors \cup {NoSpan}] /\ live' \subseteq Descriptors
           /\ SpansOK' /\ MapOK' /\ MappedOK'
<1>1. d \in Descriptors \ live /\ TypeOK /\ d # NoSpan
  BY DEF Fresh, HeapInv, NoSpan, Descriptors
<1>2. Owners = live /\ Owners' = Owners \cup {d} /\ Owners \subseteq Descriptors
  BY <1>1, Zenon DEF Owners, TypeOK
<1>3. \A e \in Descriptors : span'[e] = IF e = d THEN s ELSE span[e]
  BY <1>1, Zenon DEF TypeOK
<1>4. PagesOf(s) \subseteq PageIds
  BY DEF PagesOf, PageIds, SpanRec
<1>5. /\ span' \in [Descriptors -> SpanRec] /\ mapped' \subseteq PageIds /\ live' \subseteq Descriptors
      /\ page_map' \in [PageIds -> Descriptors \cup {NoSpan}]
  BY <1>1, <1>4, Zenon DEF TypeOK, SetSpan
<1>6. SpansOK'
  BY <1>1, <1>2, <1>3, Zenon DEF HeapInv, SpansOK
<1>7. \A p \in PageIds : /\ Own(p) = page_map[p] /\ Own(p)' = page_map'[p]
                         /\ page_map'[p] = IF p \in PagesOf(s) THEN d ELSE page_map[p]
                         /\ p \in PagesOf(s) => page_map[p] = NoSpan
  BY Zenon DEF Own, SetSpan, HeapInv, MappedOK
<1>8. MapOK'
  <2>1. ASSUME NEW p \in PageIds, page_map'[p] # NoSpan
        PROVE  page_map'[p] \in live' /\ p \in PagesOf(span'[page_map'[p]])
    <3>1. page_map[p] # NoSpan => page_map[p] \in live /\ p \in PagesOf(span[page_map[p]])
      BY Zenon DEF HeapInv, MapOK
    <3> QED BY <1>1, <1>2, <1>3, <1>7, <2>1, <3>1, Zenon
  <2>2. ASSUME NEW p \in PageIds, NEW e \in Owners' PROVE p \in PagesOf(span'[e]) <=> e = Own(p)'
    <3>1. CASE e = d
      <4>1. page_map[p] # d
        BY <1>1, Zenon DEF HeapInv, MapOK
      <4> QED BY <1>1, <1>3, <1>7, <3>1, <4>1, Zenon
    <3>2. CASE e # d
      <4>1. p \in PagesOf(span[e]) <=> e = page_map[p]
        BY <1>2, <1>7, <3>2 DEF HeapInv, MapOK
      <4>2. e # NoSpan /\ e \in Descriptors
        BY <1>2, <3>2 DEF NoSpan, Descriptors
      <4> QED BY <1>3, <1>7, <3>2, <4>1, <4>2, Zenon
    <3> QED BY <3>1, <3>2, Zenon
  <2> QED BY <2>1, <2>2, Zenon DEF MapOK
<1>9. MappedOK'
  BY <1>1, <1>7, Zenon DEF HeapInv, MappedOK
<1> QED BY <1>1, <1>2, <1>3, <1>5, <1>6, <1>8, <1>9, Zenon

LEMMA OversizedAllocStep ==
    ASSUME NEW Away, HeapInv(Away), NEW n \in ReqSizes, AllocOversized(n)
    PROVE  HeapInv(Away)' /\ Frame(Away) /\ Grants
<1>1. PICK start \in SystemRanges(n), d \in Fresh :
        LET s == [MakeSpan(start, n) EXCEPT !.used = TRUE, !.committed = TRUE]
        IN  /\ mapped' = mapped \cup PagesOf(s)
            /\ span' = [span EXCEPT ![d] = s]
            /\ live' = live \cup {d}
            /\ page_map' = SetSpan(page_map, d, s)
            /\ held' = held \cup {d}
  BY Zenon DEF AllocOversized
<1>2. PICK s : s = [MakeSpan(start, n) EXCEPT !.used = TRUE, !.committed = TRUE]
  BY Zenon
<1>3. /\ cs = Free /\ UNCHANGED <<span_lists, cs, clock>>
      /\ cs.retired = {} /\ Releasing = {} /\ Releasing' = {}
  BY Zenon DEF AllocOversized, Free, Releasing
<1>4. n \in 1 .. NumPages /\ start \in PageIds /\ start + n <= NumPages
      /\ (start .. start + n - 1) \cap mapped = {}
  BY Zenon DEF SystemRanges
<1>5. s \in SpanRec /\ s.start = start /\ s.num = n /\ s.used = TRUE
  <2>1. PICK m : m = MakeSpan(start, n)
    BY Zenon
  <2>2. m \in SpanRec /\ m.start = start /\ m.num = n
    <3>1. start \in 0 .. NumPages /\ n \in 0 .. NumPages
      BY <1>4 DEF PageIds
    <3> QED BY <2>1, <3>1, MadeSpan, Zenon
  <2>3. s = [m EXCEPT !.used = TRUE, !.committed = TRUE]
    BY <1>2, <2>1, Zenon
  <2> QED BY <2>2, <2>3, Zenon DEF SpanRec
<1>6. PagesOf(s) \cap mapped = {} /\ s.num >= 1 /\ s.start + s.num <= NumPages
  BY <1>4, <1>5 DEF PagesOf
<1>7. /\ mapped' = mapped \cup PagesOf(s) /\ span' = [span EXCEPT ![d] = s]
      /\ live' = live \cup {d} /\ page_map' = SetSpan(page_map, d, s) /\ held' = held \cup {d}
  BY <1>1, <1>2, Zenon
<1>8. /\ d \in Descriptors \ live /\ Owners = live /\ Owners' = Owners \cup {d}
      /\ \A e \in Descriptors : span'[e] = IF e = d THEN s ELSE span[e]
      /\ span' \in [Descriptors -> SpanRec] /\ mapped' \subseteq PageIds
      /\ page_map' \in [PageIds -> Descriptors \cup {NoSpan}] /\ live' \subseteq Descriptors
      /\ SpansOK' /\ MapOK' /\ MappedOK'
  BY <1>3, <1>5, <1>6, <1>7, NewSpan, Zenon
<1>9. Owners \subseteq Descriptors /\ held \cup Away \subseteq Owners /\ TypeOK
  BY <1>8, Zenon DEF HeapInv, TypeOK, UsedOK
<1>10. TypeOK' /\ SectionOK'
  BY <1>3, <1>7, <1>8, <1>9, Zenon DEF TypeOK, SectionOK, Free
<1>11. UsedOK(Away)'
  <2>1. {e \in Owners' : span'[e].used} = {e \in Owners : span[e].used} \cup {d}
    BY <1>5, <1>8, <1>9, Zenon
  <2> QED BY <1>3, <1>7, <1>8, <1>9, <2>1 DEF HeapInv, UsedOK
<1>12. ListsOK'
  <2>1. Frees' = Frees
    BY <1>5, <1>8, <1>9 DEF Frees
  <2> QED BY <1>3, <1>5, <1>8, <1>9, <2>1, Zenon DEF HeapInv, ListsOK
<1>13. Frame(Away)
  BY <1>7, <1>8, <1>9, Zenon DEF Frame
<1>14. Grants
  BY <1>5, <1>7, <1>8, <1>9, Zenon DEF Grants
<1> QED BY <1>8, <1>10, <1>11, <1>12, <1>13, <1>14, Zenon DEF HeapInv

LEMMA RefillStep ==
    ASSUME NEW Away, HeapInv(Away), AllocRefill
    PROVE  HeapInv(Away)' /\ Frame(Away)
<1>1. PICK start \in SystemRanges(MaxPageNum), d \in Fresh :
        LET s == [MakeSpan(start, MaxPageNum) EXCEPT !.committed = TRUE, !.last = clock]
        IN  /\ mapped' = mapped \cup PagesOf(s)
            /\ span' = [span EXCEPT ![d] = s]
            /\ live' = live \cup {d}
            /\ span_lists' = PushFront(span_lists, MaxPageNum, d)
            /\ page_map' = SetSpan(page_map, d, s)
  BY Zenon DEF AllocRefill
<1>2. PICK s : s = [MakeSpan(start, MaxPageNum) EXCEPT !.committed = TRUE, !.last = clock]
  BY Zenon
<1>3. /\ cs.op = "alloc" /\ UNCHANGED <<held, cs, clock>>
      /\ cs.retired = {} /\ Releasing = {} /\ Releasing' = {}
  BY Zenon DEF AllocRefill, NothingFits, Releasing, HeapInv, SectionOK
<1>4. MaxPageNum \in 1 .. NumPages /\ start \in PageIds /\ start + MaxPageNum <= NumPages
      /\ (start .. start + MaxPageNum - 1) \cap mapped = {} /\ MaxPageNum \in Buckets
  BY DEF SystemRanges, Buckets
<1>5. s \in SpanRec /\ s.start = start /\ s.num = MaxPageNum /\ s.used = FALSE
  <2>1. PICK m : m = MakeSpan(start, MaxPageNum)
    BY Zenon
  <2>2. m \in SpanRec /\ m.start = start /\ m.num = MaxPageNum /\ m.used = FALSE
    <3>1. start \in 0 .. NumPages /\ MaxPageNum \in 0 .. NumPages
      BY <1>4 DEF PageIds
    <3> QED BY <2>1, <3>1, MadeSpan, Zenon
  <2>3. s = [m EXCEPT !.committed = TRUE, !.last = clock] /\ clock \in 0 .. MaxTime
    BY <1>2, <2>1, Zenon DEF HeapInv, TypeOK
  <2> QED BY <2>2, <2>3, Zenon DEF SpanRec
<1>6. PagesOf(s) \cap mapped = {} /\ s.num >= 1 /\ s.start + s.num <= NumPages
  BY <1>4, <1>5 DEF PagesOf
<1>7. /\ mapped' = mapped \cup PagesOf(s) /\ span' = [span EXCEPT ![d] = s]
      /\ live' = live \cup {d} /\ page_map' = SetSpan(page_map, d, s)
      /\ span_lists' = PushFront(span_lists, MaxPageNum, d)
  BY <1>1, <1>2, Zenon
<1>8. /\ d \in Descriptors \ live /\ Owners = live /\ Owners' = Owners \cup {d}
      /\ \A e \in Descriptors : span'[e] = IF e = d THEN s ELSE span[e]
      /\ span' \in [Descriptors -> SpanRec] /\ mapped' \subseteq PageIds
      /\ page_map' \in [PageIds -> Descriptors \cup {NoSpan}] /\ live' \subseteq Descriptors
      /\ SpansOK' /\ MapOK' /\ MappedOK'
  BY <1>3, <1>5, <1>6, <1>7, NewSpan, Zenon
<1>9. Owners \subseteq Descriptors /\ held \cup Away \subseteq Owners /\ TypeOK
  BY <1>8, Zenon DEF HeapInv, TypeOK, UsedOK
<1>10. AllHold(span_lists, Frees)'
  <2>1. d \notin Frees[MaxPageNum]
    BY <1>4, <1>8, Zenon DEF Frees
  <2>2. AllHold(span_lists', [Frees EXCEPT ![MaxPageNum] = @ \cup {d}])
    BY <1>4, <1>7, <1>8, <2>1, FreesFcn, PushLists, Zenon DEF HeapInv, ListsOK
  <2>3. \A k \in Buckets : Frees'[k] = IF k = MaxPageNum THEN Frees[k] \cup {d} ELSE Frees[k]
    BY <1>5, <1>8, <1>9 DEF Frees
  <2>4. Frees' = [Frees EXCEPT ![MaxPageNum] = @ \cup {d}]
    BY <1>4, <2>3, Zenon DEF Frees
  <2> QED BY <2>2, <2>4, Zenon DEF AllHold
<1>11. TypeOK' /\ SectionOK'
  BY <1>3, <1>8, <1>9, <1>10, Zenon DEF HeapInv, TypeOK, SectionOK, AllHold
<1>12. UsedOK(Away)'
  <2>1. {e \in Owners' : span'[e].used} = {e \in Owners : span[e].used}
    BY <1>5, <1>8, <1>9, Zenon
  <2> QED BY <1>3, <1>8, <1>9, <2>1, Zenon DEF HeapInv, UsedOK
<1>13. \A e \in Owners' : span'[e].used \/ span'[e].num \in Buckets
  BY <1>4, <1>5, <1>8, <1>9, Zenon DEF HeapInv, ListsOK
<1>14. Frame(Away)
  BY <1>3, <1>8, <1>9, Zenon DEF Frame
<1> QED BY <1>8, <1>10, <1>11, <1>12, <1>13, <1>14, Zenon DEF HeapInv, ListsOK

-----------------------------------------------------------------------------
(* Taking a span from a bucket *)

LEMMA ExactStep ==
    ASSUME NEW Away, HeapInv(Away), AllocExact
    PROVE  HeapInv(Away)' /\ Frame(Away) /\ Grants
<1>1. PICK d : d = Head(span_lists[cs.n])
  BY Zenon
<1>2. PICK s : s = [span[d] EXCEPT !.used = TRUE, !.committed = TRUE]
  BY Zenon
<1>3. /\ cs.op = "alloc" /\ span_lists[cs.n] # <<>> /\ cs.n \in Buckets /\ cs' = Free
      /\ span_lists' = PopFront(span_lists, cs.n) /\ held' = held \cup {d}
      /\ span' = [span EXCEPT ![d].used = TRUE, ![d].committed = TRUE]
      /\ UNCHANGED <<live, page_map, mapped, clock>>
  BY <1>1, Zenon DEF AllocExact, HeapInv, SectionOK
<1>4. cs.retired = {} /\ cs'.retired = {} /\ Releasing = {} /\ Releasing' = {} /\ cs' \in CsType
      /\ cs'.op = "free"
  BY <1>3 DEF HeapInv, SectionOK, Free, Releasing, CsType
<1>5. /\ d \in Frees[cs.n] /\ d \in Descriptors
      /\ AllHold(span_lists', [Frees EXCEPT ![cs.n] = @ \ {d}])
  BY <1>1, <1>3, FreesFcn, PopLists, Zenon DEF HeapInv, ListsOK
<1>6. d \in Owners /\ ~span[d].used /\ span[d].num = cs.n /\ TypeOK
  BY <1>3, <1>5, Zenon DEF Frees, HeapInv
<1>7. s \in SpanRec /\ s.start = span[d].start /\ s.num = span[d].num /\ s.used = TRUE
  <2>1. PICK r \in SpanRec : r = span[d]
    BY <1>5, <1>6, Zenon DEF TypeOK
  <2>2. s = [r EXCEPT !.used = TRUE, !.committed = TRUE]
    BY <1>2, <2>1, Zenon
  <2>3. s \in SpanRec /\ s.start = r.start /\ s.num = r.num /\ s.used = TRUE
    BY <2>2, Zenon DEF SpanRec
  <2> QED BY <2>1, <2>3, Zenon
<1>8. span' = [span EXCEPT ![d] = s]
  BY <1>2, <1>3, <1>5, <1>6, Zenon DEF TypeOK
<1>9. /\ span' \in [Descriptors -> SpanRec]
      /\ \A e \in Descriptors : span'[e] = IF e = d THEN s ELSE span[e]
  BY <1>5, <1>6, <1>7, <1>8, Zenon DEF TypeOK
<1>10. SameShape
  BY <1>7, <1>9, Zenon DEF SameShape
<1>11. Owners' = Owners /\ Owners \subseteq Descriptors /\ SpansOK' /\ MapOK' /\ MappedOK'
  BY <1>3, <1>4, <1>10, ShapeStep, Zenon
<1>12. held \cup Away \subseteq Owners /\ d \notin held \cup Away
  BY <1>6, Zenon DEF HeapInv, UsedOK
<1>13. AllHold(span_lists, Frees)'
  <2>1. \A k \in Buckets : Frees'[k] = IF k = cs.n THEN Frees[k] \ {d} ELSE Frees[k]
    BY <1>6, <1>7, <1>9, <1>11 DEF Frees
  <2>2. Frees' = [Frees EXCEPT ![cs.n] = @ \ {d}]
    <3>1. PICK n \in Buckets : n = cs.n
      BY <1>3, Zenon
    <3>2. Frees' = [k \in Buckets |-> Frees'[k]] /\ Frees = [k \in Buckets |-> Frees[k]]
      BY Zenon DEF Frees
    <3>3. \A k \in Buckets : Frees'[k] = IF k = n THEN Frees[k] \ {d} ELSE Frees[k]
      BY <2>1, <3>1, Zenon
    <3>4. Frees' = [Frees EXCEPT ![n] = @ \ {d}]
      BY <3>2, <3>3, Zenon
    <3> QED BY <3>1, <3>4, Zenon
  <2> QED BY <1>5, <2>2, Zenon DEF AllHold
<1>14. TypeOK' /\ SectionOK'
  BY <1>3, <1>4, <1>5, <1>6, <1>9, <1>13, Zenon DEF TypeOK, SectionOK, AllHold, CsType
<1>15. UsedOK(Away)'
  <2>1. {e \in Owners' : span'[e].used} = {e \in Owners : span[e].used} \cup {d}
    BY <1>6, <1>7, <1>9, <1>11, Zenon
  <2>2. {e \in Owners : span[e].used} = held \cup Away /\ held \cap Away = {}
    BY <1>4, Zenon DEF HeapInv, UsedOK
  <2> QED BY <1>3, <1>4, <1>12, <2>1, <2>2, Zenon DEF UsedOK
<1>16. \A e \in Owners' : span'[e].used \/ span'[e].num \in Buckets
  BY <1>7, <1>9, <1>11, Zenon DEF HeapInv, ListsOK
<1>17. Frame(Away)
  BY <1>9, <1>11, <1>12, Zenon DEF Frame
<1>18. Grants
  BY <1>3, <1>4, <1>5, <1>6, <1>7, <1>9, <1>12, Zenon DEF Grants, HeapInv, SectionOK
<1> QED BY <1>11, <1>13, <1>14, <1>15, <1>16, <1>17, <1>18, Zenon DEF HeapInv, ListsOK

\* A request of n pages is carved from the front of big, the first span of
\* bucket i: it becomes the new span d, and the rest of big goes back.
Carves(i, n, d, big, small, rest) ==
    /\ d \in Descriptors \ live /\ big \in Owners /\ i \in Buckets /\ n \in Buckets
    /\ span[big].num = i /\ i - n \in Buckets
    /\ small \in SpanRec /\ rest \in SpanRec
    /\ small.start = span[big].start /\ small.num = n /\ small.used
    /\ rest.start = span[big].start + n /\ rest.num = i - n /\ ~rest.used
    /\ span' = [span EXCEPT ![d] = small, ![big] = rest]
    /\ live' = live \cup {d} /\ held' = held \cup {d}
    /\ span_lists' = PushFront(PopFront(span_lists, i), i - n, big)
    /\ page_map' = SetSpan(SetSpan(page_map, d, small), big, rest)
    /\ cs.op = "alloc" /\ cs.n = n /\ cs' = Free /\ UNCHANGED <<mapped, clock>>

\* AllocSplit carves the first span of the bucket it finds.
LEMMA SplitCarves ==
    ASSUME NEW Away, HeapInv(Away), AllocSplit
    PROVE  \E i, n, d, big, small, rest :
             /\ Carves(i, n, d, big, small, rest)
             /\ big \in Frees[i]
             /\ AllHold(PopFront(span_lists, i), [Frees EXCEPT ![i] = @ \ {big}])
<1>1. PICK i \in Buckets, d \in Fresh :
        /\ SplitFrom(i)
        /\ LET big   == Head(span_lists[i])
               small == [MakeSpan(span[big].start, cs.n)
                           EXCEPT !.used = TRUE, !.committed = TRUE]
               rest  == Remainder(span[big], cs.n)
           IN  /\ span' = [span EXCEPT ![d] = small, ![big] = rest]
               /\ live' = live \cup {d}
               /\ span_lists' = PushFront(PopFront(span_lists, i), rest.num, big)
               /\ page_map' = SetSpan(SetSpan(page_map, d, small), big, rest)
               /\ held' = held \cup {d}
        /\ cs' = Free
        /\ UNCHANGED <<mapped, clock>>
  BY Zenon DEF AllocSplit
<1>2. PICK big, n : big = Head(span_lists[i]) /\ n = cs.n
  BY Zenon
<1>3. PICK b, m : b = span[big].start /\ m = MakeSpan(b, n)
  BY Zenon
<1>4. PICK small, rest : /\ small = [m EXCEPT !.used = TRUE, !.committed = TRUE]
                         /\ rest = Remainder(span[big], n)
  BY Zenon
<1>5. /\ cs.op = "alloc" /\ span_lists[i] # <<>> /\ i \in n + 1 .. MaxPageNum /\ cs' = Free
      /\ span' = [span EXCEPT ![d] = small, ![big] = rest] /\ live' = live \cup {d}
      /\ span_lists' = PushFront(PopFront(span_lists, i), rest.num, big)
      /\ page_map' = SetSpan(SetSpan(page_map, d, small), big, rest)
      /\ held' = held \cup {d} /\ UNCHANGED <<mapped, clock>>
  BY <1>1, <1>2, <1>3, <1>4, Zenon DEF SplitFrom
<1>6. n \in Buckets /\ d \in Descriptors \ live /\ TypeOK
  BY <1>2, <1>5, Zenon DEF HeapInv, SectionOK, Fresh
<1>7. /\ big \in Frees[i] /\ big \in Descriptors
      /\ AllHold(PopFront(span_lists, i), [Frees EXCEPT ![i] = @ \ {big}])
  BY <1>2, <1>5, FreesFcn, PopLists, Zenon DEF HeapInv, ListsOK
<1>8. /\ big \in Owners /\ span[big].num = i
      /\ span[big] \in SpanRec /\ span[big].start + i <= NumPages
  BY <1>6, <1>7, Zenon DEF Frees, Owners, TypeOK, HeapInv, SpansOK
<1>9. /\ i - n \in Buckets /\ n \in 0 .. NumPages /\ b \in 0 .. NumPages
      /\ b + n \in 0 .. NumPages /\ i - n \in 0 .. NumPages
  BY <1>3, <1>5, <1>6, <1>8 DEF Buckets, SpanRec
<1>10. small \in SpanRec /\ small.start = b /\ small.num = n /\ small.used
  <2>1. m \in SpanRec /\ m.start = b /\ m.num = n
    <3>1. b \in 0 .. NumPages /\ n \in 0 .. NumPages
      BY <1>9, Zenon
    <3>2. MakeSpan(b, n) \in SpanRec /\ MakeSpan(b, n).start = b /\ MakeSpan(b, n).num = n
      BY <3>1, MadeSpan, Zenon
    <3> QED BY <1>3, <3>2, Zenon
  <2> QED BY <1>4, <2>1, Zenon DEF SpanRec
<1>11. rest \in SpanRec /\ rest.start = b + n /\ rest.num = i - n /\ ~rest.used
  <2>1. clock \in 0 .. MaxTime
    BY <1>6, Zenon DEF TypeOK
  <2>2. rest = [span[big] EXCEPT !.start = b + n, !.num = i - n, !.used = FALSE, !.committed = TRUE,
                                 !.last = clock]
    BY <1>3, <1>4, <1>8, Zenon DEF Remainder, SpanRec
  <2> QED BY <1>8, <1>9, <2>1, <2>2, Zenon DEF SpanRec
<1>12. Carves(i, n, d, big, small, rest)
  BY <1>2, <1>3, <1>5, <1>6, <1>8, <1>9, <1>10, <1>11, Zenon DEF Carves
<1> QED BY <1>7, <1>12, Zenon

\* What carving does to spans and owners.
LEMMA CarveSpans ==
    ASSUME NEW Away, HeapInv(Away), NEW i, NEW n, NEW d, NEW big, NEW small, NEW rest,
           Carves(i, n, d, big, small, rest), big \in Frees[i]
    PROVE  /\ cs.retired = {} /\ cs'.retired = {} /\ Releasing = {} /\ Releasing' = {}
           /\ Owners = live /\ Owners' = Owners \cup {d} /\ Owners \subseteq Descriptors
           /\ held \cup Away \subseteq Owners /\ big \notin held \cup Away /\ big # d
           /\ span' \in [Descriptors -> SpanRec]
           /\ \A e \in Owners' : span'[e] = IF e = big THEN rest ELSE IF e = d THEN small ELSE span[e]
<1>1. cs.retired = {} /\ cs'.retired = {} /\ Releasing = {} /\ Releasing' = {} /\ TypeOK
  BY Zenon DEF Carves, HeapInv, SectionOK, Free, Releasing
<1>2. Owners = live /\ Owners' = Owners \cup {d} /\ Owners \subseteq Descriptors
      /\ d \in Descriptors \ live /\ big \in Owners /\ big # d
  BY <1>1, Zenon DEF Owners, TypeOK, Carves
<1>3. held \cup Away \subseteq Owners /\ big \notin held \cup Away
  BY <1>1, <1>2, Zenon DEF HeapInv, UsedOK, Frees, Carves
<1>4. span \in [Descriptors -> SpanRec] /\ small \in SpanRec /\ rest \in SpanRec
      /\ span' = [span EXCEPT ![d] = small, ![big] = rest]
  BY <1>1, Zenon DEF Carves, TypeOK
<1>5. /\ span' \in [Descriptors -> SpanRec]
      /\ \A e \in Owners' : span'[e] = IF e = big THEN rest ELSE IF e = d THEN small ELSE span[e]
  BY <1>2, <1>4, Zenon
<1> QED BY <1>1, <1>2, <1>3, <1>5, Zenon

\* Carving moves big to the bucket of what is left of it.
LEMMA CarveLists ==
    ASSUME NEW Away, HeapInv(Away), NEW i, NEW n, NEW d, NEW big, NEW small, NEW rest,
           Carves(i, n, d, big, small, rest), big \in Frees[i],
           AllHold(PopFront(span_lists, i), [Frees EXCEPT ![i] = @ \ {big}])
    PROVE  AllHold(span_lists, Frees)'
<1>1. PICK F, k : F = [Frees EXCEPT ![i] = @ \ {big}] /\ k = i - n
  BY Zenon
<1>2. /\ i \in Buckets /\ k \in Buckets /\ big \in Owners /\ span[big].num = i /\ small.used
      /\ rest.num = k /\ ~rest.used /\ span_lists' = PushFront(PopFront(span_lists, i), k, big)
      /\ d \in Descriptors \ live
  BY <1>1, ZenonT(60) DEF Carves
<1>3. /\ Owners = live /\ Owners' = Owners \cup {d} /\ Owners \subseteq Descriptors
      /\ \A e \in Owners' : span'[e] = IF e = big THEN rest ELSE IF e = d THEN small ELSE span[e]
  BY CarveSpans
<1>4. F = [j \in Buckets |-> F[j]] /\ \A j \in Buckets : F[j] = Frees[j] \ {big}
  BY <1>1, <1>2, Zenon DEF Frees
<1>5. AllHold(PushFront(PopFront(span_lists, i), k, big), [F EXCEPT ![k] = @ \cup {big}])
  <2>1. AllHold(PopFront(span_lists, i), F) /\ big \notin F[k] /\ big \in Descriptors
    BY <1>1, <1>2, <1>3, <1>4, Zenon
  <2> QED BY <1>2, <1>4, <2>1, PushLists, Zenon
<1>6. \A j \in Buckets : Frees'[j] = IF j = k THEN F[j] \cup {big} ELSE F[j]
  <2>1. \A e \in Owners' : IF e = big THEN ~span'[e].used /\ span'[e].num = k
                           ELSE IF e = d THEN span'[e].used ELSE span'[e] = span[e]
    BY <1>2, <1>3, Zenon
  <2> QED BY <1>2, <1>3, <1>4, <2>1 DEF Frees
<1>7. Frees' = [F EXCEPT ![k] = @ \cup {big}]
  <2>1. k \in Buckets
    BY <1>2, Zenon
  <2> QED BY <1>4, <1>6, <2>1, Zenon DEF Frees
<1> QED BY <1>2, <1>5, <1>7, Zenon DEF AllHold

\* The pages of big are shared out among d and big; no other leaf changes.
LEMMA CarveMap ==
    ASSUME NEW Away, HeapInv(Away), NEW i, NEW n, NEW d, NEW big, NEW small, NEW rest,
           Carves(i, n, d, big, small, rest), big \in Frees[i]
    PROVE  MapOK' /\ MappedOK' /\ SpansOK'
<1>1. /\ cs.retired = {} /\ cs'.retired = {} /\ Owners = live /\ Owners' = Owners \cup {d}
      /\ \A e \in Owners' : span'[e] = IF e = big THEN rest ELSE IF e = d THEN small ELSE span[e]
      /\ big # d /\ Owners \subseteq Descriptors
  BY CarveSpans
<1>2. big \in Owners /\ d \notin live /\ big # NoSpan /\ d # NoSpan
  BY <1>1 DEF Carves, NoSpan, Descriptors
<1>3. PICK b : b = span[big].start
  BY Zenon
<1>4. /\ n \in 1 .. MaxPageNum /\ i - n \in 1 .. MaxPageNum /\ i \in 1 .. MaxPageNum
      /\ b \in 0 .. NumPages /\ b + i <= NumPages
      /\ PagesOf(span[big]) = b .. b + i - 1 /\ PagesOf(small) = b .. b + n - 1
      /\ PagesOf(rest) = b + n .. b + n + (i - n) - 1
      /\ small.num = n /\ small.start = b /\ rest.num = i - n /\ rest.start = b + n
  <2>1. span[big] \in SpanRec /\ span[big].start + i <= NumPages
    BY <1>1, <1>2, Zenon DEF HeapInv, TypeOK, SpansOK, Carves
  <2> QED BY <1>3, <2>1, Zenon DEF Carves, Buckets, PagesOf, SpanRec
<1>5. \A p : /\ p \in PagesOf(span[big]) <=> p \in PagesOf(small) \/ p \in PagesOf(rest)
             /\ ~(p \in PagesOf(small) /\ p \in PagesOf(rest))
  <2>1. b \in Int /\ n \in Int /\ i \in Int /\ 0 < n /\ n < i
    BY <1>4
  <2>2. b + n + (i - n) - 1 = b + i - 1
    BY <2>1
  <2>3. PagesOf(span[big]) = b .. b + i - 1 /\ PagesOf(small) = b .. b + n - 1
        /\ PagesOf(rest) = b + n .. b + i - 1
    BY <1>4, <2>2, Zenon
  <2> QED BY <2>1, <2>3
<1>6. SpansOK'
  <2>1. /\ small.num >= 1 /\ small.start + small.num <= NumPages
        /\ rest.num >= 1 /\ rest.start + rest.num <= NumPages
    BY <1>4
  <2>2. SpansOK
    BY Zenon DEF HeapInv
  <2> QED BY <1>1, <2>1, <2>2, Zenon DEF SpansOK
<1>7. \A p \in PageIds :
        /\ Own(p) = page_map[p] /\ Own(p)' = page_map'[p]
        /\ page_map'[p] = IF p \in PagesOf(rest) THEN big
                          ELSE IF p \in PagesOf(small) THEN d ELSE page_map[p]
  BY <1>1, Zenon DEF Own, Carves, SetSpan
<1>8. \A p \in PageIds, e \in Owners : p \in PagesOf(span[e]) <=> e = page_map[p]
  BY <1>7 DEF HeapInv, MapOK
<1>9. \A p \in PageIds :
        page_map[p] # NoSpan => page_map[p] \in Owners /\ p \in PagesOf(span[page_map[p]])
  BY <1>1, Zenon DEF HeapInv, MapOK
<1>10. ASSUME NEW p \in PageIds, page_map'[p] # NoSpan
       PROVE  page_map'[p] \in Owners' /\ p \in PagesOf(span'[page_map'[p]])
  <2>1. CASE p \in PagesOf(span[big])
    BY <1>1, <1>2, <1>5, <1>7, <2>1, ZenonT(60)
  <2>2. CASE p \notin PagesOf(span[big])
    BY <1>1, <1>2, <1>5, <1>7, <1>9, <1>10, <2>2
  <2> QED BY <2>1, <2>2, Zenon
<1>11. ASSUME NEW p \in PageIds, NEW e \in Owners' PROVE p \in PagesOf(span'[e]) <=> e = page_map'[p]
  <2>1. p \in PagesOf(span[big]) <=> page_map[p] = big
    BY <1>2, <1>8, Zenon
  <2>2. page_map[p] # d
    BY <1>1, <1>2, <1>9, Zenon
  <2>3. CASE e \in {d, big}
    BY <1>1, <1>5, <1>7, <2>1, <2>2, <2>3, Zenon
  <2>4. CASE e \notin {d, big}
    <3>1. e \in Owners /\ span'[e] = span[e] /\ (p \in PagesOf(span[e]) <=> e = page_map[p])
      BY <1>1, <1>8, <2>4, Zenon
    <3> QED BY <1>5, <1>7, <2>1, <2>4, <3>1, Zenon
  <2> QED BY <2>3, <2>4, Zenon
<1>12. MapOK'
  <2>1. Owners' = live'
    BY <1>1, Zenon DEF Owners
  <2> QED BY <1>7, <1>10, <1>11, <2>1 DEF MapOK
<1>13. MappedOK'
  <2>1. mapped' = mapped /\ MappedOK
    BY Zenon DEF Carves, HeapInv
  <2> QED BY <1>2, <1>5, <1>7, <1>8, <2>1, Zenon DEF MappedOK
<1> QED BY <1>6, <1>12, <1>13, ZenonT(60)

\* Carving a span up for a request keeps the heap's invariant.
LEMMA SplitStep ==
    ASSUME NEW Away, HeapInv(Away), AllocSplit
    PROVE  HeapInv(Away)' /\ Frame(Away) /\ Grants
<1>1. PICK i, n, d, big, small, rest :
        /\ Carves(i, n, d, big, small, rest)
        /\ big \in Frees[i]
        /\ AllHold(PopFront(span_lists, i), [Frees EXCEPT ![i] = @ \ {big}])
  BY SplitCarves, Zenon
<1>2. MapOK' /\ MappedOK' /\ SpansOK' /\ AllHold(span_lists, Frees)'
  BY <1>1, CarveMap, CarveLists, ZenonT(60)
<1>3. /\ cs.retired = {} /\ cs'.retired = {} /\ Releasing = {} /\ Releasing' = {}
      /\ Owners = live /\ Owners' = Owners \cup {d} /\ Owners \subseteq Descriptors
      /\ held \cup Away \subseteq Owners /\ big \notin held \cup Away /\ big # d
      /\ span' \in [Descriptors -> SpanRec]
      /\ \A e \in Owners' : span'[e] = IF e = big THEN rest ELSE IF e = d THEN small ELSE span[e]
  BY <1>1, CarveSpans
<1>4. /\ d \in Descriptors \ live /\ big \in Owners /\ ~span[big].used /\ small.used /\ ~rest.used
      /\ small.num = n /\ rest.num \in Buckets
      /\ live' = live \cup {d} /\ held' = held \cup {d}
      /\ page_map' = SetSpan(SetSpan(page_map, d, small), big, rest)
      /\ cs.op = "alloc" /\ cs.n = n /\ cs' = Free /\ UNCHANGED <<mapped, clock>>
  BY <1>1, Zenon DEF Carves, Frees
<1>5. TypeOK' /\ SectionOK'
  <2>1. page_map' \in [PageIds -> Descriptors \cup {NoSpan}]
    BY <1>3, <1>4, Zenon DEF HeapInv, TypeOK, SetSpan
  <2>2. cs' \in CsType /\ cs'.op = "free"
    BY <1>4 DEF CsType, Free
  <2> QED BY <1>2, <1>3, <1>4, <2>1, <2>2, Zenon DEF HeapInv, TypeOK, SectionOK, AllHold, CsType
<1>6. UsedOK(Away)'
  <2>1. {e \in Owners' : span'[e].used} = {e \in Owners : span[e].used} \cup {d}
    BY <1>3, <1>4, Zenon
  <2>2. {e \in Owners : span[e].used} = held \cup Away /\ held \cap Away = {}
    BY <1>3, Zenon DEF HeapInv, UsedOK
  <2>3. d \notin held \cup Away /\ held' = held \cup {d} /\ Releasing' = {}
    BY <1>3, <1>4, Zenon
  <2> QED BY <2>1, <2>2, <2>3, Zenon DEF UsedOK
<1>7. \A e \in Owners' : span'[e].used \/ span'[e].num \in Buckets
  BY <1>3, <1>4, Zenon DEF HeapInv, ListsOK
<1>8. Frame(Away)
  BY <1>3, <1>4, Zenon DEF Frame
<1>9. Grants
  BY <1>3, <1>4, Zenon DEF Grants, HeapInv, SectionOK
<1> QED BY <1>2, <1>5, <1>6, <1>7, <1>8, <1>9, Zenon DEF HeapInv, ListsOK

-----------------------------------------------------------------------------
(* The heap as a whole *)

\* Reset, when no span is held or away: every span is in a bucket, so nothing
\* stays behind.
LEMMA ResetStep ==
    ASSUME HeapInv({}), Reset
    PROVE  HeapInv({})' /\ held' = {} /\ live' = {}
<1>1. PICK listed : listed = UNION {Range(span_lists[k]) : k \in Buckets}
  BY Zenon
<1>2. /\ cs = Free /\ held = {} /\ UNCHANGED <<held, cs, clock>>
      /\ mapped' = mapped \ UNION {PagesOf(span[d]) : d \in listed}
      /\ live' = live \ listed
      /\ span' = [d \in Descriptors |-> IF d \in listed THEN Blank ELSE span[d]]
      /\ span_lists' = [k \in Buckets |-> <<>>] /\ page_map' = [p \in PageIds |-> NoSpan]
  BY <1>1, Zenon DEF Reset
<1>3. cs.retired = {} /\ Releasing = {} /\ Releasing' = {} /\ Owners = live /\ TypeOK
  BY <1>2, Zenon DEF Free, Releasing, Owners, HeapInv
<1>4. \A d \in Owners : ~span[d].used /\ span[d].num \in Buckets
  BY <1>2, <1>3, Zenon DEF HeapInv, UsedOK, ListsOK
<1>5. live \subseteq listed
  <2> SUFFICES ASSUME NEW d \in Owners PROVE d \in listed
    BY <1>3, Zenon
  <2>1. PICK k \in Buckets : k = span[d].num
    BY <1>4, Zenon
  <2>2. d \in Frees[k]
    BY <1>4, <2>1, Zenon DEF Frees
  <2>3. Range(span_lists[k]) = Frees[k]
    BY Zenon DEF HeapInv, ListsOK, AllHold, Holds
  <2> QED BY <1>1, <2>2, <2>3, Zenon
<1>6. live' = {} /\ Owners' = {}
  BY <1>2, <1>5, Zenon DEF Owners
<1>7. mapped' = {}
  <2>1. ASSUME NEW p \in mapped PROVE \E d \in listed : p \in PagesOf(span[d])
    <3>1. p \in PageIds
      BY <1>3, Zenon DEF TypeOK
    <3>2. page_map[p] \in live /\ p \in PagesOf(span[page_map[p]])
      BY <3>1, Zenon DEF HeapInv, MappedOK, MapOK
    <3> QED BY <1>5, <3>2, Zenon
  <2> QED BY <1>2, <2>1, Zenon
<1>8. TypeOK'
  <2>1. Blank \in SpanRec
    BY DEF Blank, MakeSpan, SpanRec
  <2>2. span' \in [Descriptors -> SpanRec]
    BY <1>2, <1>3, <2>1, Zenon DEF TypeOK
  <2>3. span_lists' \in [Buckets -> Seq(Descriptors)] /\ page_map' \in [PageIds -> Descriptors \cup {NoSpan}]
    BY <1>2
  <2> QED BY <1>2, <1>3, <1>6, <1>7, <2>2, <2>3, Zenon DEF TypeOK
<1>9. SectionOK' /\ SpansOK' /\ MappedOK' /\ UsedOK({})'
  BY <1>2, <1>3, <1>6, <1>7, Zenon DEF SectionOK, SpansOK, MappedOK, UsedOK, Free
<1>10. MapOK'
  BY <1>2, <1>6, Zenon DEF MapOK
<1>11. ListsOK'
  <2>1. \A k \in Buckets : Frees'[k] = {} /\ span_lists'[k] = <<>>
    BY <1>2, <1>6, Zenon DEF Frees
  <2> QED BY <1>6, <1>8, <2>1, EmptyHolds, Zenon DEF ListsOK, AllHold, TypeOK
<1> QED BY <1>2, <1>6, <1>8, <1>9, <1>10, <1>11, Zenon DEF HeapInv

LEMMA InitHeap ==
    ASSUME Init
    PROVE  HeapInv({})
<1>1. cs = Free /\ cs.retired = {} /\ cs.op = "free" /\ Releasing = {} /\ Owners = {} /\ cs \in CsType
  BY DEF Init, Free, Releasing, Owners, CsType
<1>2. TypeOK
  <2>1. Blank \in SpanRec
    BY DEF Blank, MakeSpan, SpanRec
  <2>2. span \in [Descriptors -> SpanRec]
    BY <2>1, Zenon DEF Init
  <2>3. span_lists \in [Buckets -> Seq(Descriptors)] /\ page_map \in [PageIds -> Descriptors \cup {NoSpan}]
    BY DEF Init
  <2> QED BY <1>1, <2>2, <2>3 DEF Init, TypeOK, CsType
<1>3. SectionOK /\ SpansOK /\ MapOK /\ MappedOK /\ UsedOK({})
  BY <1>1, Zenon DEF Init, SectionOK, SpansOK, MapOK, MappedOK, UsedOK
<1>4. ListsOK
  <2>1. \A k \in Buckets : Frees[k] = {} /\ span_lists[k] = <<>>
    BY <1>1, Zenon DEF Frees, Init
  <2> QED BY <1>1, <1>2, <2>1, EmptyHolds, Zenon DEF ListsOK, AllHold, TypeOK
<1> QED BY <1>2, <1>3, <1>4, Zenon DEF HeapInv

\* Every step of AllocSpan, ReleaseSpan and the owners of spans keeps the
\* invariant, whatever is away, and touches nothing that is held or away.
LEMMA HeapSteps ==
    ASSUME NEW Away, HeapInv(Away), Alloc \/ Release \/ Use
    PROVE  HeapInv(Away)' /\ Frame(Away)
<1>1. CASE Alloc
  BY <1>1, OversizedAllocStep, EnterLeaveSteps, ExactStep, SplitStep, RefillStep, Zenon DEF Alloc
<1>2. CASE Release
  BY <1>2, OversizedReleaseStep, EnterLeaveSteps, AbsorbSteps, FinishStep, Zenon DEF Release
<1>3. CASE Use
  BY <1>3, UseStep, Zenon
<1> QED BY <1>1, <1>2, <1>3, Zenon

LEMMA NextHeap ==
    ASSUME HeapInv({}), [Next]_pcVars
    PROVE  HeapInv({})'
  BY HeapSteps, ResetStep, EnterLeaveSteps, Zenon DEF Next

LEMMA Invariance == Spec => []HeapInv({})
<1>1. Init => HeapInv({})
  BY InitHeap, Zenon
<1>2. HeapInv({}) /\ [Next]_pcVars => HeapInv({})'
  BY NextHeap, Zenon
<1> QED BY <1>1, <1>2, PTL DEF Spec

-----------------------------------------------------------------------------
(* Theorems *)

LEMMA HeapIsExact ==
    ASSUME NEW Away, HeapInv(Away)
    PROVE  MapExact /\ BucketsExact /\ NoPageLost
<1>1. TypeOK /\ cs.retired \subseteq Descriptors /\ NoSpan \notin Descriptors
      /\ \A d \in Owners : d \in Descriptors
  BY DEF HeapInv, TypeOK, Owners, NoSpan, Descriptors
<1>2. MapExact
  <2> SUFFICES ASSUME NEW p \in PageIds
               PROVE  IF page_map[p] = NoSpan THEN \A d \in Owners : p \notin PagesOf(span[d])
                      ELSE /\ page_map[p] \in live
                           /\ p \in PagesOf(span[page_map[p]])
                           /\ \A d \in Owners : p \in PagesOf(span[d])
                                  => d = page_map[p] \/ (d = cs.d /\ page_map[p] \in cs.retired)
    BY <1>1, Zenon DEF MapExact
  <2>1. \A d \in Owners : p \in PagesOf(span[d]) <=> d = Own(p)
    BY Zenon DEF HeapInv, MapOK
  <2>2. CASE page_map[p] = NoSpan
    BY <1>1, <2>1, <2>2, Zenon DEF Own
  <2>3. CASE page_map[p] # NoSpan
    BY <2>1, <2>3, Zenon DEF HeapInv, MapOK, Own
  <2> QED BY <2>2, <2>3, Zenon
<1>3. BucketsExact
  BY Zenon DEF HeapInv, ListsOK, AllHold, Holds, Frees, BucketsExact
<1>4. NoPageLost
  <2>1. ASSUME NEW p \in mapped PROVE \E d \in Owners : p \in PagesOf(span[d])
    <3>1. p \in PageIds
      BY <1>1, Zenon DEF TypeOK
    <3>2. page_map[p] # NoSpan /\ page_map[p] \in live
      BY <3>1, Zenon DEF HeapInv, MappedOK, MapOK
    <3>3. Own(p) \in Owners
      <4>1. CASE page_map[p] \in cs.retired
        <5>1. cs.op \in {"left", "right"}
          <6>1. cs.retired # {} /\ Free.retired = {} /\ cs.op \in {"free", "alloc", "left", "right"}
            BY <1>1, <4>1, Zenon DEF Free, TypeOK
          <6> QED BY <6>1, Zenon DEF HeapInv, SectionOK
        <5> QED BY <4>1, <5>1, Zenon DEF Own, HeapInv, SectionOK
      <4>2. CASE page_map[p] \notin cs.retired
        BY <3>2, <4>2, Zenon DEF Own, Owners
      <4> QED BY <4>1, <4>2, Zenon
    <3> QED BY <3>1, <3>3, Zenon DEF HeapInv, MapOK
  <2>2. ASSUME NEW d \in Owners, NEW p \in PagesOf(span[d]) PROVE p \in mapped
    <3>1. p \in PageIds
      BY OwnerPages, Zenon
    <3>2. d = Own(p)
      BY <3>1, Zenon DEF HeapInv, MapOK
    <3>3. page_map[p] # NoSpan
      BY <1>1, <3>2, Zenon DEF Own
    <3> QED BY <3>1, <3>3, Zenon DEF HeapInv, MappedOK
  <2> QED BY <2>1, <2>2, Zenon DEF NoPageLost
<1> QED BY <1>2, <1>3, <1>4, Zenon

\* For any sizes of the heap, GetSpan answers right at every moment, also while
\* ReleaseSpan coalesces: a leaf is set exactly for the pages of live spans and
\* names the span that contains the page, or one that the release in progress
\* has absorbed into it.
THEOREM MapSafety == Spec => []MapExact
<1>1. HeapInv({}) => MapExact
  BY HeapIsExact, Zenon
<1> QED BY <1>1, Invariance, PTL

\* For any sizes of the heap, bucket k of span_lists_ holds exactly the unused
\* spans of k pages, each once, through AllocSpan, ReleaseSpan and Reset.
THEOREM BucketsSafety == Spec => []BucketsExact
<1>1. HeapInv({}) => BucketsExact
  BY HeapIsExact, Zenon
<1> QED BY <1>1, Invariance, PTL

\* For any sizes of the heap, the mapped pages are exactly those of the spans
\* that are alive: AllocSpan leaks none when it fails, ReleaseSpan and Reset
\* unmap none that is still covered.
THEOREM PagesSafety == Spec => []NoPageLost
<1>1. HeapInv({}) => NoPageLost
  BY HeapIsExact, Zenon
<1> QED BY <1>1, Invariance, PTL

Run(d) == <<span[d].start, span[d].num>>

Runs == {Run(d) : d \in held}

\* A step that leaves the set of held spans alone leaves their runs alone.
LEMMA QuietRuns ==
    ASSUME HeapInv({}), Frame({}), held' = held
    PROVE  Runs' = Runs
<1>1. \A d \in held : Run(d)' = Run(d)
  BY Zenon DEF Frame, Run
<1> QED BY <1>1, Zenon DEF Runs

\* A span that a client gets covers pages that no other client has.
LEMMA GrantRuns ==
    ASSUME HeapInv({}), Frame({}), HeapInv({})', Grants
    PROVE  \E start \in PageIds, n \in ReqSizes :
              /\ start .. start + n - 1 \subseteq PageIds
              /\ \A r \in Runs : (r[1] .. r[1] + r[2] - 1) \cap (start .. start + n - 1) = {}
              /\ Runs' = Runs \cup {<<start, n>>}
<1>1. PICK d \in Descriptors \ held : held' = held \cup {d} /\ span'[d].num \in ReqSizes
  BY Zenon DEF Grants
<1>2. PICK b, n : b = span'[d].start /\ n = span'[d].num
  BY Zenon
<1>3. d \in Owners' /\ held \subseteq Owners' /\ TypeOK'
  BY <1>1, Zenon DEF HeapInv, UsedOK
<1>4. b \in Nat /\ n \in ReqSizes /\ n \in Nat /\ n >= 1 /\ b + n <= NumPages
  BY <1>1, <1>2, <1>3 DEF HeapInv, SpansOK, TypeOK, SpanRec
<1>5. \A e \in held : Run(e)' = Run(e)
  BY <1>1, Zenon DEF Frame, Run
<1>6. Runs' = Runs \cup {<<b, n>>}
  BY <1>1, <1>2, <1>5, Zenon DEF Runs, Run
<1>7. b \in PageIds /\ b .. b + n - 1 \subseteq PageIds
  BY <1>4 DEF PageIds
<1>8. ASSUME NEW e \in held, NEW p \in b .. b + n - 1
      PROVE  p \notin span[e].start .. span[e].start + span[e].num - 1
  <2>1. p \in PageIds /\ e \in Owners' /\ e # d
    BY <1>1, <1>3, <1>7, Zenon
  <2>2. span'[e].start = span[e].start /\ span'[e].num = span[e].num
    BY <1>1, Zenon DEF Frame
  <2>3. d = Own(p)'
    BY <1>2, <1>3, <2>1, Zenon DEF HeapInv, MapOK, PagesOf
  <2>4. ~ (p \in PagesOf(span'[e]))
    BY <2>1, <2>3, Zenon DEF HeapInv, MapOK
  <2> QED BY <2>2, <2>4, Zenon DEF PagesOf
<1>9. ASSUME NEW r \in Runs PROVE (r[1] .. r[1] + r[2] - 1) \cap (b .. b + n - 1) = {}
  <2>1. PICK e \in held : r = <<span[e].start, span[e].num>>
    BY Zenon DEF Runs, Run
  <2>2. r[1] = span[e].start /\ r[2] = span[e].num
    BY <2>1, Zenon
  <2> QED BY <1>8, <2>2, Zenon
<1> QED BY <1>4, <1>6, <1>7, <1>9, Zenon

\* A span that a client returns takes its run, and only that, with it.
LEMMA ReturnRuns ==
    ASSUME HeapInv({}), Frame({}), NEW d \in held, held' = held \ {d}
    PROVE  \E r \in Runs : Runs' = Runs \ {r}
<1>1. \A e \in held' : Run(e)' = Run(e)
  BY Zenon DEF Frame, Run
<1>2. ASSUME NEW e \in held, e # d PROVE Run(e) # Run(d)
  <2>1. d \in Owners /\ e \in Owners
    BY Zenon DEF HeapInv, UsedOK
  <2>2. span[d].start \in PagesOf(span[d]) /\ span[e].start \in PagesOf(span[e])
    BY <2>1, OwnerPages, Zenon
  <2>3. span[d].start # span[e].start
    BY <1>2, <2>1, <2>2, OwnersApart, Zenon
  <2> QED BY <2>3, Zenon DEF Run
<1>3. Runs' = Runs \ {Run(d)}
  BY <1>1, <1>2, Zenon DEF Runs
<1> QED BY <1>3, Zenon DEF Runs

LEMMA NextRefines ==
    ASSUME HeapInv({}), Next
    PROVE  Runs' = Runs \/ Ranges!Next
<1>1. HeapInv({})'
  BY NextHeap, Zenon
<1>2. /\ Runs = {<<span[d].start, span[d].num>> : d \in held}
      /\ Runs' = {<<span'[d].start, span'[d].num>> : d \in held'}
  BY Zenon DEF Runs, Run
<1>3. ASSUME Frame({}), Grants PROVE Ranges!Next
  <2>1. PICK start \in PageIds, n \in ReqSizes :
          /\ start .. start + n - 1 \subseteq PageIds
          /\ \A r \in Runs : (r[1] .. r[1] + r[2] - 1) \cap (start .. start + n - 1) = {}
          /\ Runs' = Runs \cup {<<start, n>>}
    BY <1>1, <1>3, GrantRuns, Zenon
  <2>2. <<start, n>>[1] = start /\ <<start, n>>[2] = n
    BY Zenon
  <2>3. Ranges!Acquire
    BY <1>2, <2>1, <2>2, Zenon DEF Ranges!Acquire, Ranges!RunPages
  <2> QED BY <2>3, Zenon DEF Ranges!Next
<1>4. ASSUME Frame({}), NEW d \in held, held' = held \ {d} PROVE Ranges!Next
  <2>1. \E r \in Runs : Runs' = Runs \ {r}
    BY <1>4, ReturnRuns, Zenon
  <2> QED BY <1>2, <2>1, Zenon DEF Ranges!Next, Ranges!Return
<1>5. CASE Alloc
  <2>1. Frame({})
    BY <1>5, HeapSteps, Zenon
  <2>2. CASE \/ \E n \in ReqSizes : AllocOversized(n)
             \/ AllocExact \/ AllocSplit
    <3>1. Grants
      BY <2>2, OversizedAllocStep, ExactStep, SplitStep, Zenon
    <3> QED BY <1>3, <2>1, <3>1, Zenon
  <2>3. CASE \/ \E n \in ReqSizes : AllocOversizedFail(n) \/ AllocBegin(n)
             \/ AllocSplitFail \/ AllocRefill \/ AllocRefillFail
    <3>1. held' = held
      BY <2>3, Zenon DEF AllocOversizedFail, AllocBegin, AllocSplitFail, AllocRefill, AllocRefillFail
    <3> QED BY <2>1, <3>1, QuietRuns, Zenon
  <2> QED BY <1>5, <2>2, <2>3, Zenon DEF Alloc
<1>6. CASE Release
  <2>1. Frame({})
    BY <1>6, HeapSteps, Zenon
  <2>2. ASSUME NEW d \in held, ReleaseOversized(d) \/ ReleaseBegin(d) PROVE Ranges!Next
    <3>1. held' = held \ {d}
      BY <2>2, Zenon DEF ReleaseOversized, ReleaseBegin
    <3> QED BY <1>4, <2>1, <3>1, Zenon
  <2>3. CASE AbsorbLeft \/ LeftDone \/ AbsorbRight \/ ReleaseFinish
    <3>1. held' = held
      BY <2>3, Zenon DEF AbsorbLeft, LeftDone, AbsorbRight, ReleaseFinish
    <3> QED BY <2>1, <3>1, QuietRuns, Zenon
  <2> QED BY <1>6, <2>2, <2>3, Zenon DEF Release
<1>7. CASE Use
  <2>1. Frame({})
    BY <1>7, HeapSteps, Zenon
  <2>2. held' = held
    BY <1>7, Zenon DEF Use, InitObjects
  <2> QED BY <2>1, <2>2, QuietRuns, Zenon
<1>8. CASE Reset
  <2>1. held = {} /\ held' = {}
    BY <1>8, Zenon DEF Reset
  <2> QED BY <2>1, Zenon DEF Runs
<1> QED BY <1>5, <1>6, <1>7, <1>8, Zenon DEF Next

\* PageCache implements RangeAllocator for any sizes of the heap: AllocSpan hands
\* out runs of pages that no other client has, and a run stays as it is, whatever
\* is split and coalesced around it, until ReleaseSpan takes it back.
THEOREM RangesRefinement == Spec => HandsOutRanges
<1>1. Init => Ranges!Init
  BY Zenon DEF Init, Ranges!Init
<1>2. HeapInv({}) /\ [Next]_pcVars
        => [Ranges!Next]_({<<span[d].start, span[d].num>> : d \in held})
  <2>1. CASE UNCHANGED pcVars
    BY <2>1, Zenon DEF pcVars
  <2>2. ASSUME HeapInv({}), Next
        PROVE  [Ranges!Next]_({<<span[d].start, span[d].num>> : d \in held})
    BY <2>2, NextRefines, Zenon DEF Runs, Run
  <2> QED BY <2>1, <2>2, Zenon
<1> QED BY <1>1, <1>2, Invariance, PTL DEF Spec, HandsOutRanges, Ranges!Spec

-----------------------------------------------------------------------------
(* The scavenger beside the heap *)

USE ScavengerConstants

\* The scavenger's private list holds, each once, spans of bucket idx.
DetachedOK ==
    /\ Holds(detached, Range(detached))
    /\ \A d \in Range(detached) : span[d].num = idx
    /\ phase # "advise" => detached = <<>>
    /\ phase = "advise" => idx \in Buckets

\* A span that no client and no release has: in a bucket or detached.
Spare(d) == d \in Owners /\ (~span[d].used \/ d \in Range(detached))

SpareHonest ==
    \A d \in Descriptors : Spare(d) => span[d].committed \/ PagesOf(span[d]) \cap resident = {}

ScavInv == HeapInv(Range(detached)) /\ ScavTypeOK /\ DetachedOK /\ SpareHonest

-----------------------------------------------------------------------------
(* Moving spans between the buckets and the private list *)

LEMMA ConcatHolds ==
    ASSUME NEW q, NEW S, Holds(q, S), NEW r, NEW T, Holds(r, T), S \cap T = {}
    PROVE  Holds(q \o r, S \cup T)
<1>1. PICK m, n : m = Len(q) /\ n = Len(r)
  BY Zenon
<1>2. PICK c : c = q \o r
  BY Zenon
<1>3. /\ c \in Seq(Descriptors) /\ DOMAIN c = 1 .. m + n /\ DOMAIN q = 1 .. m /\ DOMAIN r = 1 .. n
      /\ m \in Nat /\ n \in Nat
  BY <1>1, <1>2 DEF Holds
<1>4. /\ \A i \in 1 .. m : c[i] = q[i]
      /\ \A i \in m + 1 .. m + n : i - m \in 1 .. n /\ c[i] = r[i - m]
      /\ \A i \in 1 .. n : i + m \in m + 1 .. m + n /\ c[i + m] = r[i]
  BY <1>1, <1>2 DEF Holds
<1>5. /\ \A i \in 1 .. m : c[i] \in S
      /\ \A i \in m + 1 .. m + n : c[i] \in T
  BY <1>3, <1>4, Zenon DEF Holds, Range
<1>6. \A i \in 1 .. m + n : i \in 1 .. m \/ i \in m + 1 .. m + n
  BY <1>3
<1>7. IsInjective(c)
  <2> SUFFICES ASSUME NEW a \in 1 .. m + n, NEW b \in 1 .. m + n, c[a] = c[b] PROVE a = b
    BY <1>3, Zenon DEF IsInjective
  <2>1. CASE a \in 1 .. m /\ b \in 1 .. m
    <3>1. q[a] = q[b]
      BY <1>4, <2>1, Zenon
    <3> QED BY <1>3, <2>1, <3>1, Zenon DEF Holds, IsInjective
  <2>2. CASE a \in m + 1 .. m + n /\ b \in m + 1 .. m + n
    <3>1. a - m \in DOMAIN r /\ b - m \in DOMAIN r /\ r[a - m] = r[b - m]
      BY <1>3, <1>4, <2>2, Zenon
    <3>2. a - m = b - m
      BY <3>1, Zenon DEF Holds, IsInjective
    <3> QED BY <1>3, <2>2, <3>2
  <2>3. a \in 1 .. m <=> b \in 1 .. m
    BY <1>5, <1>6, Zenon
  <2> QED BY <1>6, <2>1, <2>2, <2>3, Zenon
<1>8. Range(c) = S \cup T
  <2>1. ASSUME NEW x \in S PROVE \E i \in 1 .. m : q[i] = x
    BY <1>3, Zenon DEF Holds, Range
  <2>2. ASSUME NEW x \in T PROVE \E i \in 1 .. n : r[i] = x
    BY <1>3, Zenon DEF Holds, Range
  <2>3. ASSUME NEW x \in S PROVE \E i \in 1 .. m + n : c[i] = x
    <3>1. PICK i \in 1 .. m : q[i] = x
      BY <2>1, Zenon
    <3>2. i \in 1 .. m + n
      BY <1>3
    <3> QED BY <1>4, <3>1, <3>2, Zenon
  <2>4. ASSUME NEW x \in T PROVE \E i \in 1 .. m + n : c[i] = x
    <3>1. PICK i \in 1 .. n : r[i] = x
      BY <2>2, Zenon
    <3>2. i + m \in 1 .. m + n
      BY <1>3
    <3> QED BY <1>4, <3>1, <3>2, Zenon
  <2> QED BY <1>3, <1>5, <1>6, <2>3, <2>4 DEF Range
<1> QED BY <1>2, <1>3, <1>7, <1>8, Zenon DEF Holds

\* A step under the mutex that moves spans between the buckets and B.
LEMMA MoveStep ==
    ASSUME NEW A, HeapInv(A), NEW B, cs = Free, SameShape, span' \in [Descriptors -> SpanRec],
           UNCHANGED <<live, page_map, mapped, held, cs, clock>>,
           AllHold(span_lists', Frees'), held \cap B = {},
           \A d \in Owners : span'[d].used <=> d \in held \cup B, B \subseteq Owners,
           \A d \in Owners \ (held \cup B) : span[d].num \in Buckets
    PROVE  HeapInv(B)'
<1>1. Owners' = Owners /\ Owners \subseteq Descriptors /\ SpansOK' /\ MapOK' /\ MappedOK'
  BY ShapeStep, Zenon
<1>2. cs.retired = {} /\ Releasing = {} /\ Releasing' = {} /\ TypeOK /\ held \subseteq Owners
  BY Zenon DEF Free, Releasing, HeapInv, UsedOK
<1>3. TypeOK'
  BY <1>2, Zenon DEF TypeOK, AllHold
<1>4. SectionOK'
  BY <1>1, <1>2, Zenon DEF SectionOK, Free
<1>5. {d \in Owners : span'[d].used} = held \cup B
  BY <1>2, Zenon
<1>6. UsedOK(B)'
  BY <1>1, <1>2, <1>5, Zenon DEF UsedOK
<1>7. ListsOK'
  BY <1>1, Zenon DEF ListsOK, SameShape, AllHold
<1> QED BY <1>1, <1>3, <1>4, <1>6, <1>7, Zenon DEF HeapInv

LEMMA EmptyRange == Range(<<>>) = {}
  BY DEF Range

\* Detaching: what is idle in bucket idx becomes the private list, reserved.
LEMMA ScanStep ==
    ASSUME ScavInv, Scan
    PROVE  ScavInv'
<1>1. PICK idle : idle = {d \in Descriptors : Eligible(d)}
  BY Zenon
<1>2. /\ phase = "scan" /\ idx > 0 /\ cs = Free
      /\ detached' = Keep(span_lists[idx], idle)
      /\ span_lists' = [span_lists EXCEPT ![idx] = Keep(@, Descriptors \ idle)]
      /\ span' = [d \in Descriptors |->
                    IF d \in Range(detached') THEN Reserved(span[d]) ELSE span[d]]
      /\ advised' = 0
      /\ IF detached' = <<>> THEN idx' = idx - 1 /\ phase' = "scan"
                             ELSE idx' = idx /\ phase' = "advise"
      /\ UNCHANGED <<live, page_map, mapped, held, cs, clock, stop, wake, now, resident>>
  BY <1>1, Zenon DEF Scan
<1>3. detached = <<>> /\ HeapInv({}) /\ TypeOK /\ ScavTypeOK /\ idx \in Buckets
  <2>1. detached = <<>> /\ ScavTypeOK
    BY <1>2, Zenon DEF ScavInv, DetachedOK
  <2>2. HeapInv({})
    BY <2>1, EmptyRange, Zenon DEF ScavInv
  <2> QED BY <1>2, <2>1, <2>2 DEF ScavTypeOK, Buckets
<1>4. PICK D : D = Range(detached')
  BY Zenon
<1>5. /\ Holds(detached', Frees[idx] \cap idle) /\ D = Frees[idx] \cap idle
      /\ Holds(Keep(span_lists[idx], Descriptors \ idle), Frees[idx] \cap (Descriptors \ idle))
  BY <1>2, <1>3, <1>4, KeepHolds DEF HeapInv, ListsOK, AllHold, Holds
<1>6. D \subseteq Owners /\ Owners \subseteq Descriptors
      /\ \A d \in D : ~span[d].used /\ span[d].num = idx
  BY <1>3, <1>5, Zenon DEF Frees, Owners, TypeOK
<1>7. \A d \in Descriptors : /\ Reserved(span[d]) \in SpanRec /\ Reserved(span[d]).used = TRUE
                              /\ Reserved(span[d]).start = span[d].start
                              /\ Reserved(span[d]).num = span[d].num
                              /\ Reserved(span[d]).committed = span[d].committed
  BY <1>3, ZenonT(60) DEF Reserved, TypeOK, SpanRec
<1>8. /\ span' \in [Descriptors -> SpanRec]
      /\ \A d \in Descriptors : span'[d] = IF d \in D THEN Reserved(span[d]) ELSE span[d]
  BY <1>2, <1>3, <1>4, <1>7, Zenon DEF TypeOK
<1>9. SameShape /\ \A d \in Descriptors : span'[d].committed = span[d].committed
  BY <1>7, <1>8, Zenon DEF SameShape
<1>10. Owners' = Owners
  BY <1>2, Zenon DEF Owners
<1>11. {d \in Owners : span[d].used} = held /\ held \cap D = {}
  <2>1. Releasing = {}
    BY <1>2, Zenon DEF Free, Releasing
  <2> QED BY <1>3, <1>6, <2>1, Zenon DEF HeapInv, UsedOK
<1>12. \A d \in Owners : span'[d].used <=> d \in held \cup D
  BY <1>6, <1>7, <1>8, <1>11, Zenon
<1>13. AllHold(span_lists', Frees')
  <2>1. \A k \in Buckets : Frees'[k] = Frees[k] \ D
    BY <1>6, <1>8, <1>9, <1>10, <1>11, <1>12 DEF Frees, SameShape
  <2>2. Frees[idx] \ D = Frees[idx] \cap (Descriptors \ idle)
    BY <1>3, <1>5, <1>6, Zenon DEF Frees
  <2>3. \A k \in Buckets \ {idx} : Frees[k] \ D = Frees[k]
    BY <1>6, Zenon DEF Frees
  <2>4. /\ span_lists'[idx] = Keep(span_lists[idx], Descriptors \ idle)
        /\ \A k \in Buckets \ {idx} : span_lists'[k] = span_lists[k]
        /\ DOMAIN span_lists' = Buckets /\ span_lists' = [k \in Buckets |-> span_lists'[k]]
    BY <1>2, <1>3, Zenon DEF TypeOK
  <2>5. ASSUME NEW k \in Buckets PROVE Holds(span_lists'[k], Frees'[k])
    <3>1. CASE k = idx
      BY <1>5, <2>1, <2>2, <2>4, <3>1, Zenon
    <3>2. CASE k # idx
      BY <1>3, <2>1, <2>3, <2>4, <3>2, Zenon DEF HeapInv, ListsOK, AllHold
    <3> QED BY <3>1, <3>2, Zenon
  <2>6. span_lists' \in [Buckets -> Seq(Descriptors)]
    BY <2>4, <2>5, Zenon DEF Holds
  <2> QED BY <2>5, <2>6, Zenon DEF AllHold
<1>14. \A d \in Owners \ (held \cup D) : span[d].num \in Buckets
  BY <1>3, <1>11, Zenon DEF HeapInv, ListsOK
<1>15. HeapInv(D)'
  BY <1>2, <1>3, <1>6, <1>8, <1>9, <1>11, <1>12, <1>13, <1>14, MoveStep, ZenonT(60)
<1>16. ScavTypeOK'
  <2>1. detached' \in Seq(Descriptors) /\ advised' \in 0 .. Len(detached')
    BY <1>2, <1>5 DEF Holds
  <2> QED BY <1>2, <1>3, <1>15, <2>1 DEF ScavTypeOK, HeapInv
<1>17. DetachedOK'
  <2>1. Holds(detached', Range(detached'))
    BY <1>5, Zenon DEF Holds
  <2>2. \A d \in D : span'[d].num = idx
    BY <1>6, <1>9, Zenon DEF SameShape
  <2>3. detached' = <<>> => D = {}
    BY <1>4, EmptyRange, Zenon
  <2> QED BY <1>2, <1>3, <1>4, <2>1, <2>2, <2>3, Zenon DEF DetachedOK
<1>18. SpareHonest'
  <2> SUFFICES ASSUME NEW d \in Descriptors, Spare(d)'
               PROVE  span'[d].committed \/ PagesOf(span'[d]) \cap resident' = {}
    BY Zenon DEF SpareHonest
  <2>1. Spare(d)
    BY <1>4, <1>6, <1>8, <1>10, Zenon DEF Spare
  <2>2. span[d].committed \/ PagesOf(span[d]) \cap resident = {}
    BY <2>1, Zenon DEF ScavInv, SpareHonest
  <2>3. PagesOf(span'[d]) = PagesOf(span[d])
    BY <1>9, Zenon DEF SameShape, PagesOf
  <2> QED BY <1>2, <1>9, <2>2, <2>3, Zenon
<1> QED BY <1>4, <1>15, <1>16, <1>17, <1>18, Zenon DEF ScavInv

\* madvise on one detached span, without the mutex: a release or an allocation
\* may be in progress.
LEMMA AdviseStep ==
    ASSUME ScavInv, Advise
    PROVE  ScavInv'
<1>1. PICK D : D = Range(detached)
  BY Zenon
<1>2. PICK d : d = detached[advised + 1]
  BY Zenon
<1>3. HeapInv(D) /\ TypeOK /\ ScavTypeOK /\ DetachedOK /\ SpareHonest
  BY <1>1, Zenon DEF ScavInv, HeapInv
<1>4. PICK ok \in BOOLEAN :
        /\ span' = [span EXCEPT ![d] = Advised(@, ok)]
        /\ resident' = IF ok THEN resident \ PagesOf(span[d]) ELSE resident
  BY <1>2, Zenon DEF Advise
<1>5. /\ phase = "advise" /\ advised < Len(detached) /\ advised' = advised + 1
      /\ UNCHANGED <<span_lists, live, page_map, mapped, held, cs, clock,
                     phase, stop, wake, idx, now, detached>>
  BY Zenon DEF Advise
<1>6. d \in D /\ d \in Descriptors /\ advised + 1 \in 0 .. Len(detached)
  BY <1>1, <1>2, <1>3, <1>5 DEF ScavTypeOK, Range
<1>7. PICK s : s = Advised(span[d], ok)
  BY Zenon
<1>8. /\ s \in SpanRec /\ s.start = span[d].start /\ s.num = span[d].num
      /\ s.used = span[d].used /\ s.committed = (span[d].committed /\ ~ok)
  <2>1. PICK m, c : m = span[d] /\ c = (span[d].committed /\ ~ok)
    BY Zenon
  <2>2. m \in SpanRec /\ c \in BOOLEAN
    BY <1>3, <1>6, <2>1, Zenon DEF TypeOK, SpanRec
  <2>3. s = [m EXCEPT !.committed = c]
    BY <1>7, <2>1, Zenon DEF Advised
  <2>4. s \in SpanRec /\ s.start = m.start /\ s.num = m.num /\ s.used = m.used /\ s.committed = c
    BY <2>2, <2>3, Zenon DEF SpanRec
  <2> QED BY <2>1, <2>4, Zenon
<1>9. s.committed \/ ok \/ ~span[d].committed
  BY <1>8, Zenon
<1>10. span' \in [Descriptors -> SpanRec] /\ \A e \in Descriptors : span'[e] = IF e = d THEN s ELSE span[e]
  BY <1>3, <1>4, <1>6, <1>7, <1>8, Zenon DEF TypeOK
<1>11. SameShape /\ \A e \in Descriptors : span'[e].used = span[e].used
  BY <1>8, <1>10, Zenon DEF SameShape
<1>12. HeapInv(D)'
  BY <1>3, <1>5, <1>10, <1>11, FieldStep, Zenon
<1>13. resident' \subseteq resident
  BY <1>4, Zenon
<1>14. ScavTypeOK'
  BY <1>3, <1>5, <1>6, <1>12, <1>13, Zenon DEF ScavTypeOK, HeapInv
<1>15. DetachedOK'
  <2>1. \A e \in Range(detached) : e \in Descriptors
    BY <1>3 DEF DetachedOK, Holds, Range
  <2> QED BY <1>3, <1>5, <1>11, <2>1, Zenon DEF DetachedOK, SameShape
<1>16. SpareHonest'
  <2> SUFFICES ASSUME NEW e \in Descriptors, Spare(e)'
               PROVE  span'[e].committed \/ PagesOf(span'[e]) \cap resident' = {}
    BY Zenon DEF SpareHonest
  <2>1. Spare(e)
    BY <1>5, <1>11, Zenon DEF Spare, Owners
  <2>2. span[e].committed \/ PagesOf(span[e]) \cap resident = {}
    BY <1>3, <2>1, Zenon DEF SpareHonest
  <2>3. PagesOf(span'[e]) = PagesOf(span[e])
    BY <1>11, Zenon DEF SameShape, PagesOf
  <2>4. CASE e # d
    BY <1>10, <1>13, <2>2, <2>3, <2>4, Zenon
  <2>5. CASE e = d /\ ok
    BY <1>4, <2>3, <2>5, Zenon
  <2>6. CASE e = d /\ ~ok
    <3>1. span'[e] = s /\ (s.committed \/ ~span[e].committed)
      BY <1>9, <1>10, <2>6, Zenon
    <3> QED BY <1>13, <2>2, <2>3, <3>1, Zenon
  <2> QED BY <2>4, <2>5, <2>6, Zenon
<1> QED BY <1>1, <1>5, <1>12, <1>14, <1>15, <1>16, Zenon DEF ScavInv

\* Everything that was detached goes to the tail of its bucket.
LEMMA ReattachStep ==
    ASSUME ScavInv, Reattach
    PROVE  ScavInv'
<1>1. PICK D : D = Range(detached)
  BY Zenon
<1>2. HeapInv(D) /\ TypeOK /\ ScavTypeOK /\ DetachedOK /\ SpareHonest
  BY <1>1, Zenon DEF ScavInv, HeapInv
<1>3. /\ phase = "advise" /\ cs = Free
      /\ span_lists' = [span_lists EXCEPT ![idx] = @ \o detached]
      /\ detached' = <<>> /\ advised' = 0 /\ idx' = idx - 1 /\ phase' = "scan"
      /\ UNCHANGED <<live, page_map, mapped, held, cs, clock, stop, wake, now, resident>>
  BY <1>1, Zenon DEF Reattach, Returned
<1>4. span' = [d \in Descriptors |-> IF d \in D THEN [span[d] EXCEPT !.used = FALSE, !.last = clock]
                                      ELSE span[d]]
  BY <1>1, Zenon DEF Reattach, Returned
<1>5. Releasing = {} /\ Owners' = Owners /\ Owners \subseteq Descriptors
  BY <1>2, <1>3, Zenon DEF Free, Releasing, Owners, TypeOK
<1>6. /\ {d \in Owners : span[d].used} = held \cup D /\ held \cap D = {}
      /\ D \subseteq Owners
  BY <1>2, <1>5, Zenon DEF HeapInv, UsedOK
<1>7. idx \in Buckets /\ Holds(detached, D) /\ \A d \in D : span[d].num = idx
  BY <1>1, <1>2, <1>3, Zenon DEF DetachedOK
<1>8. \A d \in D : /\ span'[d] \in SpanRec /\ span'[d].used = FALSE
                   /\ span'[d].start = span[d].start /\ span'[d].num = span[d].num
                   /\ span'[d].committed = span[d].committed
  <2> SUFFICES ASSUME NEW d \in D
               PROVE  /\ span'[d] \in SpanRec /\ span'[d].used = FALSE
                      /\ span'[d].start = span[d].start /\ span'[d].num = span[d].num
                      /\ span'[d].committed = span[d].committed
    BY Zenon
  <2>1. d \in Descriptors /\ span[d] \in SpanRec /\ clock \in 0 .. MaxTime
    BY <1>2, <1>5, <1>6, Zenon DEF TypeOK
  <2>2. span'[d] = [span[d] EXCEPT !.used = FALSE, !.last = clock]
    BY <1>4, <2>1, Zenon
  <2> QED BY <2>1, <2>2, Zenon DEF SpanRec
<1>9. \A d \in Descriptors \ D : span'[d] = span[d]
  BY <1>4, Zenon
<1>10. span' \in [Descriptors -> SpanRec]
  <2>1. \A d \in Descriptors : span'[d] \in SpanRec
    BY <1>2, <1>8, <1>9, Zenon DEF TypeOK
  <2>2. span' = [d \in Descriptors |-> span'[d]]
    BY <1>4, Zenon
  <2> QED BY <2>1, <2>2, Zenon
<1>11. SameShape /\ \A d \in Descriptors : span'[d].committed = span[d].committed
  BY <1>8, <1>9, Zenon DEF SameShape
<1>12. \A d \in Owners : span'[d].used <=> d \in held
  BY <1>5, <1>6, <1>8, <1>9, Zenon
<1>13. AllHold(span_lists', Frees')
  <2>1. Frees[idx] \cap D = {} /\ \A k \in Buckets : Frees'[k] = IF k = idx THEN Frees[k] \cup D ELSE Frees[k]
    <3>1. \A d \in Owners : /\ span'[d].num = span[d].num
                            /\ d \in D => span[d].used /\ ~span'[d].used
                            /\ d \notin D => (span'[d].used <=> span[d].used)
      BY <1>5, <1>6, <1>11, <1>12, Zenon DEF SameShape
    <3>2. \A k \in Buckets : Frees[k] \cap D = {}
      BY <3>1, Zenon DEF Frees
    <3>3. ASSUME NEW k \in Buckets PROVE Frees'[k] = IF k = idx THEN Frees[k] \cup D ELSE Frees[k]
      BY <1>5, <1>6, <1>7, <3>1 DEF Frees
    <3> QED BY <1>7, <3>2, <3>3, Zenon
  <2>2. Holds(span_lists[idx] \o detached, Frees[idx] \cup D)
    BY <1>2, <1>7, <2>1, ConcatHolds, Zenon DEF HeapInv, ListsOK, AllHold
  <2>3. /\ span_lists'[idx] = span_lists[idx] \o detached
        /\ \A k \in Buckets \ {idx} : span_lists'[k] = span_lists[k]
        /\ span_lists' = [k \in Buckets |-> span_lists'[k]]
    BY <1>2, <1>3, <1>7, Zenon DEF TypeOK
  <2>4. ASSUME NEW k \in Buckets PROVE Holds(span_lists'[k], Frees'[k])
    <3>1. CASE k = idx
      BY <2>1, <2>2, <2>3, <3>1, Zenon
    <3>2. CASE k # idx
      BY <1>2, <2>1, <2>3, <3>2, Zenon DEF HeapInv, ListsOK, AllHold
    <3> QED BY <3>1, <3>2, Zenon
  <2>5. span_lists' \in [Buckets -> Seq(Descriptors)]
    BY <2>3, <2>4, Zenon DEF Holds
  <2> QED BY <2>4, <2>5, Zenon DEF AllHold
<1>14. \A d \in Owners \ held : span[d].num \in Buckets
  BY <1>2, <1>6, <1>7, Zenon DEF HeapInv, ListsOK
<1>15. HeapInv({})'
  BY <1>2, <1>3, <1>10, <1>11, <1>12, <1>13, <1>14, MoveStep, Zenon
<1>16. ScavTypeOK'
  <2>1. idx' \in 0 .. MaxPageNum
    <3>1. idx' = idx - 1
      BY <1>3, Zenon
    <3>2. idx \in 1 .. MaxPageNum
      BY <1>7, Zenon DEF Buckets
    <3> QED BY <3>1, <3>2
  <2>2. <<>> \in Seq(Descriptors) /\ 0 \in 0 .. Len(<<>>)
    OBVIOUS
  <2> QED BY <1>2, <1>3, <1>15, <2>1, <2>2, Zenon DEF ScavTypeOK, HeapInv
<1>17. DetachedOK'
  BY <1>3, EmptyRange, EmptyHolds, Zenon DEF DetachedOK
<1>18. SpareHonest'
  <2> SUFFICES ASSUME NEW d \in Descriptors, Spare(d)'
               PROVE  span'[d].committed \/ PagesOf(span'[d]) \cap resident' = {}
    BY Zenon DEF SpareHonest
  <2>1. Spare(d)
    BY <1>1, <1>3, <1>5, <1>6, <1>9, EmptyRange, Zenon DEF Spare
  <2>2. span[d].committed \/ PagesOf(span[d]) \cap resident = {}
    BY <1>2, <2>1, Zenon DEF SpareHonest
  <2>3. PagesOf(span'[d]) = PagesOf(span[d])
    BY <1>11, Zenon DEF SameShape, PagesOf
  <2> QED BY <1>3, <1>11, <2>2, <2>3, Zenon
<1> QED BY <1>3, <1>15, <1>16, <1>17, <1>18, EmptyRange, Zenon DEF ScavInv

-----------------------------------------------------------------------------
(* The thread's control, and the heap's clients *)

LEMMA ThreadSteps ==
    ASSUME ScavInv,
           \/ Start \/ RequestStop \/ Join \/ LoopExit \/ PassStart \/ PassEnd \/ UNCHANGED vars
    PROVE  ScavInv'
<1>1. PICK D : D = Range(detached)
  BY Zenon
<1>2. HeapInv(D) /\ ScavTypeOK /\ DetachedOK /\ SpareHonest
  BY <1>1, Zenon DEF ScavInv
<1>3. UNCHANGED <<pcVars, detached, advised, resident>>
  BY Zenon DEF Start, RequestStop, Join, LoopExit, PassStart, PassEnd, vars, thread
<1>4. HeapInv(D)'
  BY <1>2, <1>3, EnterLeaveSteps, Zenon
<1>5. UNCHANGED <<span, live, mapped, cs, clock>>
  BY <1>3, Zenon DEF pcVars
<1>6. SpareHonest'
  BY <1>2, <1>3, <1>5, Zenon DEF SpareHonest, Spare, Owners
<1>7. clock \in 0 .. MaxTime /\ MaxPageNum \in Nat
  BY <1>2 DEF HeapInv, TypeOK
<1>8. ScavTypeOK'
  <2>1. phase' \in {"off", "wait", "scan", "advise", "exited"} /\ stop' \in BOOLEAN
    BY <1>2, Zenon DEF ScavTypeOK, Start, RequestStop, Join, LoopExit, PassStart, PassEnd, vars, thread
  <2>2. wake' = wake \/ wake' = clock + kScavengeInterval
    BY Zenon DEF Start, RequestStop, Join, LoopExit, PassStart, PassEnd, vars, thread
  <2>3. (idx' = idx \/ idx' = MaxPageNum) /\ (now' = now \/ now' = clock)
    BY Zenon DEF Start, RequestStop, Join, LoopExit, PassStart, PassEnd, vars, thread, FirstBucket
  <2>4. wake' \in 0 .. MaxTime + kScavengeInterval /\ now' \in 0 .. MaxTime /\ idx' \in 0 .. MaxPageNum
    BY <1>2, <1>7, <2>2, <2>3 DEF ScavTypeOK
  <2> QED BY <1>2, <1>3, <1>4, <1>5, <2>1, <2>4, Zenon DEF ScavTypeOK, HeapInv
<1>9. DetachedOK'
  <2>1. CASE detached = <<>>
    <3>1. phase' # "advise" \/ (phase' = phase /\ idx' = idx)
      BY Zenon DEF Start, RequestStop, Join, LoopExit, PassStart, PassEnd, vars, thread
    <3> QED BY <1>2, <1>3, <2>1, <3>1, EmptyRange, Zenon DEF DetachedOK
  <2>2. CASE detached # <<>>
    <3>1. phase = "advise"
      BY <1>2, <2>2, Zenon DEF DetachedOK
    <3>2. phase' = phase /\ idx' = idx
      BY <3>1, Zenon DEF Start, RequestStop, Join, LoopExit, PassStart, PassEnd, vars, thread
    <3> QED BY <1>2, <1>3, <1>5, <3>2, Zenon DEF DetachedOK
  <2> QED BY <2>1, <2>2, Zenon
<1> QED BY <1>1, <1>3, <1>4, <1>6, <1>8, <1>9, Zenon DEF ScavInv

\* A client writes to pages of its own only.
LEMMA WriteStep ==
    ASSUME ScavInv, Write
    PROVE  ScavInv'
<1>1. PICK D : D = Range(detached)
  BY Zenon
<1>2. HeapInv(D) /\ ScavTypeOK /\ DetachedOK /\ SpareHonest
  BY <1>1, Zenon DEF ScavInv
<1>3. PICK h \in held : resident' = resident \cup PagesOf(span[h])
  BY Zenon DEF Write
<1>4. UNCHANGED <<pcVars, thread>>
  BY Zenon DEF Write
<1>5. HeapInv(D)'
  BY <1>2, <1>4, EnterLeaveSteps, Zenon
<1>6. UNCHANGED <<span, live, mapped, cs, clock, phase, stop, wake, idx, now, detached, advised>>
  BY <1>4, Zenon DEF pcVars, thread
<1>7. h \in Owners /\ span[h].used /\ h \notin D
  BY <1>2, Zenon DEF HeapInv, UsedOK
<1>8. PagesOf(span[h]) \subseteq mapped
  <2>1. NoPageLost
    BY <1>2, HeapIsExact, Zenon
  <2> QED BY <1>7, <2>1, Zenon DEF NoPageLost
<1>9. ScavTypeOK'
  BY <1>2, <1>3, <1>5, <1>6, <1>8, Zenon DEF ScavTypeOK, HeapInv
<1>10. DetachedOK'
  BY <1>2, <1>6, Zenon DEF DetachedOK
<1>11. SpareHonest'
  <2> SUFFICES ASSUME NEW d \in Descriptors, Spare(d)'
               PROVE  span'[d].committed \/ PagesOf(span'[d]) \cap resident' = {}
    BY Zenon DEF SpareHonest
  <2>1. Spare(d) /\ d \in Owners /\ d # h
    BY <1>1, <1>6, <1>7, Zenon DEF Spare, Owners
  <2>2. span[d].committed \/ PagesOf(span[d]) \cap resident = {}
    BY <1>2, <2>1, Zenon DEF SpareHonest
  <2>3. PagesOf(span[d]) \cap PagesOf(span[h]) = {}
    BY <1>2, <1>7, <2>1, OwnersApart, Zenon
  <2> QED BY <1>3, <1>6, <2>2, <2>3, Zenon
<1> QED BY <1>1, <1>5, <1>6, <1>9, <1>10, <1>11, Zenon DEF ScavInv

\* What the heap puts in a bucket is committed, and what it leaves there it
\* leaves alone.
BucketsKept ==
    \A d \in Owners' : ~span'[d].used
        => span'[d].committed \/ (d \in Owners /\ ~span[d].used /\ span'[d] = span[d])

LEMMA AllocKeepsBuckets ==
    ASSUME NEW A, HeapInv(A), Alloc
    PROVE  BucketsKept
<1>1. TypeOK /\ Owners \subseteq Descriptors /\ Free.retired = {}
  BY Zenon DEF HeapInv, Owners, TypeOK, Free
<1>2. ASSUME span' = span, Owners' = Owners PROVE BucketsKept
  BY <1>2, Zenon DEF BucketsKept
<1>3. ASSUME NEW n \in ReqSizes, AllocOversized(n) PROVE BucketsKept
  <2>1. PICK start \in SystemRanges(n), d \in Fresh :
          /\ span' = [span EXCEPT ![d] = [MakeSpan(start, n) EXCEPT !.used = TRUE, !.committed = TRUE]]
          /\ live' = live \cup {d} /\ cs' = cs
    BY <1>3, Zenon DEF AllocOversized
  <2>2. PICK m : m = [MakeSpan(start, n) EXCEPT !.used = TRUE, !.committed = TRUE]
    BY Zenon
  <2>3. m.used = TRUE
    BY <2>2, Zenon DEF MakeSpan
  <2>4. d \in Descriptors /\ Owners' \subseteq Owners \cup {d}
    BY <2>1, Zenon DEF Owners, Fresh
  <2>5. \A e \in Descriptors : span'[e] = IF e = d THEN m ELSE span[e]
    BY <1>1, <2>1, <2>2, <2>4, Zenon DEF TypeOK
  <2> QED BY <1>1, <2>3, <2>4, <2>5, Zenon DEF BucketsKept
<1>4. ASSUME NEW n \in ReqSizes, AllocOversizedFail(n) PROVE BucketsKept
  BY <1>2, <1>4, Zenon DEF AllocOversizedFail, Owners
<1>5. ASSUME NEW n \in ReqSizes, AllocBegin(n) PROVE BucketsKept
  BY <1>1, <1>2, <1>5, Zenon DEF AllocBegin, InAlloc, Owners
<1>6. ASSUME cs.op = "alloc" PROVE cs.retired = {}
  BY <1>6, Zenon DEF HeapInv, SectionOK
<1>7. CASE AllocSplitFail \/ AllocRefillFail
  BY <1>1, <1>2, <1>6, <1>7, Zenon DEF AllocSplitFail, AllocRefillFail, SplitFrom, NothingFits, Owners
<1>8. CASE AllocExact
  <2>1. PICK d : d = Head(span_lists[cs.n])
    BY Zenon
  <2>2. span' = [span EXCEPT ![d].used = TRUE, ![d].committed = TRUE] /\ live' = live /\ cs' = Free
    BY <1>8, <2>1, Zenon DEF AllocExact
  <2>3. Owners' = Owners
    BY <1>1, <1>6, <1>8, <2>2, Zenon DEF AllocExact, Owners
  <2>4. \A e \in Descriptors \ {d} : span'[e] = span[e]
    BY <1>1, <2>2, Zenon DEF TypeOK
  <2>5. d \in Descriptors => span'[d].committed
    BY <1>1, <2>2 DEF TypeOK, SpanRec
  <2> QED BY <1>1, <2>3, <2>4, <2>5, Zenon DEF BucketsKept
<1>9. CASE AllocSplit
  <2> DEFINE big(i) == Head(span_lists[i])
  <2>1. PICK i \in Buckets, d \in Fresh :
          /\ span' = [span EXCEPT ![d] = [MakeSpan(span[big(i)].start, cs.n)
                                            EXCEPT !.used = TRUE, !.committed = TRUE],
                                  ![big(i)] = Remainder(span[big(i)], cs.n)]
          /\ live' = live \cup {d} /\ cs' = Free /\ cs.op = "alloc"
    BY <1>9, Zenon DEF AllocSplit, SplitFrom
  <2>2. PICK b : b = big(i)
    BY Zenon
  <2> HIDE DEF big
  <2>3. PICK m : m = [MakeSpan(span[b].start, cs.n) EXCEPT !.used = TRUE, !.committed = TRUE]
    BY Zenon
  <2>4. m.used = TRUE
    BY <2>3, Zenon DEF MakeSpan
  <2>5. d \in Descriptors /\ Owners' \subseteq Owners \cup {d}
    BY <1>1, <1>6, <2>1, Zenon DEF Owners, Fresh
  <2>6. PICK r : r = Remainder(span[b], cs.n)
    BY Zenon
  <2>7. b \in Descriptors => r.committed
    BY <1>1, <2>6 DEF Remainder, TypeOK, SpanRec
  <2>8. \A e \in Descriptors : span'[e] = IF e = b THEN r ELSE IF e = d THEN m ELSE span[e]
    BY <1>1, <2>1, <2>2, <2>3, <2>5, <2>6, Zenon DEF TypeOK
  <2> QED BY <1>1, <2>4, <2>5, <2>7, <2>8, Zenon DEF BucketsKept
<1>10. CASE AllocRefill
  <2>1. PICK start \in SystemRanges(MaxPageNum), d \in Fresh :
          /\ span' = [span EXCEPT ![d] = [MakeSpan(start, MaxPageNum) EXCEPT !.committed = TRUE,
                                                                             !.last = clock]]
          /\ live' = live \cup {d} /\ cs' = cs
    BY <1>10, Zenon DEF AllocRefill
  <2>2. PICK m : m = [MakeSpan(start, MaxPageNum) EXCEPT !.committed = TRUE, !.last = clock]
    BY Zenon
  <2>3. m.committed = TRUE
    BY <2>2, Zenon DEF MakeSpan
  <2>4. d \in Descriptors /\ Owners' \subseteq Owners \cup {d}
    BY <2>1, Zenon DEF Owners, Fresh
  <2>5. \A e \in Descriptors : span'[e] = IF e = d THEN m ELSE span[e]
    BY <1>1, <2>1, <2>2, <2>4, Zenon DEF TypeOK
  <2> QED BY <1>1, <2>3, <2>4, <2>5, Zenon DEF BucketsKept
<1> QED BY <1>3, <1>4, <1>5, <1>7, <1>8, <1>9, <1>10, Zenon DEF Alloc

LEMMA ReleaseKeepsBuckets ==
    ASSUME NEW A, HeapInv(A), Release \/ Use
    PROVE  BucketsKept
<1>1. TypeOK /\ Owners \subseteq Descriptors /\ Free.retired = {}
  BY Zenon DEF HeapInv, Owners, TypeOK, Free
<1>2. PICK c : c = cs.d
  BY Zenon
<1>3. ASSUME cs.op \in {"left", "right"} PROVE c \in Owners /\ span[c].used
  BY <1>2, <1>3, Zenon DEF HeapInv, SectionOK, UsedOK, Releasing
<1>4. ASSUME NEW d \in held, ReleaseOversized(d) PROVE BucketsKept
  <2>1. span' = [span EXCEPT ![d] = Blank] /\ live' = live \ {d} /\ cs' = cs
    BY <1>4, Zenon DEF ReleaseOversized
  <2>2. \A e \in Descriptors \ {d} : span'[e] = span[e]
    BY <1>1, <2>1, Zenon DEF TypeOK
  <2>3. Owners' = Owners \ {d}
    BY <2>1, Zenon DEF Owners
  <2> QED BY <1>1, <2>2, <2>3, Zenon DEF BucketsKept
<1>5. ASSUME NEW d \in held, ReleaseBegin(d) PROVE BucketsKept
  BY <1>1, <1>5, Zenon DEF ReleaseBegin, InRelease, Owners, BucketsKept
<1>6. CASE LeftDone
  <2>1. cs'.retired = cs.retired
    BY <1>1, <1>6, Zenon DEF LeftDone, TypeOK
  <2> QED BY <1>6, <2>1, Zenon DEF LeftDone, Owners, BucketsKept
<1>7. CASE AbsorbLeft \/ AbsorbRight
  <2>1. PICK nb, b : /\ \/ span' = [span EXCEPT ![c].start = b, ![c].num = @ + span[nb].num]
                        \/ span' = [span EXCEPT ![c].num = @ + span[nb].num]
                     /\ cs' = [cs EXCEPT !.retired = @ \cup {nb}] /\ live' = live
    BY <1>2, <1>7, Zenon DEF AbsorbLeft, AbsorbRight
  <2>2. c \in Owners /\ span[c].used /\ c \in Descriptors
    BY <1>1, <1>3, <1>7, Zenon DEF AbsorbLeft, AbsorbRight
  <2>3. \A e \in Descriptors \ {c} : span'[e] = span[e]
    BY <1>1, <2>1, Zenon DEF TypeOK
  <2>4. span'[c].used
    <3>1. CASE span' = [span EXCEPT ![c].start = b, ![c].num = @ + span[nb].num]
      BY <1>1, <2>2, <3>1, Zenon DEF TypeOK, SpanRec
    <3>2. CASE span' = [span EXCEPT ![c].num = @ + span[nb].num]
      BY <1>1, <2>2, <3>2, Zenon DEF TypeOK, SpanRec
    <3> QED BY <2>1, <3>1, <3>2, Zenon
  <2>5. Owners' \subseteq Owners
    BY <1>1, <2>1, Zenon DEF Owners, TypeOK
  <2> QED BY <1>1, <2>3, <2>4, <2>5 DEF BucketsKept
<1>8. CASE ReleaseFinish
  <2>1. /\ span' = [d \in Descriptors |-> IF d = c THEN Freed(span[c])
                                           ELSE IF d \in cs.retired THEN Blank ELSE span[d]]
        /\ live' = live \ cs.retired /\ cs' = Free /\ cs.op = "right"
    BY <1>2, <1>8, Zenon DEF ReleaseFinish
  <2>2. Owners' = Owners /\ Owners \cap cs.retired = {} /\ c \in Owners
    BY <1>1, <1>3, <2>1, Zenon DEF Owners
  <2>3. Freed(span[c]).committed
    BY <1>1, <2>2 DEF Freed, TypeOK, SpanRec
  <2> QED BY <1>1, <2>1, <2>2, <2>3, Zenon DEF BucketsKept
<1>9. CASE Use
  <2>1. PICK d \in held : span' = [span EXCEPT ![d].obj = TRUE] /\ live' = live /\ cs' = cs
    BY <1>9, Zenon DEF Use, InitObjects
  <2>2. span[d].used /\ d \in Descriptors
    BY <1>1, Zenon DEF HeapInv, UsedOK, TypeOK
  <2>3. \A e \in Descriptors \ {d} : span'[e] = span[e]
    BY <1>1, <2>1, Zenon DEF TypeOK
  <2>4. span'[d].used
    BY <1>1, <2>1, <2>2, Zenon DEF TypeOK, SpanRec
  <2>5. Owners' = Owners
    BY <2>1, Zenon DEF Owners
  <2> QED BY <1>1, <2>3, <2>4, <2>5, Zenon DEF BucketsKept
<1> QED BY <1>4, <1>5, <1>6, <1>7, <1>8, <1>9, Zenon DEF Release

LEMMA TickStep ==
    ASSUME NEW A, HeapInv(A), Tick
    PROVE  HeapInv(A)' /\ Frame(A)
<1>1. UNCHANGED <<span_lists, span, live, page_map, mapped, held, cs>> /\ Owners' = Owners
  BY Zenon DEF Tick, Owners
<1>2. clock' \in 0 .. MaxTime
  BY DEF Tick, HeapInv, TypeOK
<1>3. TypeOK'
  BY <1>1, <1>2, Zenon DEF HeapInv, TypeOK
<1>4. SectionOK' /\ SpansOK' /\ MappedOK'
  BY <1>1, Zenon DEF HeapInv, SectionOK, SpansOK, MappedOK
<1>5. MapOK'
  BY <1>1, Zenon DEF HeapInv, MapOK, Own
<1>6. UsedOK(A)'
  BY <1>1, Zenon DEF HeapInv, UsedOK, Releasing
<1>7. ListsOK'
  BY <1>1, Zenon DEF HeapInv, ListsOK, Frees
<1> QED BY <1>1, <1>3, <1>4, <1>5, <1>6, <1>7, Zenon DEF HeapInv, Frame

\* A step of the heap or its clients while the scavenger is anywhere in its pass.
LEMMA HeapBesideScavenger ==
    ASSUME ScavInv, HeapStep, NEW D, D = Range(detached)
    PROVE  HeapInv(D)' /\ Frame(D) /\ BucketsKept
<1>1. HeapInv(D)
  BY Zenon DEF ScavInv
<1>2. CASE Alloc \/ Release \/ Use
  BY <1>1, <1>2, HeapSteps, AllocKeepsBuckets, ReleaseKeepsBuckets, Zenon
<1>3. CASE Tick
  <2>1. BucketsKept
    BY <1>3, Zenon DEF Tick, BucketsKept, Owners
  <2> QED BY <1>1, <1>3, <2>1, TickStep, Zenon
<1>4. CASE phase = "off" /\ Reset
  <2>1. detached = <<>>
    BY <1>4, Zenon DEF ScavInv, DetachedOK
  <2>2. D = {}
    BY <2>1, EmptyRange, Zenon
  <2>3. HeapInv({})
    BY <1>1, <2>2, Zenon
  <2>4. HeapInv({})' /\ held' = {} /\ live' = {}
    BY <1>4, <2>3, ResetStep, Zenon
  <2>5. HeapInv(D)' /\ Frame(D)
    BY <2>2, <2>4, Zenon DEF Frame
  <2> QED BY <2>4, <2>5, Zenon DEF BucketsKept, Owners
<1> QED BY <1>2, <1>3, <1>4, Zenon DEF HeapStep

LEMMA HeapKeepsScavenger ==
    ASSUME ScavInv, HeapStep
    PROVE  ScavInv'
<1>1. PICK D : D = Range(detached)
  BY Zenon
<1>2. HeapInv(D) /\ ScavTypeOK /\ DetachedOK /\ SpareHonest
  BY <1>1, Zenon DEF ScavInv
<1>3. HeapInv(D)' /\ Frame(D) /\ BucketsKept
  BY <1>1, HeapBesideScavenger, Zenon
<1>4. /\ UNCHANGED <<phase, stop, wake, idx, now, detached, advised>>
      /\ resident' = resident \cap mapped'
  BY Zenon DEF HeapStep, thread
<1>5. ScavTypeOK'
  BY <1>2, <1>3, <1>4, Zenon DEF ScavTypeOK, HeapInv
<1>6. DetachedOK'
  BY <1>1, <1>2, <1>3, <1>4, Zenon DEF DetachedOK, Frame
<1>7. SpareHonest'
  <2> SUFFICES ASSUME NEW d \in Descriptors, Spare(d)'
               PROVE  span'[d].committed \/ PagesOf(span'[d]) \cap resident' = {}
    BY Zenon DEF SpareHonest
  <2>1. span'[d].committed \/ (Spare(d) /\ span'[d] = span[d])
    <3>1. CASE d \in D
      <4>1. Spare(d)
        BY <1>1, <1>2, <3>1, Zenon DEF Spare, HeapInv, UsedOK
      <4> QED BY <1>3, <3>1, <4>1, Zenon DEF Frame
    <3>2. CASE d \notin D
      BY <1>1, <1>3, <1>4, <3>2, Zenon DEF Spare, BucketsKept
    <3> QED BY <3>1, <3>2, Zenon
  <2> QED BY <1>2, <1>4, <2>1, Zenon DEF SpareHonest
<1> QED BY <1>1, <1>3, <1>4, <1>5, <1>6, <1>7, Zenon DEF ScavInv

LEMMA ScavInitInv ==
    ASSUME ScavInit
    PROVE  ScavInv
<1>1. HeapInv({}) /\ Owners = {}
  BY InitHeap, Zenon DEF ScavInit, Init, Owners
<1>2. /\ detached = <<>> /\ phase = "off" /\ stop = FALSE /\ wake = 0 /\ idx = 0 /\ now = 0
      /\ advised = 0 /\ resident = {}
  BY Zenon DEF ScavInit
<1>3. <<>> \in Seq(Descriptors) /\ 0 \in 0 .. Len(<<>>)
  OBVIOUS
<1>4. ScavTypeOK
  <2>1. 0 \in 0 .. MaxTime + kScavengeInterval /\ 0 \in 0 .. MaxTime /\ 0 \in 0 .. MaxPageNum
    OBVIOUS
  <2> QED BY <1>1, <1>2, <1>3, <2>1, Zenon DEF ScavTypeOK, HeapInv
<1>5. DetachedOK /\ SpareHonest
  BY <1>1, <1>2, EmptyRange, EmptyHolds, Zenon DEF DetachedOK, SpareHonest, Spare
<1> QED BY <1>1, <1>2, <1>4, <1>5, EmptyRange, Zenon DEF ScavInv

LEMMA ScavNextInv ==
    ASSUME ScavInv, [ScavNext]_vars
    PROVE  ScavInv'
  BY HeapKeepsScavenger, WriteStep, ThreadSteps, ScanStep, AdviseStep, ReattachStep, Zenon DEF ScavNext, Pass

LEMMA ScavInvariance == ScavSpec => []ScavInv
<1>1. ScavInit => ScavInv
  BY ScavInitInv, Zenon
<1>2. ScavInv /\ [ScavNext]_vars => ScavInv'
  BY ScavNextInv, Zenon
<1> QED BY <1>1, <1>2, PTL DEF ScavSpec

-----------------------------------------------------------------------------
(* Theorems *)

LEMMA ListedAre ==
    ASSUME NEW A, HeapInv(A)
    PROVE  Listed = {d \in Owners : ~span[d].used}
<1>1. \A k \in Buckets : Range(span_lists[k]) = {d \in Owners : ~span[d].used /\ span[d].num = k}
  BY Zenon DEF HeapInv, ListsOK, AllHold, Holds, Frees
<1>2. \A d \in Owners : ~span[d].used => span[d].num \in Buckets
  BY Zenon DEF HeapInv, ListsOK
<1> QED BY <1>1, <1>2 DEF Listed

LEMMA OwnerIsOne ==
    ASSUME ScavInv
    PROVE  OneOwner
<1> DEFINE parts == <<Listed, held, Range(detached), Releasing, cs.retired>>
<1>1. PICK D : D = Range(detached)
  BY Zenon
<1>2. HeapInv(D) /\ ScavTypeOK
  BY <1>1, Zenon DEF ScavInv
<1>3. Listed = {d \in Owners : ~span[d].used}
  BY <1>2, ListedAre, Zenon
<1>4. {d \in Owners : span[d].used} = held \cup D \cup Releasing /\ held \cap D = {}
      /\ Releasing \cap (held \cup D) = {}
  BY <1>2, Zenon DEF HeapInv, UsedOK
<1>5. Owners \cup cs.retired = live /\ Owners \cap cs.retired = {}
  BY <1>2, Zenon DEF HeapInv, SectionOK, Owners
<1>6. live = Listed \cup held \cup D \cup Releasing \cup cs.retired
  BY <1>3, <1>4, <1>5, Zenon
<1>7. /\ Listed \cap held = {} /\ Listed \cap D = {} /\ Listed \cap Releasing = {}
      /\ Listed \cap cs.retired = {} /\ held \cap D = {} /\ held \cap Releasing = {}
      /\ held \cap cs.retired = {} /\ D \cap Releasing = {} /\ D \cap cs.retired = {}
      /\ Releasing \cap cs.retired = {}
  BY <1>3, <1>4, <1>5, Zenon
<1>8. /\ DOMAIN parts = {1, 2, 3, 4, 5} /\ parts[1] = Listed /\ parts[2] = held /\ parts[3] = D
      /\ parts[4] = Releasing /\ parts[5] = cs.retired
  BY <1>1
<1> HIDE DEF parts
<1>9. live = UNION Range(parts)
  BY <1>6, <1>8 DEF Range
<1>10. \A i, j \in DOMAIN parts : i # j => parts[i] \cap parts[j] = {}
  <2>1. \A i, j \in {1, 2, 3, 4, 5} : i < j => parts[i] \cap parts[j] = {}
    BY <1>7, <1>8
  <2>2. \A i, j \in {1, 2, 3, 4, 5} : i # j => i < j \/ j < i
    OBVIOUS
  <2> QED BY <1>8, <2>1, <2>2
<1> QED BY <1>2, <1>9, <1>10, Zenon DEF OneOwner, Releasing, parts

\* For any sizes of the heap, interval and threshold, a live span is in exactly
\* one place: a bucket, a client, the scavenger's private list, the release in
\* progress or the list of what that has absorbed.
THEOREM OneOwnerSafety == ScavSpec => []OneOwner
<1>1. ScavInv => OneOwner
  BY OwnerIsOne, Zenon
<1> QED BY <1>1, ScavInvariance, PTL

\* A free span whose committed flag is clear has no contents left: a madvise
\* that failed never clears it, and what goes to a bucket later sets it.
THEOREM CommittedSafety == ScavSpec => []HonestCommitted
<1>1. ASSUME ScavInv PROVE HonestCommitted
  <2>1. PICK D : D = Range(detached)
    BY Zenon
  <2>2. HeapInv(D) /\ SpareHonest
    BY <1>1, <2>1, Zenon DEF ScavInv
  <2>3. Listed = {d \in Owners : ~span[d].used} /\ Owners \subseteq Descriptors
    BY <2>2, ListedAre, Zenon DEF HeapInv, TypeOK, Owners
  <2> QED BY <2>2, <2>3, Zenon DEF HonestCommitted, SpareHonest, Spare
<1>2. ScavInv => HonestCommitted
  BY <1>1, Zenon
<1> QED BY <1>2, ScavInvariance, PTL

\* Once Stop has returned, and whenever the thread waits, no span is missing
\* from the heap: the quiescent state that Stop promises.
THEOREM StopSafety == ScavSpec => []QuiescentWhenStopped
<1>1. ScavInv => QuiescentWhenStopped
  BY Zenon DEF ScavInv, DetachedOK, QuiescentWhenStopped
<1> QED BY <1>1, ScavInvariance, PTL

\* No step takes contents away from the pages of a span while a client holds it:
\* neither a madvise nor an munmap ever hits them.
THEOREM DataSafety == ScavSpec => ClientDataKept
<1>1. ASSUME ScavInv, [ScavNext]_vars, NEW d \in held \cap held'
      PROVE  PagesOf(span[d]) \cap resident \subseteq resident'
  <2>1. PICK D : D = Range(detached)
    BY Zenon
  <2>2. HeapInv(D) /\ ScavTypeOK
    BY <1>1, <2>1, Zenon DEF ScavInv
  <2>3. d \in Owners /\ d \notin D /\ D \subseteq Owners
    BY <2>2, Zenon DEF HeapInv, UsedOK
  <2>4. CASE HeapStep
    <3>1. HeapInv(D)' /\ Frame(D)
      BY <1>1, <2>1, <2>4, HeapBesideScavenger, Zenon
    <3>2. PagesOf(span'[d]) = PagesOf(span[d])
      BY <3>1, Zenon DEF Frame, PagesOf
    <3>3. d \in Owners'
      BY <3>1, Zenon DEF HeapInv, UsedOK
    <3>4. ASSUME NEW p \in PagesOf(span[d]) PROVE p \in mapped'
      <4>1. p \in PageIds
        BY <2>2, <2>3, OwnerPages, Zenon
      <4>2. d = Own(p)'
        BY <3>1, <3>2, <3>3, <4>1, Zenon DEF HeapInv, MapOK
      <4>3. page_map'[p] # NoSpan
        <5>1. d # NoSpan
          BY <2>2, <2>3, OwnerPages, Zenon
        <5>2. NoSpan \notin cs'.retired
          BY <3>1 DEF HeapInv, TypeOK, NoSpan, Descriptors
        <5> QED BY <4>2, <5>1, <5>2, Zenon DEF Own
      <4> QED BY <3>1, <4>1, <4>3, Zenon DEF HeapInv, MappedOK
    <3> QED BY <2>4, <3>4, Zenon DEF HeapStep
  <2>5. CASE Advise
    <3>1. PICK e : e = detached[advised + 1]
      BY Zenon
    <3>2. resident \ PagesOf(span[e]) \subseteq resident'
      BY <2>5, <3>1, Zenon DEF Advise
    <3>3. e \in D
      BY <2>1, <2>2, <2>5, <3>1 DEF Advise, ScavTypeOK, Range
    <3>4. PagesOf(span[d]) \cap PagesOf(span[e]) = {}
      BY <2>2, <2>3, <3>3, OwnersApart, Zenon
    <3> QED BY <3>2, <3>4, Zenon
  <2>6. CASE ~HeapStep /\ ~Advise
    <3>1. resident \subseteq resident'
      BY <1>1, <2>6, Zenon DEF ScavNext, Write, Start, RequestStop, Join, LoopExit, Pass, PassStart, Scan,
           Reattach, PassEnd, vars
    <3> QED BY <3>1, Zenon
  <2> QED BY <2>4, <2>5, <2>6, Zenon
<1>2. ScavInv /\ [ScavNext]_vars
        => [\A d \in held \cap held' : PagesOf(span[d]) \cap resident \subseteq resident']_vars
  BY <1>1, Zenon
<1> QED BY <1>2, ScavInvariance, PTL DEF ScavSpec, ClientDataKept
=============================================================================
