------------------------- MODULE ThreadCacheProofs --------------------------
(***************************************************************************)
(* The inductive invariant of ThreadCache, and what follows from it for    *)
(* any number of threads, any size classes, batches, budget, trim targets  *)
(* and number of requests: quotas stay in range and within the budget,     *)
(* lists exceed their quota by at most what OccupancyBound says, only a    *)
(* full refill raises a quota, a thread serves the newest trim request it  *)
(* can know of, the counters of reserved bytes are the sums of the quotas  *)
(* they stand for, and a trim ends at its target.                          *)
(***************************************************************************)
EXTENDS TrimHistory, FiniteSetTheorems, WellFoundedInduction, TLAPS

TrimLocs ==
    [pc : {"count", "trim"}, mode : Modes, target : Nat, cached : Int,
     idx : 0 .. NumClasses, epoch : Int, next : Places]
RequestLocs ==
    [pc : {"request"}, seen : [epoch : Int, mode : Modes], mode : Modes]

Located ==
    /\ loc \in [Threads -> Places \cup RequestLocs \cup TrimLocs]
    /\ \A t \in Threads : loc[t].pc = "count" => loc[t].idx \in Classes

Shape ==
    /\ size \in [Threads -> [Classes -> Nat]]
    /\ max_size \in [Threads -> [Classes -> Nat]]
    /\ overages \in [Threads -> [Classes -> Nat]]
    /\ reserved \in [Threads -> Int]
    /\ trim_request \in [epoch : Int, mode : Modes]
    /\ Located

InFetch(t, c) ==
    \/ loc[t] = Fetching(c)
    \/ loc[t].pc \in {"count", "trim"} /\ loc[t].next = Fetching(c)

\* The largest quota of class c: opaque below, so that no leaf meets a product.
Ceiling(c) == Batch[c] * kMaxQuotaBatches

ListOK(t, c) ==
    /\ max_size[t][c] \in 1 .. Ceiling(c)
    /\ overages[t][c] < kMaxOverages
    /\ max_size[t][c] <= Batch[c] => overages[t][c] = 0
    /\ size[t][c] <= max_size[t][c] + 2
    /\ size[t][c] = max_size[t][c] + 2 => overages[t][c] = 0 /\ InOverflow(t, c)
    /\ size[t][c] = max_size[t][c] + 1 => overages[t][c] = 0 \/ InOverflow(t, c)
    /\ InFetch(t, c) => size[t][c] = 0

ThreadOK(t) ==
    /\ reserved[t] <= cache_budget_bytes
    /\ \A c \in Classes : ListOK(t, c)

IInv == Shape /\ \A t \in Threads : ThreadOK(t)

-----------------------------------------------------------------------------
(* Sums over a finite set.                                                 *)

\* Induction over numbers, from the least number that is not in the set.
LEMMA Counting ==
    ASSUME NEW T \in SUBSET Nat, 0 \in T, \A n \in T : n + 1 \in T
    PROVE  T = Nat
<1> DEFINE R == {ss \in Nat \X Nat : ss[1] < ss[2]}
           U == Nat \ T
<1>1. IsWellFoundedOn(R, Nat)
  BY NatLessThanWellFounded, Zenon DEF OpToRel
<1> SUFFICES ASSUME U # {} PROVE FALSE
  BY Zenon
<1>2. PICK m \in U : \A y \in U : ~ (<<y, m>> \in R)
  <2>1. U \subseteq Nat
    BY Zenon
  <2> HIDE DEF R, U
  <2> QED BY <1>1, <2>1, WFMin, Zenon
<1>3. m \in Nat /\ m # 0 /\ m \notin T
  BY Zenon
<1>4. m - 1 \in Nat /\ m - 1 < m /\ m = (m - 1) + 1
  BY <1>3
<1>5. m - 1 \in T
  BY <1>2, <1>3, <1>4, Zenon
<1> QED BY <1>3, <1>4, <1>5, Zenon

\* Induction over the subsets of a finite set, one element more at a time.
LEMMA Growing ==
    ASSUME NEW S, IsFiniteSet(S), NEW T,
           \A s \in SUBSET S : (\A x \in s : s \ {x} \in T) => s \in T
    PROVE  \A s \in SUBSET S : s \in T
<1> DEFINE N == {n \in Nat : \A s \in SUBSET S : Cardinality(s) = n => s \in T}
<1>1. \A s \in SUBSET S : IsFiniteSet(s) /\ Cardinality(s) \in Nat
  BY FS_Subset, FS_CardinalityType, Zenon
<1>2. 0 \in N
  <2>1. ASSUME NEW s \in SUBSET S, Cardinality(s) = 0 PROVE s \in T
    <3>1. s = {}
      BY <1>1, <2>1, FS_EmptySet, Zenon
    <3> QED BY <3>1, Zenon
  <2> QED BY <2>1
<1>3. ASSUME NEW n \in N PROVE n + 1 \in N
  <2>1. ASSUME NEW s \in SUBSET S, Cardinality(s) = n + 1 PROVE s \in T
    <3>1. ASSUME NEW x \in s PROVE s \ {x} \in T
      <4>1. Cardinality(s \ {x}) = Cardinality(s) - 1
        BY <1>1, FS_RemoveElement, Zenon
      <4>2. Cardinality(s \ {x}) = n
        BY <2>1, <4>1
      <4> QED BY <4>2, Zenon
    <3> QED BY <3>1, Zenon
  <2>2. n + 1 \in Nat
    OBVIOUS
  <2> QED BY <2>1, <2>2, Zenon
<1>4. N = Nat
  <2>1. N \in SUBSET Nat
    BY Zenon
  <2> HIDE DEF N
  <2> QED BY <1>2, <1>3, <2>1, Counting, Zenon
<1> QED BY <1>1, <1>4, Zenon

First(s) == CHOOSE x \in s : TRUE
Recurs(g, h, D) == h = [s \in D |-> IF s = {} THEN 0 ELSE g[First(s)] + h[s \ {First(s)}]]

LEMMA FirstIn == ASSUME NEW s, s # {} PROVE First(s) \in s
BY Zenon DEF First

\* The recursion that defines a sum has a solution: layer by layer.
LEMMA Solvable ==
    ASSUME NEW S, IsFiniteSet(S), NEW g
    PROVE  \E h : Recurs(g, h, SUBSET S)
<1> DEFINE L(n) == {s \in SUBSET S : Cardinality(s) <= n}
           N == {n \in Nat : \E h : Recurs(g, h, L(n))}
<1>1. \A s \in SUBSET S : IsFiniteSet(s) /\ Cardinality(s) \in Nat
  BY FS_Subset, FS_CardinalityType, Zenon
<1>2. 0 \in N
  <2>1. \A s \in L(0) : s = {}
    <3>1. ASSUME NEW s \in L(0) PROVE s = {}
      <4>1. Cardinality(s) = 0
        BY <1>1
      <4> QED BY <1>1, <4>1, FS_EmptySet, Zenon
    <3> QED BY <3>1, Zenon
  <2>2. Recurs(g, [s \in L(0) |-> 0], L(0))
    <3> HIDE DEF L
    <3> QED BY <2>1, Zenon DEF Recurs
  <2> QED BY <2>2
<1>3. ASSUME NEW n \in N PROVE n + 1 \in N
  <2>1. PICK h : Recurs(g, h, L(n))
    BY Zenon
  <2> DEFINE k == [s \in L(n + 1) |-> IF s = {} THEN 0 ELSE g[First(s)] + h[s \ {First(s)}]]
  <2>2. L(n) \subseteq L(n + 1)
    BY <1>1
  <2>3. ASSUME NEW s \in L(n) PROVE k[s] = h[s]
    <3> HIDE DEF L
    <3> QED BY <2>1, <2>2, Zenon DEF Recurs
  <2>4. ASSUME NEW s \in L(n + 1), s # {} PROVE s \ {First(s)} \in L(n)
    <3>1. Cardinality(s \ {First(s)}) = Cardinality(s) - 1
      BY <1>1, <2>4, FirstIn, FS_RemoveElement, Zenon
    <3>2. Cardinality(s \ {First(s)}) <= n
      BY <1>1, <3>1
    <3>3. s \ {First(s)} \in SUBSET S
      BY Zenon
    <3> QED BY <3>2, <3>3, Zenon
  <2>5. Recurs(g, k, L(n + 1))
    <3>1. \A s \in L(n + 1) : s # {} => k[s \ {First(s)}] = h[s \ {First(s)}]
      BY <2>3, <2>4, Zenon
    <3>2. [s \in L(n + 1) |-> IF s = {} THEN 0 ELSE g[First(s)] + h[s \ {First(s)}]]
          = [s \in L(n + 1) |-> IF s = {} THEN 0 ELSE g[First(s)] + k[s \ {First(s)}]]
      <4> HIDE DEF L, k
      <4> QED BY <3>1
    <3> QED BY <3>2, Zenon DEF Recurs
  <2>6. n + 1 \in Nat
    OBVIOUS
  <2> QED BY <2>5, <2>6, Zenon
<1>4. N = Nat
  <2>1. N \in SUBSET Nat
    BY Zenon
  <2> HIDE DEF N
  <2> QED BY <1>2, <1>3, <2>1, Counting, Zenon
<1>5. L(Cardinality(S)) = SUBSET S
  BY FS_Subset, Zenon
<1>6. Cardinality(S) \in N
  BY <1>4, FS_CardinalityType, Zenon
<1> QED BY <1>5, <1>6, Zenon

LEMMA TotalRecurs ==
    ASSUME NEW S, IsFiniteSet(S), NEW g
    PROVE  \E h : Recurs(g, h, SUBSET S) /\ Total(g, S) = h[S]
<1> DEFINE iter == CHOOSE h : Recurs(g, h, SUBSET S)
<1>1. Recurs(g, iter, SUBSET S)
  BY Solvable, Zenon
<1>2. Total(g, S) = iter[S]
  BY DEF Total, MapThenSumSet, MapThenFoldSet, Recurs, First
<1> QED BY <1>1, <1>2
\* h sums g over the subsets of S, whatever element is taken out first.
Sums(g, S, h) ==
    /\ h \in [SUBSET S -> Int]
    /\ h[{}] = 0
    /\ \A s \in SUBSET S : \A x \in s : h[s] = g[x] + h[s \ {x}]

LEMMA Swap ==
    ASSUME NEW a \in Int, NEW b \in Int, NEW c \in Int PROVE a + (b + c) = b + (a + c)
OBVIOUS

LEMMA TotalSums ==
    ASSUME NEW S, IsFiniteSet(S), NEW g \in [S -> Int]
    PROVE  \E h : Sums(g, S, h) /\ Total(g, S) = h[S]
<1>1. PICK h : Recurs(g, h, SUBSET S) /\ Total(g, S) = h[S]
  BY TotalRecurs, Zenon
<1>2. h[{}] = 0
  BY <1>1, Zenon DEF Recurs
<1>3. ASSUME NEW s \in SUBSET S, s # {}
      PROVE  First(s) \in s /\ h[s] = g[First(s)] + h[s \ {First(s)}]
  BY <1>1, <1>3, FirstIn, Zenon DEF Recurs
<1>4. \A s \in SUBSET S : h[s] \in Int
  <2> DEFINE T == {s \in SUBSET S : h[s] \in Int}
  <2>1. ASSUME NEW s \in SUBSET S, \A x \in s : s \ {x} \in T PROVE s \in T
    <3>1. CASE s = {}
      BY <1>2, <3>1
    <3>2. CASE s # {}
      <4>1. h[s \ {First(s)}] \in Int /\ g[First(s)] \in Int
        BY <1>3, <2>1, <3>2, Zenon
      <4>2. h[s] \in Int
        BY <1>3, <3>2, <4>1
      <4> QED BY <4>2, Zenon
    <3> QED BY <3>1, <3>2, Zenon
  <2>2. \A s \in SUBSET S : s \in T
    <3> HIDE DEF T
    <3> QED BY <2>1, Growing, Zenon
  <2> QED BY <2>2, Zenon
<1>5. \A s \in SUBSET S : \A x \in s : h[s] = g[x] + h[s \ {x}]
  <2> DEFINE T == {s \in SUBSET S : \A x \in s : h[s] = g[x] + h[s \ {x}]}
  <2>1. ASSUME NEW s \in SUBSET S, \A x \in s : s \ {x} \in T PROVE s \in T
    <3>1. ASSUME NEW x \in s PROVE h[s] = g[x] + h[s \ {x}]
      <4>1. PICK y \in s : h[s] = g[y] + h[s \ {y}]
        BY <1>3, Zenon
      <4>2. CASE x = y
        BY <4>1, <4>2, Zenon
      <4>3. CASE x # y
        <5>1. x \in s \ {y} /\ y \in s \ {x}
          BY <4>3, Zenon
        <5>2. h[s \ {y}] = g[x] + h[(s \ {y}) \ {x}]
          BY <2>1, <5>1, Zenon
        <5>3. h[s \ {x}] = g[y] + h[(s \ {x}) \ {y}]
          BY <2>1, <5>1, Zenon
        <5>4. (s \ {y}) \ {x} = (s \ {x}) \ {y} /\ (s \ {x}) \ {y} \in SUBSET S
          BY Zenon
        <5>5. g[x] \in Int /\ g[y] \in Int /\ h[(s \ {x}) \ {y}] \in Int
          BY <1>4, <5>4, Zenon
        <5>6. PICK c : c = h[(s \ {x}) \ {y}]
          BY Zenon
        <5>7. h[s] = g[y] + (g[x] + c) /\ h[s \ {x}] = g[y] + c /\ c \in Int
          <6> HIDE DEF T
          <6> QED BY <4>1, <5>2, <5>3, <5>4, <5>5, <5>6, Zenon
        <5> HIDE DEF T
        <5>8. g[y] + (g[x] + c) = g[x] + (g[y] + c)
          BY <5>5, <5>7, Swap
        <5> QED BY <5>7, <5>8, Zenon
      <4> QED BY <4>2, <4>3, Zenon
    <3> QED BY <3>1, Zenon
  <2>2. \A s \in SUBSET S : s \in T
    <3> HIDE DEF T
    <3> QED BY <2>1, Growing, Zenon
  <2> QED BY <2>2, Zenon
<1>6. h \in [SUBSET S -> Int]
  <2> DEFINE k == [s \in SUBSET S |-> IF s = {} THEN 0 ELSE g[First(s)] + h[s \ {First(s)}]]
  <2>1. k = h
    BY <1>1, Zenon DEF Recurs
  <2>2. \A s \in SUBSET S : k[s] \in Int
    BY <1>4, <2>1, Zenon
  <2>3. k \in [SUBSET S -> Int]
    BY <2>2
  <2> QED BY <2>1, <2>3, Zenon
<1> QED BY <1>1, <1>2, <1>5, <1>6, Zenon DEF Sums

LEMMA TotalInt ==
    ASSUME NEW S, IsFiniteSet(S), NEW g \in [S -> Int]
    PROVE  Total(g, S) \in Int
<1>1. PICK h : Sums(g, S, h) /\ Total(g, S) = h[S]
  BY TotalSums, Zenon
<1>2. h \in [SUBSET S -> Int] /\ S \in SUBSET S
  BY <1>1, Zenon DEF Sums
<1>3. h[S] \in Int
  BY <1>2, Zenon
<1> QED BY <1>1, <1>3, Zenon

\* A term that changes changes the sum by as much.
LEMMA TotalChange ==
    ASSUME NEW S, IsFiniteSet(S), NEW f \in [S -> Int], NEW g \in [S -> Int], NEW a \in S,
           \A x \in S : x # a => g[x] = f[x]
    PROVE  Total(g, S) = Total(f, S) + (g[a] - f[a])
<1>1. PICK h : Sums(f, S, h) /\ Total(f, S) = h[S]
  BY TotalSums, Zenon
<1>2. PICK k : Sums(g, S, k) /\ Total(g, S) = k[S]
  BY TotalSums, Zenon
<1>3. \A s \in SUBSET S : a \notin s => k[s] = h[s]
  <2> DEFINE T == {s \in SUBSET S : a \notin s => k[s] = h[s]}
  <2>1. ASSUME NEW s \in SUBSET S, \A x \in s : s \ {x} \in T PROVE s \in T
    <3>1. CASE s = {}
      BY <1>1, <1>2, <3>1, Zenon DEF Sums
    <3>2. CASE a \in s
      BY <3>2, Zenon
    <3>3. ASSUME s # {}, a \notin s PROVE s \in T
      <4>1. PICK x \in s : TRUE
        BY <3>3, Zenon
      <4>2. k[s \ {x}] = h[s \ {x}] /\ g[x] = f[x]
        BY <2>1, <3>3, Zenon
      <4>3. k[s] = g[x] + k[s \ {x}] /\ h[s] = f[x] + h[s \ {x}]
        BY <1>1, <1>2, Zenon DEF Sums
      <4> QED BY <4>2, <4>3, Zenon
    <3> QED BY <3>1, <3>2, <3>3, Zenon
  <2>2. \A s \in SUBSET S : s \in T
    <3> HIDE DEF T
    <3> QED BY <2>1, Growing, Zenon
  <2> QED BY <2>2, Zenon
<1>4. h[S] = f[a] + h[S \ {a}] /\ k[S] = g[a] + k[S \ {a}] /\ h[S \ {a}] \in Int
  BY <1>1, <1>2, Zenon DEF Sums
<1>5. k[S \ {a}] = h[S \ {a}]
  BY <1>3, Zenon
<1>6. f[a] \in Int /\ g[a] \in Int
  BY Zenon
<1> QED BY <1>1, <1>2, <1>4, <1>5, <1>6

\* Larger terms have a larger sum, also on every part of the set.
LEMMA TotalMonotone ==
    ASSUME NEW S, IsFiniteSet(S), NEW f \in [S -> Int], NEW g \in [S -> Int],
           \A x \in S : f[x] <= g[x]
    PROVE  Total(f, S) <= Total(g, S)
<1>1. PICK h : Sums(f, S, h) /\ Total(f, S) = h[S]
  BY TotalSums, Zenon
<1>2. PICK k : Sums(g, S, k) /\ Total(g, S) = k[S]
  BY TotalSums, Zenon
<1>3. \A s \in SUBSET S : h[s] <= k[s]
  <2> DEFINE T == {s \in SUBSET S : h[s] <= k[s]}
  <2>1. ASSUME NEW s \in SUBSET S, \A x \in s : s \ {x} \in T PROVE s \in T
    <3>1. CASE s = {}
      <4>1. h[s] = 0 /\ k[s] = 0
        BY <1>1, <1>2, <3>1, Zenon DEF Sums
      <4>2. h[s] <= k[s]
        BY <4>1
      <4> QED BY <4>2, Zenon
    <3>2. CASE s # {}
      <4>1. PICK x \in s : TRUE
        BY <3>2, Zenon
      <4>2. h[s \ {x}] <= k[s \ {x}] /\ f[x] <= g[x] /\ f[x] \in Int /\ g[x] \in Int
        BY <2>1, Zenon
      <4>3. k[s] = g[x] + k[s \ {x}] /\ h[s] = f[x] + h[s \ {x}]
            /\ h[s \ {x}] \in Int /\ k[s \ {x}] \in Int
        BY <1>1, <1>2, Zenon DEF Sums
      <4>4. h[s] <= k[s]
        BY <4>2, <4>3
      <4> QED BY <4>4, Zenon
    <3> QED BY <3>1, <3>2, Zenon
  <2>2. \A s \in SUBSET S : s \in T
    <3> HIDE DEF T
    <3> QED BY <2>1, Growing, Zenon
  <2> QED BY <2>2, Zenon
<1> QED BY <1>1, <1>2, <1>3, Zenon

LEMMA TotalZero ==
    ASSUME NEW S, IsFiniteSet(S) PROVE Total([x \in S |-> 0], S) = 0
<1> DEFINE z == [x \in S |-> 0]
<1>1. z \in [S -> Int] /\ \A x \in S : z[x] = 0
  OBVIOUS
<1> HIDE DEF z
<1>2. PICK h : Sums(z, S, h) /\ Total(z, S) = h[S]
  BY <1>1, TotalSums, Zenon
<1> DEFINE T == {s \in SUBSET S : h[s] = 0}
<1>3. ASSUME NEW s \in SUBSET S, \A x \in s : s \ {x} \in T PROVE s \in T
  <2>1. CASE s = {}
    BY <1>2, <2>1, Zenon DEF Sums
  <2>2. CASE s # {}
    <3>1. PICK x \in s : TRUE
      BY <2>2, Zenon
    <3>2. h[s \ {x}] = 0 /\ z[x] = 0 /\ h[s] = z[x] + h[s \ {x}]
      BY <1>1, <1>2, <1>3, Zenon DEF Sums
    <3>3. h[s] = 0
      BY <3>2
    <3> QED BY <3>3, Zenon
  <2> QED BY <2>1, <2>2, Zenon
<1>4. \A s \in SUBSET S : s \in T
  <2> HIDE DEF T
  <2> QED BY <1>3, Growing, Zenon
<1>5. h[S] = 0
  BY <1>4, Zenon
<1> QED BY <1>2, <1>5, Zenon DEF z

\* A sum of natural numbers bounds each of them.
LEMMA TermBelowTotal ==
    ASSUME NEW S, IsFiniteSet(S), NEW g \in [S -> Nat], NEW a \in S
    PROVE  g[a] <= Total(g, S) /\ Total(g, S) \in Nat
<1> DEFINE f == [g EXCEPT ![a] = 0]
           z == [x \in S |-> 0]
<1>1. f \in [S -> Int] /\ g \in [S -> Int] /\ z \in [S -> Int] /\ f[a] = 0 /\ g[a] \in Nat
      /\ (\A x \in S : x # a => f[x] = g[x]) /\ \A x \in S : z[x] <= f[x]
  OBVIOUS
<1>2. Total(z, S) = 0
  BY TotalZero, Zenon
<1> HIDE DEF f, z
<1>3. Total(f, S) = Total(g, S) + (f[a] - g[a])
  BY <1>1, TotalChange, Zenon
<1>4. Total(z, S) <= Total(f, S)
  BY <1>1, TotalMonotone, Zenon
<1>5. Total(g, S) \in Int /\ Total(f, S) \in Int
  BY <1>1, TotalInt, Zenon
<1> QED BY <1>1, <1>2, <1>3, <1>4, <1>5

\* Sums of bytes over the size classes.
LEMMA ClassesFinite == IsFiniteSet(Classes)
BY ClassesAssumption, FS_Interval DEF Classes

LEMMA SumInt ==
    ASSUME NEW f \in [Classes -> Int] PROVE SumOver(f) \in Int
<1>1. [c \in Classes |-> f[c] * ClassSize[c]] \in [Classes -> Int]
  BY ClassesAssumption
<1> QED BY <1>1, ClassesFinite, TotalInt, Zenon DEF SumOver

\* One entry changes.
LEMMA SumChange ==
    ASSUME NEW f \in [Classes -> Int], NEW c \in Classes, NEW n \in Int
    PROVE  SumOver([f EXCEPT ![c] = n]) = SumOver(f) + (n - f[c]) * ClassSize[c]
<1> DEFINE g == [f EXCEPT ![c] = n]
           F == [d \in Classes |-> f[d] * ClassSize[d]]
           G == [d \in Classes |-> g[d] * ClassSize[d]]
<1>1. ClassSize[c] \in Nat /\ f[c] \in Int
  BY ClassesAssumption
<1>2. F \in [Classes -> Int] /\ G \in [Classes -> Int]
  BY ClassesAssumption
<1>3. \A d \in Classes : d # c => G[d] = F[d]
  BY Zenon
<1>4. G[c] = n * ClassSize[c] /\ F[c] = f[c] * ClassSize[c]
  BY Zenon
<1>5. SumOver(g) = Total(G, Classes) /\ SumOver(f) = Total(F, Classes)
  BY Zenon DEF SumOver
<1>6. n * ClassSize[c] - f[c] * ClassSize[c] = (n - f[c]) * ClassSize[c]
  BY <1>1
<1> HIDE DEF g, F, G
<1>7. Total(G, Classes) = Total(F, Classes) + (G[c] - F[c])
  BY <1>2, <1>3, ClassesFinite, TotalChange, Zenon
<1>8. SumOver(g) = SumOver(f) + (n - f[c]) * ClassSize[c]
  BY <1>4, <1>5, <1>6, <1>7, Zenon
<1> QED BY <1>8 DEF g

LEMMA SumMonotone ==
    ASSUME NEW f \in [Classes -> Int], NEW g \in [Classes -> Int], \A c \in Classes : f[c] <= g[c]
    PROVE  SumOver(f) <= SumOver(g)
<1> DEFINE F == [d \in Classes |-> f[d] * ClassSize[d]]
           G == [d \in Classes |-> g[d] * ClassSize[d]]
<1>1. F \in [Classes -> Int] /\ G \in [Classes -> Int]
  BY ClassesAssumption
<1>2. ASSUME NEW c \in Classes PROVE F[c] <= G[c]
  <2>1. ClassSize[c] \in Nat /\ f[c] \in Int /\ g[c] \in Int /\ f[c] <= g[c]
    BY ClassesAssumption
  <2>2. f[c] * ClassSize[c] <= g[c] * ClassSize[c]
    BY <2>1
  <2> QED BY <2>2, Zenon
<1>3. SumOver(g) = Total(G, Classes) /\ SumOver(f) = Total(F, Classes)
  BY Zenon DEF SumOver
<1> HIDE DEF F, G
<1> QED BY <1>1, <1>2, <1>3, ClassesFinite, TotalMonotone, Zenon

\* A sum of natural numbers bounds each term.
LEMMA SumNat ==
    ASSUME NEW f \in [Classes -> Nat], NEW c \in Classes
    PROVE  SumOver(f) \in Nat /\ f[c] * ClassSize[c] <= SumOver(f)
<1> DEFINE F == [d \in Classes |-> f[d] * ClassSize[d]]
<1>1. F \in [Classes -> Nat]
  BY ClassesAssumption
<1>2. SumOver(f) = Total(F, Classes) /\ F[c] = f[c] * ClassSize[c]
  BY Zenon DEF SumOver
<1> HIDE DEF F
<1>3. F[c] <= Total(F, Classes) /\ Total(F, Classes) \in Nat
  BY <1>1, ClassesFinite, TermBelowTotal, Zenon
<1> QED BY <1>2, <1>3, Zenon

LEMMA SumOfZeros ==
    ASSUME NEW f \in [Classes -> Nat], \A c \in Classes : f[c] = 0
    PROVE  SumOver(f) = 0
<1>1. [c \in Classes |-> f[c] * ClassSize[c]] = [c \in Classes |-> 0]
  BY ClassesAssumption
<1> QED BY <1>1, ClassesFinite, TotalZero, Zenon DEF SumOver

LEMMA BytesNat == InitialReservedQuotaBytes \in Nat
<1>1. [c \in Classes |-> 1] \in [Classes -> Nat] /\ 1 \in Classes
  BY ClassesAssumption DEF Classes
<1> QED BY <1>1, SumNat, Zenon DEF InitialReservedQuotaBytes

-----------------------------------------------------------------------------
(* The functions the quotas are computed with.                             *)

\* The budget is a number, and at least one object per class.
LEMMA BudgetNat ==
    cache_budget_bytes \in Int /\ InitialReservedQuotaBytes <= cache_budget_bytes
  BY BytesNat, PolicyAssumption DEF cache_budget_bytes, Greater

\* A quota ceiling is at least the batch it is a multiple of.
LEMMA CeilingAboveBatch ==
    ASSUME NEW b \in Nat, NEW k \in Nat \ {0}
    PROVE  b * k \in Nat /\ b <= b * k
<1>1. PICK j \in Nat : k = j + 1
  BY SMT
<1>2. b * k = b * j + b
  BY <1>1, SMT
<1>3. b * j \in Nat
  BY <1>1, SMT
<1> QED BY <1>2, <1>3

\* The ceiling of a class is a number, and no less than its batch.
LEMMA CeilingNat ==
    ASSUME NEW c \in Classes
    PROVE  Ceiling(c) \in Nat /\ Batch[c] \in Nat \ {0, 1} /\ Batch[c] <= Ceiling(c)
<1>1. Batch[c] \in Nat \ {0, 1}
  BY ClassesAssumption, Zenon
<1>2. Batch[c] * kMaxQuotaBatches \in Nat /\ Batch[c] <= Batch[c] * kMaxQuotaBatches
  BY <1>1, PolicyAssumption, CeilingAboveBatch, Zenon
<1> QED BY <1>1, <1>2, Zenon DEF Ceiling

\* Division by a positive number keeps a natural number natural.
LEMMA QuotientNat ==
    ASSUME NEW a \in Nat, NEW d \in Nat \ {0}
    PROVE  a \div d \in Nat
  BY SMT

\* A refill never lowers a quota and never lifts it over the ceiling.
LEMMA RefillInRange ==
    ASSUME NEW b \in Nat \ {0, 1}, NEW m \in 1 .. b * kMaxQuotaBatches
    PROVE  /\ NextAfterRefill(m, b) \in 1 .. b * kMaxQuotaBatches
           /\ m <= NextAfterRefill(m, b)
<1>1. b * kMaxQuotaBatches \in Nat /\ b <= b * kMaxQuotaBatches
  BY CeilingAboveBatch, PolicyAssumption, Zenon
<1>2. b \div kMaxQuotaBatches \in Nat
  BY QuotientNat, PolicyAssumption, Zenon
<1> DEFINE top == b * kMaxQuotaBatches
<1> DEFINE inc == b \div kMaxQuotaBatches
<1>3. top \in Nat /\ b <= top /\ inc \in Nat /\ m \in 1 .. top
  BY <1>1, <1>2, Zenon
<1>4. NextAfterRefill(m, b) =
        IF m < b THEN Lesser(b, m + Greater(1, m))
        ELSE IF m < top THEN Lesser(top, m + Greater(1, inc)) ELSE m
  BY Zenon DEF NextAfterRefill
<1> HIDE DEF top, inc
<1>5. NextAfterRefill(m, b) \in 1 .. top /\ m <= NextAfterRefill(m, b)
  BY <1>3, <1>4 DEF Lesser, Greater
<1> QED BY <1>5, Zenon DEF top

\* A trim evicts between nothing and everything a list holds.
LEMMA EvictInRange ==
    ASSUME Shape, NEW t \in Threads, NEW c \in Classes, NEW m \in Modes,
           NEW cached \in Int, NEW target \in Nat
    PROVE  EvictCount(t, c, m, cached, target) \in 0 .. size[t][c]
<1> DEFINE asked == (cached - target + ClassSize[c] - 1) \div ClassSize[c]
<1>1. size[t][c] \in Nat /\ Batch[c] \in Nat /\ ClassSize[c] \in Nat \ {0}
  BY ClassesAssumption DEF Shape
<1>2. Evictable(t, c, m) \in 0 .. size[t][c]
  BY <1>1 DEF Evictable, Lesser
<1>3. CASE cached > target
  <2>1. cached - target + ClassSize[c] - 1 \in Nat
    BY <1>1, <1>3
  <2>2. asked \in Nat
    BY <2>1, <1>1, QuotientNat, Zenon
  <2> HIDE DEF asked
  <2>3. Lesser(Evictable(t, c, m), asked) \in 0 .. size[t][c]
    BY <2>2, <1>1, <1>2 DEF Lesser
  <2> QED BY <2>3, <1>3, Zenon DEF EvictCount, asked
<1>4. CASE ~(cached > target)
  BY <1>1, <1>4 DEF EvictCount
<1> QED BY <1>3, <1>4, Zenon

\* A trim lowers a quota to no less than what the list keeps, and a reuse trim
\* to no less than a batch.
LEMMA ContractedInRange ==
    ASSUME NEW t, NEW c, NEW m, NEW s \in Nat,
           max_size[t][c] \in Nat, max_size[t][c] >= 1, Batch[c] \in Nat \ {0, 1}
    PROVE  LET n == ContractedQuota(t, c, m, s)
           IN  /\ n \in 1 .. max_size[t][c]
               /\ n < max_size[t][c] => s <= n /\ (m = kRelease \/ max_size[t][c] > Batch[c])
               /\ m # kRelease /\ max_size[t][c] > Batch[c] => n >= Batch[c]
<1> DEFINE x == max_size[t][c]
           b == Batch[c]
<1>1. x \in Nat /\ x >= 1 /\ b \in Nat \ {0, 1}
  BY Zenon
<1>2. ContractedQuota(t, c, m, s) =
        IF m = kRelease THEN Lesser(x, Greater(1, s))
        ELSE IF x > b THEN Lesser(x, Greater(b, s)) ELSE x
  BY Zenon DEF ContractedQuota
<1> HIDE DEF x, b
<1>3. LET n == ContractedQuota(t, c, m, s)
      IN  /\ n \in 1 .. x
          /\ n < x => s <= n /\ (m = kRelease \/ x > b)
          /\ m # kRelease /\ x > b => n >= b
  <2>1. CASE m = kRelease
    BY <1>1, <1>2, <2>1 DEF Lesser, Greater
  <2>2. CASE m # kRelease /\ x > b
    BY <1>1, <1>2, <2>2 DEF Lesser, Greater
  <2>3. CASE m # kRelease /\ ~(x > b)
    BY <1>1, <1>2, <2>3
  <2> QED BY <2>1, <2>2, <2>3, Zenon
<1> QED BY <1>3, Zenon DEF x, b

-----------------------------------------------------------------------------
(* The inductive invariant.                                                *)

\* It holds initially.
LEMMA InitInv == Init => IInv
<1> SUFFICES ASSUME Init PROVE IInv
  BY Zenon
<1>1. Dead \in Places
  BY Zenon DEF Places
<1>2. Shape
  BY <1>1 DEF Init, Shape, Located, Dead, Modes, kReuse
<1>3. ASSUME NEW t \in Threads, NEW c \in Classes PROVE ListOK(t, c)
  <2>1. Batch[c] \in Nat \ {0, 1} /\ Batch[c] <= Ceiling(c)
        /\ Ceiling(c) \in Nat
    BY CeilingNat, Zenon
  <2>2. loc[t] = Dead /\ size[t][c] = 0 /\ max_size[t][c] = 1 /\ overages[t][c] = 0
    BY Zenon DEF Init
  <2> QED BY <2>1, <2>2, PolicyAssumption DEF ListOK
<1>4. \A t \in Threads : reserved[t] <= cache_budget_bytes
  BY BudgetNat, BytesNat DEF Init
<1> QED BY <1>2, <1>3, <1>4, Zenon DEF IInv, ThreadOK

\* A step of thread t leaves the caches of the others alone.
LEMMA OthersUntouched ==
    ASSUME Shape, NEW t \in Threads, Step(t), NEW u \in Threads \ {t}
    PROVE  /\ size'[u] = size[u] /\ max_size'[u] = max_size[u]
           /\ overages'[u] = overages[u] /\ reserved'[u] = reserved[u]
           /\ loc'[u] = loc[u]
<1> USE DEF Shape, Located, lists, quotas, Goto
<1>1. CASE Construct(t) \/ Exit(t)
  BY <1>1, Zenon DEF Construct, Exit
<1>2. CASE (\E m \in Modes : RequestGlobalTrim(t, m)) \/ RequestCas(t) \/ RequestRetry(t)
  BY <1>2, Zenon DEF RequestGlobalTrim, RequestCas, RequestRetry
<1>3. CASE (\E m \in Modes, n \in OwnerTargets : Trim(t, m, n))
           \/ am_thread_cache_trim(t) \/ am_thread_cache_trim_own(t)
  BY <1>3, Zenon DEF Trim, am_thread_cache_trim, am_thread_cache_trim_own, HandleGlobalTrimRequest
<1>4. CASE CachedBytesSnapshot(t) \/ TrimEnd(t)
  BY <1>4, Zenon DEF CachedBytesSnapshot, TrimEnd
<1>5. CASE TrimClass(t)
  BY <1>5, Zenon DEF TrimClass, SetSize, SetQuota, SetOverages
<1>6. CASE \E c \in Classes : Allocate(t, c) \/ FetchFromCentralCache(t, c) \/ Deallocate(t, c)
  BY <1>6 DEF Allocate, FetchFromCentralCache, Deallocate, SetSize, HandleGlobalTrimRequest
<1>7. CASE AcceptFetchedBatch(t)
  BY <1>7 DEF AcceptFetchedBatch, SetSize, SetQuota, SetOverages
<1>8. CASE DeallocateSlowPath(t)
  BY <1>8 DEF DeallocateSlowPath, SetSize, SetQuota, SetOverages
<1> QED BY <1>1, <1>2, <1>3, <1>4, <1>5, <1>6, <1>7, <1>8, Zenon DEF Step

\* A control step to a proper location.
LEMMA GotoLocated ==
    ASSUME Located, NEW t \in Threads, NEW l \in Places \cup RequestLocs \cup TrimLocs,
           l.pc = "count" => l.idx \in Classes, Goto(t, l)
    PROVE  Located' /\ loc'[t] = l
  BY Zenon DEF Located, Goto

\* Where thread t is after HandleGlobalTrimRequest on the way to next: at next,
\* or in a trim that leads there.
LEMMA HandleLeadsTo ==
    ASSUME Shape, NEW t \in Threads, NEW next \in Places, next.pc # "count",
           HandleGlobalTrimRequest(t, next)
    PROVE  /\ Located'
           /\ \/ loc'[t] = next
              \/ loc'[t].pc = "count" /\ loc'[t].next = next
<1>1. PICK m : m = trim_request.mode
  BY Zenon
<1>2. PICK l : l = Trimming(m, TrimTargetForMode(m), trim_request.epoch, next)
  BY Zenon
<1>3. m \in Modes /\ trim_request.epoch \in Int /\ Located
  BY <1>1, Zenon DEF Shape
<1>4. TrimTargetForMode(m) \in Nat
  BY PolicyAssumption, Zenon DEF TrimTargetForMode
<1>5. l \in TrimLocs /\ l.pc = "count" /\ l.next = next /\ l.idx \in Classes
  BY <1>2, <1>3, <1>4, ClassesAssumption DEF Trimming, TrimLocs, Classes
<1>6. Goto(t, next) \/ Goto(t, l)
  BY <1>1, <1>2, Zenon DEF HandleGlobalTrimRequest
<1> QED BY <1>3, <1>5, <1>6, GotoLocated, Zenon

\* A step that only moves t's control keeps t's lists in order, as long as it
\* stays in the overflow it was in and enters a refill with an empty list.
LEMMA MoveKeeps ==
    ASSUME IInv, NEW t \in Threads, UNCHANGED <<lists, reserved>>,
           trim_request' \in [epoch : Int, mode : Modes], Located',
           \A c \in Classes : InOverflow(t, c) => InOverflow(t, c)',
           \A c \in Classes : InFetch(t, c)' => InFetch(t, c) \/ size[t][c] = 0
    PROVE  Shape' /\ ThreadOK(t)'
<1>1. Shape /\ ThreadOK(t)
  BY Zenon DEF IInv
<1>2. size' = size /\ max_size' = max_size /\ overages' = overages
  BY Zenon DEF lists
<1>3. ASSUME NEW c \in Classes PROVE ListOK(t, c)'
  <2>1. ListOK(t, c) /\ (InOverflow(t, c) => InOverflow(t, c)')
        /\ (InFetch(t, c)' => InFetch(t, c) \/ size[t][c] = 0)
    BY <1>1, Zenon DEF ThreadOK
  <2> QED BY <1>2, <2>1, Zenon DEF ListOK
<1> QED BY <1>1, <1>2, <1>3, Zenon DEF Shape, ThreadOK

\* The new table of a thread's lists is the old one with the entry of class c
\* set to v.
SetsTo(new, old, t, c, v) ==
    /\ new \in [Threads -> [Classes -> Nat]]
    /\ \A d \in Classes : new[t][d] = IF d = c THEN v ELSE old[t][d]

LEMMA EntrySet ==
    ASSUME NEW f \in [Threads -> [Classes -> Nat]], NEW t \in Threads, NEW c \in Classes,
           NEW v \in Nat
    PROVE  SetsTo([f EXCEPT ![t][c] = v], f, t, c, v) /\ SetsTo(f, f, t, c, f[t][c])
<1>1. [f EXCEPT ![t][c] = v] \in [Threads -> [Classes -> Nat]]
  BY Zenon
<1> QED BY <1>1, Zenon DEF SetsTo

\* A step that changes one list keeps the others in order; what it does to its
\* own list is left to show.
LEMMA OneList ==
    ASSUME IInv, NEW t \in Threads, NEW c \in Classes, NEW s, NEW n, NEW o,
           SetsTo(size', size, t, c, s), SetsTo(max_size', max_size, t, c, n),
           SetsTo(overages', overages, t, c, o),
           reserved' \in [Threads -> Int], reserved'[t] <= cache_budget_bytes,
           UNCHANGED trim_request, Located',
           \A d \in Classes \ {c} : InOverflow(t, d) => InOverflow(t, d)',
           \A d \in Classes \ {c} : InFetch(t, d)' => InFetch(t, d),
           size'[t][c] = s /\ max_size'[t][c] = n /\ overages'[t][c] = o => ListOK(t, c)'
    PROVE  Shape' /\ ThreadOK(t)'
<1>1. Shape /\ ThreadOK(t)
  BY Zenon DEF IInv
<1>2. ListOK(t, c)'
  BY Zenon DEF SetsTo
<1>3. ASSUME NEW d \in Classes \ {c} PROVE ListOK(t, d)'
  <2>1. /\ size'[t][d] = size[t][d] /\ max_size'[t][d] = max_size[t][d]
        /\ overages'[t][d] = overages[t][d]
    BY Zenon DEF SetsTo
  <2>2. ListOK(t, d) /\ (InOverflow(t, d) => InOverflow(t, d)')
        /\ (InFetch(t, d)' => InFetch(t, d))
    BY <1>1, Zenon DEF ThreadOK
  <2> QED BY <2>1, <2>2, Zenon DEF ListOK
<1> QED BY <1>1, <1>2, <1>3 DEF Shape, ThreadOK, SetsTo

\* Construction, exit and trim requests.
LEMMA LifeAndRequestInv ==
    ASSUME IInv, NEW t \in Threads,
           \/ Construct(t) \/ Exit(t) \/ (\E m \in Modes : RequestGlobalTrim(t, m))
           \/ RequestCas(t) \/ RequestRetry(t)
    PROVE  Shape' /\ ThreadOK(t)'
<1>0. Shape /\ Located
  BY Zenon DEF IInv, Shape
<1>p. Dead \in Places /\ Idle \in Places /\ Dead.pc = "dead" /\ Idle.pc = "idle"
  BY Zenon DEF Places, Dead, Idle
<1>m. loc[t].pc = "request" => loc[t].mode \in Modes
  BY <1>0 DEF Located, Places, Dead, Idle, SoftTrim, Fetching, Overflowing,
              RequestLocs, TrimLocs
<1>1. CASE Construct(t)
  <2>1. Goto(t, Idle) /\ loc[t].pc = "dead" /\ UNCHANGED <<lists, trim_request>>
        /\ reserved' = [reserved EXCEPT ![t] = InitialReservedQuotaBytes]
    BY <1>1, Zenon DEF Construct, At
  <2>2. Located' /\ loc'[t] = Idle
    BY <1>0, <1>p, <2>1, GotoLocated, Zenon
  <2>3. Shape' /\ reserved'[t] <= cache_budget_bytes
    BY <1>0, <2>1, <2>2, BytesNat, BudgetNat DEF Shape, lists
  <2>4. ASSUME NEW c \in Classes PROVE ListOK(t, c)'
    <3>1. ListOK(t, c) /\ ~InOverflow(t, c) /\ ~InFetch(t, c)'
      BY <1>p, <2>1, <2>2 DEF IInv, ThreadOK, InOverflow, InFetch, Overflowing, Fetching
    <3> QED BY <2>1, <3>1, Zenon DEF ListOK, lists
  <2> QED BY <2>3, <2>4, Zenon DEF ThreadOK
<1>2. CASE Exit(t)
  <2>1. Located' /\ loc'[t] = Dead
    BY <1>0, <1>2, <1>p, GotoLocated, Zenon DEF Exit
  <2>2. reserved'[t] = 0 /\ Shape'
        /\ \A c \in Classes : size'[t][c] = 0 /\ max_size'[t][c] = 1 /\ overages'[t][c] = 0
    BY <1>0, <1>2, <2>1 DEF Shape, Exit
  <2>3. ASSUME NEW c \in Classes PROVE ListOK(t, c)'
    <3>1. Batch[c] \in Nat \ {0, 1} /\ Ceiling(c) \in Nat
          /\ Batch[c] <= Ceiling(c)
      BY CeilingNat, Zenon
    <3> QED BY <2>2, <3>1, PolicyAssumption DEF ListOK
  <2> QED BY <2>2, <2>3, BudgetNat, BytesNat DEF ThreadOK
<1>3. CASE (\E m \in Modes : RequestGlobalTrim(t, m)) \/ RequestCas(t) \/ RequestRetry(t)
  <2>1. UNCHANGED <<lists, reserved>> /\ loc[t].pc \in {"idle", "request"}
    BY <1>3, Zenon DEF RequestGlobalTrim, RequestCas, RequestRetry, At
  <2>2. PICK l \in {Idle} \cup RequestLocs : Goto(t, l)
    <3>1. ASSUME NEW m \in Modes PROVE Requesting(trim_request, m) \in RequestLocs
      BY <1>0, Zenon DEF Shape, Requesting, RequestLocs
    <3>2. RequestRetry(t) => loc[t].mode \in Modes
      BY <1>m, Zenon DEF RequestRetry, At
    <3> QED BY <1>3, <3>1, <3>2, Zenon DEF RequestGlobalTrim, RequestCas, RequestRetry
  <2>3. l.pc \in {"idle", "request"}
    BY <1>p, Zenon DEF RequestLocs
  <2>4. trim_request' \in [epoch : Int, mode : Modes]
    <3>1. CASE RequestCas(t)
      <4>1. trim_request' = [epoch |-> trim_request.epoch + 1, mode |-> loc[t].mode]
            /\ loc[t].mode \in Modes /\ trim_request.epoch \in Int
        BY <1>0, <1>m, <3>1, Zenon DEF RequestCas, At, Shape
      <4> QED BY <4>1
    <3>2. CASE ~RequestCas(t)
      BY <1>0, <1>3, <3>2, Zenon DEF Shape, RequestGlobalTrim, RequestRetry
    <3> QED BY <3>1, <3>2, Zenon
  <2>5. Located' /\ loc'[t] = l
    BY <1>0, <1>p, <2>2, <2>3, GotoLocated, Zenon
  <2>6. \A c \in Classes : ~InOverflow(t, c) /\ ~InFetch(t, c)'
    BY <2>1, <2>3, <2>5 DEF InOverflow, InFetch, Fetching, Overflowing
  <2> QED BY <2>1, <2>4, <2>5, <2>6, MoveKeeps, Zenon
<1> QED BY <1>1, <1>2, <1>3, Zenon

\* The owner's trims, and each step of a trim that does not evict.
LEMMA TrimControlInv ==
    ASSUME IInv, NEW t \in Threads,
           \/ \E m \in Modes, n \in OwnerTargets : Trim(t, m, n)
           \/ am_thread_cache_trim(t) \/ am_thread_cache_trim_own(t)
           \/ CachedBytesSnapshot(t) \/ TrimEnd(t)
    PROVE  Shape' /\ ThreadOK(t)'
<1>0. Shape /\ Located
  BY Zenon DEF IInv, Shape
<1>u. UNCHANGED <<lists, reserved>> /\ trim_request' \in [epoch : Int, mode : Modes]
  <2>1. UNCHANGED <<lists, reserved, trim_request>>
    BY Zenon DEF Trim, am_thread_cache_trim, am_thread_cache_trim_own, CachedBytesSnapshot, TrimEnd
  <2> QED BY <1>0, <2>1, Zenon DEF Shape
<1>p. Idle \in Places /\ SoftTrim \in Places /\ Idle.pc = "idle" /\ SoftTrim.pc = "soft"
      /\ \A c \in Classes : Fetching(c).pc = "fetch" /\ Overflowing(c).pc = "overflow"
  BY Zenon DEF Places, Idle, SoftTrim, Fetching, Overflowing
<1>t. loc[t].pc \in {"count", "trim"} => loc[t] \in TrimLocs
  BY <1>0 DEF Located, Places, Dead, Idle, SoftTrim, Fetching, Overflowing, RequestLocs
<1>1. CASE (\E m \in Modes, n \in OwnerTargets : Trim(t, m, n))
           \/ am_thread_cache_trim_own(t)
  <2>1. PICK m \in Modes, n \in Nat : Goto(t, Trimming(m, n, -1, Idle))
    BY <1>1, PolicyAssumption, Zenon DEF Trim, am_thread_cache_trim_own, Modes
  <2>2. PICK l : l = Trimming(m, n, -1, Idle)
    BY Zenon
  <2>3. l \in TrimLocs /\ l.idx \in Classes /\ l.pc = "count" /\ l.next = Idle
    BY <1>p, <2>2, ClassesAssumption DEF Trimming, TrimLocs, Classes
  <2>4. Located' /\ loc'[t] = l
    BY <1>0, <2>1, <2>2, <2>3, GotoLocated, Zenon
  <2>5. loc[t].pc \in {"idle", "soft"}
    BY <1>1, Zenon DEF Trim, am_thread_cache_trim_own, At
  <2>6. \A c \in Classes : ~InOverflow(t, c) /\ ~InFetch(t, c)'
    BY <1>p, <2>3, <2>4, <2>5, Zenon DEF InOverflow, InFetch
  <2> QED BY <1>u, <2>4, <2>6, MoveKeeps, Zenon
<1>2. CASE am_thread_cache_trim(t)
  <2>1. HandleGlobalTrimRequest(t, SoftTrim) /\ loc[t].pc = "idle"
    BY <1>2, Zenon DEF am_thread_cache_trim, At
  <2>2. /\ Located'
        /\ \/ loc'[t] = SoftTrim
           \/ loc'[t].pc = "count" /\ loc'[t].next = SoftTrim
    BY <1>0, <1>p, <2>1, HandleLeadsTo, Zenon
  <2>3. \A c \in Classes : ~InOverflow(t, c) /\ ~InFetch(t, c)'
    BY <1>p, <2>1, <2>2, Zenon DEF InOverflow, InFetch
  <2> QED BY <1>u, <2>2, <2>3, MoveKeeps, Zenon
<1>3. CASE CachedBytesSnapshot(t)
  <2>1. PICK c, total :
          /\ c = loc[t].idx
          /\ total = loc[t].cached + size[t][c] * ClassSize[c]
          /\ Goto(t, IF c = NumClasses
                     THEN [loc[t] EXCEPT !.cached = total, !.pc = "trim"]
                     ELSE [loc[t] EXCEPT !.cached = total, !.idx = c + 1])
    BY <1>3, Zenon DEF CachedBytesSnapshot
  <2>2. loc[t].pc = "count" /\ loc[t] \in TrimLocs /\ c \in Classes
    BY <1>0, <1>3, <1>t, <2>1, Zenon DEF CachedBytesSnapshot, At, Located
  <2>3. total \in Int
    <3>1. size[t][c] \in Nat /\ ClassSize[c] \in Nat /\ loc[t].cached \in Int
      BY <1>0, <2>2, ClassesAssumption, ZenonT(60) DEF Shape, TrimLocs
    <3> QED BY <2>1, <3>1
  <2>4. PICK l \in TrimLocs :
          Goto(t, l) /\ l.next = loc[t].next /\ (l.pc = "count" => l.idx \in Classes)
    <3>1. CASE c = NumClasses
      <4>1. PICK l : l = [loc[t] EXCEPT !.cached = total, !.pc = "trim"]
        BY Zenon
      <4>2. l \in TrimLocs /\ l.next = loc[t].next /\ l.pc = "trim"
        BY <2>2, <2>3, <4>1, Zenon DEF TrimLocs
      <4> QED BY <2>1, <3>1, <4>1, <4>2, Zenon
    <3>2. CASE c # NumClasses
      <4>1. PICK l : l = [loc[t] EXCEPT !.cached = total, !.idx = c + 1]
        BY Zenon
      <4>2. c + 1 \in Classes /\ c + 1 \in 0 .. NumClasses
        BY <2>2, <3>2, ClassesAssumption DEF Classes
      <4>3. l \in TrimLocs /\ l.next = loc[t].next /\ l.idx = c + 1
        BY <2>2, <2>3, <4>1, <4>2, Zenon DEF TrimLocs
      <4> QED BY <2>1, <3>2, <4>1, <4>2, <4>3, Zenon
    <3> QED BY <3>1, <3>2, Zenon
  <2>5. Located' /\ loc'[t] = l /\ l.pc \in {"count", "trim"}
    BY <1>0, <2>4, GotoLocated, Zenon DEF TrimLocs
  <2>6. \A d \in Classes : /\ InOverflow(t, d) => InOverflow(t, d)'
                           /\ InFetch(t, d)' => InFetch(t, d)
    BY <1>p, <2>2, <2>4, <2>5, Zenon DEF InOverflow, InFetch
  <2> QED BY <1>u, <2>5, <2>6, MoveKeeps, Zenon
<1>4. CASE TrimEnd(t)
  <2>1. PICK next : next = loc[t].next
    BY Zenon
  <2>2. loc[t].pc = "trim" /\ loc[t] \in TrimLocs /\ Goto(t, next)
    BY <1>4, <1>t, <2>1, Zenon DEF TrimEnd, At
  <2>3. next \in Places /\ next.pc \notin {"count", "trim"}
    BY <2>1, <2>2 DEF TrimLocs, Places, Dead, Idle, SoftTrim, Fetching, Overflowing
  <2>4. Located' /\ loc'[t] = next
    BY <1>0, <2>2, <2>3, GotoLocated, Zenon
  <2>5. \A d \in Classes : /\ InOverflow(t, d) => InOverflow(t, d)'
                           /\ InFetch(t, d)' => InFetch(t, d)
    BY <1>p, <2>1, <2>2, <2>3, <2>4, Zenon DEF InOverflow, InFetch
  <2> QED BY <1>u, <2>4, <2>5, MoveKeeps, Zenon
<1> QED BY <1>1, <1>2, <1>3, <1>4, Zenon

\* What a quota change does to the reservation: lowering a quota never raises
\* it, and a growth that CanSetQuota admits stays within the budget.
LEMMA QuotaWithinBudget ==
    ASSUME Shape, NEW t \in Threads, NEW c \in Classes, NEW n \in Nat,
           reserved[t] <= cache_budget_bytes, CanSetQuota(t, c, n), SetQuota(t, c, n)
    PROVE  /\ reserved' \in [Threads -> Int] /\ reserved'[t] <= cache_budget_bytes
           /\ max_size' \in [Threads -> [Classes -> Nat]]
<1> DEFINE delta == (n - max_size[t][c]) * ClassSize[c]
<1>1. max_size[t][c] \in Nat /\ ClassSize[c] \in Nat /\ reserved[t] \in Int
  BY ClassesAssumption DEF Shape
<1>2. delta \in Int
  BY <1>1
<1>3. n <= max_size[t][c] => delta <= 0
  <2> SUFFICES ASSUME n <= max_size[t][c] PROVE delta <= 0
    BY Zenon
  <2>1. PICK k \in Nat : max_size[t][c] = n + k
    <3>1. max_size[t][c] - n \in Nat /\ max_size[t][c] = n + (max_size[t][c] - n)
      BY <1>1
    <3> QED BY <3>1, Zenon
  <2>2. delta = -(k * ClassSize[c]) /\ k * ClassSize[c] \in Nat
    BY <1>1, <2>1
  <2> QED BY <2>2
<1>4. reserved' = [reserved EXCEPT ![t] = @ + delta]
      /\ max_size' = [max_size EXCEPT ![t][c] = n]
  BY Zenon DEF SetQuota
<1>5. delta <= 0 \/ delta <= cache_budget_bytes - reserved[t]
  BY <1>3, Zenon DEF CanSetQuota
<1> HIDE DEF delta
<1>6. reserved'[t] = reserved[t] + delta
  BY <1>4, Zenon DEF Shape
<1>7. reserved'[t] <= cache_budget_bytes
  BY <1>1, <1>2, <1>5, <1>6, BudgetNat
<1> QED BY <1>1, <1>2, <1>4, <1>7 DEF Shape

\* The hit paths and the entries of the slow paths.
LEMMA FastPathInv ==
    ASSUME IInv, NEW t \in Threads, NEW c \in Classes,
           Allocate(t, c) \/ FetchFromCentralCache(t, c) \/ Deallocate(t, c)
    PROVE  Shape' /\ ThreadOK(t)'
<1>0. Shape /\ Located /\ ThreadOK(t) /\ ListOK(t, c)
  BY Zenon DEF IInv, Shape, ThreadOK
<1>i. loc[t].pc = "idle" /\ UNCHANGED trim_request
  BY Zenon DEF Allocate, FetchFromCentralCache, Deallocate, At
<1>j. /\ \A d \in Classes : Fetching(d).pc = "fetch" /\ Overflowing(d).pc = "overflow"
      /\ Fetching(c) \in Places /\ Overflowing(c) \in Places
      /\ \A d \in Classes : Fetching(d) # Overflowing(c)
      /\ \A d \in Classes : Fetching(d) = Fetching(c) => d = c
  BY Zenon DEF Fetching, Overflowing, Places
<1>k. \A d \in Classes : ~InOverflow(t, d) /\ ~InFetch(t, d)
  BY <1>i, <1>j, Zenon DEF InOverflow, InFetch
<1>1. CASE FetchFromCentralCache(t, c)
  <2>1. HandleGlobalTrimRequest(t, Fetching(c)) /\ size[t][c] = 0
        /\ UNCHANGED <<lists, reserved>>
    BY <1>1, Zenon DEF FetchFromCentralCache
  <2>2. /\ Located'
        /\ \/ loc'[t] = Fetching(c)
           \/ loc'[t].pc = "count" /\ loc'[t].next = Fetching(c)
    BY <1>0, <1>j, <2>1, HandleLeadsTo, Zenon
  <2>3. \A d \in Classes : InFetch(t, d)' => d = c
    BY <1>j, <2>2, Zenon DEF InFetch
  <2>4. trim_request' \in [epoch : Int, mode : Modes]
    BY <1>0, <1>i, Zenon DEF Shape
  <2> QED BY <1>k, <2>1, <2>2, <2>3, <2>4, MoveKeeps, Zenon
<1>2. CASE Allocate(t, c) \/ Deallocate(t, c)
  <2>1. PICK n, o : n = max_size[t][c] /\ o = overages[t][c]
    BY Zenon
  <2>2. /\ size[t][c] \in Nat /\ n \in Nat /\ o \in Nat
        /\ reserved \in [Threads -> Int] /\ reserved[t] <= cache_budget_bytes
    BY <1>0, <2>1, Zenon DEF Shape, ThreadOK
  <2>3. UNCHANGED <<max_size, overages, reserved>>
    BY <1>2, Zenon DEF Allocate, Deallocate, quotas
  <2>4. PICK s \in Nat :
          /\ size' = [size EXCEPT ![t][c] = s]
          /\ \/ s < size[t][c] /\ UNCHANGED loc
             \/ s = size[t][c] + 1 /\ s <= n /\ UNCHANGED loc
             \/ s = size[t][c] + 1 /\ s > n /\ HandleGlobalTrimRequest(t, Overflowing(c))
    <3>1. CASE Allocate(t, c)
      <4>1. /\ size[t][c] - 1 \in Nat /\ size[t][c] - 1 < size[t][c] /\ UNCHANGED loc
            /\ size' = [size EXCEPT ![t][c] = size[t][c] - 1]
        BY <2>2, <3>1 DEF Allocate, SetSize
      <4> QED BY <4>1, Zenon
    <3>2. CASE Deallocate(t, c)
      <4>1. /\ size[t][c] + 1 \in Nat /\ (size[t][c] + 1 <= n \/ size[t][c] + 1 > n)
            /\ size' = [size EXCEPT ![t][c] = size[t][c] + 1]
            /\ IF size[t][c] + 1 > n THEN HandleGlobalTrimRequest(t, Overflowing(c))
                                     ELSE UNCHANGED loc
        BY <2>1, <2>2, <3>2 DEF Deallocate, SetSize
      <4>2. PICK k \in Nat : k = size[t][c] + 1
        BY <4>1, Zenon
      <4> QED BY <2>2, <4>1, <4>2, Zenon
    <3> QED BY <1>2, <3>1, <3>2, Zenon
  <2>5. /\ SetsTo(size', size, t, c, s) /\ SetsTo(max_size', max_size, t, c, n)
        /\ SetsTo(overages', overages, t, c, o)
    <3>1. size \in [Threads -> [Classes -> Nat]] /\ max_size \in [Threads -> [Classes -> Nat]]
          /\ overages \in [Threads -> [Classes -> Nat]]
      BY <1>0, Zenon DEF Shape
    <3>2. SetsTo(size', size, t, c, s)
      BY <2>4, <3>1, EntrySet, Zenon
    <3>3. SetsTo(max_size, max_size, t, c, n) /\ SetsTo(overages, overages, t, c, o)
      BY <2>1, <2>2, <3>1, EntrySet, Zenon
    <3> QED BY <2>3, <3>2, <3>3, Zenon
  <2>6. /\ Located'
        /\ \A d \in Classes : ~InFetch(t, d)'
        /\ s <= n \/ s < size[t][c] \/ (s = size[t][c] + 1 /\ InOverflow(t, c)')
    <3>1. CASE (s < size[t][c] \/ s <= n) /\ UNCHANGED loc
      <4>1. Located' /\ \A d \in Classes : InFetch(t, d)' <=> InFetch(t, d)
        BY <1>0, <3>1, Zenon DEF Located, InFetch
      <4> QED BY <1>k, <3>1, <4>1, Zenon
    <3>2. CASE s = size[t][c] + 1 /\ HandleGlobalTrimRequest(t, Overflowing(c))
      <4>1. /\ Located'
            /\ \/ loc'[t] = Overflowing(c)
               \/ loc'[t].pc = "count" /\ loc'[t].next = Overflowing(c)
        BY <1>0, <1>j, <3>2, HandleLeadsTo, Zenon
      <4> QED BY <1>j, <3>2, <4>1, Zenon DEF InFetch, InOverflow
    <3> QED BY <2>4, <3>1, <3>2, Zenon
  <2>7. size'[t][c] = s /\ max_size'[t][c] = n /\ overages'[t][c] = o => ListOK(t, c)'
    BY <1>0, <1>k, <2>1, <2>2, <2>6 DEF ListOK
  <2>8. reserved' \in [Threads -> Int] /\ reserved'[t] <= cache_budget_bytes
    BY <2>2, <2>3, Zenon
  <2> QED BY <1>i, <1>k, <2>5, <2>6, <2>7, <2>8, OneList, Zenon
<1> QED BY <1>1, <1>2, Zenon

-----------------------------------------------------------------------------
(* The steps that compute a new quota: one class of a trim, a refill, an overflow *)

\* A list that a trim shortened to s, with the quota n and the counter o the
\* trim left it.
LEMMA TrimmedList ==
    ASSUME Shape, NEW t \in Threads, NEW c \in Classes, ListOK(t, c),
           NEW s \in Nat, s <= size[t][c], NEW n \in 1 .. max_size[t][c],
           NEW o \in {0, overages[t][c]}, n < max_size[t][c] => s <= n /\ o = 0,
           InOverflow(t, c)' <=> InOverflow(t, c), InFetch(t, c)' <=> InFetch(t, c),
           size'[t][c] = s, max_size'[t][c] = n, overages'[t][c] = o
    PROVE  ListOK(t, c)'
<1>1. /\ size[t][c] \in Nat /\ max_size[t][c] \in Nat /\ overages[t][c] \in Nat
      /\ Ceiling(c) \in Nat /\ Batch[c] \in Nat
  BY CeilingNat DEF Shape
<1>2. n \in 1 .. Ceiling(c) /\ o < kMaxOverages /\ (n <= Batch[c] => o = 0)
  BY <1>1, PolicyAssumption DEF ListOK
<1>3. InFetch(t, c) => s = 0
  BY <1>1 DEF ListOK
<1>4. /\ s <= n + 2
      /\ s = n + 2 => o = 0 /\ InOverflow(t, c)
      /\ s = n + 1 => o = 0 \/ InOverflow(t, c)
  BY <1>1 DEF ListOK
<1> QED BY <1>2, <1>3, <1>4, Zenon DEF ListOK

\* A trim's work on one class.
LEMMA TrimClassInv ==
    ASSUME IInv, NEW t \in Threads, TrimClass(t)
    PROVE  Shape' /\ ThreadOK(t)' /\ \A d \in Classes : max_size'[t][d] <= max_size[t][d]
<1>0. Shape /\ Located /\ ThreadOK(t)
  BY Zenon DEF IInv, Shape
<1>1. PICK l, c, m : l = loc[t] /\ c = l.idx /\ m = l.mode
  BY Zenon
<1>2. PICK e : e = EvictCount(t, c, m, l.cached, l.target)
  BY Zenon
<1>3. PICK s, n, o : /\ s = size[t][c] - e
                     /\ n = ContractedQuota(t, c, m, s)
                     /\ o = IF m = kRelease \/ max_size[t][c] > Batch[c]
                            THEN 0 ELSE overages[t][c]
  BY Zenon
<1>4. /\ l.pc = "trim" /\ c > 0 /\ SetSize(t, c, s) /\ SetQuota(t, c, n) /\ SetOverages(t, c, o)
      /\ Goto(t, [l EXCEPT !.idx = c - 1, !.cached = @ - e * ClassSize[c]])
      /\ UNCHANGED trim_request
  BY <1>1, <1>2, <1>3, Zenon DEF TrimClass, At
<1>5. l \in TrimLocs
  BY <1>0, <1>1, <1>4 DEF Located, Places, Dead, Idle, SoftTrim, Fetching, Overflowing, RequestLocs
<1>6. c \in Classes /\ c - 1 \in 0 .. NumClasses /\ m \in Modes
      /\ l.cached \in Int /\ l.target \in Nat /\ l.next \in Places
  BY <1>1, <1>4, <1>5, ClassesAssumption DEF TrimLocs, Classes
<1>7. /\ size[t][c] \in Nat /\ max_size[t][c] \in Nat /\ overages[t][c] \in Nat
      /\ max_size[t][c] >= 1 /\ reserved[t] <= cache_budget_bytes /\ ListOK(t, c)
      /\ Batch[c] \in Nat \ {0, 1} /\ ClassSize[c] \in Nat
  BY <1>0, <1>6, ClassesAssumption, CeilingNat DEF Shape, ThreadOK, ListOK
<1>8. e \in 0 .. size[t][c]
  BY <1>0, <1>2, <1>6, EvictInRange, Zenon
<1>9. s \in Nat /\ s <= size[t][c] /\ o \in {0, overages[t][c]} /\ o \in Nat
  BY <1>3, <1>7, <1>8
<1>10. /\ n \in 1 .. max_size[t][c] /\ n \in Nat /\ n <= max_size[t][c]
       /\ n < max_size[t][c] => s <= n /\ o = 0
  BY <1>3, <1>7, <1>9, ContractedInRange
<1>11. /\ reserved' \in [Threads -> Int] /\ reserved'[t] <= cache_budget_bytes
  BY <1>0, <1>4, <1>6, <1>7, <1>10, QuotaWithinBudget, Zenon DEF CanSetQuota
<1>12. /\ SetsTo(size', size, t, c, s) /\ SetsTo(max_size', max_size, t, c, n)
       /\ SetsTo(overages', overages, t, c, o)
  BY <1>0, <1>4, <1>6, <1>9, <1>10, EntrySet, Zenon DEF Shape, SetSize, SetQuota, SetOverages
<1>13. Located' /\ loc'[t].pc = "trim" /\ loc'[t].next = l.next
  <2>1. PICK i, x : i = c - 1 /\ x = l.cached - e * ClassSize[c]
    BY Zenon
  <2>2. i \in 0 .. NumClasses /\ x \in Int
    BY <1>6, <1>7, <1>8, <2>1
  <2>3. PICK k : k = [l EXCEPT !.idx = i, !.cached = x]
    BY Zenon
  <2>4. k \in TrimLocs /\ k.pc = "trim" /\ k.next = l.next
    BY <1>4, <1>5, <2>2, <2>3, Zenon DEF TrimLocs
  <2>5. Goto(t, k)
    BY <1>4, <2>1, <2>3, Zenon
  <2> QED BY <1>0, <2>4, <2>5, GotoLocated, Zenon
<1>14. \A d \in Classes : /\ InOverflow(t, d)' <=> InOverflow(t, d)
                          /\ InFetch(t, d)' <=> InFetch(t, d)
  BY <1>1, <1>4, <1>13 DEF InOverflow, InFetch, Overflowing, Fetching
<1>15. size'[t][c] = s /\ max_size'[t][c] = n /\ overages'[t][c] = o => ListOK(t, c)'
  BY <1>0, <1>6, <1>7, <1>9, <1>10, <1>14, TrimmedList, Zenon
<1>16. \A d \in Classes : max_size'[t][d] <= max_size[t][d]
  <2>1. \A d \in Classes : max_size[t][d] \in Nat /\ max_size[t][d] <= max_size[t][d]
    BY <1>0 DEF Shape
  <2> QED BY <1>10, <1>12, <2>1, Zenon DEF SetsTo
<1> QED BY <1>4, <1>6, <1>11, <1>12, <1>13, <1>14, <1>15, <1>16, OneList, Zenon

\* The list of class d was empty when t refilled it, and got all it asked for;
\* one object has gone to the caller.
FullRefill(t, d) ==
    /\ loc[t] = Fetching(d)
    /\ size[t][d] = 0
    /\ size'[t][d] = Lesser(Batch[d], max_size[t][d]) - 1

\* A refill of list c: the objects kept, and the quota and the counter it leaves.
Refilled(t, c, s, q, o) ==
    /\ s \in Nat /\ s < max_size[t][c] /\ o \in {0, overages[t][c]}
    /\ q \in 1 .. Ceiling(c) /\ max_size[t][c] <= q
    /\ q # max_size[t][c] => s = Lesser(Batch[c], max_size[t][c]) - 1 /\ o = 0

\* What AcceptFetchedBatch makes of its list, within the budget.
LEMMA RefillEffect ==
    ASSUME IInv, NEW t \in Threads, AcceptFetchedBatch(t), NEW c \in Classes,
           loc[t] = Fetching(c)
    PROVE  /\ reserved' \in [Threads -> Int] /\ reserved'[t] <= cache_budget_bytes
           /\ \E s, q, o : /\ Refilled(t, c, s, q, o) /\ SetsTo(size', size, t, c, s)
                           /\ SetsTo(max_size', max_size, t, c, q)
                           /\ SetsTo(overages', overages, t, c, o)
<1>0. Shape /\ ListOK(t, c) /\ reserved[t] <= cache_budget_bytes
  BY Zenon DEF IInv, ThreadOK
<1>1. PICK m, fetch_num, grown :
        /\ m = max_size[t][c] /\ fetch_num = Lesser(Batch[c], m)
        /\ grown = NextAfterRefill(m, Batch[c])
  BY Zenon
<1>2. PICK n \in 0 .. fetch_num :
        /\ SetSize(t, c, IF n = 0 THEN 0 ELSE n - 1)
        /\ IF n = fetch_num /\ CanSetQuota(t, c, grown)
           THEN SetQuota(t, c, grown)
           ELSE UNCHANGED <<max_size, reserved, g_reserved>>
        /\ IF n = fetch_num THEN SetOverages(t, c, 0) ELSE UNCHANGED overages
  BY <1>1 DEF AcceptFetchedBatch, Fetching
<1>3. /\ m \in 1 .. Ceiling(c) /\ m \in Nat /\ overages[t][c] \in Nat
      /\ Batch[c] \in Nat \ {0, 1} /\ Ceiling(c) \in Nat
  BY <1>0, <1>1, CeilingNat, Zenon DEF Shape, ListOK
<1>4. grown \in 1 .. Ceiling(c) /\ m <= grown /\ grown \in Nat
  BY <1>1, <1>3, RefillInRange DEF Ceiling
<1>5. PICK s : s = IF n = 0 THEN 0 ELSE n - 1
  BY Zenon
<1>6. s \in Nat /\ s < m /\ (n = fetch_num => s = fetch_num - 1)
  BY <1>1, <1>2, <1>3, <1>5 DEF Lesser
<1>t. size \in [Threads -> [Classes -> Nat]] /\ max_size \in [Threads -> [Classes -> Nat]]
      /\ overages \in [Threads -> [Classes -> Nat]] /\ reserved \in [Threads -> Int]
  BY <1>0, Zenon DEF Shape
<1>7. SetsTo(size', size, t, c, s)
  BY <1>2, <1>5, <1>6, <1>t, EntrySet, Zenon DEF SetSize
<1>8. PICK o \in {0, overages[t][c]} :
        SetsTo(overages', overages, t, c, o) /\ (n = fetch_num => o = 0)
  <2>1. /\ SetsTo([overages EXCEPT ![t][c] = 0], overages, t, c, 0)
        /\ SetsTo(overages, overages, t, c, overages[t][c])
    BY <1>t, EntrySet, Zenon
  <2> QED BY <1>2, <2>1, Zenon DEF SetOverages
<1>9. PICK q \in {m, grown} :
        /\ SetsTo(max_size', max_size, t, c, q) /\ (q # m => n = fetch_num)
        /\ reserved' \in [Threads -> Int] /\ reserved'[t] <= cache_budget_bytes
  <2>1. CASE n = fetch_num /\ CanSetQuota(t, c, grown)
    <3>1. SetQuota(t, c, grown)
      BY <1>2, <2>1, Zenon
    <3>2. SetsTo(max_size', max_size, t, c, grown)
      BY <1>4, <1>t, <3>1, EntrySet, Zenon DEF SetQuota
    <3>3. reserved' \in [Threads -> Int] /\ reserved'[t] <= cache_budget_bytes
      BY <1>0, <1>4, <2>1, <3>1, QuotaWithinBudget, Zenon
    <3> QED BY <2>1, <3>2, <3>3, Zenon
  <2>2. CASE ~(n = fetch_num /\ CanSetQuota(t, c, grown))
    <3>1. UNCHANGED <<max_size, reserved>>
      BY <1>2, <2>2, Zenon
    <3>2. SetsTo(max_size, max_size, t, c, m)
      BY <1>1, <1>3, <1>t, EntrySet, Zenon
    <3> QED BY <1>0, <1>t, <3>1, <3>2, Zenon
  <2> QED BY <2>1, <2>2, Zenon
<1>10. Refilled(t, c, s, q, o)
  BY <1>1, <1>3, <1>4, <1>6, <1>8, <1>9 DEF Refilled
<1> QED BY <1>7, <1>8, <1>9, <1>10, Zenon

\* The end of a refill: the objects CentralCache handed out.
LEMMA RefillInv ==
    ASSUME IInv, NEW t \in Threads, AcceptFetchedBatch(t)
    PROVE  /\ Shape' /\ ThreadOK(t)'
           /\ \A d \in Classes : max_size'[t][d] > max_size[t][d] => FullRefill(t, d)
<1>0. Shape /\ Located /\ ThreadOK(t)
  BY Zenon DEF IInv, Shape
<1>1. loc[t].pc = "fetch" /\ Goto(t, Idle) /\ UNCHANGED trim_request
  BY Zenon DEF AcceptFetchedBatch, At
<1>2. PICK c \in Classes : loc[t] = Fetching(c)
  BY <1>0, <1>1 DEF Located, RequestLocs, TrimLocs, Places, Dead, Idle, SoftTrim, Overflowing
<1>3. PICK s, q, o :
        /\ Refilled(t, c, s, q, o) /\ SetsTo(size', size, t, c, s)
        /\ SetsTo(max_size', max_size, t, c, q) /\ SetsTo(overages', overages, t, c, o)
        /\ reserved' \in [Threads -> Int] /\ reserved'[t] <= cache_budget_bytes
  BY <1>2, RefillEffect, Zenon
<1>4. Idle \in Places /\ Idle.pc = "idle"
  BY Zenon DEF Places, Idle
<1>5. Located' /\ loc'[t] = Idle
  BY <1>0, <1>1, <1>4, GotoLocated, Zenon
<1>6. \A d \in Classes : ~InOverflow(t, d) /\ ~InFetch(t, d)'
  BY <1>1, <1>4, <1>5 DEF InOverflow, InFetch, Overflowing, Fetching
<1>7. /\ ListOK(t, c) /\ max_size[t][c] \in Nat /\ overages[t][c] \in Nat /\ Ceiling(c) \in Nat
      /\ Batch[c] \in Nat /\ size[t][c] = 0
  BY <1>0, <1>2, CeilingNat, Zenon DEF Shape, ThreadOK, ListOK, InFetch
<1>8. size'[t][c] = s /\ max_size'[t][c] = q /\ overages'[t][c] = o => ListOK(t, c)'
  <2>1. q \in 1 .. Ceiling(c) /\ o < kMaxOverages /\ (q <= Batch[c] => o = 0) /\ s < q /\ s \in Nat
    BY <1>3, <1>7, PolicyAssumption DEF Refilled, ListOK
  <2> QED BY <1>6, <1>7, <2>1 DEF ListOK
<1>9. ASSUME NEW d \in Classes, max_size'[t][d] > max_size[t][d] PROVE FullRefill(t, d)
  <2>1. max_size[t][d] \in Nat
    BY <1>0, Zenon DEF Shape
  <2>2. d = c /\ q # max_size[t][c] /\ size'[t][c] = s
    BY <1>3, <1>9, <2>1 DEF SetsTo
  <2> QED BY <1>2, <1>3, <1>7, <2>2, Zenon DEF FullRefill, Refilled
<1> QED BY <1>1, <1>3, <1>5, <1>6, <1>8, <1>9, OneList, Zenon

\* What NextAfterOverflow answers: the quota never rises; it falls only by a
\* decay, which clears the counter and stops at one batch.
LEMMA OverflowInRange ==
    ASSUME NEW b \in Nat \ {0, 1}, NEW m \in Nat \ {0}, NEW o \in Nat, o < kMaxOverages
    PROVE  LET q == NextAfterOverflow(m, b, o)
           IN  /\ q.max_size \in 1 .. m /\ q.overages \in Nat
               /\ q.overages < kMaxOverages
               /\ q.max_size <= b => q.overages = 0
               /\ m <= b => q.max_size = m
               /\ q.max_size # m => /\ q.overages = 0 /\ o > 0
                                    /\ q.max_size >= m - b /\ q.max_size >= b
  BY PolicyAssumption, SMTT(30) DEF NextAfterOverflow, Greater

\* A list after the overflow path gave a batch back: the list was one or two
\* objects over its quota, and is at most one over the quota it has then.
LEMMA OverflowedList ==
    ASSUME Shape, NEW t \in Threads, NEW c \in Classes, ListOK(t, c),
           size[t][c] > max_size[t][c],
           NEW s, s = size[t][c] - Lesser(size[t][c], Batch[c]), NEW n, NEW o,
           NextAfterOverflow(max_size[t][c], Batch[c], overages[t][c])
             = [max_size |-> n, overages |-> o]
    PROVE  /\ s \in Nat /\ n \in Nat /\ o \in Nat /\ n <= max_size[t][c]
           /\ ~InFetch(t, c)' /\ size'[t][c] = s /\ max_size'[t][c] = n /\ overages'[t][c] = o
                => ListOK(t, c)'
<1>1. /\ size[t][c] \in Nat /\ max_size[t][c] \in Nat \ {0} /\ overages[t][c] \in Nat
      /\ Ceiling(c) \in Nat /\ Batch[c] \in Nat \ {0, 1} /\ overages[t][c] < kMaxOverages
  BY CeilingNat DEF Shape, ListOK
<1>2. /\ n \in 1 .. max_size[t][c] /\ o \in Nat /\ o < kMaxOverages
      /\ n <= Batch[c] => o = 0
      /\ max_size[t][c] <= Batch[c] => n = max_size[t][c]
      /\ n # max_size[t][c] => /\ o = 0 /\ overages[t][c] > 0
                               /\ n >= max_size[t][c] - Batch[c] /\ n >= Batch[c]
  BY <1>1, OverflowInRange
<1>3. s \in Nat /\ (size[t][c] > Batch[c] => s = size[t][c] - Batch[c])
      /\ (size[t][c] <= Batch[c] => s = 0)
  BY <1>1 DEF Lesser
<1>4. size[t][c] \in {max_size[t][c] + 1, max_size[t][c] + 2}
      /\ (size[t][c] = max_size[t][c] + 2 => overages[t][c] = 0)
  BY <1>1 DEF ListOK
<1>5. n \in Nat /\ n <= max_size[t][c] /\ n \in 1 .. Ceiling(c)
  BY <1>1, <1>2 DEF ListOK
<1>6. s <= n \/ (s = n + 1 /\ o = 0)
  BY <1>1, <1>2, <1>3, <1>4, <1>5
<1> QED BY <1>2, <1>3, <1>5, <1>6 DEF ListOK

\* The overflow path: one batch goes back and the quota may decay.
LEMMA OverflowInv ==
    ASSUME IInv, NEW t \in Threads, DeallocateSlowPath(t)
    PROVE  Shape' /\ ThreadOK(t)' /\ \A d \in Classes : max_size'[t][d] <= max_size[t][d]
<1>0. Shape /\ Located /\ ThreadOK(t)
  BY Zenon DEF IInv, Shape
<1>1. loc[t].pc = "overflow" /\ Goto(t, Idle) /\ UNCHANGED trim_request
  BY Zenon DEF DeallocateSlowPath, At
<1>2. PICK c \in Classes : loc[t] = Overflowing(c)
  BY <1>0, <1>1 DEF Located, RequestLocs, TrimLocs, Places, Dead, Idle, SoftTrim, Fetching
<1>3. PICK s, n, o :
        /\ s = size[t][c] - Lesser(size[t][c], Batch[c])
        /\ NextAfterOverflow(max_size[t][c], Batch[c], overages[t][c])
             = [max_size |-> n, overages |-> o]
  BY Zenon DEF NextAfterOverflow
<1>4. IF size[t][c] <= max_size[t][c]
      THEN UNCHANGED <<size, quotas>>
      ELSE SetSize(t, c, s) /\ SetQuota(t, c, n) /\ SetOverages(t, c, o)
  BY <1>2, <1>3 DEF DeallocateSlowPath, Overflowing
<1>5. /\ size \in [Threads -> [Classes -> Nat]] /\ max_size \in [Threads -> [Classes -> Nat]]
      /\ overages \in [Threads -> [Classes -> Nat]] /\ reserved \in [Threads -> Int]
      /\ reserved[t] <= cache_budget_bytes /\ ListOK(t, c)
  BY <1>0, Zenon DEF Shape, ThreadOK
<1>6. Idle \in Places /\ Idle.pc = "idle"
  BY Zenon DEF Places, Idle
<1>7. Located' /\ loc'[t] = Idle
  BY <1>0, <1>1, <1>6, GotoLocated, Zenon
<1>8. /\ \A d \in Classes : ~InFetch(t, d)'
      /\ \A d \in Classes \ {c} : ~InOverflow(t, d)
  BY <1>1, <1>2, <1>6, <1>7 DEF InOverflow, InFetch, Overflowing, Fetching
<1>9. CASE size[t][c] <= max_size[t][c]
  <2>1. UNCHANGED <<size, max_size, overages, reserved>>
    BY <1>4, <1>9, Zenon DEF quotas
  <2>2. PICK x, y, z : x = size[t][c] /\ y = max_size[t][c] /\ z = overages[t][c]
    BY Zenon
  <2>3. /\ SetsTo(size, size, t, c, x) /\ SetsTo(max_size, max_size, t, c, y)
        /\ SetsTo(overages, overages, t, c, z) /\ x \in Nat /\ y \in Nat
    BY <1>5, <2>2, EntrySet, Zenon
  <2>4. size'[t][c] = x /\ max_size'[t][c] = y /\ overages'[t][c] = z => ListOK(t, c)'
    <3>1. x # y + 1 /\ x # y + 2
      BY <1>9, <2>2, <2>3
    <3> QED BY <1>5, <1>8, <2>2, <3>1, Zenon DEF ListOK
  <2>5. Shape' /\ ThreadOK(t)'
    BY <1>1, <1>5, <1>7, <1>8, <2>1, <2>3, <2>4, OneList, Zenon
  <2> QED BY <1>5, <2>1, <2>5
<1>10. CASE ~(size[t][c] <= max_size[t][c])
  <2>1. SetSize(t, c, s) /\ SetQuota(t, c, n) /\ SetOverages(t, c, o)
    BY <1>4, <1>10, Zenon
  <2>2. size[t][c] > max_size[t][c]
    BY <1>5, <1>10
  <2>3. /\ s \in Nat /\ n \in Nat /\ o \in Nat /\ n <= max_size[t][c]
        /\ size'[t][c] = s /\ max_size'[t][c] = n /\ overages'[t][c] = o => ListOK(t, c)'
    BY <1>0, <1>3, <1>5, <1>8, <2>2, OverflowedList, Zenon
  <2>4. reserved' \in [Threads -> Int] /\ reserved'[t] <= cache_budget_bytes
    BY <1>0, <1>5, <2>1, <2>3, QuotaWithinBudget, Zenon DEF CanSetQuota
  <2>5. /\ SetsTo(size', size, t, c, s) /\ SetsTo(max_size', max_size, t, c, n)
        /\ SetsTo(overages', overages, t, c, o)
    BY <1>5, <2>1, <2>3, EntrySet, Zenon DEF SetSize, SetQuota, SetOverages
  <2>6. Shape' /\ ThreadOK(t)'
    BY <1>1, <1>7, <1>8, <2>3, <2>4, <2>5, OneList, Zenon
  <2>7. \A d \in Classes : max_size[t][d] \in Nat /\ max_size[t][d] <= max_size[t][d]
    BY <1>5
  <2> QED BY <2>3, <2>5, <2>6, <2>7, Zenon DEF SetsTo
<1> QED BY <1>9, <1>10, Zenon

-----------------------------------------------------------------------------
(* The theorems *)

\* Every step of thread t preserves the invariant.
LEMMA NextInv == IInv /\ [Next]_vars => IInv'
<1> SUFFICES ASSUME IInv, [Next]_vars PROVE IInv'
  BY Zenon
<1>1. ASSUME NEW t \in Threads, Step(t) PROVE IInv'
  <2>1. Shape' /\ ThreadOK(t)'
    <3>1. CASE \/ Construct(t) \/ Exit(t) \/ (\E m \in Modes : RequestGlobalTrim(t, m))
               \/ RequestCas(t) \/ RequestRetry(t)
      BY <3>1, LifeAndRequestInv, Zenon
    <3>2. CASE \/ \E m \in Modes, n \in OwnerTargets : Trim(t, m, n)
               \/ am_thread_cache_trim(t) \/ am_thread_cache_trim_own(t)
               \/ CachedBytesSnapshot(t) \/ TrimEnd(t)
      BY <3>2, TrimControlInv, Zenon
    <3>3. CASE TrimClass(t)
      BY <3>3, TrimClassInv, Zenon
    <3>4. CASE \E c \in Classes : Allocate(t, c) \/ FetchFromCentralCache(t, c) \/ Deallocate(t, c)
      BY <3>4, FastPathInv, Zenon
    <3>5. CASE AcceptFetchedBatch(t)
      BY <3>5, RefillInv, Zenon
    <3>6. CASE DeallocateSlowPath(t)
      BY <3>6, OverflowInv, Zenon
    <3> QED BY <1>1, <3>1, <3>2, <3>3, <3>4, <3>5, <3>6, Zenon DEF Step
  <2>2. ASSUME NEW u \in Threads \ {t} PROVE ThreadOK(u)'
    <3>1. /\ size'[u] = size[u] /\ max_size'[u] = max_size[u]
          /\ overages'[u] = overages[u] /\ reserved'[u] = reserved[u]
          /\ loc'[u] = loc[u]
      BY <1>1, OthersUntouched, Zenon DEF IInv
    <3>2. ThreadOK(u)
      BY Zenon DEF IInv
    <3> QED BY <3>1, <3>2, ZenonT(60) DEF ThreadOK, ListOK, InOverflow, InFetch
  <2> QED BY <2>1, <2>2, Zenon DEF IInv
<1>2. CASE UNCHANGED vars
  BY <1>2 DEF vars, IInv, Shape, Located, ThreadOK, ListOK, InOverflow, InFetch
<1> QED BY <1>1, <1>2, Zenon DEF Next

\* The invariant that carries the results below: besides QuotaInRange and
\* OccupancyBound it says that a thread on its way to a refill of a class -
\* possibly through a trim it picked up - has an empty list there.
THEOREM Invariance == Spec => []IInv
  BY InitInv, NextInv, PTL DEF Spec

\* Quotas stay between 1 and kMaxQuotaBatches batches and the overage counter
\* below its threshold, and no thread ever reserves more than its budget,
\* whatever refills, overflows, trims and requests interleave
\* (NextAfterRefill, NextAfterOverflow, CanSetQuota, SetQuota).
THEOREM QuotaSafety == Spec => []QuotaInRange
<1>1. IInv => QuotaInRange
  BY Zenon DEF IInv, ThreadOK, ListOK, Ceiling, QuotaInRange
<1> QED BY <1>1, Invariance, PTL

\* A list exceeds its quota by one object between operations, and then only
\* right after a decay, and by at most two inside Deallocate (Deallocate,
\* DeallocateSlowPath).
THEOREM OccupancySafety == Spec => []OccupancyBound
<1>1. IInv => OccupancyBound
  BY Zenon DEF IInv, ThreadOK, ListOK, OccupancyBound
<1> QED BY <1>1, Invariance, PTL

\* Only a refill that CentralCache served in full raises a quota; no trim,
\* overflow or exit ever does, so a trim cannot get around the budget gate
\* (FetchFromCentralCache, Trim, DeallocateSlowPath, ReleaseAll).
THEOREM GrowthSafety == Spec => GrowthOnlyByRefill
<1> DEFINE A == \A t \in Threads, c \in Classes :
                  max_size'[t][c] > max_size[t][c] =>
                    /\ loc[t] = Fetching(c)
                    /\ size[t][c] = 0
                    /\ size'[t][c] = Lesser(Batch[c], max_size[t][c]) - 1
<1>1. IInv /\ [Next]_vars => [A]_vars
  <2> SUFFICES ASSUME IInv, NEW t \in Threads, Step(t), NEW u \in Threads, NEW c \in Classes,
                      max_size'[u][c] > max_size[u][c]
               PROVE  FullRefill(u, c)
    BY Zenon DEF Next, FullRefill
  <2>0. Shape /\ ListOK(t, c) /\ max_size[u][c] \in Nat
    BY Zenon DEF IInv, ThreadOK, Shape
  <2>1. u = t
    BY <2>0, OthersUntouched
  <2>2. max_size'[t] # max_size[t]
    BY <2>0, <2>1
  <2>3. CASE Exit(t)
    <3>1. max_size'[t][c] = 1
      BY <2>0, <2>3, Zenon DEF Exit, Shape
    <3> QED BY <2>0, <2>1, <3>1 DEF ListOK
  <2>4. CASE TrimClass(t) \/ DeallocateSlowPath(t)
    <3>1. max_size'[t][c] <= max_size[t][c]
      BY <2>4, TrimClassInv, OverflowInv, Zenon
    <3>2. max_size'[t][c] \in Nat
      BY <2>4, TrimClassInv, OverflowInv, Zenon DEF Shape
    <3> QED BY <2>0, <2>1, <3>1, <3>2
  <2>5. CASE AcceptFetchedBatch(t)
    BY <2>1, <2>5, RefillInv, Zenon
  <2>6. CASE Construct(t) \/ (\E m \in Modes : RequestGlobalTrim(t, m))
             \/ RequestCas(t) \/ RequestRetry(t)
    BY <2>2, <2>6, Zenon DEF Construct, RequestGlobalTrim, RequestCas, RequestRetry, lists
  <2>7. CASE (\E m \in Modes, n \in OwnerTargets : Trim(t, m, n))
             \/ am_thread_cache_trim(t) \/ am_thread_cache_trim_own(t)
             \/ CachedBytesSnapshot(t) \/ TrimEnd(t)
    BY <2>2, <2>7, Zenon DEF Trim, am_thread_cache_trim, am_thread_cache_trim_own,
                      CachedBytesSnapshot, TrimEnd, lists
  <2>8. CASE \E d \in Classes : Allocate(t, d) \/ FetchFromCentralCache(t, d) \/ Deallocate(t, d)
    BY <2>2, <2>8, Zenon DEF Allocate, FetchFromCentralCache, Deallocate, lists, quotas
  <2> QED BY <2>3, <2>4, <2>5, <2>6, <2>7, <2>8, Zenon DEF Step
<1>2. GrowthOnlyByRefill <=> [][A]_vars
  BY Zenon DEF GrowthOnlyByRefill
<1> HIDE DEF A
<1> QED BY <1>1, <1>2, Invariance, PTL DEF Spec
-----------------------------------------------------------------------------
(* Trim requests.                                                          *)

InTrim(l) == l.pc \in {"count", "trim"}

\* What a step of thread t may do to its place, as far as requests go: a trim
\* it begins serves the current epoch or none.
Proceeds(t) ==
    InTrim(loc'[t]) => \/ loc'[t].epoch = -1
                       \/ InTrim(loc[t]) /\ loc'[t].epoch = loc[t].epoch
                       \/ BeginsToServe(t) /\ loc'[t].epoch = trim_request.epoch

\* What it may record: a new thread the current epoch, a trim the one it serves.
Records(t) ==
    \/ observed' = observed
    \/ ~Alive(t) /\ observed' = [observed EXCEPT ![t] = trim_request.epoch]
    \/ /\ InTrim(loc[t]) /\ loc[t].epoch # -1
       /\ observed' = [observed EXCEPT ![t] = loc[t].epoch]

\* The epochs a thread knows are not ahead of the word, and behind it while a
\* request is due.
EpochsOK(t) ==
    /\ observed[t] <= trim_request.epoch
    /\ InTrim(loc[t]) => loc[t].epoch <= trim_request.epoch
    /\ due[t] => /\ observed[t] < trim_request.epoch
                 /\ InTrim(loc[t]) => loc[t].epoch < trim_request.epoch

HistInv ==
    /\ trim_request.epoch \in Nat /\ observed \in [Threads -> Int]
    /\ due \in [Threads -> BOOLEAN]
    /\ \A t \in Threads : EpochsOK(t)

LEMMA PlacesQuiet ==
    ASSUME NEW l \in Places PROVE ~InTrim(l)
BY DEF Places, InTrim, Dead, Idle, SoftTrim, Fetching, Overflowing

LEMMA QuietPlaces ==
    /\ Idle \in Places /\ Dead \in Places /\ SoftTrim \in Places
    /\ \A c \in Classes : Fetching(c) \in Places /\ Overflowing(c) \in Places
BY Zenon DEF Places

LEMMA PlaceNext ==
    ASSUME Shape, NEW t \in Threads, NEW l, Goto(t, l) PROVE loc'[t] = l
BY Zenon DEF Shape, Located, Goto

LEMMA HandleProceeds ==
    ASSUME Shape, trim_request.epoch \in Nat, NEW t \in Threads, NEW next \in Places,
           loc[t].pc # "count", HandleGlobalTrimRequest(t, next)
    PROVE  Proceeds(t)
<1>1. PICK l : l = Trimming(trim_request.mode, TrimTargetForMode(trim_request.mode),
                            trim_request.epoch, next)
  BY Zenon
<1>2. l.pc = "count" /\ l.epoch = trim_request.epoch /\ trim_request.epoch # -1
  BY <1>1 DEF Trimming
<1>3. loc'[t] = next \/ loc'[t] = l
  BY <1>1, PlaceNext, Zenon DEF HandleGlobalTrimRequest
<1>4. CASE loc'[t] = next
  BY <1>4, PlacesQuiet, Zenon DEF Proceeds
<1>5. CASE loc'[t] = l
  BY <1>2, <1>5, Zenon DEF Proceeds, BeginsToServe
<1> QED BY <1>3, <1>4, <1>5, Zenon

LEMMA QuietProceeds ==
    ASSUME Shape, NEW t \in Threads, NEW l \in Places, Goto(t, l) PROVE Proceeds(t)
<1>1. loc'[t] = l
  BY PlaceNext, Zenon
<1> QED BY <1>1, PlacesQuiet, Zenon DEF Proceeds

LEMMA OwnTrimProceeds ==
    ASSUME Shape, NEW t \in Threads, NEW m, NEW n, Goto(t, Trimming(m, n, -1, Idle)) PROVE Proceeds(t)
<1>1. loc'[t] = Trimming(m, n, -1, Idle)
  BY PlaceNext, Zenon
<1> QED BY <1>1 DEF Proceeds, Trimming

LEMMA RequestProceeds ==
    ASSUME Shape, NEW t \in Threads, NEW r, NEW m, Goto(t, Requesting(r, m)) PROVE Proceeds(t)
<1>1. loc'[t] = Requesting(r, m)
  BY PlaceNext, Zenon
<1> QED BY <1>1 DEF Proceeds, Requesting, InTrim

LEMMA TrimPlace ==
    ASSUME Shape, NEW t \in Threads, InTrim(loc[t])
    PROVE  loc[t] \in TrimLocs /\ loc[t].epoch \in Int /\ loc[t].next \in Places
<1>1. loc[t] \in Places \cup RequestLocs \cup TrimLocs
  BY Zenon DEF Shape, Located
<1>2. loc[t] \notin RequestLocs
  BY DEF InTrim, RequestLocs
<1>3. loc[t] \in TrimLocs
  BY <1>1, <1>2, PlacesQuiet, Zenon
<1> QED BY <1>3 DEF TrimLocs

\* One step of a trim.
LEMMA TrimProceeds ==
    ASSUME Shape, NEW t \in Threads, CachedBytesSnapshot(t) \/ TrimClass(t) PROVE Proceeds(t)
<1>1. InTrim(loc[t]) /\ loc[t] \in TrimLocs
  <2>1. InTrim(loc[t])
    BY Zenon DEF CachedBytesSnapshot, TrimClass, At, InTrim
  <2> QED BY <2>1, TrimPlace, Zenon
<1>2. PICK l : Goto(t, l) /\ l.epoch = loc[t].epoch
  <2>1. CASE CachedBytesSnapshot(t)
    <3> DEFINE c == loc[t].idx
               total == loc[t].cached + size[t][c] * ClassSize[c]
               l == IF c = NumClasses
                    THEN [loc[t] EXCEPT !.cached = total, !.pc = "trim"]
                    ELSE [loc[t] EXCEPT !.cached = total, !.idx = c + 1]
    <3>1. Goto(t, l)
      BY <2>1, Zenon DEF CachedBytesSnapshot
    <3>2. l.epoch = loc[t].epoch
      BY <1>1 DEF TrimLocs
    <3> QED BY <3>1, <3>2, Zenon
  <2>2. CASE TrimClass(t)
    <3> DEFINE c == loc[t].idx
               e == EvictCount(t, c, loc[t].mode, loc[t].cached, loc[t].target)
               l == [loc[t] EXCEPT !.idx = c - 1, !.cached = @ - e * ClassSize[c]]
    <3>1. Goto(t, l)
      BY <2>2, Zenon DEF TrimClass
    <3>2. l.epoch = loc[t].epoch
      BY <1>1 DEF TrimLocs
    <3> QED BY <3>1, <3>2, Zenon
  <2> QED BY <2>1, <2>2, Zenon
<1>3. loc'[t] = l
  BY <1>2, PlaceNext, Zenon
<1> QED BY <1>1, <1>2, <1>3, Zenon DEF Proceeds
\* A step of a thread other than publishing a request.
LEMMA StepProceeds ==
    ASSUME Shape, trim_request.epoch \in Nat, NEW t \in Threads, Step(t), ~RequestCas(t)
    PROVE  Proceeds(t) /\ Records(t) /\ trim_request' = trim_request
<1> USE QuietPlaces
<1>1. CASE Construct(t)
  <2>1. Goto(t, Idle) /\ trim_request' = trim_request /\ ~Alive(t)
        /\ observed' = [observed EXCEPT ![t] = trim_request.epoch]
    BY <1>1, Zenon DEF Construct, At, Alive
  <2> QED BY <2>1, QuietProceeds, Zenon DEF Records
<1>2. CASE Exit(t)
  <2>1. Goto(t, Dead) /\ trim_request' = trim_request /\ observed' = observed
    BY <1>2, Zenon DEF Exit
  <2> QED BY <2>1, QuietProceeds, Zenon DEF Records
<1>3. CASE (\E m \in Modes : RequestGlobalTrim(t, m)) \/ RequestRetry(t)
  <2>1. (\E m : Goto(t, Requesting(trim_request, m))) /\ trim_request' = trim_request /\ observed' = observed
    BY <1>3, Zenon DEF RequestGlobalTrim, RequestRetry
  <2> QED BY <2>1, RequestProceeds, Zenon DEF Records
<1>4. CASE (\E m \in Modes, n \in OwnerTargets : Trim(t, m, n)) \/ am_thread_cache_trim_own(t)
  <2>1. (\E m : \E n : Goto(t, Trimming(m, n, -1, Idle))) /\ trim_request' = trim_request /\ observed' = observed
    BY <1>4, Zenon DEF Trim, am_thread_cache_trim_own
  <2> QED BY <2>1, OwnTrimProceeds, Zenon DEF Records
<1>5. CASE am_thread_cache_trim(t)
  <2>1. loc[t].pc = "idle" /\ HandleGlobalTrimRequest(t, SoftTrim)
        /\ trim_request' = trim_request /\ observed' = observed
    BY <1>5, Zenon DEF am_thread_cache_trim, At
  <2>2. loc[t].pc # "count"
    BY <2>1
  <2> QED BY <2>1, <2>2, HandleProceeds, Zenon DEF Records
<1>6. CASE CachedBytesSnapshot(t) \/ TrimClass(t)
  <2>1. trim_request' = trim_request /\ observed' = observed
    BY <1>6, Zenon DEF CachedBytesSnapshot, TrimClass
  <2> QED BY <1>6, <2>1, TrimProceeds, Zenon DEF Records
<1>7. CASE TrimEnd(t)
  <2>1. InTrim(loc[t])
    BY <1>7, Zenon DEF TrimEnd, At, InTrim
  <2>2. loc[t].next \in Places
    BY <2>1, TrimPlace, Zenon
  <2>3. Goto(t, loc[t].next) /\ trim_request' = trim_request
    BY <1>7, Zenon DEF TrimEnd
  <2>4. Records(t)
    BY <1>7, <2>1, Zenon DEF TrimEnd, Records
  <2> QED BY <2>2, <2>3, <2>4, QuietProceeds, Zenon
<1>8. ASSUME NEW c \in Classes, Allocate(t, c) \/ FetchFromCentralCache(t, c) \/ Deallocate(t, c)
      PROVE  Proceeds(t) /\ Records(t) /\ trim_request' = trim_request
  <2>1. loc[t].pc # "count"
    BY <1>8 DEF Allocate, FetchFromCentralCache, Deallocate, At
  <2>2. trim_request' = trim_request /\ observed' = observed
    BY <1>8, Zenon DEF Allocate, FetchFromCentralCache, Deallocate
  <2>3. \/ loc' = loc
        \/ \E l \in Places : Goto(t, l) \/ HandleGlobalTrimRequest(t, l)
    BY <1>8, Zenon DEF Allocate, FetchFromCentralCache, Deallocate
  <2>4. Proceeds(t)
    BY <2>1, <2>3, QuietProceeds, HandleProceeds, Zenon DEF Proceeds
  <2> QED BY <2>2, <2>4, ZenonT(60) DEF Records
<1>9. CASE AcceptFetchedBatch(t) \/ DeallocateSlowPath(t)
  <2>1. trim_request' = trim_request /\ observed' = observed /\ Goto(t, Idle)
    BY <1>9, Zenon DEF AcceptFetchedBatch, DeallocateSlowPath
  <2> QED BY <2>1, QuietProceeds, Zenon DEF Records
<1> QED BY <1>1, <1>2, <1>3, <1>4, <1>5, <1>6, <1>7, <1>8, <1>9, Zenon DEF Step
\* A step of u leaves what the other threads have observed alone.
LEMMA OthersObserve ==
    ASSUME NEW u \in Threads, observed \in [Threads -> Int], Records(u), NEW t \in Threads \ {u}
    PROVE  observed'[t] = observed[t]
BY Zenon DEF Records

\* What u itself has observed afterwards, if its place is known.
LEMMA OwnObserves ==
    ASSUME NEW u \in Threads, observed \in [Threads -> Int], Records(u)
    PROVE  \/ observed'[u] = observed[u]
           \/ ~Alive(u) /\ observed'[u] = trim_request.epoch
           \/ InTrim(loc[u]) /\ observed'[u] = loc[u].epoch
BY Zenon DEF Records

LEMMA QuietHistory ==
    ASSUME Shape, HistInv, NEW u \in Threads, Step(u), ~RequestCas(u), Recorded
    PROVE  HistInv'
<1>1. Proceeds(u) /\ Records(u) /\ trim_request' = trim_request
  BY StepProceeds, Zenon DEF HistInv
<1>2. trim_request.epoch \in Nat /\ observed \in [Threads -> Int]
  BY Zenon DEF HistInv
<1>3. due' = [t \in Threads |-> due[t] /\ Alive(t) /\ loc'[t].pc # "dead" /\ ~BeginsToServe(t)]
  BY <1>1, Zenon DEF Recorded, Published
<1>4. observed' \in [Threads -> Int]
  <2>1. InTrim(loc[u]) => loc[u].epoch \in Int
    BY TrimPlace, Zenon
  <2>2. trim_request.epoch \in Int
    BY <1>2
  <2> QED BY <1>1, <1>2, <2>1, <2>2, Zenon DEF Records
<1>5. due' \in [Threads -> BOOLEAN]
  BY <1>3, Zenon
<1>6. ASSUME NEW t \in Threads PROVE EpochsOK(t)'
  <2>1. EpochsOK(t) /\ observed[t] \in Int
    BY <1>2, Zenon DEF HistInv
  <2>2. due'[t] => due[t] /\ Alive(t) /\ ~BeginsToServe(t)
    BY <1>3, Zenon
  <2>3. CASE t # u
    <3>1. observed'[t] = observed[t] /\ loc'[t] = loc[t]
      BY <1>1, <1>2, <2>3, OthersObserve, OthersUntouched, Zenon
    <3> QED BY <1>1, <2>1, <2>2, <3>1, Zenon DEF EpochsOK, InTrim
  <2>4. CASE t = u
    <3>1. InTrim(loc[u]) => loc[u].epoch \in Int
      BY TrimPlace, Zenon
    <3>2. observed'[u] <= trim_request.epoch /\ (due'[u] => observed'[u] < trim_request.epoch)
      BY <1>1, <1>2, <2>1, <2>2, <2>4, <3>1, OwnObserves DEF EpochsOK
    <3>3. ASSUME InTrim(loc'[u])
          PROVE  loc'[u].epoch <= trim_request.epoch /\ (due'[u] => loc'[u].epoch < trim_request.epoch)
      <4>1. CASE loc'[u].epoch = -1
        BY <1>2, <4>1, SMTT(30)
      <4>2. CASE InTrim(loc[u]) /\ loc'[u].epoch = loc[u].epoch
        BY <2>1, <2>2, <2>4, <4>2 DEF EpochsOK
      <4>3. CASE BeginsToServe(u) /\ loc'[u].epoch = trim_request.epoch
        BY <1>2, <2>2, <2>4, <4>3
      <4> QED BY <1>1, <3>3, <4>1, <4>2, <4>3, ZenonT(60) DEF Proceeds
    <3> QED BY <1>1, <2>4, <3>2, <3>3, Zenon DEF EpochsOK, InTrim
  <2> QED BY <2>3, <2>4, Zenon
<1> QED BY <1>1, <1>2, <1>4, <1>5, <1>6, Zenon DEF HistInv

\* A new request puts every thread behind.
LEMMA PublishHistory ==
    ASSUME Shape, HistInv, NEW u \in Threads, RequestCas(u), Recorded
    PROVE  HistInv'
<1>1. trim_request.epoch \in Nat /\ observed \in [Threads -> Int] /\ observed' = observed
  BY Zenon DEF HistInv, RequestCas
<1>2. trim_request'.epoch = trim_request.epoch + 1
  BY DEF RequestCas
<1>3. due' \in [Threads -> BOOLEAN]
  <2>1. trim_request' # trim_request
    BY <1>1, <1>2
  <2>2. due' = [t \in Threads |-> loc[t].pc # "dead"]
    BY <2>1, Zenon DEF Recorded, Published, Alive
  <2> QED BY <2>2, Zenon
<1>4. ASSUME NEW t \in Threads PROVE EpochsOK(t)'
  <2>1. EpochsOK(t) /\ observed[t] \in Int
    BY <1>1, Zenon DEF HistInv
  <2>2. observed[t] < trim_request.epoch + 1
    BY <1>1, <2>1 DEF EpochsOK
  <2>3. InTrim(loc'[t]) => loc'[t].epoch < trim_request.epoch + 1 /\ loc'[t].epoch \in Int
    <3>1. Goto(u, Idle)
      BY Zenon DEF RequestCas
    <3>2. CASE t = u
      BY <3>1, <3>2, PlaceNext, PlacesQuiet, QuietPlaces, Zenon
    <3>3. CASE t # u
      <4>1. loc'[t] = loc[t]
        BY <3>1, <3>3, Zenon DEF Goto, Shape, Located
      <4>2. InTrim(loc[t]) => loc[t].epoch \in Int
        BY TrimPlace, Zenon
      <4>3. InTrim(loc[t]) => loc[t].epoch < trim_request.epoch + 1
        BY <1>1, <2>1, <4>2 DEF EpochsOK
      <4> QED BY <4>1, <4>2, <4>3, Zenon
    <3> QED BY <3>2, <3>3, Zenon
  <2>4. observed'[t] < trim_request'.epoch
    BY <1>1, <1>2, <2>2, Zenon
  <2>5. InTrim(loc'[t]) => loc'[t].epoch < trim_request'.epoch
    BY <1>2, <2>3, Zenon
  <2>6. observed'[t] <= trim_request'.epoch
    BY <1>1, <1>2, <2>1, <2>4
  <2>7. InTrim(loc'[t]) => loc'[t].epoch <= trim_request'.epoch
    BY <1>1, <1>2, <2>3
  <2> QED BY <2>4, <2>5, <2>6, <2>7, Zenon DEF EpochsOK, InTrim
<1>5. trim_request'.epoch \in Nat
  BY <1>1, <1>2
<1> QED BY <1>1, <1>3, <1>4, <1>5, Zenon DEF HistInv

LEMMA InitHistory == HistInit => HistInv
<1> SUFFICES ASSUME HistInit PROVE HistInv
  BY Zenon
<1>1. trim_request.epoch = 0 /\ observed = [t \in Threads |-> 0] /\ due = [t \in Threads |-> FALSE]
  BY DEF HistInit, Init
<1>2. ASSUME NEW t \in Threads PROVE EpochsOK(t)
  <2>1. loc[t] = Dead
    BY Zenon DEF HistInit, Init
  <2> QED BY <1>1, <2>1 DEF EpochsOK, InTrim, Dead
<1> QED BY <1>1, <1>2 DEF HistInv

LEMMA NextHistory == IInv /\ HistInv /\ [HistNext]_histVars => HistInv'
<1> SUFFICES ASSUME IInv, HistInv, [HistNext]_histVars PROVE HistInv'
  BY Zenon
<1>1. CASE HistNext
  <2>1. PICK t \in Threads : Step(t)
    BY <1>1, Zenon DEF HistNext, Next
  <2>2. Shape /\ Recorded
    BY <1>1, Zenon DEF HistNext, IInv
  <2> QED BY <2>1, <2>2, QuietHistory, PublishHistory, Zenon
<1>2. CASE UNCHANGED histVars
  BY <1>2, Zenon DEF histVars, vars, HistInv, EpochsOK, InTrim
<1> QED BY <1>1, <1>2, Zenon

\* A thread that has recorded the current epoch has begun to serve the newest
\* request after it was published, for any number of threads that publish,
\* lose races for the word, serve and exit (HandleGlobalTrimRequest,
\* RequestGlobalTrim).
THEOREM NewestServed == HistSpec => []NewestHonoured
<1>1. HistInit => Init
  BY Zenon DEF HistInit
<1>2. [HistNext]_histVars => [Next]_vars
  BY Zenon DEF HistNext, histVars
<1>3. HistInv => NewestHonoured
  BY DEF HistInv, EpochsOK, NewestHonoured
<1> QED BY <1>1, <1>2, <1>3, InitInv, NextInv, InitHistory, NextHistory, PTL DEF HistSpec
-----------------------------------------------------------------------------
(* Reservations and cached bytes.                                          *)

Untrimmed(t, c) == IF c < loc[t].idx THEN size[t][c] ELSE 0

\* What a trim has achieved for a class it has visited.
Visited(t, c) ==
    LET l == loc[t]
    IN  /\ l.mode = kRelease => size[t][c] = 0 \/ l.cached <= l.target
        /\ l.mode = kRelease /\ l.target = 0 => size[t][c] = 0 /\ max_size[t][c] = 1
        /\ l.mode = kReuse => size[t][c] <= Batch[c] \/ l.cached <= l.target

\* A trim has counted the classes below idx, and then has the bytes left right.
CountOK(t) ==
    LET l == loc[t]
    IN  /\ InTrim(l) => l.next.pc # "dead"
        /\ l.pc = "count" => l.cached = SumOver([c \in Classes |-> Untrimmed(t, c)])
        /\ l.pc = "trim" => /\ l.cached = SumOver(size[t])
                            /\ \A c \in Classes : c > l.idx => Visited(t, c)

\* A reservation is the sum of the quotas; a cache that does not exist has none.
Reserves(t) ==
    IF Alive(t) THEN reserved[t] = SumOver(max_size[t])
    ELSE reserved[t] = 0 /\ max_size[t] = [c \in Classes |-> 1]

SumInv ==
    /\ \A t \in Threads : CountOK(t) /\ Reserves(t)
    /\ g_reserved = Total(reserved, Threads)

\* Every step but those of a running trim and an exit leads out of trims or
\* to the beginning of one.
Enters(t) ==
    \/ ~InTrim(loc'[t]) /\ loc'[t].pc # "dead"
    \/ \E m, n, e : \E next \in Places :
          next.pc # "dead" /\ loc'[t] = Trimming(m, n, e, next)

LEMMA EntersPlace ==
    ASSUME Shape, NEW t \in Threads, NEW l \in Places, l.pc # "dead", Goto(t, l)
    PROVE  Enters(t)
<1>1. loc'[t] = l
  BY PlaceNext, Zenon
<1> QED BY <1>1, PlacesQuiet, Zenon DEF Enters

LEMMA HandleEnters ==
    ASSUME Shape, NEW t \in Threads, NEW next \in Places, next.pc # "dead",
           HandleGlobalTrimRequest(t, next)
    PROVE  Enters(t)
<1>1. CASE Goto(t, next)
  BY <1>1, EntersPlace, Zenon
<1>2. CASE Goto(t, Trimming(trim_request.mode, TrimTargetForMode(trim_request.mode),
                            trim_request.epoch, next))
  BY <1>2, PlaceNext, Zenon DEF Enters
<1> QED BY <1>1, <1>2, Zenon DEF HandleGlobalTrimRequest

LEMMA StepEnters ==
    ASSUME Shape, NEW t \in Threads, Step(t), CountOK(t),
           ~Exit(t), ~CachedBytesSnapshot(t), ~TrimClass(t)
    PROVE  Enters(t)
<1>p. /\ Idle.pc # "dead" /\ SoftTrim.pc # "dead"
      /\ \A c \in Classes : Fetching(c).pc # "dead" /\ Overflowing(c).pc # "dead"
  BY DEF Idle, SoftTrim, Fetching, Overflowing
<1> USE QuietPlaces
<1>1. CASE Goto(t, Idle)
  BY <1>1, <1>p, EntersPlace, ZenonT(60)
<1>2. CASE (\E m \in Modes : RequestGlobalTrim(t, m)) \/ RequestRetry(t)
  <2>1. \E m : Goto(t, Requesting(trim_request, m))
    BY <1>2, Zenon DEF RequestGlobalTrim, RequestRetry
  <2>2. PICK m : loc'[t] = Requesting(trim_request, m)
    BY <2>1, PlaceNext, Zenon
  <2> QED BY <2>2 DEF Enters, Requesting, InTrim
<1>3. CASE \E m, n : Goto(t, Trimming(m, n, -1, Idle))
  BY <1>3, <1>p, PlaceNext, Zenon DEF Enters
<1>4. CASE am_thread_cache_trim(t)
  BY <1>4, <1>p, HandleEnters, Zenon DEF am_thread_cache_trim
<1>5. CASE TrimEnd(t)
  <2>1. InTrim(loc[t]) /\ Goto(t, loc[t].next)
    BY <1>5, Zenon DEF TrimEnd, At, InTrim
  <2>2. loc[t].next \in Places /\ loc[t].next.pc # "dead"
    BY <2>1, TrimPlace, Zenon DEF CountOK
  <2> QED BY <2>1, <2>2, EntersPlace, Zenon
<1>6. ASSUME NEW c \in Classes, Allocate(t, c) \/ FetchFromCentralCache(t, c) \/ Deallocate(t, c)
      PROVE  Enters(t)
  <2>1. loc[t].pc = "idle"
    BY <1>6, ZenonT(60) DEF Allocate, FetchFromCentralCache, Deallocate, At
  <2>2. CASE loc' = loc
    BY <2>1, <2>2 DEF Enters, InTrim
  <2>3. CASE HandleGlobalTrimRequest(t, Fetching(c)) \/ HandleGlobalTrimRequest(t, Overflowing(c))
    BY <1>p, <2>3, HandleEnters, Zenon
  <2> QED BY <1>6, <2>2, <2>3, Zenon DEF Allocate, FetchFromCentralCache, Deallocate
<1>7. CASE Construct(t) \/ RequestCas(t) \/ AcceptFetchedBatch(t) \/ DeallocateSlowPath(t)
  <2>1. Goto(t, Idle)
    BY <1>7, Zenon DEF Construct, RequestCas, AcceptFetchedBatch, DeallocateSlowPath
  <2> QED BY <1>1, <2>1, Zenon
<1>8. CASE (\E m \in Modes, n \in OwnerTargets : Trim(t, m, n)) \/ am_thread_cache_trim_own(t)
  <2>1. \E m, n : Goto(t, Trimming(m, n, -1, Idle))
    BY <1>8, Zenon DEF Trim, am_thread_cache_trim_own
  <2> QED BY <1>3, <2>1, Zenon
<1> QED BY <1>2, <1>4, <1>5, <1>6, <1>7, <1>8, ZenonT(60) DEF Step

\* A trim that begins has counted nothing.
LEMMA EnteredCounts ==
    ASSUME Shape', NEW t \in Threads, Enters(t) PROVE CountOK(t)'
<1>1. CASE ~InTrim(loc'[t])
  BY <1>1 DEF CountOK, InTrim
<1>2. ASSUME NEW m, NEW n, NEW e, NEW next \in Places, next.pc # "dead",
             loc'[t] = Trimming(m, n, e, next)
      PROVE  CountOK(t)'
  <2>1. /\ loc'[t].pc = "count" /\ loc'[t].idx = 1 /\ loc'[t].cached = 0
        /\ loc'[t].next = next
    BY <1>2 DEF Trimming
  <2>2. [c \in Classes |-> Untrimmed(t, c)'] \in [Classes -> Nat]
        /\ \A c \in Classes : [d \in Classes |-> Untrimmed(t, d)'][c] = 0
    BY <2>1 DEF Untrimmed, Classes
  <2>3. SumOver([c \in Classes |-> Untrimmed(t, c)']) = 0
    BY <2>2, SumOfZeros, Zenon
  <2> QED BY <1>2, <2>1, <2>3, SMTT(30) DEF CountOK
<1> QED BY <1>1, <1>2, Zenon DEF Enters
\* Counting one class more.
LEMMA CountStep ==
    ASSUME Shape, NEW t \in Threads, CountOK(t), CachedBytesSnapshot(t) PROVE CountOK(t)'
<1>1. PICK l, c : l = loc[t] /\ c = l.idx
  BY Zenon
<1>2. l.pc = "count" /\ l \in TrimLocs /\ c \in Classes /\ size' = size /\ max_size' = max_size
  <2>1. l.pc = "count" /\ InTrim(l)
    BY <1>1, Zenon DEF CachedBytesSnapshot, At, InTrim
  <2> QED BY <1>1, <2>1, TrimPlace, Zenon DEF CachedBytesSnapshot, Shape, Located, lists
<1>3. size[t] \in [Classes -> Nat] /\ ClassSize[c] \in Nat /\ c \in Nat /\ c <= NumClasses
  BY <1>2, ClassesAssumption DEF Shape, Classes
<1> DEFINE f == [d \in Classes |-> Untrimmed(t, d)]
           g == [f EXCEPT ![c] = size[t][c]]
           total == l.cached + size[t][c] * ClassSize[c]
<1>4. f \in [Classes -> Int] /\ f[c] = 0 /\ \A d \in Classes : f[d] = IF d < c THEN size[t][d] ELSE 0
  <2>1. f = [d \in Classes |-> IF d < c THEN size[t][d] ELSE 0]
    BY <1>1, Zenon DEF Untrimmed
  <2>2. \A d \in Classes : size[t][d] \in Int /\ 0 \in Int
    BY <1>3
  <2>3. \A d \in Classes : f[d] = IF d < c THEN size[t][d] ELSE 0
    BY <2>1, Zenon
  <2>4. f \in [Classes -> Int]
    BY <2>1, <2>2, Zenon
  <2>5. ~(c < c)
    BY <1>3
  <2> QED BY <1>2, <2>3, <2>4, <2>5, Zenon
<1>5. l.cached = SumOver(f) /\ l.next.pc # "dead" /\ l.cached \in Int
  BY <1>1, <1>2, <1>4, SumInt, Zenon DEF CountOK, InTrim
<1>6. SumOver(g) = total
  <2>1. size[t][c] \in Int
    BY <1>2, <1>3
  <2>2. SumOver(g) = SumOver(f) + (size[t][c] - f[c]) * ClassSize[c]
    BY <1>2, <1>4, <2>1, SumChange, Zenon
  <2>3. size[t][c] - f[c] = size[t][c]
    BY <1>4, <2>1
  <2> QED BY <1>5, <2>2, <2>3, ZenonT(60)
<1>7. \A d \in Classes : g[d] = IF d < c + 1 THEN size[t][d] ELSE 0
  <2>1. ASSUME NEW d \in Classes PROVE g[d] = IF d < c + 1 THEN size[t][d] ELSE 0
    <3>1. d \in Nat
      BY DEF Classes
    <3>2. CASE d = c
      BY <1>3, <1>4, <3>2
    <3>3. CASE d # c
      <4>1. g[d] = f[d]
        BY <3>3, Zenon
      <4> QED BY <1>3, <1>4, <3>1, <3>3, <4>1
    <3> QED BY <3>2, <3>3, Zenon
  <2> QED BY <2>1, Zenon
<1>8. g \in [Classes -> Int]
  <2>1. size[t][c] \in Int
    BY <1>2, <1>3
  <2> QED BY <1>4, <2>1, ZenonT(60)
<1> HIDE DEF f, g, total
<1>9. CASE c = NumClasses
  <2>1. PICK k : k = [l EXCEPT !.cached = total, !.pc = "trim"]
    BY Zenon
  <2>2. k.cached = total /\ k.pc = "trim" /\ k.idx = c /\ k.next = l.next
    BY <1>1, <1>2, <2>1 DEF TrimLocs
  <2>3. Goto(t, k)
    BY <1>1, <1>9, <2>1, Zenon DEF CachedBytesSnapshot, total
  <2>4. loc'[t] = k
    BY <2>3, PlaceNext, Zenon
  <2>5. g = size[t]
    <3>1. \A d \in Classes : g[d] = size[t][d]
      BY <1>3, <1>7, <1>9 DEF Classes
    <3> QED BY <1>3, <1>8, <3>1
  <2>6. \A d \in Classes : ~(d > c)
    BY <1>3, <1>9 DEF Classes
  <2>7. loc'[t].cached = SumOver(size'[t])
    BY <1>2, <1>6, <2>2, <2>4, <2>5, ZenonT(60)
  <2> QED BY <1>5, <2>2, <2>4, <2>6, <2>7 DEF CountOK
<1>10. CASE c # NumClasses
  <2>1. PICK k : k = [l EXCEPT !.cached = total, !.idx = c + 1]
    BY Zenon
  <2>2. k.cached = total /\ k.pc = "count" /\ k.idx = c + 1 /\ k.next = l.next
    BY <1>1, <1>2, <2>1 DEF TrimLocs
  <2>3. Goto(t, k)
    BY <1>1, <1>10, <2>1, ZenonT(60) DEF CachedBytesSnapshot, total
  <2>4. loc'[t] = k
    BY <2>3, PlaceNext, Zenon
  <2>5. g = [d \in Classes |-> Untrimmed(t, d)']
    <3>1. [d \in Classes |-> Untrimmed(t, d)'] = [d \in Classes |-> IF d < c + 1 THEN size[t][d] ELSE 0]
      BY <1>2, <2>2, <2>4, Zenon DEF Untrimmed
    <3>2. g = [d \in Classes |-> IF d < c + 1 THEN size[t][d] ELSE 0]
      BY <1>7, <1>8
    <3> QED BY <3>1, <3>2, Zenon
  <2>6. loc'[t].cached = SumOver([d \in Classes |-> Untrimmed(t, d)'])
    BY <1>6, <2>2, <2>4, <2>5, Zenon
  <2> QED BY <1>5, <2>2, <2>4, <2>6 DEF CountOK
<1> QED BY <1>9, <1>10, Zenon

\* The number of objects that brings the bytes left down to the target.
LEMMA CeilingEnough ==
    ASSUME NEW a \in Nat, NEW b \in Nat, a > b, NEW s \in Nat \ {0}
    PROVE  LET q == (a - b + s - 1) \div s
           IN  q \in Nat /\ a - q * s <= b
<1>1. PICK x : x = a - b + s - 1
  BY Zenon
<1>2. x \in Nat
  BY <1>1
<1>3. PICK q : q = x \div s
  BY Zenon
<1>4. q \in Nat /\ q * s \in Nat /\ x < q * s + s
  BY <1>2, <1>3
<1>5. q \in Nat /\ a - q * s <= b
  BY <1>1, <1>4
<1> QED BY <1>1, <1>3, <1>5, Zenon

LEMMA Cancel ==
    ASSUME NEW n \in Nat, NEW e \in Nat, NEW s \in Nat \ {0}, n * s <= e * s PROVE n <= e
<1> SUFFICES ASSUME e + 1 <= n PROVE FALSE
  OBVIOUS
<1>1. (e + 1) * s <= n * s
  OBVIOUS
<1>2. (e + 1) * s = e * s + s
  OBVIOUS
<1>3. e * s \in Nat /\ n * s \in Nat
  OBVIOUS
<1> QED BY <1>1, <1>2, <1>3

\* What a trim evicts from a list meets the target or leaves only what it must.
LEMMA EvictMeets ==
    ASSUME Shape, NEW t \in Threads, NEW c \in Classes, NEW m \in Modes,
           NEW cached \in Nat, NEW target \in Nat, size[t][c] * ClassSize[c] <= cached
    PROVE  LET e == EvictCount(t, c, m, cached, target)
           IN  /\ e \in 0 .. size[t][c]
               /\ cached - e * ClassSize[c] <= target \/ e = Evictable(t, c, m)
               /\ target = 0 /\ m = kRelease => e = size[t][c]
<1>1. PICK n, s, v : n = size[t][c] /\ s = ClassSize[c] /\ v = Evictable(t, c, m)
  BY Zenon
<1>2. n \in Nat /\ s \in Nat \ {0} /\ Batch[c] \in Nat
  BY <1>1, ClassesAssumption DEF Shape
<1>3. v \in 0 .. n /\ (m = kRelease => v = n)
  BY <1>1, <1>2 DEF Evictable, Lesser, kRelease, kReuse
<1>4. PICK e : e = EvictCount(t, c, m, cached, target)
  BY Zenon
<1>5. e \in 0 .. n
  <2>1. cached \in Int
    OBVIOUS
  <2> QED BY <1>1, <1>4, <2>1, EvictInRange, Zenon
<1>6. n * s <= cached
  BY <1>1, Zenon
<1>7. CASE ~(cached > target)
  <2>1. e = 0 /\ cached <= target
    BY <1>4, <1>7 DEF EvictCount
  <2>2. cached - e * s <= target
    BY <1>2, <2>1
  <2>3. target = 0 => n = 0
    <3>1. ASSUME target = 0 PROVE n = 0
      <4>1. n * s <= 0 * s
        BY <1>2, <1>6, <2>1, <3>1
      <4>2. n <= 0
        BY <1>2, <4>1, Cancel
      <4> QED BY <1>2, <4>2
    <3> QED BY <3>1
  <2> QED BY <1>1, <1>4, <1>5, <2>1, <2>2, <2>3, ZenonT(60)
<1>8. CASE cached > target
  <2>1. PICK q : q = (cached - target + s - 1) \div s
    BY Zenon
  <2>2. q \in Nat /\ cached - q * s <= target
    BY <1>2, <1>8, <2>1, CeilingEnough, Zenon
  <2>3. e = Lesser(v, q)
    BY <1>1, <1>4, <1>8, <2>1, Zenon DEF EvictCount
  <2>4. e = v \/ (e = q /\ q <= v)
    BY <1>3, <2>2, <2>3 DEF Lesser
  <2>5. ASSUME target = 0, m = kRelease PROVE e = n
    <3>1. CASE e = v
      BY <1>3, <2>5, <3>1, Zenon
    <3>2. CASE e = q /\ q <= v
      <4>1. n * s <= q * s
        BY <1>2, <1>6, <2>2, <2>5
      <4>2. n <= q
        BY <1>2, <2>2, <4>1, Cancel, Zenon
      <4> QED BY <1>2, <1>3, <2>2, <3>2, <4>2
    <3> QED BY <2>4, <3>1, <3>2, Zenon
  <2>6. cached - e * s <= target \/ e = v
    BY <2>2, <2>4, ZenonT(60)
  <2> QED BY <1>1, <1>4, <1>5, <2>5, <2>6, Zenon
<1> QED BY <1>7, <1>8, Zenon
\* Evicting from one class more.
LEMMA TrimStep ==
    ASSUME IInv, NEW t \in Threads, CountOK(t), TrimClass(t) PROVE CountOK(t)'
<1>0. Shape /\ Located /\ ThreadOK(t)
  BY Zenon DEF IInv, Shape
<1>1. PICK l, c, m : l = loc[t] /\ c = l.idx /\ m = l.mode
  BY Zenon
<1>2. PICK e : e = EvictCount(t, c, m, l.cached, l.target)
  BY Zenon
<1>3. PICK s, n : s = size[t][c] - e /\ n = ContractedQuota(t, c, m, s)
  BY Zenon
<1>4. /\ l.pc = "trim" /\ c > 0 /\ SetSize(t, c, s) /\ SetQuota(t, c, n)
      /\ Goto(t, [l EXCEPT !.idx = c - 1, !.cached = @ - e * ClassSize[c]])
  BY <1>1, <1>2, <1>3, Zenon DEF TrimClass, At
<1>5. l \in TrimLocs /\ InTrim(l)
  <2>1. InTrim(l)
    BY <1>4, Zenon DEF InTrim
  <2> QED BY <1>0, <1>1, <2>1, TrimPlace, Zenon
<1>6. c \in Classes /\ m \in Modes /\ l.target \in Nat
  BY <1>1, <1>4, <1>5, ClassesAssumption DEF TrimLocs, Classes
<1>7. /\ size[t] \in [Classes -> Nat] /\ size[t][c] \in Nat /\ max_size[t][c] \in Nat
      /\ max_size[t][c] >= 1 /\ Batch[c] \in Nat \ {0, 1} /\ ClassSize[c] \in Nat
  BY <1>0, <1>6, ClassesAssumption, CeilingNat DEF Shape, ThreadOK, ListOK
<1>8. /\ l.cached = SumOver(size[t]) /\ l.next.pc # "dead"
      /\ \A d \in Classes : d > c => Visited(t, d)
  BY <1>1, <1>4, <1>5, Zenon DEF CountOK
<1>9. l.cached \in Nat /\ size[t][c] * ClassSize[c] <= l.cached
  BY <1>6, <1>7, <1>8, SumNat, Zenon
<1>10. /\ e \in 0 .. size[t][c]
       /\ l.cached - e * ClassSize[c] <= l.target \/ e = Evictable(t, c, m)
       /\ l.target = 0 /\ m = kRelease => e = size[t][c]
  BY <1>0, <1>2, <1>6, <1>9, EvictMeets, ZenonT(60)
<1>11. PICK x : x = l.cached - e * ClassSize[c]
  BY Zenon
<1>12. s \in Nat /\ e \in Nat /\ x \in Int /\ x <= l.cached
  <2>1. s \in Nat /\ e \in Nat
    BY <1>3, <1>7, <1>10
  <2>2. e * ClassSize[c] \in Nat
    BY <1>7, <2>1
  <2> QED BY <1>9, <1>11, <2>1, <2>2
<1>13. /\ size'[t] = [size[t] EXCEPT ![c] = s]
       /\ max_size'[t] = [max_size[t] EXCEPT ![c] = n]
  BY <1>0, <1>4, ZenonT(60) DEF SetSize, SetQuota, Shape
<1>14. x = SumOver(size'[t])
  <2>1. size[t] \in [Classes -> Int] /\ s \in Int
    BY <1>7, <1>12
  <2>2. SumOver(size'[t]) = SumOver(size[t]) + (s - size[t][c]) * ClassSize[c]
    BY <1>6, <1>13, <2>1, SumChange, Zenon
  <2>3. (s - size[t][c]) * ClassSize[c] = - (e * ClassSize[c])
    <3>1. s - size[t][c] = - e
      BY <1>3, <1>7, <1>12
    <3>2. (- e) * ClassSize[c] = - (e * ClassSize[c])
      BY <1>7, <1>12
    <3> QED BY <3>1, <3>2, ZenonT(60)
  <2>4. e * ClassSize[c] \in Nat
    BY <1>7, <1>12
  <2> QED BY <1>8, <1>9, <1>11, <2>2, <2>3, <2>4, SMTT(30)
<1>15. PICK k : k = [l EXCEPT !.idx = c - 1, !.cached = x]
  BY Zenon
<1>16. /\ k.pc = "trim" /\ k.next = l.next /\ k.idx = c - 1 /\ k.cached = x
       /\ k.mode = m /\ k.target = l.target
  BY <1>1, <1>4, <1>5, <1>15 DEF TrimLocs
<1>17. loc'[t] = k
  <2>1. Goto(t, k)
    BY <1>4, <1>11, <1>15, Zenon
  <2> QED BY <1>0, <2>1, PlaceNext, Zenon
<1>18. Visited(t, c)'
  <2>1. size'[t][c] = s /\ max_size'[t][c] = n
    BY <1>0, <1>6, <1>7, <1>13, ZenonT(60) DEF Shape
  <2>2. x <= l.target \/ e = Evictable(t, c, m)
    BY <1>10, <1>11, ZenonT(60)
  <2>3. ASSUME e = Evictable(t, c, m) PROVE (m = kRelease => s = 0) /\ (m = kReuse => s <= Batch[c])
    BY <1>3, <1>7, <2>3, SMTT(30) DEF Evictable, Lesser, kRelease, kReuse
  <2>4. ASSUME m = kRelease, l.target = 0 PROVE s = 0 /\ n = 1
    <3>1. s = 0
      BY <1>3, <1>7, <1>10, <2>4
    <3> QED BY <1>3, <1>7, <2>4, <3>1, SMTT(30) DEF ContractedQuota, Lesser, Greater
  <2> QED BY <1>16, <1>17, <2>1, <2>2, <2>3, <2>4, ZenonT(60) DEF Visited
<1>19. ASSUME NEW d \in Classes, d > c PROVE Visited(t, d)'
  <2>1. d # c
    BY <1>6, <1>19 DEF Classes
  <2>2. size'[t][d] = size[t][d] /\ max_size'[t][d] = max_size[t][d]
    BY <1>0, <1>6, <1>7, <1>13, <2>1, ZenonT(60) DEF Shape
  <2>3. l.cached <= l.target => x <= l.target
    BY <1>6, <1>9, <1>12
  <2>4. Visited(t, d)
    BY <1>8, <1>19, Zenon
  <2> QED BY <1>1, <1>16, <1>17, <2>2, <2>3, <2>4, ZenonT(60) DEF Visited
<1>20. \A d \in Classes : d > c - 1 => d = c \/ d > c
  BY <1>6 DEF Classes
<1> QED BY <1>8, <1>14, <1>16, <1>17, <1>18, <1>19, <1>20, SMTT(30) DEF CountOK

-----------------------------------------------------------------------------

\* One quota changes, and the accounts with it; or they stay.
Adjusts(t) ==
    \/ UNCHANGED <<max_size, reserved, g_reserved>>
    \/ \E c \in Classes : \E n : SetQuota(t, c, n)

LEMMA StepAdjusts ==
    ASSUME Shape, NEW t \in Threads, Step(t), ~Construct(t), ~Exit(t)
    PROVE  Adjusts(t) /\ Alive(t)
<1>1. CASE TrimClass(t)
  <2>1. loc[t].pc = "trim" /\ loc[t].idx > 0 /\ \E n : SetQuota(t, loc[t].idx, n)
    BY <1>1, Zenon DEF TrimClass, At
  <2>2. loc[t] \in TrimLocs
    BY <2>1, TrimPlace, Zenon DEF InTrim
  <2>3. loc[t].idx \in Classes
    BY <2>1, <2>2, ClassesAssumption DEF TrimLocs, Classes
  <2> QED BY <2>1, <2>3 DEF Adjusts, Alive
<1>2. CASE AcceptFetchedBatch(t) \/ DeallocateSlowPath(t)
  <2>1. loc[t].pc \in {"fetch", "overflow"}
    BY <1>2 DEF AcceptFetchedBatch, DeallocateSlowPath, At
  <2>2. loc[t].class \in Classes
    <3>1. loc[t] \in Places \cup RequestLocs \cup TrimLocs
      BY Zenon DEF Shape, Located
    <3>2. CASE loc[t] \in RequestLocs \cup TrimLocs
      BY <2>1, <3>2 DEF RequestLocs, TrimLocs
    <3>3. CASE loc[t] \in Places
      BY <2>1, <3>3, SMTT(30) DEF Places, Dead, Idle, SoftTrim, Fetching, Overflowing
    <3> QED BY <3>1, <3>2, <3>3, Zenon
  <2>3. \/ UNCHANGED <<max_size, reserved, g_reserved>>
        \/ \E n : SetQuota(t, loc[t].class, n)
    BY <1>2, Zenon DEF AcceptFetchedBatch, DeallocateSlowPath, quotas
  <2> QED BY <2>1, <2>2, <2>3, SMTT(30) DEF Adjusts, Alive
<1>3. ASSUME ~TrimClass(t), ~AcceptFetchedBatch(t), ~DeallocateSlowPath(t)
      PROVE  UNCHANGED <<max_size, reserved, g_reserved>> /\ Alive(t)
  <2> USE DEF lists, quotas, At, Alive
  <2>1. CASE (\E m \in Modes : RequestGlobalTrim(t, m)) \/ RequestCas(t) \/ RequestRetry(t)
    BY <2>1, SMTT(30) DEF RequestGlobalTrim, RequestCas, RequestRetry
  <2>2. CASE (\E m \in Modes, n \in OwnerTargets : Trim(t, m, n))
             \/ am_thread_cache_trim(t) \/ am_thread_cache_trim_own(t)
    BY <2>2 DEF Trim, am_thread_cache_trim, am_thread_cache_trim_own
  <2>3. CASE CachedBytesSnapshot(t) \/ TrimEnd(t)
    BY <2>3, SMTT(30) DEF CachedBytesSnapshot, TrimEnd
  <2>4. CASE \E c \in Classes : Allocate(t, c) \/ FetchFromCentralCache(t, c) \/ Deallocate(t, c)
    BY <2>4 DEF Allocate, FetchFromCentralCache, Deallocate
  <2> QED BY <1>3, <2>1, <2>2, <2>3, <2>4, ZenonT(60) DEF Step
<1> QED BY <1>1, <1>2, <1>3, ZenonT(60) DEF Adjusts

LEMMA ThreadTotal ==
    ASSUME NEW f \in [Threads -> Int], NEW t \in Threads, NEW v \in Int
    PROVE  Total([f EXCEPT ![t] = v], Threads) = Total(f, Threads) + (v - f[t])
<1> DEFINE g == [f EXCEPT ![t] = v]
<1>1. g \in [Threads -> Int] /\ g[t] = v /\ \A u \in Threads : u # t => g[u] = f[u]
  BY Zenon
<1> HIDE DEF g
<1>2. Total(g, Threads) = Total(f, Threads) + (g[t] - f[t])
  BY <1>1, ThreadsAssumption, TotalChange, Zenon
<1> QED BY <1>1, <1>2, Zenon DEF g

\* The process-wide reservation follows a change of one thread's.
LEMMA TotalFollows ==
    ASSUME Shape, g_reserved = Total(reserved, Threads),
           NEW t \in Threads, NEW v \in Int, reserved' = [reserved EXCEPT ![t] = v],
           g_reserved' = g_reserved + (v - reserved[t])
    PROVE  g_reserved' = Total(reserved', Threads)
<1>1. PICK f : f = reserved
  BY Zenon
<1>2. f \in [Threads -> Int]
  BY <1>1, Zenon DEF Shape
<1>3. Total([f EXCEPT ![t] = v], Threads) = Total(f, Threads) + (v - f[t])
  BY <1>2, ThreadTotal, Zenon
<1> QED BY <1>1, <1>3, Zenon

LEMMA AdjustReserves ==
    ASSUME Shape, Shape', SumInv, NEW t \in Threads, Adjusts(t), Alive(t), Alive(t)'
    PROVE  Reserves(t)' /\ g_reserved' = Total(reserved', Threads)
<1>0. reserved[t] = SumOver(max_size[t]) /\ g_reserved = Total(reserved, Threads)
  BY Zenon DEF SumInv, Reserves
<1>1. CASE UNCHANGED <<max_size, reserved, g_reserved>>
  <2>1. reserved'[t] = SumOver(max_size'[t]) /\ g_reserved' = Total(reserved', Threads)
    BY <1>0, <1>1
  <2> QED BY <2>1, Zenon DEF Reserves, Alive
<1>2. ASSUME NEW c \in Classes, NEW n, SetQuota(t, c, n)
      PROVE  Reserves(t)' /\ g_reserved' = Total(reserved', Threads)
  <2>1. PICK delta : delta = (n - max_size[t][c]) * ClassSize[c]
    BY Zenon
  <2>2. /\ max_size' = [max_size EXCEPT ![t][c] = n]
        /\ reserved' = [reserved EXCEPT ![t] = @ + delta] /\ g_reserved' = g_reserved + delta
    BY <1>2, <2>1, Zenon DEF SetQuota
  <2>3. max_size'[t] = [max_size[t] EXCEPT ![c] = n] /\ max_size'[t][c] = n
        /\ reserved'[t] = reserved[t] + delta
    BY <2>2, ZenonT(60) DEF Shape
  <2>4. n \in Int /\ max_size[t] \in [Classes -> Int] /\ reserved[t] \in Int
        /\ ClassSize[c] \in Nat /\ max_size[t][c] \in Int
    BY <2>3, ClassesAssumption DEF Shape
  <2>5. SumOver(max_size'[t]) = SumOver(max_size[t]) + (n - max_size[t][c]) * ClassSize[c]
    <3>1. PICK f : f = max_size[t]
      BY Zenon
    <3>2. SumOver([f EXCEPT ![c] = n]) = SumOver(f) + (n - f[c]) * ClassSize[c]
      BY <2>4, <3>1, SumChange, Zenon
    <3> QED BY <2>3, <3>1, <3>2, Zenon
  <2>6. reserved'[t] = SumOver(max_size'[t])
    BY <1>0, <2>1, <2>3, <2>5, ZenonT(60)
  <2>7. delta \in Int
    BY <2>1, <2>4
  <2>8. PICK v : v = reserved[t] + delta
    BY Zenon
  <2>9. v \in Int /\ v - reserved[t] = delta
    BY <2>4, <2>7, <2>8
  <2>10. reserved' = [reserved EXCEPT ![t] = v] /\ g_reserved' = g_reserved + (v - reserved[t])
    BY <2>2, <2>8, <2>9, Zenon
  <2>11. g_reserved' = Total(reserved', Threads)
    BY <1>0, <2>9, <2>10, TotalFollows, Zenon
  <2> QED BY <2>6, <2>11, Zenon DEF Reserves, Alive
<1> QED BY <1>1, <1>2, Zenon DEF Adjusts

LEMMA ConstructReserves ==
    ASSUME Shape, SumInv, NEW t \in Threads, Construct(t)
    PROVE  Reserves(t)' /\ g_reserved' = Total(reserved', Threads)
<1>1. loc[t].pc = "dead" /\ Goto(t, Idle) /\ max_size' = max_size
      /\ reserved' = [reserved EXCEPT ![t] = InitialReservedQuotaBytes]
      /\ g_reserved' = g_reserved + InitialReservedQuotaBytes
  BY Zenon DEF Construct, At, lists
<1>2. /\ g_reserved = Total(reserved, Threads)
      /\ reserved[t] = 0 /\ max_size[t] = [c \in Classes |-> 1]
  BY <1>1, Zenon DEF SumInv, Reserves, Alive
<1>3. InitialReservedQuotaBytes \in Int
      /\ InitialReservedQuotaBytes - reserved[t] = InitialReservedQuotaBytes
  BY <1>2, BytesNat
<1>4. g_reserved' = Total(reserved', Threads)
  <2>1. g_reserved' = g_reserved + (InitialReservedQuotaBytes - reserved[t])
    BY <1>1, <1>3, Zenon
  <2> QED BY <1>1, <1>2, <1>3, <2>1, TotalFollows, Zenon
<1>5. reserved'[t] = SumOver(max_size'[t])
  BY <1>1, <1>2, Zenon DEF InitialReservedQuotaBytes, Shape
<1>6. loc'[t].pc # "dead"
  BY <1>1, PlaceNext DEF Idle
<1> QED BY <1>4, <1>5, <1>6, Zenon DEF Reserves, Alive

LEMMA ExitReserves ==
    ASSUME Shape, SumInv, NEW t \in Threads, Exit(t)
    PROVE  Reserves(t)' /\ g_reserved' = Total(reserved', Threads)
<1>1. PICK freed : freed = ReleaseAllBytes(t)
  BY Zenon
<1>2. /\ max_size' = [max_size EXCEPT ![t] = [c \in Classes |-> 1]]
      /\ reserved' = [reserved EXCEPT ![t] = 0] /\ Goto(t, Dead)
      /\ g_reserved' = (g_reserved - freed) - (reserved[t] - freed)
  BY <1>1, Zenon DEF Exit
<1>3. freed \in Int
  <2>1. [c \in Classes |-> max_size[t][c] - 1] \in [Classes -> Int]
    BY DEF Shape
  <2> QED BY <1>1, <2>1, SumInt, Zenon DEF ReleaseAllBytes
<1>4. reserved[t] \in Int /\ g_reserved = Total(reserved, Threads)
  BY Zenon DEF Shape, SumInv
<1>5. g_reserved \in Int
  BY <1>4, ThreadsAssumption, TotalInt, Zenon DEF Shape
<1>6. g_reserved' = g_reserved + (0 - reserved[t])
  BY <1>2, <1>3, <1>4, <1>5
<1>7. 0 \in Int
  OBVIOUS
<1>8. g_reserved' = Total(reserved', Threads)
  BY <1>2, <1>4, <1>6, <1>7, TotalFollows, Zenon
<1>9. reserved'[t] = 0 /\ max_size'[t] = [c \in Classes |-> 1]
  BY <1>2, Zenon DEF Shape
<1>10. loc'[t].pc = "dead"
  BY <1>2, PlaceNext DEF Dead
<1> QED BY <1>8, <1>9, <1>10, Zenon DEF Reserves, Alive

LEMMA InitSums == Init => SumInv
<1> SUFFICES ASSUME Init PROVE SumInv
  BY Zenon
<1>1. ASSUME NEW t \in Threads PROVE CountOK(t) /\ Reserves(t)
  <2>1. loc[t] = Dead /\ reserved[t] = 0 /\ max_size[t] = [c \in Classes |-> 1]
    BY Zenon DEF Init
  <2>2. loc[t].pc = "dead"
    BY <2>1 DEF Dead
  <2>3. CountOK(t)
    BY <2>2 DEF CountOK, InTrim
  <2> QED BY <2>1, <2>2, <2>3, Zenon DEF Reserves, Alive
<1>2. g_reserved = Total(reserved, Threads)
  <2>1. g_reserved = 0 /\ reserved = [t \in Threads |-> 0]
    BY Zenon DEF Init
  <2> QED BY <2>1, ThreadsAssumption, TotalZero, Zenon
<1> QED BY <1>1, <1>2, Zenon DEF SumInv

LEMMA NextSums == IInv /\ SumInv /\ [Next]_vars => SumInv'
<1> SUFFICES ASSUME IInv, SumInv, [Next]_vars PROVE SumInv'
  BY Zenon
<1>1. ASSUME NEW t \in Threads, Step(t) PROVE SumInv'
  <2>0. IInv'
    BY <1>1, NextInv, Zenon DEF Next
  <2>1. Shape /\ Shape' /\ CountOK(t)
    BY <2>0, Zenon DEF IInv, SumInv
  <2>2. CountOK(t)' /\ (~Exit(t) => Alive(t)')
    <3>1. CASE Exit(t)
      <4>1. loc'[t].pc = "dead"
        BY <2>1, <3>1, PlaceNext DEF Exit, Dead
      <4> QED BY <3>1, <4>1, SMTT(30) DEF CountOK, InTrim
    <3>2. CASE CachedBytesSnapshot(t) \/ TrimClass(t)
      <4>1. CountOK(t)'
        BY <2>1, <3>2, CountStep, TrimStep, Zenon
      <4>2. loc'[t].pc # "dead"
        <5>1. InTrim(loc[t])
          BY <3>2, Zenon DEF CachedBytesSnapshot, TrimClass, At, InTrim
        <5>2. loc[t] \in TrimLocs
          BY <2>1, <5>1, TrimPlace, Zenon
        <5>3. CASE CachedBytesSnapshot(t)
          BY <2>1, <5>2, <5>3, PlaceNext DEF CachedBytesSnapshot, TrimLocs, At
        <5>4. CASE TrimClass(t)
          BY <2>1, <5>2, <5>4, PlaceNext DEF TrimClass, TrimLocs, At
        <5> QED BY <3>2, <5>3, <5>4, Zenon
      <4> QED BY <4>1, <4>2, Zenon DEF Alive
    <3>3. ASSUME ~Exit(t), ~CachedBytesSnapshot(t), ~TrimClass(t) PROVE CountOK(t)' /\ Alive(t)'
      <4>1. Enters(t)
        BY <1>1, <2>1, <3>3, StepEnters, Zenon
      <4>2. CountOK(t)'
        BY <2>1, <4>1, EnteredCounts, Zenon
      <4>3. loc'[t].pc # "dead"
        <5>1. \A m, n, e, next : Trimming(m, n, e, next).pc # "dead"
          BY DEF Trimming
        <5> QED BY <4>1, <5>1, Zenon DEF Enters
      <4> QED BY <4>2, <4>3, Zenon DEF Alive
    <3> QED BY <3>1, <3>2, <3>3, ZenonT(60)
  <2>3. Reserves(t)' /\ g_reserved' = Total(reserved', Threads)
    <3>1. CASE Construct(t)
      BY <2>1, <3>1, ConstructReserves, Zenon
    <3>2. CASE Exit(t)
      BY <2>1, <3>2, ExitReserves, Zenon
    <3>3. ASSUME ~Construct(t), ~Exit(t) PROVE Reserves(t)' /\ g_reserved' = Total(reserved', Threads)
      BY <1>1, <2>1, <2>2, <3>3, StepAdjusts, AdjustReserves, ZenonT(60)
    <3> QED BY <3>1, <3>2, <3>3, Zenon
  <2>4. ASSUME NEW u \in Threads \ {t} PROVE CountOK(u)' /\ Reserves(u)'
    <3>1. /\ size'[u] = size[u] /\ max_size'[u] = max_size[u]
          /\ reserved'[u] = reserved[u] /\ loc'[u] = loc[u]
      BY <1>1, <2>1, OthersUntouched, Zenon
    <3>2. CountOK(u) /\ Reserves(u)
      BY Zenon DEF SumInv
    <3>3. Reserves(u)'
      BY <3>1, <3>2, Zenon DEF Reserves, Alive
    <3>4. [c \in Classes |-> Untrimmed(u, c)'] = [c \in Classes |-> Untrimmed(u, c)]
      BY <3>1, Zenon DEF Untrimmed
    <3>5. CountOK(u)'
      BY <3>1, <3>2, <3>4, ZenonT(60) DEF CountOK, Visited
    <3> QED BY <3>3, <3>5, Zenon
  <2> QED BY <2>2, <2>3, <2>4, Zenon DEF SumInv
<1>2. CASE UNCHANGED vars
  BY <1>2 DEF vars, SumInv, CountOK, Visited, Reserves, Untrimmed, Alive
<1> QED BY <1>1, <1>2, Zenon DEF Next

LEMMA SumsInvariant == Spec => [](IInv /\ SumInv)
BY InitInv, NextInv, InitSums, NextSums, PTL DEF Spec

\* The reservation a thread keeps by adding and subtracting deltas is the sum
\* of its quotas in bytes and stays within the budget the classes share,
\* whatever refills, overflows, trims, constructions and exits interleave, and
\* the telemetry is the sum over any number of threads (CanSetQuota, SetQuota,
\* constructor and destructor).
THEOREM QuotasAccounted == Spec => []QuotaAccounting
<1>1. IInv /\ SumInv => QuotaAccounting
  <2> SUFFICES ASSUME IInv, SumInv PROVE QuotaAccounting
    BY Zenon
  <2>1. ASSUME NEW t \in Threads, Alive(t)
        PROVE  /\ reserved[t] = SumOver(max_size[t])
               /\ reserved[t] >= InitialReservedQuotaBytes
               /\ reserved[t] <= cache_budget_bytes
    <3>1. reserved[t] = SumOver(max_size[t])
      BY <2>1, Zenon DEF SumInv, Reserves
    <3>2. PICK f, g : f = [c \in Classes |-> 1] /\ g = max_size[t]
      BY Zenon
    <3>3. f \in [Classes -> Int] /\ g \in [Classes -> Int] /\ \A c \in Classes : f[c] <= g[c]
      BY <3>2, CeilingNat DEF IInv, Shape, ThreadOK, ListOK
    <3>4. SumOver(f) <= SumOver(g) /\ SumOver(f) \in Int /\ SumOver(g) \in Int
      BY <3>3, SumMonotone, SumInt, Zenon
    <3>5. SumOver(f) = InitialReservedQuotaBytes /\ SumOver(g) = reserved[t]
      BY <3>1, <3>2, Zenon DEF InitialReservedQuotaBytes
    <3>6. reserved[t] >= InitialReservedQuotaBytes
      BY <3>4, <3>5
    <3>7. reserved[t] <= cache_budget_bytes
      BY Zenon DEF IInv, ThreadOK
    <3> QED BY <3>1, <3>6, <3>7, Zenon
  <2> QED BY <2>1, Zenon DEF SumInv, QuotaAccounting
<1> QED BY <1>1, SumsInvariant, PTL

\* A trim has its bytes right at every class and ends where it promises, for
\* any classes, batches and targets (Trim, CachedBytesSnapshot).
THEOREM TrimsMeetTarget == Spec => []TrimMeetsTarget
<1>1. IInv /\ SumInv => TrimMeetsTarget
  <2> SUFFICES ASSUME IInv, SumInv, NEW t \in Threads, loc[t].pc = "trim"
               PROVE  LET l == loc[t]
                      IN  /\ l.cached = SumOver(size[t])
                          /\ l.idx = 0 =>
                               /\ l.mode = kRelease => l.cached <= l.target
                               /\ l.mode = kRelease /\ l.target = 0 =>
                                    /\ \A c \in Classes : size[t][c] = 0 /\ max_size[t][c] = 1
                                    /\ reserved[t] = InitialReservedQuotaBytes
                               /\ l.mode = kReuse =>
                                    \/ l.cached <= l.target
                                    \/ \A c \in Classes : size[t][c] <= Batch[c]
    BY Zenon DEF TrimMeetsTarget, At
  <2>1. PICK l : l = loc[t]
    BY Zenon
  <2>2. l.cached = SumOver(size[t]) /\ \A c \in Classes : c > l.idx => Visited(t, c)
    BY <2>1, Zenon DEF SumInv, CountOK
  <2>3. Shape /\ l.target \in Nat
    <3>1. Shape
      BY Zenon DEF IInv
    <3>2. l \in TrimLocs
      BY <2>1, <3>1, TrimPlace, ZenonT(60) DEF InTrim
    <3> QED BY <3>1, <3>2 DEF TrimLocs
  <2>4. ASSUME l.idx = 0 PROVE \A c \in Classes : Visited(t, c)
    BY <2>2, <2>4 DEF Classes
  <2>5. size[t] \in [Classes -> Nat] /\ max_size[t] \in [Classes -> Nat]
    BY <2>3, Zenon DEF Shape
  <2>6. ASSUME l.idx = 0, l.mode = kRelease PROVE l.cached <= l.target
    <3>1. CASE \A c \in Classes : size[t][c] = 0
      <4>1. l.cached = 0
        BY <2>2, <2>5, <3>1, SumOfZeros, Zenon
      <4> QED BY <2>3, <4>1
    <3>2. CASE \E c \in Classes : size[t][c] # 0
      BY <2>1, <2>4, <2>6, <3>2, Zenon DEF Visited
    <3> QED BY <3>1, <3>2, Zenon
  <2>7. ASSUME l.idx = 0, l.mode = kRelease, l.target = 0
        PROVE  (\A c \in Classes : size[t][c] = 0 /\ max_size[t][c] = 1)
               /\ reserved[t] = InitialReservedQuotaBytes
    <3>1. \A c \in Classes : size[t][c] = 0 /\ max_size[t][c] = 1
      BY <2>1, <2>4, <2>7, ZenonT(60) DEF Visited
    <3>2. max_size[t] = [c \in Classes |-> 1]
      BY <2>5, <3>1
    <3>3. Alive(t)
      BY DEF Alive
    <3>4. reserved[t] = SumOver(max_size[t])
      BY <3>3, Zenon DEF SumInv, Reserves
    <3> QED BY <3>1, <3>2, <3>4, Zenon DEF InitialReservedQuotaBytes
  <2>8. ASSUME l.idx = 0, l.mode = kReuse
        PROVE  l.cached <= l.target \/ \A c \in Classes : size[t][c] <= Batch[c]
    BY <2>1, <2>4, <2>8, Zenon DEF Visited
  <2> QED BY <2>1, <2>2, <2>6, <2>7, <2>8, Zenon
<1> QED BY <1>1, SumsInvariant, PTL
=============================================================================
