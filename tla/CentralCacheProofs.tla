------------------------- MODULE CentralCacheProofs -------------------------
(***************************************************************************)
(* What holds of one bucket of CentralCache for any number of threads,     *)
(* spans and objects per span, any batch bound and any capacity of the     *)
(* TransferCache: no object and no span is lost or duplicated, and the     *)
(* list keeps spans with room in front.  The laws that the invariant's     *)
(* steps take for granted come first.                                      *)
(***************************************************************************)
EXTENDS CentralCacheInvariant, FiniteSetTheorems, WellFoundedInduction

-----------------------------------------------------------------------------
(* The laws of a span and of a batch *)

USE CentralConstants, WordAssumption

LEMMA OrdersList ==
    ASSUME NEW S, IsFiniteSet(S), NEW g \in Orders(S)
    PROVE  Lists(g, S)
<1>1. Cardinality(S) \in Nat
  BY FS_CardinalityType, Zenon
<1>2. g \in [1 .. Cardinality(S) -> S] /\ IsInjective(g)
  BY Zenon DEF Orders
<1>3. g \in Seq(S) /\ Len(g) = Cardinality(S)
  BY <1>2, <1>1, SeqMake
<1>4. Range(g) = S
  <2>1. Range(g) = {g[i] : i \in 1 .. Len(g)} /\ Range(g) \subseteq S
    BY <1>3, SeqFacts, Zenon
  <2>2. g \in Injection(1 .. Cardinality(S), S)
    BY <1>2, Zenon DEF Injection
  <2>3. Cardinality(1 .. Cardinality(S)) = Cardinality(S)
    BY <1>1, FS_Interval
  <2>4. g \in Surjection(1 .. Cardinality(S), S)
    BY <2>2, <2>3, FS_Injection, Zenon
  <2>5. \A x \in S : \E i \in 1 .. Len(g) : g[i] = x
    BY <2>4, <1>3, Zenon DEF Surjection
  <2> QED BY <2>1, <2>5, Zenon
<1> QED BY <1>2, <1>3, <1>4, Zenon DEF Lists

\* A non-empty set of naturals has a least element.
LEMMA MinNat ==
    ASSUME NEW S \in SUBSET Nat, S # {}
    PROVE  Min(S) \in S /\ \A y \in S : Min(S) <= y
<1> DEFINE R == {ss \in Nat \X Nat : ss[1] < ss[2]}
<1>1. IsWellFoundedOn(R, Nat)
  BY NatLessThanWellFounded, Zenon DEF OpToRel
<1>2. PICK x \in S : \A y \in S : ~ (<<y, x>> \in R)
  <2> HIDE DEF R
  <2> QED BY <1>1, WFMin, Zenon
<1>3. ASSUME NEW y \in S, y < x PROVE FALSE
  <2>1. <<y, x>> \in Nat \X Nat /\ <<y, x>>[1] < <<y, x>>[2]
    BY <1>3, Zenon
  <2> QED BY <2>1, <1>2, Zenon
<1>4. \A y \in S : x <= y
  BY <1>3
<1> QED BY <1>4, Zenon DEF Min

LEMMA SlotsFinite == IsFiniteSet(AllSlots) /\ Cardinality(AllSlots) = Capacity
<1> DEFINE d == Capacity - 1
<1>1. d \in Int /\ 0 \in Int /\ ~(0 > d) /\ d - 0 + 1 = Capacity
  OBVIOUS
<1> HIDE DEF d
<1>2. IsFiniteSet(0 .. d) /\ Cardinality(0 .. d) = Capacity
  BY <1>1, FS_Interval, Zenon
<1> QED BY <1>2, Zenon DEF d, AllSlots

LEMMA DivWord ==
    ASSUME NEW x \in Nat
    PROVE  \E q \in Nat, r \in 0 .. WordBits - 1 : q = x \div WordBits /\ x = WordBits * q + r
<1>1. /\ x \div WordBits \in Nat /\ x % WordBits \in 0 .. WordBits - 1
      /\ x = WordBits * (x \div WordBits) + (x % WordBits)
  BY Z3
<1> QED BY <1>1, Zenon

\* Every slot lies in a word that AllocObject's loop bound admits.
LEMMA WordOf ==
    ASSUME NEW x \in AllSlots
    PROVE  BitmapIdx(x) \in 0 .. (Capacity + WordBits - 1) \div WordBits - 1
<1>1. x \in Nat /\ x + 1 <= Capacity /\ Capacity + WordBits - 1 \in Nat
  BY DEF AllSlots
<1>2. PICK q \in Nat, r \in 0 .. WordBits - 1 : q = x \div WordBits /\ x = WordBits * q + r
  BY <1>1, DivWord, Zenon
<1>3. PICK n \in Nat, t \in 0 .. WordBits - 1 :
         /\ n = (Capacity + WordBits - 1) \div WordBits
         /\ Capacity + WordBits - 1 = WordBits * n + t
  BY <1>1, DivWord, Zenon
<1>4. ASSUME n <= q PROVE FALSE
  <2>1. WordBits * n <= WordBits * q
    BY <1>4, Z3
  <2> QED BY <2>1, <1>1, <1>2, <1>3
<1>5. q \in 0 .. n - 1
  BY <1>4
<1> QED BY <1>2, <1>3, <1>5, Zenon DEF BitmapIdx

\* AllocObject returns null only for a full span.
LEMMA AllocFindsOK ==
    ASSUME NEW r, SpanOK(r)
    PROVE  /\ IsFull(r) <=> r.bitmap = {}
           /\ AllocSlot(r) = NoSlot => IsFull(r)
           /\ AllocSlot(r) # NoSlot => /\ AllocSlot(r) \in r.bitmap
                                       /\ \A y \in r.bitmap : AllocSlot(r) <= y
           /\ r.use_count <= Capacity
           /\ r.use_count = 0 <=> r.bitmap = AllSlots
<1>1. /\ r.capacity = Capacity /\ r.bitmap \in SUBSET AllSlots /\ r.scan_cursor \in Nat
      /\ r.use_count \in Nat
  BY Zenon DEF SpanOK, SpanRec
<1>2. /\ IsFiniteSet(AllSlots \ r.bitmap) /\ Cardinality(AllSlots \ r.bitmap) \in Nat
      /\ Cardinality(AllSlots \ r.bitmap) <= Capacity
      /\ Cardinality(AllSlots \ r.bitmap) = Capacity <=> AllSlots \ r.bitmap = AllSlots
      /\ Cardinality(AllSlots \ r.bitmap) = 0 <=> AllSlots \ r.bitmap = {}
  <2>1. AllSlots \ r.bitmap \in SUBSET AllSlots
    BY Zenon
  <2> QED BY <2>1, SlotsFinite, FS_Subset, FS_EmptySet, FS_CardinalityType
<1>3. r.use_count = Cardinality(AllSlots \ r.bitmap)
  BY Zenon DEF SpanOK
<1>4. IsFull(r) <=> r.bitmap = {}
  <2>1. IsFull(r) <=> Cardinality(AllSlots \ r.bitmap) = Capacity
    BY <1>1, <1>2, <1>3 DEF IsFull
  <2>2. AllSlots \ r.bitmap = AllSlots <=> r.bitmap = {}
    BY <1>1, Zenon
  <2> QED BY <2>1, <2>2, <1>2, Zenon
<1>5. r.use_count = 0 <=> r.bitmap = AllSlots
  BY <1>1, <1>2, <1>3, Zenon
<1>6. Scanned(r) = r.bitmap
  <2>1. ASSUME NEW x \in r.bitmap PROVE BitmapIdx(x) \in r.scan_cursor .. GetBitmapNum(r) - 1
    <3>1. r.scan_cursor <= BitmapIdx(x) /\ x \in AllSlots
      BY <1>1, Zenon DEF SpanOK
    <3>2. GetBitmapNum(r) = (Capacity + WordBits - 1) \div WordBits
      BY <1>1, Zenon DEF GetBitmapNum
    <3>3. BitmapIdx(x) \in 0 .. GetBitmapNum(r) - 1
      BY <3>1, <3>2, WordOf, Zenon
    <3> QED BY <3>1, <3>3, <1>1
  <2> QED BY <2>1, Zenon DEF Scanned
<1>7. r.bitmap \in SUBSET Nat /\ NoSlot \notin Nat
  BY <1>1 DEF AllSlots, NoSlot
<1>8. ~IsFull(r) => /\ AllocSlot(r) = Min(r.bitmap) /\ Min(r.bitmap) \in r.bitmap
                    /\ \A y \in r.bitmap : Min(r.bitmap) <= y
  BY <1>4, <1>6, <1>7, MinNat, Zenon DEF AllocSlot
<1>9. IsFull(r) => AllocSlot(r) = NoSlot
  BY Zenon DEF AllocSlot
<1> QED BY <1>2, <1>3, <1>4, <1>5, <1>7, <1>8, <1>9, Zenon

LEMMA InitOK ==
    LET r == InitSpan(Capacity) IN SpanOK(r) /\ r.bitmap = AllSlots /\ r.use_count = 0
<1> DEFINE r == InitSpan(Capacity)
<1>1. /\ r = [capacity |-> Capacity, use_count |-> 0, scan_cursor |-> 0, bitmap |-> AllSlots]
      /\ 0 \in Nat
  BY Zenon DEF InitSpan, AllSlots
<1> HIDE DEF r
<1>2. r \in SpanRec /\ r.bitmap = AllSlots /\ r.use_count = 0 /\ r.scan_cursor = 0
  BY <1>1 DEF SpanRec
<1>3. AllSlots \ r.bitmap = {} /\ Cardinality({}) = 0
  BY <1>2, FS_EmptySet, Zenon
<1>4. \A x \in AllSlots : 0 <= BitmapIdx(x)
  BY WordOf
<1>5. SpanOK(r)
  BY <1>2, <1>3, <1>4, Zenon DEF SpanOK
<1> QED BY <1>2, <1>5, Zenon DEF r

LEMMA WordMonotonic ==
    ASSUME NEW x \in AllSlots, NEW y \in AllSlots, x <= y
    PROVE  BitmapIdx(x) <= BitmapIdx(y) /\ BitmapIdx(x) \in Nat /\ BitmapIdx(y) \in Nat
<1>1. x \in Nat /\ y \in Nat
  BY DEF AllSlots
<1>2. PICK q \in Nat, r \in 0 .. WordBits - 1 : q = x \div WordBits /\ x = WordBits * q + r
  BY <1>1, DivWord, Zenon
<1>3. PICK n \in Nat, t \in 0 .. WordBits - 1 : n = y \div WordBits /\ y = WordBits * n + t
  BY <1>1, DivWord, Zenon
<1>4. ASSUME n + 1 <= q PROVE FALSE
  <2>1. WordBits * (n + 1) <= WordBits * q /\ WordBits * (n + 1) = WordBits * n + WordBits
    BY <1>4, Z3
  <2> QED BY <2>1, <1>1, <1>2, <1>3
<1>5. q <= n
  BY <1>4
<1> QED BY <1>2, <1>3, <1>5, Zenon DEF BitmapIdx

LEMMA AllocOK ==
    ASSUME NEW r, SpanOK(r), NEW x \in r.bitmap, \A y \in r.bitmap : x <= y
    PROVE  LET q == AllocObject(r, x)
           IN  SpanOK(q) /\ q.bitmap = r.bitmap \ {x} /\ q.use_count = r.use_count + 1
<1> DEFINE q == AllocObject(r, x)
           i == BitmapIdx(x)
           rest == r.bitmap \ {x}
           c == IF \E y \in rest : BitmapIdx(y) = i THEN i ELSE i + 1
<1>1. /\ r \in SpanRec /\ r.bitmap \in SUBSET AllSlots /\ r.use_count \in Nat /\ x \in AllSlots
      /\ r.use_count = Cardinality(AllSlots \ r.bitmap)
  BY Zenon DEF SpanOK, SpanRec
<1>2. q = [r EXCEPT !.bitmap = rest, !.use_count = @ + 1, !.scan_cursor = c]
  BY Zenon DEF AllocObject
<1>3. i \in Nat /\ i + 1 \in Nat /\ r.use_count + 1 \in Nat
  BY <1>1, WordMonotonic
<1>4. c \in Nat /\ rest \in SUBSET AllSlots
  BY <1>1, <1>3, Zenon
<1>5. \A y \in rest : c <= BitmapIdx(y)
  <2> TAKE y \in rest
  <2>1. i <= BitmapIdx(y) /\ BitmapIdx(y) \in Nat
    BY <1>1, WordMonotonic, Zenon
  <2>2. CASE BitmapIdx(y) = i
    <3>1. c = i
      BY <2>2, Zenon
    <3> QED BY <3>1, <2>1, Zenon
  <2>3. CASE BitmapIdx(y) # i
    <3>1. i + 1 <= BitmapIdx(y)
      BY <2>1, <2>3, <1>3
    <3> QED BY <2>1, <3>1, Zenon
  <2> QED BY <2>2, <2>3, Zenon
<1> HIDE DEF q, rest, c, i
<1>6. /\ q \in SpanRec /\ q.bitmap = rest /\ q.use_count = r.use_count + 1 /\ q.scan_cursor = c
  BY <1>1, <1>2, <1>3, <1>4, Zenon DEF SpanRec
<1>7. Cardinality(AllSlots \ rest) = Cardinality(AllSlots \ r.bitmap) + 1
  <2>1. AllSlots \ rest = (AllSlots \ r.bitmap) \cup {x} /\ x \notin AllSlots \ r.bitmap
    BY <1>1, Zenon DEF rest
  <2>2. IsFiniteSet(AllSlots \ r.bitmap)
    BY SlotsFinite, FS_Subset, Zenon
  <2> QED BY <2>1, <2>2, FS_AddElement, Zenon
<1>8. SpanOK(q)
  BY <1>1, <1>5, <1>6, <1>7, Zenon DEF SpanOK
<1> QED BY <1>6, <1>8, Zenon DEF q, rest

LEMMA FreeOK ==
    ASSUME NEW r, SpanOK(r), NEW x \in AllSlots \ r.bitmap
    PROVE  LET q == FreeObject(r, x)
           IN  /\ SpanOK(q) /\ q.bitmap = r.bitmap \cup {x} /\ q.use_count = r.use_count - 1
               /\ r.use_count > 0 /\ q.capacity = Capacity
<1> DEFINE q == FreeObject(r, x)
           c == IF BitmapIdx(x) < r.scan_cursor THEN BitmapIdx(x) ELSE r.scan_cursor
           b == r.bitmap \cup {x}
<1>1. /\ r \in SpanRec /\ r.bitmap \in SUBSET AllSlots /\ r.use_count \in Nat /\ x \in AllSlots
      /\ r.use_count = Cardinality(AllSlots \ r.bitmap) /\ r.scan_cursor \in Nat
      /\ \A y \in r.bitmap : r.scan_cursor <= BitmapIdx(y)
  BY Zenon DEF SpanOK, SpanRec
<1>2. q = [r EXCEPT !.bitmap = b, !.use_count = @ - 1, !.scan_cursor = c]
  BY Zenon DEF FreeObject
<1>3. \A y \in AllSlots : BitmapIdx(y) \in Nat
  BY WordOf
<1>4. c \in Nat /\ c <= r.scan_cursor /\ c <= BitmapIdx(x) /\ b \in SUBSET AllSlots
  BY <1>1, <1>3
<1>5. \A y \in b : c <= BitmapIdx(y)
  <2> TAKE y \in b
  <2>1. CASE y = x
    BY <2>1, <1>4, Zenon
  <2>2. CASE y \in r.bitmap
    <3>1. r.scan_cursor <= BitmapIdx(y) /\ BitmapIdx(y) \in Nat
      BY <2>2, <1>1, <1>3, Zenon
    <3> HIDE DEF c
    <3> QED BY <3>1, <1>1, <1>4
  <2> QED BY <2>1, <2>2, Zenon
<1>6. /\ Cardinality(AllSlots \ b) = Cardinality(AllSlots \ r.bitmap) - 1
      /\ Cardinality(AllSlots \ b) \in Nat
  <2>1. AllSlots \ b = (AllSlots \ r.bitmap) \ {x}
    BY Zenon
  <2>2. IsFiniteSet(AllSlots \ r.bitmap) /\ IsFiniteSet(AllSlots \ b)
    BY SlotsFinite, FS_Subset, Zenon
  <2>3. Cardinality((AllSlots \ r.bitmap) \ {x}) = Cardinality(AllSlots \ r.bitmap) - 1
    BY <2>2, FS_RemoveElement, Zenon
  <2>4. Cardinality(AllSlots \ b) \in Nat
    BY <2>2, FS_CardinalityType, Zenon
  <2> QED BY <2>1, <2>3, <2>4, Zenon
<1> HIDE DEF q, b, c
<1>7. r.use_count - 1 \in Nat /\ r.use_count > 0 /\ Cardinality(AllSlots \ b) = r.use_count - 1
  BY <1>1, <1>6
<1>8. /\ q \in SpanRec /\ q.bitmap = b /\ q.use_count = r.use_count - 1 /\ q.scan_cursor = c
      /\ q.capacity = Capacity
  BY <1>1, <1>2, <1>4, <1>7, Zenon DEF SpanRec
<1>9. SpanOK(q)
  BY <1>5, <1>7, <1>8, Zenon DEF SpanOK
<1> QED BY <1>7, <1>8, <1>9, Zenon DEF q, b

LEMMA ObjectsFinite == IsFiniteSet(Objects)
<1>1. IsFiniteSet(Spans) /\ IsFiniteSet(0 .. Capacity - 1)
  BY FS_Interval DEF Spans
<1> QED BY <1>1, FS_Product, Zenon DEF Objects
LEMMA SpanLawsHold == SpanLaws
<1>1. ASSUME NEW r, SpanOK(r) PROVE AllocFinds(r)
  BY <1>1, AllocFindsOK, Zenon DEF AllocFinds
<1>2. ASSUME NEW r, SpanOK(r), NEW x \in r.bitmap, \A y \in r.bitmap : x <= y
      PROVE  AllocTakes(r, x)
  BY <1>2, AllocOK, Zenon DEF AllocTakes
<1>3. ASSUME NEW r, SpanOK(r), NEW x \in AllSlots \ r.bitmap PROVE FreeGivesBack(r, x)
  BY <1>3, FreeOK, Zenon DEF FreeGivesBack
<1> QED BY <1>1, <1>2, <1>3, InitOK, Zenon DEF SpanLaws

LEMMA BatchLawHolds == BatchLaw
<1> SUFFICES ASSUME NEW S \in SUBSET Objects, NEW b \in Orders(S) PROVE Lists(b, S)
  BY Zenon DEF BatchLaw
<1>1. IsFiniteSet(S)
  BY ObjectsFinite, FS_Subset, Zenon
<1> QED BY <1>1, OrdersList, Zenon

-----------------------------------------------------------------------------
(* The invariant holds *)

LEMMA IdleFields ==
    /\ Idle.pc = "idle" /\ Idle.fetched = {} /\ Idle.scratch = <<>> /\ Idle.rest = <<>>
    /\ Idle.chunk = <<>> /\ Idle.empty = <<>> /\ Idle.span = 0
  BY DEF Idle

LEMMA InitInv == Init => IInv
<1> SUFFICES ASSUME Init PROVE IInv
  OBVIOUS
<1>1. /\ span_list = <<>> /\ lent = {} /\ lock = NoThread /\ transfer_cache = <<>>
      /\ sp = [s \in Spans |-> InitSpan(Capacity)] /\ transfer_capacity \in {0, TransferCap}
      /\ cache = [t \in Threads |-> {}] /\ loc = [t \in Threads |-> Idle]
  BY Zenon DEF Init
<1>2. /\ \A t \in Threads : loc[t] = Idle /\ cache[t] = {}
      /\ loc \in [Threads -> LocRec] /\ cache \in [Threads -> SUBSET Objects]
  BY <1>1, IdleRec, Zenon
<1>3. Range(<<>>) = {} /\ IsInjective(<<>>) /\ <<>> \in Seq(Spans) /\ <<>> \in Seq(Objects)
  BY EmptyLists, SeqEmpty, Zenon
<1>4. Control
  <2>1. "idle" \notin Locking /\ Idle.pc = "idle"
    BY Zenon DEF Idle, Locking
  <2> QED BY <2>1, <1>1, <1>2, IdleRec, Zenon DEF Control
<1>5. Data
  <2>1. \A s \in Spans : SpanOK(sp[s])
    BY <1>1, InitOK, Zenon
  <2>2. sp \in [Spans -> SpanRec]
    BY <1>1, InitOK, Zenon DEF SpanOK
  <2>3. Len(<<>>) <= transfer_capacity
    BY <1>1
  <2> QED BY <2>1, <2>2, <2>3, <1>1, <1>2, <1>3, Zenon DEF Data
<1>6. \A t \in Threads : Hand(t) = {} /\ Held(t) = {} /\ HeldOnce(t) /\ Moving(t) = {}
  <2> TAKE t \in Threads
  <2>1. /\ loc[t].fetched = {} /\ loc[t].scratch = <<>> /\ loc[t].rest = <<>>
        /\ loc[t].chunk = <<>> /\ loc[t].empty = <<>> /\ loc[t].span = 0
    BY <1>2, IdleFields, Zenon
  <2>2. Hand(t) = {} /\ Moving(t) = {}
    BY <2>1, <1>3, Zenon DEF Hand, Moving
  <2>3. Held(t) = {}
    BY <2>2, <1>2, Zenon DEF Held
  <2>4. HeldOnce(t)
    BY <2>1, <2>2, <1>3, Zenon DEF HeldOnce
  <2> QED BY <2>2, <2>3, <2>4, Zenon
<1>7. Once
  BY <1>1, <1>3, <1>6, Zenon DEF Once
<1>8. Match
  <2>1. Out = {}
    BY <1>1, <1>3, <1>6, Zenon DEF Out
  <2> QED BY <2>1, <1>1, Zenon DEF Match
<1>9. SpansOnce
  <2>1. UNION {Moving(t) : t \in Threads} = {}
    BY <1>6, Zenon
  <2>2. \A t \in Threads : IsInjective(loc[t].empty)
    BY <1>2, <1>3, IdleFields, Zenon
  <2> QED BY <2>1, <2>2, <1>1, <1>3, <1>6, Zenon DEF SpansOnce
<1>10. ListInv
  <2>1. \A F : Sorted(<<>>, F) /\ TailSorted(<<>>, F)
    BY DEF Sorted, TailSorted
  <2>2. ~Loose
    <3>1. \A t \in Threads : loc[t].pc = "idle"
      BY <1>2, IdleFields, Zenon
    <3> QED BY <3>1, Zenon DEF Loose
  <2> QED BY <2>1, <2>2, <1>1, <1>3, Zenon DEF ListInv
<1> QED BY <1>4, <1>5, <1>7, <1>8, <1>9, <1>10, Zenon DEF IInv

\* Reset leads back to an initial state: no span is on its way anywhere.
LEMMA ResetInit == ASSUME IInv, Reset PROVE Init'
<1>1. \A t \in Threads : loc[t] = Idle /\ cache[t] = {} /\ loc[t].pc \notin Locking
  BY Zenon DEF Reset, At, IInv, Control, LocOK, Locking
<1>2. loc = [t \in Threads |-> Idle] /\ cache = [t \in Threads |-> {}]
  BY <1>1 DEF IInv, Control, Data
<1>3. lock = NoThread
  BY <1>1, Zenon DEF IInv, Control
<1>4. lent \ Range(span_list) = {}
  <2>1. \A t \in Threads : Moving(t) = {}
    <3>1. \A t \in Threads : loc[t].span = 0 /\ loc[t].empty = <<>>
      BY <1>1, IdleFields, Zenon
    <3> QED BY <3>1, EmptyLists, Zenon DEF Moving
  <2>2. lent = Range(span_list) \cup UNION {Moving(t) : t \in Threads}
    BY Zenon DEF IInv, SpansOnce
  <2> QED BY <2>1, <2>2, Zenon
<1> QED BY <1>2, <1>3, <1>4, Zenon DEF Reset, Init

LEMMA NextInv == IInv /\ [Next]_vars => IInv'
<1> SUFFICES ASSUME IInv, [Next]_vars PROVE IInv'
  OBVIOUS
<1>1. SpanLaws /\ BatchLaw
  BY SpanLawsHold, BatchLawHolds, Zenon
<1>2. ASSUME NEW t \in Threads, Fetch(t) PROVE IInv'
  BY <1>1, <1>2, FetchControl, GetOneSpanKeeps, InstallKeeps, InnerAllocKeeps, InnerNullKeeps,
     AfterInnerKeeps, PublishKeeps, Zenon DEF Fetch
<1>3. ASSUME NEW t \in Threads, Release(t) PROVE IInv'
  BY <1>1, <1>3, FetchControl, ReleaseChunkKeeps, FreeToSpanKeeps, ReturnSpanKeeps,
     ReleaseDoneKeeps, Zenon DEF Release
<1>4. ASSUME NEW t \in Threads,
             FetchBatch(t) \/ ReleaseBatch(t) \/ DrainTransferCaches(t) \/ DrainDetach(t)
      PROVE  IInv'
  BY <1>1, <1>4, FetchBatchKeeps, ReleaseBatchKeeps, DrainKeeps, DrainDetachKeeps, Zenon
<1>5. CASE Reset
  <2>1. Init'
    BY <1>5, ResetInit, Zenon
  <2>2. Init' => IInv'
    BY InitInv, PTL
  <2> QED BY <2>1, <2>2, Zenon
<1>6. CASE UNCHANGED vars
  <2>1. /\ span_list' = span_list /\ sp' = sp /\ lent' = lent /\ lock' = lock
        /\ transfer_cache' = transfer_cache /\ transfer_capacity' = transfer_capacity
        /\ cache' = cache /\ loc' = loc
    BY <1>6, Zenon DEF vars
  <2>2. Control' /\ SpansOnce' /\ ListInv'
    BY <2>1, QuietKeeps, Zenon
  <2>3. Same
    BY <2>1, Zenon DEF Same
  <2>4. Data' /\ Once' /\ Match'
    BY <2>3, SameKeeps, Zenon DEF IInv
  <2> QED BY <2>2, <2>4, Zenon DEF IInv
<1>7. CASE \E t, u \in Threads : HandOver(t, u)
  BY <1>7, HandOverKeeps, Zenon
<1> QED BY <1>2, <1>3, <1>4, <1>5, <1>6, <1>7, Zenon DEF Next

LEMMA Invariant == Spec => []IInv
  BY InitInv, NextInv, PTL DEF Spec

-----------------------------------------------------------------------------
(* What follows *)

\* Pairing the slots of a set with the span gives as many objects.
LEMMA AsManyObjects ==
    ASSUME NEW s, NEW A, IsFiniteSet(A)
    PROVE  Cardinality({<<s, x>> : x \in A}) = Cardinality(A)
<1> DEFINE f == [x \in A |-> <<s, x>>]
<1> DEFINE B == {<<s, x>> : x \in A}
<1>1. f \in [A -> B] /\ \A x \in A : f[x] = <<s, x>>
  BY Zenon
<1> HIDE DEF f
<1>2. \A x, y \in A : <<s, x>> = <<s, y>> => x = y
  OBVIOUS
<1>3. \A x, y \in A : f[x] = f[y] => x = y
  BY <1>1, <1>2, Zenon
<1>4. \A b \in B : \E x \in A : f[x] = b
  BY <1>1, Zenon
<1> HIDE DEF B
<1>5. f \in Injection(A, B)
  <2>1. DOMAIN f = A
    BY <1>1, Zenon
  <2>2. IsInjective(f)
    BY <2>1, <1>3, Zenon DEF IsInjective
  <2> QED BY <2>2, <1>1, Zenon DEF Injection
<1>6. f \in Surjection(A, B)
  BY <1>1, <1>4, Zenon DEF Surjection
<1>7. f \in Bijection(A, B)
  BY <1>5, <1>6, Zenon DEF Bijection
<1>8. ExistsBijection(A, B)
  BY <1>7, Zenon DEF ExistsBijection
<1>9. Cardinality(B) = Cardinality(A)
  BY <1>8, FS_Bijection, Zenon
<1> QED BY <1>9, Zenon DEF B

LEMMA ConservedState == IInv => ObjectsConserved
<1> SUFFICES ASSUME IInv PROVE ObjectsConserved
  OBVIOUS
<1>1. SpanLaws
  BY SpanLawsHold, Zenon
<1>2. \A s \in Spans : /\ SpanOK(sp[s]) /\ sp[s].bitmap \subseteq AllSlots
                       /\ Slots(sp[s]) = AllSlots /\ sp[s].use_count \in 0 .. Capacity
  <2> TAKE s \in Spans
  <2>1. SpanOK(sp[s]) /\ sp[s].use_count \in Nat /\ sp[s].bitmap \subseteq AllSlots
    BY <1>1, SpanFacts, Zenon
  <2>2. sp[s].capacity = Capacity
    BY <2>1, Zenon DEF SpanOK, SpanRec
  <2>3. sp[s].use_count <= Capacity
    BY <2>1, <1>1, Zenon DEF SpanLaws, AllocFinds
  <2>4. sp[s].use_count \in 0 .. Capacity
    BY <2>1, <2>3
  <2> QED BY <2>1, <2>2, <2>4, Zenon DEF Slots, AllSlots
<1>3. TypeOK
  BY <1>2, Zenon DEF TypeOK, IInv, Control, Data
<1>4. ASSUME NEW s \in Spans, NEW o
      PROVE  o \in OutOf(s) <=> \E x \in AllSlots : o = <<s, x>> /\ s \in lent /\ x \notin sp[s].bitmap
  <2>1. \A x \in AllSlots : <<s, x>> \in Out <=> s \in lent /\ x \notin sp[s].bitmap
    BY Zenon DEF IInv, Match
  <2>2. ASSUME o \in OutOf(s) PROVE o[2] \in AllSlots /\ o = <<s, o[2]>> /\ o \in Out
    <3>1. o \in Spans \X (0 .. Capacity - 1) /\ o[1] = s /\ o \in Out
      BY <2>2, Zenon DEF OutOf, IInv, Match, Objects
    <3>2. o[2] \in AllSlots /\ o = <<o[1], o[2]>>
      BY <3>1 DEF AllSlots
    <3> QED BY <3>1, <3>2, Zenon
  <2>3. \A x \in AllSlots : o = <<s, x>> => o[1] = s
    OBVIOUS
  <2> QED BY <2>1, <2>2, <2>3, Zenon DEF OutOf
<1>5. ASSUME NEW s \in Spans, s \notin lent PROVE OutOf(s) = {}
  BY <1>4, <1>5, Zenon
<1>6. ASSUME NEW s \in Spans, s \in lent
      PROVE  /\ {o[2] : o \in OutOf(s)} = Slots(sp[s]) \ sp[s].bitmap
             /\ sp[s].use_count = Cardinality(OutOf(s))
  <2>1. PICK A : A = AllSlots \ sp[s].bitmap
    BY Zenon
  <2>2. OutOf(s) = {<<s, x>> : x \in A}
    BY <2>1, <1>4, <1>6, Zenon
  <2>3. PICK B : B = {<<s, x>> : x \in A}
    BY Zenon
  <2>4. \A x : <<s, x>>[2] = x
    OBVIOUS
  <2>5. {o[2] : o \in B} = A
    BY <2>3, <2>4, Zenon
  <2>6. IsFiniteSet(A)
    BY <2>1, SlotsFinite, FS_Subset, Zenon
  <2>7. Cardinality(B) = Cardinality(A)
    BY <2>3, <2>6, AsManyObjects, Zenon
  <2>8. sp[s].use_count = Cardinality(A)
    BY <2>1, <1>2, Zenon DEF SpanOK
  <2> QED BY <2>1, <2>2, <2>3, <2>5, <2>7, <2>8, <1>2, Zenon
<1>7. /\ IsInjective(transfer_cache)
      /\ \A t \in Threads :
           /\ HeldOnce(t) /\ Range(transfer_cache) \cap Held(t) = {}
           /\ \A u \in Threads \ {t} : Held(t) \cap Held(u) = {}
  BY Zenon DEF IInv, Once
<1> QED BY <1>3, <1>5, <1>6, <1>7, Zenon DEF ObjectsConserved

\* CentralCache loses and duplicates no object, whatever threads fetch, release,
\* prefetch and drain at the same time: an object of a borrowed span is free in
\* the span's bitmap or in exactly one of the TransferCache, a caller's batch and
\* a thread's scratch array, and use_count counts those that are out.
THEOREM CentralObjects == Spec => []ObjectsConserved
  BY Invariant, ConservedState, PTL

LEMMA SpansState == IInv => SpansConserved
<1> SUFFICES ASSUME IInv PROVE SpansConserved
  OBVIOUS
<1> DEFINE moving == UNION {({loc[t].span} \ {0}) \cup Range(loc[t].empty) : t \in Threads}
<1>1. \A r : r \in moving <=> \E t \in Threads : r \in Moving(t)
  BY Zenon DEF Moving
<1>2. \A r : r \in lent <=> r \in Range(span_list) \/ \E t \in Threads : r \in Moving(t)
  BY Zenon DEF IInv, SpansOnce
<1>3. \A t \in Threads : Moving(t) \cap Range(span_list) = {}
  BY Zenon DEF IInv, SpansOnce
<1>4. \A t \in Threads : \A s \in Range(loc[t].empty) : sp[s].use_count = 0
  BY Zenon DEF IInv, SpansOnce, Moving
<1>5. IsInjective(span_list)
  BY Zenon DEF IInv, SpansOnce
<1> HIDE DEF moving
<1>6. lent = Range(span_list) \cup moving
  BY <1>1, <1>2, Zenon
<1>7. Range(span_list) \cap moving = {}
  BY <1>1, <1>3, Zenon
<1> QED BY <1>4, <1>5, <1>6, <1>7, Zenon DEF SpansConserved, moving

\* Every span CentralCache has borrowed from PageCache is in the list once, or
\* with one thread on its way in or out; one on its way out has no object out.
THEOREM CentralSpans == Spec => []SpansConserved
  BY Invariant, SpansState, PTL

LEMMA OrderedState == IInv => ListOrdered
<1> SUFFICES ASSUME IInv, lock = NoThread
             PROVE  /\ \A i, j \in DOMAIN span_list :
                         i < j /\ IsFull(sp[span_list[i]]) => IsFull(sp[span_list[j]])
                    /\ \A s \in Range(span_list) : sp[s].use_count > 0
  BY Zenon DEF ListOrdered
<1>1. \A t \in Threads : loc[t].pc \notin {"inner", "after"}
  BY Zenon DEF IInv, Control, Locking
<1>2. ~Loose /\ ~Fresh
  BY <1>1, Zenon DEF Loose, Fresh
<1>3. Sorted(span_list, FullSpans) /\ \A s \in Range(span_list) : sp[s].use_count > 0
  BY <1>2, Zenon DEF IInv, ListInv
<1>4. DOMAIN span_list = 1 .. Len(span_list) /\ \A i \in 1 .. Len(span_list) : span_list[i] \in Spans
  BY SeqFacts, Zenon DEF IInv, Data
<1>5. \A i \in DOMAIN span_list : span_list[i] \in FullSpans <=> IsFull(sp[span_list[i]])
  BY <1>4, Zenon DEF FullSpans
<1> QED BY <1>3, <1>4, <1>5, Zenon DEF Sorted

\* Whenever the SpanList mutex is free, spans with room come before full ones
\* and no span in the list is empty: FetchBatch may look at the front span only.
THEOREM CentralListOrder == Spec => []ListOrdered
  BY Invariant, OrderedState, PTL
=============================================================================
