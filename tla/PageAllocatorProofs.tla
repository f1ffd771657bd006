------------------------ MODULE PageAllocatorProofs ------------------------
(***************************************************************************)
(* Proofs about SystemAlloc and SystemFree, for any number of threads and  *)
(* pages, any huge page, any requests and any cache: every mapped page has *)
(* exactly one place, and what SystemAlloc returns is zero-filled.  And     *)
(* about the object pool, for any sizes and alignment of its objects.      *)
(***************************************************************************)
EXTENDS PageAllocator, ObjectPool, FiniteSetTheorems, TLAPS

USE AllocatorAssumption

Runs == Nat \X (Nat \ {0})

\* Calls of AllocWithRetry, which hold no page.
MappingOK(l) ==
    \E stage \in {"normal", "exact", "over"}, n \in Nat \ {0}, k \in Nat :
      l = [pc |-> "mmap", stage |-> stage, n |-> n, tries |-> k]

LocOK(l) ==
    \/ l = Idle \/ MappingOK(l)
    \/ \E raw \in Nat, n \in Nat \ {0} : l = Trimming("head", raw, n) \/ l = Trimming("tail", raw, n)
    \/ \E r \in Runs : \E next : (next = Idle \/ MappingOK(next)) /\ l = Dropping(<<r>>, next)
    \/ \E r, s \in Runs : \E next :
         r # s /\ (next = Idle \/ MappingOK(next)) /\ l = Dropping(<<r, s>>, next)
    \/ \E p \in Nat : l = Discarding(<<p, HugePages>>) \/ l = Putting(<<p, HugePages>>)
    \/ l = Returned(NoRun) \/ \E r \in Runs : l = Returned(r)

Apart(rs) == \A r, s \in rs : r # s => RunPages(r) \cap RunPages(s) = {}

Mine(t) == PagesOf(InFlight(loc[t]))

\* The four kinds of place a mapped page can have, each page having one.
Accounted ==
    /\ \A p \in PagesOf(owned) : /\ p \in mapped /\ p \notin PagesOf(CachedRuns) /\ p \notin refused
                                 /\ \A t \in Threads : p \notin Mine(t)
    /\ \A p \in PagesOf(CachedRuns) : /\ p \in mapped /\ p \notin refused
                                      /\ \A t \in Threads : p \notin Mine(t)
    /\ \A p \in refused : p \in mapped /\ \A t \in Threads : p \notin Mine(t)
    /\ \A t \in Threads : \A p \in Mine(t) :
         p \in mapped /\ \A u \in Threads : u # t => p \notin Mine(u)
    /\ \A p \in mapped : \/ p \in PagesOf(owned) \/ p \in PagesOf(CachedRuns) \/ p \in refused
                         \/ \E t \in Threads : p \in Mine(t)

\* Pages that a thread is about to return or to cache.
Pure(l) == l.pc \in {"returned", "put", "head", "tail"}

Clean ==
    /\ \A p \in dirty : p \in mapped /\ p \notin PagesOf(CachedRuns)
    /\ \A t \in Threads : Pure(loc[t]) => \A p \in Mine(t) : p \notin dirty

Typed ==
    /\ owned \subseteq Runs /\ cache \subseteq Nat
    /\ loc = [t \in Threads |-> loc[t]]
    /\ \A t \in Threads : LocOK(loc[t])
    /\ Apart(owned) /\ Apart(CachedRuns)
    /\ \A t \in Threads : Apart(InFlight(loc[t]))

AllocInv == Typed /\ Accounted /\ Clean

-----------------------------------------------------------------------------
(* What the runs of a thread are *)

LEMMA InPages ==
    ASSUME NEW rs, NEW p
    PROVE  p \in PagesOf(rs) <=> \E r \in rs : p \in RunPages(r)
BY Zenon DEF PagesOf

LEMMA NoPages ==
    /\ PagesOf({}) = {} /\ RunPages(NoRun) = {} /\ PagesOf({NoRun}) = {}
<1>1. RunPages(NoRun) = {}
  BY SMT DEF RunPages, NoRun
<1> QED
  BY <1>1, Zenon DEF PagesOf

LEMMA OneRun ==
    ASSUME NEW r
    PROVE  PagesOf({r}) = RunPages(r) /\ Apart({r})
BY Zenon DEF PagesOf, Apart

LEMMA TwoRuns ==
    ASSUME NEW r, NEW s, RunPages(r) \cap RunPages(s) = {}
    PROVE  /\ \A p : p \in PagesOf({r, s}) <=> p \in RunPages(r) \/ p \in RunPages(s)
           /\ Apart({r, s})
BY Zenon DEF PagesOf, Apart

LEMMA FlightIdle == InFlight(Idle) = {} /\ ~Pure(Idle)
BY DEF InFlight, Idle, Pure

LEMMA FlightMapping ==
    ASSUME NEW l, MappingOK(l) PROVE InFlight(l) = {} /\ l.pc = "mmap" /\ ~Pure(l)
<1>1. PICK stage, n, k : l = [pc |-> "mmap", stage |-> stage, n |-> n, tries |-> k]
  BY Zenon DEF MappingOK
<1> QED
  BY <1>1 DEF InFlight, Pure

LEMMA FlightRun ==
    ASSUME NEW r
    PROVE  /\ InFlight(Returned(r)) = {r} /\ InFlight(Putting(r)) = {r}
           /\ InFlight(Discarding(r)) = {r} /\ ~Pure(Discarding(r))
BY DEF InFlight, Returned, Putting, Discarding, Pure

LEMMA FlightDropping ==
    ASSUME NEW r, NEW s, NEW next
    PROVE  /\ InFlight(Dropping(<<r>>, next)) = {r} /\ ~Pure(Dropping(<<r>>, next))
           /\ InFlight(Dropping(<<r, s>>, next)) = {r, s} /\ ~Pure(Dropping(<<r, s>>, next))
<1>1. {<<r>>[i] : i \in 1 .. Len(<<r>>)} = {r}
  OBVIOUS
<1>2. {<<r, s>>[i] : i \in 1 .. Len(<<r, s>>)} = {r, s}
  OBVIOUS
<1> QED
  BY <1>1, <1>2 DEF InFlight, Dropping, Pure

LEMMA FlightTrimming ==
    ASSUME NEW raw, NEW n
    PROVE  /\ InFlight(Trimming("head", raw, n)) = {HeadRun(raw), BodyRun(raw, n), TailRun(raw, n)}
           /\ InFlight(Trimming("tail", raw, n)) = {BodyRun(raw, n), TailRun(raw, n)}
BY DEF InFlight, Trimming

LEMMA AlignedNear ==
    ASSUME NEW raw \in Nat
    PROVE  AlignedAt(raw) \in Nat /\ AlignedAt(raw) >= raw /\ AlignedAt(raw) - raw < HugePages
<1> PICK a : a = raw + HugePages - 1
  OBVIOUS
<1> PICK q : q = a \div HugePages
  OBVIOUS
<1>1. a \in Nat /\ HugePages \in Nat \ {0}
  OBVIOUS
<1>2. q \in Nat /\ q * HugePages \in Nat /\ q * HugePages <= a /\ a < q * HugePages + HugePages
  BY <1>1
<1>3. AlignedAt(raw) = q * HugePages
  BY DEF AlignedAt
<1> QED
  BY <1>1, <1>2, <1>3

\* The three parts of an over-allocated mapping.
LEMMA Parts ==
    ASSUME NEW raw \in Nat, NEW n \in Nat \ {0}
    PROVE  /\ BodyRun(raw, n) \in Runs /\ TailRun(raw, n) \in Runs
           /\ HeadRun(raw) \in Nat \X Nat
           /\ RunPages(HeadRun(raw)) \cap RunPages(BodyRun(raw, n)) = {}
           /\ RunPages(HeadRun(raw)) \cap RunPages(TailRun(raw, n)) = {}
           /\ RunPages(BodyRun(raw, n)) \cap RunPages(TailRun(raw, n)) = {}
           /\ \A p : p \in RunPages(<<raw, n + HugePages>>) <=>
                     \/ p \in RunPages(HeadRun(raw)) \/ p \in RunPages(BodyRun(raw, n))
                     \/ p \in RunPages(TailRun(raw, n))
           /\ HeadRun(raw)[2] = 0 => RunPages(HeadRun(raw)) = {}
<1> PICK a : a = AlignedAt(raw)
  OBVIOUS
<1>1. a \in Nat /\ a >= raw /\ a - raw < HugePages
  BY AlignedNear
<1>2. /\ HeadRun(raw) = <<raw, a - raw>> /\ BodyRun(raw, n) = <<a, n>>
      /\ TailRun(raw, n) = <<a + n, HugePages - (a - raw)>>
  BY DEF HeadRun, BodyRun, TailRun
<1>3. /\ RunPages(HeadRun(raw)) = raw .. a - 1 /\ RunPages(BodyRun(raw, n)) = a .. a + n - 1
      /\ RunPages(TailRun(raw, n)) = a + n .. raw + n + HugePages - 1
      /\ RunPages(<<raw, n + HugePages>>) = raw .. raw + n + HugePages - 1
  BY <1>1, <1>2 DEF RunPages
<1>4. BodyRun(raw, n) \in Runs /\ TailRun(raw, n) \in Runs /\ HeadRun(raw) \in Nat \X Nat
  BY <1>1, <1>2 DEF Runs
<1>5. HeadRun(raw)[2] = 0 => RunPages(HeadRun(raw)) = {}
  BY <1>1, <1>2, <1>3
<1>6. /\ (raw .. a - 1) \cap (a .. a + n - 1) = {}
      /\ (raw .. a - 1) \cap (a + n .. raw + n + HugePages - 1) = {}
      /\ (a .. a + n - 1) \cap (a + n .. raw + n + HugePages - 1) = {}
  BY <1>1
<1>7. \A p : p \in raw .. raw + n + HugePages - 1 <=>
             p \in raw .. a - 1 \/ p \in a .. a + n - 1 \/ p \in a + n .. raw + n + HugePages - 1
  BY <1>1
<1> QED
  BY <1>3, <1>4, <1>5, <1>6, <1>7, Zenon
-----------------------------------------------------------------------------
(* How a step moves pages *)

\* Thread t goes on to l: the pages of S are t's, or somebody's that t now
\* touches, or new, and each gets one place or is unmapped; no other page moves.
Moves(t, l, S) ==
    /\ \A p : p \notin S =>
         /\ p \in mapped' <=> p \in mapped
         /\ p \in PagesOf(owned)' <=> p \in PagesOf(owned)
         /\ p \in PagesOf(CachedRuns)' <=> p \in PagesOf(CachedRuns)
         /\ p \in refused' <=> p \in refused
         /\ p \in PagesOf(InFlight(l)) <=> p \in Mine(t)
    /\ \A p \in S : \/ p \in PagesOf(owned) \/ p \in PagesOf(CachedRuns) \/ p \in Mine(t)
                    \/ p \notin mapped
    /\ \A p \in S :
         /\ p \in PagesOf(owned)' => /\ p \in mapped' /\ p \notin PagesOf(CachedRuns)'
                                     /\ p \notin refused' /\ p \notin PagesOf(InFlight(l))
         /\ p \in PagesOf(CachedRuns)' => /\ p \in mapped' /\ p \notin refused'
                                          /\ p \notin PagesOf(InFlight(l))
         /\ p \in refused' => p \in mapped' /\ p \notin PagesOf(InFlight(l))
         /\ p \in PagesOf(InFlight(l)) => p \in mapped'
         /\ p \in mapped' => \/ p \in PagesOf(owned)' \/ p \in PagesOf(CachedRuns)' \/ p \in refused'
                             \/ p \in PagesOf(InFlight(l))

\* What is written, and to whom it belongs afterwards.
Cleans(t, l) ==
    /\ \A p \in dirty' : p \in dirty \/ p \in Mine(t)
    /\ \A p \in dirty' : p \in mapped' /\ p \notin PagesOf(CachedRuns)'
    /\ Pure(l) => \A p \in PagesOf(InFlight(l)) : p \notin dirty'

LEMMA LocNext ==
    ASSUME Typed, NEW t \in Threads, NEW l, Goto(t, l)
    PROVE  /\ loc' = [u \in Threads |-> loc'[u]] /\ loc'[t] = l /\ Mine(t)' = PagesOf(InFlight(l))
           /\ \A u \in Threads : u # t => loc'[u] = loc[u] /\ Mine(u)' = Mine(u)
<1>1. loc = [u \in Threads |-> loc[u]] /\ loc' = [loc EXCEPT ![t] = l]
  BY Zenon DEF Typed, Goto
<1>2. /\ loc' = [u \in Threads |-> loc'[u]] /\ loc'[t] = l
      /\ \A u \in Threads : u # t => loc'[u] = loc[u]
  BY <1>1, Zenon
<1> QED
  BY <1>2, Zenon DEF Mine

LEMMA MovesAccounted ==
    ASSUME Typed, Accounted, NEW t \in Threads, NEW l, NEW S, Goto(t, l), Moves(t, l, S)
    PROVE  Accounted'
<1>1. /\ Mine(t)' = PagesOf(InFlight(l)) /\ \A u \in Threads : u # t => Mine(u)' = Mine(u)
  BY LocNext, Zenon
<1>2. \A p \in S : \A u \in Threads : u # t => p \notin Mine(u)
  BY Zenon DEF Moves, Accounted
<1>3. ASSUME NEW p, p \in S
      PROVE  /\ p \in PagesOf(owned)' => /\ p \in mapped' /\ p \notin PagesOf(CachedRuns)' /\ p \notin refused'
                                         /\ \A u \in Threads : p \notin Mine(u)'
             /\ p \in PagesOf(CachedRuns)' => /\ p \in mapped' /\ p \notin refused'
                                              /\ \A u \in Threads : p \notin Mine(u)'
             /\ p \in refused' => p \in mapped' /\ \A u \in Threads : p \notin Mine(u)'
             /\ \A u \in Threads : p \in Mine(u)' =>
                  p \in mapped' /\ \A v \in Threads : v # u => p \notin Mine(v)'
             /\ p \in mapped' => \/ p \in PagesOf(owned)' \/ p \in PagesOf(CachedRuns)' \/ p \in refused'
                                 \/ \E u \in Threads : p \in Mine(u)'
  <2>1. /\ p \in PagesOf(owned)' => /\ p \in mapped' /\ p \notin PagesOf(CachedRuns)'
                                     /\ p \notin refused' /\ p \notin Mine(t)'
        /\ p \in PagesOf(CachedRuns)' => p \in mapped' /\ p \notin refused' /\ p \notin Mine(t)'
        /\ p \in refused' => p \in mapped' /\ p \notin Mine(t)'
        /\ p \in Mine(t)' => p \in mapped'
        /\ p \in mapped' => \/ p \in PagesOf(owned)' \/ p \in PagesOf(CachedRuns)' \/ p \in refused'
                            \/ p \in Mine(t)'
    BY <1>1, <1>3, Zenon DEF Moves
  <2>2. \A u \in Threads : u # t => p \notin Mine(u)'
    BY <1>1, <1>2, <1>3, Zenon
  <2> QED
    BY <2>1, <2>2, Zenon
<1>4. ASSUME NEW p, p \notin S
      PROVE  /\ p \in mapped' <=> p \in mapped
             /\ p \in PagesOf(owned)' <=> p \in PagesOf(owned)
             /\ p \in PagesOf(CachedRuns)' <=> p \in PagesOf(CachedRuns)
             /\ p \in refused' <=> p \in refused
             /\ \A u \in Threads : p \in Mine(u)' <=> p \in Mine(u)
  BY <1>1, <1>4, Zenon DEF Moves
<1>5. ASSUME NEW p, p \notin S
      PROVE  /\ p \in PagesOf(owned)' => /\ p \in mapped' /\ p \notin PagesOf(CachedRuns)' /\ p \notin refused'
                                         /\ \A u \in Threads : p \notin Mine(u)'
             /\ p \in PagesOf(CachedRuns)' => /\ p \in mapped' /\ p \notin refused'
                                              /\ \A u \in Threads : p \notin Mine(u)'
             /\ p \in refused' => p \in mapped' /\ \A u \in Threads : p \notin Mine(u)'
             /\ \A u \in Threads : p \in Mine(u)' =>
                  p \in mapped' /\ \A v \in Threads : v # u => p \notin Mine(v)'
             /\ p \in mapped' => \/ p \in PagesOf(owned)' \/ p \in PagesOf(CachedRuns)' \/ p \in refused'
                                 \/ \E u \in Threads : p \in Mine(u)'
  BY <1>4, <1>5, Zenon DEF Accounted
<1> QED
  BY <1>3, <1>5, Zenon DEF Accounted

LEMMA CleansClean ==
    ASSUME Typed, Accounted, Clean, NEW t \in Threads, NEW l, Goto(t, l), Cleans(t, l)
    PROVE  Clean'
<1>1. /\ loc'[t] = l /\ Mine(t)' = PagesOf(InFlight(l))
      /\ \A u \in Threads : u # t => loc'[u] = loc[u] /\ Mine(u)' = Mine(u)
  BY LocNext, Zenon
<1>2. ASSUME NEW u \in Threads, u # t, Pure(loc[u]) PROVE \A p \in Mine(u) : p \notin dirty'
  BY <1>2, Zenon DEF Cleans, Clean, Accounted
<1>3. ASSUME NEW u \in Threads, Pure(loc'[u]) PROVE \A p \in Mine(u)' : p \notin dirty'
  BY <1>1, <1>2, <1>3, Zenon DEF Cleans
<1>4. \A u \in Threads : Pure(loc[u])' => Pure(loc'[u])
  BY Zenon DEF Pure
<1> QED
  BY <1>3, <1>4, Zenon DEF Clean, Cleans

LEMMA Assemble ==
    ASSUME AllocInv, NEW t \in Threads, NEW l, NEW S, Goto(t, l), Moves(t, l, S), Cleans(t, l),
           LocOK(l), Apart(InFlight(l)), owned' \subseteq Runs, cache' \subseteq Nat,
           Apart(owned)', Apart(CachedRuns)'
    PROVE  AllocInv'
<1>1. Typed /\ Accounted /\ Clean
  BY Zenon DEF AllocInv
<1>2. Accounted' /\ Clean'
  BY <1>1, MovesAccounted, CleansClean, Zenon
<1>3. /\ loc' = [u \in Threads |-> loc'[u]] /\ loc'[t] = l
      /\ \A u \in Threads : u # t => loc'[u] = loc[u]
  BY <1>1, LocNext, Zenon
<1>4. \A u \in Threads : LocOK(loc'[u]) /\ Apart(InFlight(loc'[u]))
  BY <1>1, <1>3, Zenon DEF Typed
<1>5. \A u \in Threads : LocOK(loc[u])' /\ Apart(InFlight(loc[u]))'
  BY <1>4, Zenon DEF LocOK, Apart
<1>6. Typed'
  BY <1>3, <1>5, Zenon DEF Typed
<1> QED
  BY <1>2, <1>6, Zenon DEF AllocInv

LEMMA SameRuns ==
    ASSUME AllocInv, UNCHANGED <<cache, owned>>
    PROVE  owned' \subseteq Runs /\ cache' \subseteq Nat /\ Apart(owned)' /\ Apart(CachedRuns)'
<1>1. owned' = owned /\ cache' = cache /\ CachedRuns' = CachedRuns
  BY Zenon DEF CachedRuns
<1>2. owned \subseteq Runs /\ cache \subseteq Nat /\ Apart(owned) /\ Apart(CachedRuns)
  BY Zenon DEF AllocInv, Typed
<1>3. Apart(owned') /\ Apart(CachedRuns')
  BY <1>1, <1>2, Zenon
<1> QED
  BY <1>1, <1>2, <1>3, Zenon DEF Apart

\* A step of thread t that leaves every page where it is.
LEMMA Stays ==
    ASSUME AllocInv, NEW t \in Threads, NEW l, Goto(t, l), LocOK(l), Apart(InFlight(l)),
           UNCHANGED <<mapped, cache, owned, refused>>, PagesOf(InFlight(l)) = Mine(t),
           \A p \in dirty' : p \in dirty, Pure(l) => \A p \in Mine(t) : p \notin dirty'
    PROVE  AllocInv'
<1>1. /\ PagesOf(owned)' = PagesOf(owned) /\ PagesOf(CachedRuns)' = PagesOf(CachedRuns)
      /\ mapped' = mapped /\ refused' = refused /\ owned' = owned /\ cache' = cache
  BY Zenon DEF CachedRuns
<1>2. Moves(t, l, {})
  BY <1>1, Zenon DEF Moves
<1>3. Cleans(t, l)
  BY <1>1, Zenon DEF Cleans, AllocInv, Clean
<1>4. owned' \subseteq Runs /\ cache' \subseteq Nat /\ Apart(owned)' /\ Apart(CachedRuns)'
  BY SameRuns, Zenon
<1> QED
  BY <1>2, <1>3, <1>4, Assemble, Zenon

\* SafeMunmap of a run of thread t.
LEMMA Unmaps ==
    ASSUME AllocInv, NEW t \in Threads, NEW l, NEW r, NEW ok \in BOOLEAN, Goto(t, l), LocOK(l),
           Apart(InFlight(l)), UNCHANGED <<cache, owned>>, SafeMunmap(r, ok),
           \A p \in RunPages(r) : p \in Mine(t),
           \A p : p \in PagesOf(InFlight(l)) <=> p \in Mine(t) /\ p \notin RunPages(r),
           Pure(l) => Pure(loc[t])
    PROVE  AllocInv'
<1>1. /\ PagesOf(owned)' = PagesOf(owned) /\ PagesOf(CachedRuns)' = PagesOf(CachedRuns)
      /\ owned' = owned /\ cache' = cache
  BY Zenon DEF CachedRuns
<1>2. \/ /\ mapped' = mapped \ RunPages(r) /\ dirty' = dirty \ RunPages(r) /\ refused' = refused
      \/ /\ mapped' = mapped /\ dirty' = dirty /\ refused' = refused \cup RunPages(r)
  BY Zenon DEF SafeMunmap
<1>3. \A p \in RunPages(r) : p \in mapped /\ p \notin PagesOf(owned) /\ p \notin PagesOf(CachedRuns) /\ p \notin refused
  BY Zenon DEF AllocInv, Accounted
<1>4. Moves(t, l, RunPages(r))
  BY <1>1, <1>2, <1>3, Zenon DEF Moves
<1>5. \A p \in dirty : p \in mapped /\ p \notin PagesOf(CachedRuns)
  BY Zenon DEF AllocInv, Clean
<1>6. Pure(l) => \A p \in PagesOf(InFlight(l)) : p \notin dirty
  BY Zenon DEF AllocInv, Clean
<1>7. Cleans(t, l)
  BY <1>1, <1>2, <1>5, <1>6, Zenon DEF Cleans
<1>8. owned' \subseteq Runs /\ cache' \subseteq Nat /\ Apart(owned)' /\ Apart(CachedRuns)'
  BY SameRuns, Zenon
<1> QED
  BY <1>4, <1>7, <1>8, Assemble, Zenon

\* A new mapping of thread t, which holds nothing yet.
LEMMA MapsNew ==
    ASSUME AllocInv, NEW t \in Threads, NEW l, NEW r, Goto(t, l), LocOK(l), Apart(InFlight(l)),
           UNCHANGED <<dirty, cache, owned, refused>>, mapped' = mapped \cup RunPages(r),
           \A p \in RunPages(r) : p \notin mapped, \A p : p \notin Mine(t),
           \A p : p \in PagesOf(InFlight(l)) <=> p \in RunPages(r)
    PROVE  AllocInv'
<1>1. /\ PagesOf(owned)' = PagesOf(owned) /\ PagesOf(CachedRuns)' = PagesOf(CachedRuns)
      /\ owned' = owned /\ cache' = cache /\ dirty' = dirty /\ refused' = refused
  BY Zenon DEF CachedRuns
<1>2. \A p \in RunPages(r) : p \notin PagesOf(owned) /\ p \notin PagesOf(CachedRuns) /\ p \notin refused
  BY Zenon DEF AllocInv, Accounted
<1>3. Moves(t, l, RunPages(r))
  BY <1>1, <1>2, Zenon DEF Moves
<1>4. \A p \in dirty : p \in mapped /\ p \notin PagesOf(CachedRuns)
  BY Zenon DEF AllocInv, Clean
<1>5. Cleans(t, l)
  BY <1>1, <1>4, Zenon DEF Cleans
<1>6. owned' \subseteq Runs /\ cache' \subseteq Nat /\ Apart(owned)' /\ Apart(CachedRuns)'
  BY SameRuns, Zenon
<1> QED
  BY <1>3, <1>5, <1>6, Assemble, Zenon
-----------------------------------------------------------------------------
(* The steps *)

NextOK(l) == l = Idle \/ MappingOK(l)

LEMMA Shapes ==
    ASSUME NEW l, LocOK(l)
    PROVE  /\ l.pc = "idle" => l = Idle
           /\ l.pc = "mmap" => MappingOK(l)
           /\ l.pc = "head" => \E raw \in Nat, n \in Nat \ {0} : l = Trimming("head", raw, n)
           /\ l.pc = "tail" => \E raw \in Nat, n \in Nat \ {0} : l = Trimming("tail", raw, n)
           /\ l.pc = "munmap" =>
                \/ \E r \in Runs : \E next : NextOK(next) /\ l = Dropping(<<r>>, next)
                \/ \E r, s \in Runs : \E next : r # s /\ NextOK(next) /\ l = Dropping(<<r, s>>, next)
           /\ l.pc = "madvise" => \E p \in Nat : l = Discarding(<<p, HugePages>>)
           /\ l.pc = "put" => \E p \in Nat : l = Putting(<<p, HugePages>>)
           /\ l.pc = "returned" => l = Returned(NoRun) \/ \E r \in Runs : l = Returned(r)
<1>1. MappingOK(l) => l.pc = "mmap"
  BY FlightMapping, Zenon
<1>2. /\ Idle.pc = "idle" /\ \A raw, n : Trimming("head", raw, n).pc = "head"
      /\ \A raw, n : Trimming("tail", raw, n).pc = "tail"
      /\ \A q, next : Dropping(q, next).pc = "munmap"
      /\ \A r : Discarding(r).pc = "madvise" /\ Putting(r).pc = "put" /\ Returned(r).pc = "returned"
  BY DEF Idle, Trimming, Dropping, Discarding, Putting, Returned
<1>3. CASE l = Idle
  BY <1>2, <1>3, SMT
<1>4. CASE MappingOK(l)
  BY <1>1, <1>4, SMT
<1>5. ASSUME NEW raw \in Nat, NEW n \in Nat \ {0}, l = Trimming("head", raw, n)
      PROVE  l.pc = "head" /\ \E a \in Nat, m \in Nat \ {0} : l = Trimming("head", a, m)
  BY <1>2, <1>5, Zenon
<1>6. ASSUME NEW raw \in Nat, NEW n \in Nat \ {0}, l = Trimming("tail", raw, n)
      PROVE  l.pc = "tail" /\ \E a \in Nat, m \in Nat \ {0} : l = Trimming("tail", a, m)
  BY <1>2, <1>6, Zenon
<1>7. CASE \E r \in Runs : \E next : NextOK(next) /\ l = Dropping(<<r>>, next)
  <2>1. l.pc = "munmap"
    BY <1>2, <1>7, Zenon
  <2> QED
    BY <1>7, <2>1, SMT
<1>8. CASE \E r, s \in Runs : \E next : r # s /\ NextOK(next) /\ l = Dropping(<<r, s>>, next)
  <2>1. l.pc = "munmap"
    BY <1>2, <1>8, Zenon
  <2> QED
    BY <1>8, <2>1, SMT
<1>9. CASE \E p \in Nat : l = Discarding(<<p, HugePages>>)
  <2>1. l.pc = "madvise"
    BY <1>2, <1>9, Zenon
  <2> QED
    BY <1>9, <2>1, SMT
<1>10. CASE \E p \in Nat : l = Putting(<<p, HugePages>>)
  <2>1. l.pc = "put"
    BY <1>2, <1>10, Zenon
  <2> QED
    BY <1>10, <2>1, SMT
<1>11. CASE l = Returned(NoRun) \/ \E r \in Runs : l = Returned(r)
  <2>1. l.pc = "returned"
    BY <1>2, <1>11, Zenon
  <2> QED
    BY <1>11, <2>1, SMT
<1>12. CASE \E raw \in Nat, n \in Nat \ {0} : l = Trimming("head", raw, n) \/ l = Trimming("tail", raw, n)
  <2>1. \/ l.pc = "head" /\ \E a \in Nat, m \in Nat \ {0} : l = Trimming("head", a, m)
        \/ l.pc = "tail" /\ \E a \in Nat, m \in Nat \ {0} : l = Trimming("tail", a, m)
    BY <1>5, <1>6, <1>12, Zenon
  <2> QED
    BY <2>1, SMT
<1> QED
  BY <1>3, <1>4, <1>7, <1>8, <1>9, <1>10, <1>11, <1>12, Zenon DEF LocOK, NextOK

LEMMA ShapeDropping ==
    ASSUME NEW l, LocOK(l), l.pc = "munmap"
    PROVE  \/ \E r \in Runs : \E next : NextOK(next) /\ l = Dropping(<<r>>, next)
           \/ \E r, s \in Runs : \E next : r # s /\ NextOK(next) /\ l = Dropping(<<r, s>>, next)
BY Shapes

LEMMA ShapeTrimming ==
    ASSUME NEW l, LocOK(l)
    PROVE  /\ l.pc = "head" => \E raw \in Nat, n \in Nat \ {0} : l = Trimming("head", raw, n)
           /\ l.pc = "tail" => \E raw \in Nat, n \in Nat \ {0} : l = Trimming("tail", raw, n)
BY Shapes

\* The places a call can be at.
LEMMA Places ==
    /\ LocOK(Idle)
    /\ \A l : MappingOK(l) => LocOK(l)
    /\ \A raw \in Nat, n \in Nat \ {0} : LocOK(Trimming("head", raw, n)) /\ LocOK(Trimming("tail", raw, n))
    /\ \A r \in Runs : \A next : NextOK(next) => LocOK(Dropping(<<r>>, next))
    /\ \A r, s \in Runs : \A next : r # s /\ NextOK(next) => LocOK(Dropping(<<r, s>>, next))
    /\ \A p \in Nat : LocOK(Discarding(<<p, HugePages>>)) /\ LocOK(Putting(<<p, HugePages>>))
    /\ LocOK(Returned(NoRun)) /\ \A r \in Runs : LocOK(Returned(r))
BY ZenonT(60) DEF LocOK, NextOK

LEMMA MappingPlace ==
    ASSUME NEW stage \in {"normal", "exact", "over"}, NEW n \in Nat \ {0}
    PROVE  MappingOK(Mapping(stage, n))
BY DEF MappingOK, Mapping

LEMMA NothingHeld == Apart({}) /\ \A p : p \notin PagesOf({})
BY Zenon DEF Apart, PagesOf

\* A call that holds nothing, before and after.
LEMMA HoldsNothing ==
    ASSUME AllocInv, NEW t \in Threads, NEW l, Goto(t, l), LocOK(l), InFlight(loc[t]) = {},
           InFlight(l) = {} \/ InFlight(l) = {NoRun}, UNCHANGED <<mapped, dirty, cache, owned, refused>>
    PROVE  AllocInv'
<1>1. PagesOf(InFlight(l)) = {} /\ Mine(t) = {} /\ Apart(InFlight(l))
  BY NoPages, OneRun, NothingHeld, Zenon DEF Mine
<1>2. dirty' = dirty /\ UNCHANGED <<mapped, cache, owned, refused>>
  BY Zenon
<1>3. Pure(l) => \A p \in Mine(t) : p \notin dirty'
  BY <1>1, Zenon
<1> QED
  BY <1>1, <1>2, <1>3, Stays, Zenon

\* SystemAlloc takes a mapping out of the cache.
LEMMA HitStep ==
    ASSUME AllocInv, NEW t \in Threads, NEW p \in cache, loc[t] = Idle, Goto(t, Returned(<<p, HugePages>>)),
           cache' = cache \ {p}, UNCHANGED <<mapped, dirty, owned, refused>>
    PROVE  AllocInv'
<1> PICK r : r = <<p, HugePages>>
  OBVIOUS
<1> PICK l : l = Returned(r)
  OBVIOUS
<1>1. /\ Typed /\ Accounted /\ Clean /\ Goto(t, l) /\ r \in CachedRuns
  BY Zenon DEF AllocInv, CachedRuns
<1>2. r \in Runs /\ InFlight(l) = {r} /\ PagesOf(InFlight(l)) = RunPages(r) /\ Apart(InFlight(l))
  <2>1. p \in Nat /\ HugePages \in Nat \ {0}
    BY <1>1 DEF Typed
  <2> QED
    BY <2>1, FlightRun, OneRun DEF Runs
<1>3. LocOK(l)
  BY <1>2, Places, Zenon
<1>4. \A s : s \in CachedRuns' <=> s \in CachedRuns /\ s # r
  <2>1. \A q : <<q, HugePages>> = r => q = p
    OBVIOUS
  <2> QED
    BY <2>1, Zenon DEF CachedRuns
<1>5. \A q : q \in PagesOf(CachedRuns)' <=> q \in PagesOf(CachedRuns) /\ q \notin RunPages(r)
  <2>1. \A q : q \in PagesOf(CachedRuns)' <=> \E s \in CachedRuns' : q \in RunPages(s)
    BY Zenon DEF PagesOf, RunPages
  <2>2. Apart(CachedRuns)
    BY <1>1, Zenon DEF Typed
  <2>3. \A s \in CachedRuns : \A q \in RunPages(s) : s # r => q \notin RunPages(r)
    BY <1>1, <2>2, Zenon DEF Apart
  <2> QED
    BY <1>4, <2>1, <2>3, InPages, Zenon
<1>6. \A q \in RunPages(r) : q \in PagesOf(CachedRuns)
  BY <1>1, InPages, Zenon
<1>7. Mine(t) = {}
  BY FlightIdle, NoPages, Zenon DEF Mine
<1>8. owned' = owned /\ mapped' = mapped /\ refused' = refused /\ dirty' = dirty /\ PagesOf(owned)' = PagesOf(owned)
  BY Zenon
<1>9. \A q \in RunPages(r) : q \in mapped /\ q \notin PagesOf(owned) /\ q \notin refused /\ q \notin dirty
  BY <1>1, <1>6, Zenon DEF Accounted, Clean
<1>10. Moves(t, l, RunPages(r))
  BY <1>2, <1>5, <1>6, <1>7, <1>8, <1>9, Zenon DEF Moves
<1>11. Cleans(t, l)
  BY <1>1, <1>2, <1>5, <1>8, <1>9, Zenon DEF Cleans, Clean
<1>12. owned' \subseteq Runs /\ cache' \subseteq Nat
  BY <1>1, <1>8, Zenon DEF Typed
<1>13. Apart(owned)' /\ Apart(CachedRuns)'
  BY <1>1, <1>4, <1>8, Zenon DEF Typed, Apart, RunPages
<1> QED
  BY <1>1, <1>2, <1>3, <1>10, <1>11, <1>12, <1>13, Assemble, Zenon

LEMMA CallStep ==
    ASSUME AllocInv, NEW t \in Threads, Call(t)
    PROVE  AllocInv'
<1>1. loc[t] = Idle
  BY Shapes, Zenon DEF Call, At, AllocInv, Typed
<1>2. PICK n \in ReqPages : SystemAlloc(t, n)
  BY Zenon DEF Call
<1>3. n \in Nat \ {0}
  BY Zenon
<1>4. CASE n = HugePages /\ cache # {}
  <2>1. PICK p \in cache : cache' = cache \ {p} /\ Goto(t, Returned(<<p, HugePages>>))
    BY <1>2, <1>4, Zenon DEF SystemAlloc
  <2>2. UNCHANGED <<mapped, dirty, owned, refused>>
    BY <1>2, Zenon DEF SystemAlloc
  <2> QED
    BY <1>1, <2>1, <2>2, HitStep, Zenon
<1>5. CASE ~(n = HugePages /\ cache # {})
  <2>1. PICK l : l = Mapping(IF n < HugeThreshold THEN "normal" ELSE "exact", n)
    OBVIOUS
  <2>2. Goto(t, l) /\ UNCHANGED <<mapped, dirty, cache, owned, refused>>
    BY <1>2, <1>5, <2>1, Zenon DEF SystemAlloc
  <2>3. MappingOK(l)
    <3>1. (IF n < HugeThreshold THEN "normal" ELSE "exact") \in {"normal", "exact", "over"}
      BY Zenon
    <3> QED
      BY <1>3, <2>1, <3>1, MappingPlace, Zenon
  <2>4. InFlight(l) = {} /\ InFlight(loc[t]) = {} /\ LocOK(l)
    BY <1>1, <2>3, FlightMapping, FlightIdle, Places, Zenon
  <2> QED
    BY <2>2, <2>4, HoldsNothing, Zenon
<1> QED
  BY <1>4, <1>5, Zenon
\* The caller takes the answer: the pages are its own, and dirty from now on.
LEMMA TakeStep ==
    ASSUME AllocInv, NEW t \in Threads, Take(t)
    PROVE  AllocInv'
<1>1. /\ Typed /\ Accounted /\ Clean /\ Goto(t, Idle) /\ LocOK(Idle) /\ InFlight(Idle) = {}
      /\ mapped' = mapped /\ cache' = cache /\ refused' = refused
  BY FlightIdle, Places, Zenon DEF Take, AllocInv
<1>2. PICK r : loc[t] = Returned(r) /\ (r = NoRun \/ r \in Runs)
  BY <1>1, Shapes, ZenonT(60) DEF Take, At, Typed
<1>3. loc[t].run = r /\ Mine(t) = RunPages(r) /\ ~Pure(Idle)
  <2>1. loc[t].run = r
    BY <1>2 DEF Returned
  <2> QED
    BY <1>2, <2>1, FlightRun, FlightIdle, OneRun, Zenon DEF Mine
<1>4. dirty' = dirty \cup RunPages(r) /\ owned' = (IF r = NoRun THEN owned ELSE owned \cup {r})
  BY <1>3, Zenon DEF Take
<1>5. \A p : p \in PagesOf(owned)' <=> p \in PagesOf(owned) \/ p \in RunPages(r)
  <2>1. \A p : p \in PagesOf(owned)' <=> \E s \in owned' : p \in RunPages(s)
    BY Zenon DEF PagesOf, RunPages
  <2>2. CASE r = NoRun
    BY <1>4, <2>1, <2>2, NoPages, InPages, Zenon
  <2>3. CASE r # NoRun
    BY <1>4, <2>1, <2>3, InPages, Zenon
  <2> QED
    BY <2>2, <2>3, Zenon
<1>6. PagesOf(CachedRuns)' = PagesOf(CachedRuns)
  BY <1>1, Zenon DEF CachedRuns
<1>7. \A p \in RunPages(r) : p \in mapped /\ p \notin PagesOf(owned) /\ p \notin PagesOf(CachedRuns) /\ p \notin refused
  <2> SUFFICES ASSUME NEW p, p \in Mine(t)
               PROVE  /\ p \in mapped /\ p \notin PagesOf(owned) /\ p \notin PagesOf(CachedRuns)
                      /\ p \notin refused
    BY <1>3, Zenon
  <2> QED
    BY <1>1, Zenon DEF Accounted
<1>8. Moves(t, Idle, RunPages(r))
  BY <1>1, <1>3, <1>5, <1>6, <1>7, NothingHeld, Zenon DEF Moves
<1>9. Cleans(t, Idle)
  BY <1>1, <1>3, <1>4, <1>6, <1>7, Zenon DEF Cleans, Clean
<1>10. Apart(owned)'
  <2>1. Apart(owned) /\ \A s \in owned : \A p \in RunPages(s) : p \in PagesOf(owned)
    BY <1>1, InPages, Zenon DEF Typed
  <2>2. \A s \in owned : RunPages(s) \cap RunPages(r) = {} /\ RunPages(r) \cap RunPages(s) = {}
    BY <1>7, <2>1, Zenon
  <2>3. Apart(owned')
    BY <1>4, <2>1, <2>2, Zenon DEF Apart
  <2> QED
    BY <2>3, Zenon DEF Apart, RunPages
<1>11. owned' \subseteq Runs /\ cache' \subseteq Nat
  BY <1>1, <1>2, <1>4, Zenon DEF Typed
<1>12. Apart(CachedRuns)'
  BY <1>1, Zenon DEF Typed, Apart, CachedRuns, RunPages
<1> QED
  BY <1>1, <1>8, <1>9, <1>10, <1>11, <1>12, NothingHeld, Assemble, Zenon

\* SystemFree takes the pages from the caller.
LEMMA FreeStep ==
    ASSUME AllocInv, NEW t \in Threads, Free(t)
    PROVE  AllocInv'
<1>1. /\ Typed /\ Accounted /\ Clean /\ mapped' = mapped /\ cache' = cache /\ refused' = refused
      /\ dirty' = dirty
  BY Zenon DEF Free, AllocInv
<1>2. loc[t] = Idle /\ Mine(t) = {}
  BY <1>1, Shapes, FlightIdle, NoPages, Zenon DEF Free, At, Typed, Mine
<1>3. PICK r \in owned : owned' = owned \ {r} /\ Goto(t, FreeStart(r))
  BY Zenon DEF Free
<1> PICK l : l = FreeStart(r)
  OBVIOUS
<1>4. r \in Runs /\ Goto(t, l)
  BY <1>1, <1>3, Zenon DEF Typed
<1>5. LocOK(l) /\ InFlight(l) = {r} /\ ~Pure(l)
  <2>1. CASE r[2] = HugePages /\ IsHugePageAligned(r[1])
    <3>1. r[1] \in Nat /\ r = <<r[1], HugePages>>
      BY <1>4, <2>1 DEF Runs
    <3>2. l = Discarding(r)
      BY <2>1, Zenon DEF FreeStart
    <3> QED
      <4>1. LocOK(Discarding(<<r[1], HugePages>>))
        BY <3>1, Places, Zenon
      <4>2. InFlight(Discarding(r)) = {r} /\ ~Pure(Discarding(r))
        BY FlightRun, Zenon
      <4>3. LocOK(Discarding(r))
        BY <3>1, <4>1, Zenon
      <4> QED
        BY <3>2, <4>2, <4>3, Zenon
  <2>2. CASE ~(r[2] = HugePages /\ IsHugePageAligned(r[1]))
    <3>1. l = Dropping(<<r>>, Idle)
      BY <2>2, Zenon DEF FreeStart
    <3> QED
      <4>1. LocOK(Dropping(<<r>>, Idle))
        BY <1>4, Places, Zenon DEF NextOK
      <4>2. InFlight(Dropping(<<r>>, Idle)) = {r} /\ ~Pure(Dropping(<<r>>, Idle))
        BY FlightDropping, Zenon
      <4> QED
        BY <3>1, <4>1, <4>2, Zenon
  <2> QED
    BY <2>1, <2>2, Zenon
<1>6. PagesOf(InFlight(l)) = RunPages(r) /\ Apart(InFlight(l))
  BY <1>5, OneRun, Zenon
<1>7. \A p : p \in PagesOf(owned)' <=> p \in PagesOf(owned) /\ p \notin RunPages(r)
  <2>1. \A p : p \in PagesOf(owned)' <=> \E s \in owned' : p \in RunPages(s)
    BY Zenon DEF PagesOf, RunPages
  <2>2. \A s \in owned : \A p \in RunPages(s) : s # r => p \notin RunPages(r)
    BY <1>1, Zenon DEF Typed, Apart
  <2>3. \A s : s \in owned' <=> s \in owned /\ s # r
    BY <1>3, Zenon
  <2> QED
    <3>1. \A p : p \in PagesOf(owned) <=> \E s \in owned : p \in RunPages(s)
      BY InPages, Zenon
    <3>2. ASSUME NEW p, p \in PagesOf(owned)'
          PROVE  p \in PagesOf(owned) /\ p \notin RunPages(r)
      BY <2>1, <2>2, <2>3, <3>1, <3>2, Zenon
    <3>3. ASSUME NEW p, p \in PagesOf(owned), p \notin RunPages(r)
          PROVE  p \in PagesOf(owned)'
      BY <2>1, <2>3, <3>1, <3>3, Zenon
    <3> QED
      BY <3>2, <3>3, Zenon
<1>8. PagesOf(CachedRuns)' = PagesOf(CachedRuns)
  BY <1>1, Zenon DEF CachedRuns
<1>9. \A p \in RunPages(r) : /\ p \in PagesOf(owned) /\ p \in mapped
                             /\ p \notin PagesOf(CachedRuns) /\ p \notin refused
  BY <1>1, InPages, Zenon DEF Accounted
<1>10. Moves(t, l, RunPages(r))
  BY <1>1, <1>2, <1>6, <1>7, <1>8, <1>9, Zenon DEF Moves
<1>11. Cleans(t, l)
  BY <1>1, <1>5, <1>8, Zenon DEF Cleans, Clean
<1>12. owned' \subseteq Runs /\ cache' \subseteq Nat
  BY <1>1, <1>3, Zenon DEF Typed
<1>13. Apart(owned)' /\ Apart(CachedRuns)'
  BY <1>1, <1>3, Zenon DEF Typed, Apart, CachedRuns, RunPages
<1> QED
  BY <1>4, <1>5, <1>6, <1>10, <1>11, <1>12, <1>13, Assemble, Zenon

LEMMA ThreeRuns ==
    ASSUME NEW q, NEW r, NEW s, RunPages(q) \cap RunPages(r) = {}, RunPages(q) \cap RunPages(s) = {},
           RunPages(r) \cap RunPages(s) = {}
    PROVE  /\ \A p : p \in PagesOf({q, r, s}) <=> p \in RunPages(q) \/ p \in RunPages(r) \/ p \in RunPages(s)
           /\ Apart({q, r, s})
BY Zenon DEF PagesOf, Apart

LEMMA MappingFields ==
    ASSUME NEW l, MappingOK(l)
    PROVE  /\ l.stage \in {"normal", "exact", "over"} /\ l.n \in Nat \ {0}
           /\ Length(l) \in Nat \ {0} /\ LocOK(GiveUp(l)) /\ LocOK(Retry(l))
           /\ InFlight(GiveUp(l)) \in {{}, {NoRun}} /\ InFlight(Retry(l)) \in {{}, {NoRun}}
<1>1. PICK stage \in {"normal", "exact", "over"}, n \in Nat \ {0}, k \in Nat :
        l = [pc |-> "mmap", stage |-> stage, n |-> n, tries |-> k]
  BY Zenon DEF MappingOK
<1>2. l.stage = stage /\ l.n = n /\ l.tries = k
  BY <1>1
<1>3. Length(l) \in Nat \ {0}
  BY <1>2 DEF Length
<1>4. LocOK(GiveUp(l)) /\ InFlight(GiveUp(l)) \in {{}, {NoRun}}
  <2>1. CASE l.stage = "normal"
    BY <2>1, Places, FlightRun, Zenon DEF GiveUp
  <2>2. CASE l.stage # "normal"
    <3>1. GiveUp(l) = Mapping("normal", n)
      BY <1>2, <2>2, Zenon DEF GiveUp, HugeFailed
    <3>2. MappingOK(Mapping("normal", n))
      BY MappingPlace, Zenon
    <3> QED
      BY <3>1, <3>2, Places, FlightMapping, Zenon
  <2> QED
    BY <2>1, <2>2, Zenon
<1>5. LocOK(Retry(l)) /\ InFlight(Retry(l)) \in {{}, {NoRun}}
  <2>1. CASE l.tries + 1 < kMaxRetries
    <3>1. Retry(l) = [pc |-> "mmap", stage |-> stage, n |-> n, tries |-> k + 1]
      BY <1>1, <2>1 DEF Retry
    <3>2. MappingOK(Retry(l))
      BY <3>1 DEF MappingOK
    <3> QED
      BY <3>2, Places, FlightMapping, Zenon
  <2>2. CASE ~(l.tries + 1 < kMaxRetries)
    BY <1>4, <2>2, Zenon DEF Retry
  <2> QED
    BY <2>1, <2>2, Zenon
<1> QED
  BY <1>2, <1>3, <1>4, <1>5, Zenon

LEMMA MmapStep ==
    ASSUME AllocInv, NEW t \in Threads, Mmap(t)
    PROVE  AllocInv'
<1> PICK o : o = loc[t]
  OBVIOUS
<1>1. MappingOK(o) /\ \A p : p \notin Mine(t)
  <2>1. MappingOK(loc[t])
    BY Shapes, Zenon DEF Mmap, At, AllocInv, Typed
  <2> QED
    BY <2>1, FlightMapping, NothingHeld, Zenon DEF Mine
<1>2. o.stage \in {"normal", "exact", "over"} /\ o.n \in Nat \ {0} /\ Length(o) \in Nat \ {0}
  BY <1>1, MappingFields, Zenon
<1> DEFINE Answer(p) == CASE o.stage = "normal" -> Returned(<<p, Length(o)>>)
                          [] o.stage = "exact" -> AfterExact(p, o.n)
                          [] o.stage = "over" -> Trimming("head", p, o.n)
<1>3. PICK p \in PageIds : /\ RunPages(<<p, Length(o)>>) \subseteq PageIds \ mapped
                           /\ mapped' = mapped \cup RunPages(<<p, Length(o)>>)
                           /\ Goto(t, Answer(p))
  BY Zenon DEF Mmap
<1> PICK r : r = <<p, Length(o)>>
  OBVIOUS
<1> PICK l : l = Answer(p)
  OBVIOUS
<1>4. p \in Nat /\ r \in Runs
  <2>1. p \in Nat
    BY DEF PageIds
  <2> QED
    BY <1>2, <2>1 DEF Runs
<1>5. /\ Goto(t, l) /\ mapped' = mapped \cup RunPages(r) /\ \A q \in RunPages(r) : q \notin mapped
      /\ UNCHANGED <<dirty, cache, owned, refused>>
  BY <1>3, Zenon DEF Mmap
<1>6. CASE o.stage = "normal" \/ o.stage = "exact"
  <2>1. LocOK(l) /\ InFlight(l) = {r}
    <3>1. CASE o.stage = "normal"
      <4>1. l = Returned(r)
        BY <3>1
      <4> QED
        BY <1>4, <4>1, Places, FlightRun, Zenon
    <3>2. CASE o.stage = "exact"
      <4>1. l = AfterExact(p, o.n) /\ r = <<p, o.n>>
        BY <3>2 DEF Length
      <4>2. MappingOK(Mapping("over", o.n))
        BY <1>2, MappingPlace, Zenon
      <4>3. CASE IsHugePageAligned(p)
        <5>1. l = Returned(r)
          BY <4>1, <4>3 DEF AfterExact
        <5> QED
          BY <1>4, <5>1, Places, FlightRun, Zenon
      <4>4. CASE ~IsHugePageAligned(p)
        <5>1. l = Dropping(<<r>>, Mapping("over", o.n))
          BY <4>1, <4>4 DEF AfterExact
        <5>2. LocOK(Dropping(<<r>>, Mapping("over", o.n)))
          BY <1>4, <4>2, Places, Zenon DEF NextOK
        <5>3. InFlight(Dropping(<<r>>, Mapping("over", o.n))) = {r}
          BY FlightDropping, Zenon
        <5> QED
          BY <5>1, <5>2, <5>3, Zenon
      <4> QED
        BY <4>3, <4>4, Zenon
    <3> QED
      BY <1>6, <3>1, <3>2, Zenon
  <2>2. (\A q : q \in PagesOf(InFlight(l)) <=> q \in RunPages(r)) /\ Apart(InFlight(l))
    BY <2>1, OneRun, Zenon
  <2> QED
    BY <1>1, <1>5, <2>1, <2>2, MapsNew, Zenon
<1>7. CASE o.stage = "over"
  <2>1. l = Trimming("head", p, o.n) /\ r = <<p, o.n + HugePages>>
    BY <1>7 DEF Length
  <2>2. LocOK(l) /\ InFlight(l) = {HeadRun(p), BodyRun(p, o.n), TailRun(p, o.n)}
    BY <1>2, <1>4, <2>1, Places, FlightTrimming, ZenonT(60)
  <2>3. (\A q : q \in PagesOf(InFlight(l)) <=> q \in RunPages(r)) /\ Apart(InFlight(l))
    <3> PICK h, b, z : h = HeadRun(p) /\ b = BodyRun(p, o.n) /\ z = TailRun(p, o.n)
      OBVIOUS
    <3>1. /\ RunPages(h) \cap RunPages(b) = {} /\ RunPages(h) \cap RunPages(z) = {}
          /\ RunPages(b) \cap RunPages(z) = {}
          /\ \A q : q \in RunPages(r) <=> q \in RunPages(h) \/ q \in RunPages(b) \/ q \in RunPages(z)
      BY <1>2, <1>4, <2>1, Parts, ZenonT(60)
    <3>2. /\ \A q : q \in PagesOf({h, b, z}) <=> q \in RunPages(h) \/ q \in RunPages(b) \/ q \in RunPages(z)
          /\ Apart({h, b, z})
      BY <3>1, ThreeRuns
    <3>3. InFlight(l) = {h, b, z}
      BY <2>2
    <3>4. PagesOf(InFlight(l)) = PagesOf({h, b, z}) /\ Apart(InFlight(l))
      BY <3>2, <3>3
    <3> QED
      BY <3>1, <3>2, <3>4, Zenon
  <2> QED
    BY <1>1, <1>5, <2>2, <2>3, MapsNew, Zenon
<1> QED
  BY <1>2, <1>6, <1>7, Zenon

LEMMA MmapFailsStep ==
    ASSUME AllocInv, NEW t \in Threads, MmapEnomem(t) \/ MmapError(t)
    PROVE  AllocInv'
<1>1. MappingOK(loc[t]) /\ UNCHANGED <<mapped, dirty, cache, owned, refused>>
  BY Shapes, Zenon DEF MmapEnomem, MmapError, At, AllocInv, Typed
<1>2. PICK l : Goto(t, l) /\ (l = Retry(loc[t]) \/ l = GiveUp(loc[t]))
  BY Zenon DEF MmapEnomem, MmapError
<1>3. LocOK(l) /\ InFlight(l) \in {{}, {NoRun}} /\ InFlight(loc[t]) = {}
  BY <1>1, <1>2, MappingFields, FlightMapping, Zenon
<1> QED
  BY <1>1, <1>2, <1>3, HoldsNothing, Zenon
-----------------------------------------------------------------------------
(* munmap, and madvise *)

LEMMA DropStep ==
    ASSUME AllocInv, NEW t \in Threads, Drop(t)
    PROVE  AllocInv'
<1>1. UNCHANGED <<cache, owned>> /\ LocOK(loc[t]) /\ loc[t].pc = "munmap" /\ Apart(InFlight(loc[t]))
  BY Zenon DEF Drop, At, AllocInv, Typed
<1>2. PICK ok \in BOOLEAN : SafeMunmap(loc[t].pieces[1], ok)
  BY Zenon DEF Drop
<1>3. ASSUME NEW r \in Runs, NEW next, NextOK(next), loc[t] = Dropping(<<r>>, next)
      PROVE  AllocInv'
  <2>1. loc[t].pieces = <<r>> /\ loc[t].next = next /\ loc[t].pieces[1] = r /\ Tail(loc[t].pieces) = <<>>
    BY <1>3 DEF Dropping
  <2>2. Goto(t, next) /\ SafeMunmap(r, ok)
    BY <1>2, <2>1, Zenon DEF Drop
  <2>3. LocOK(next) /\ InFlight(next) = {} /\ ~Pure(next)
    BY <1>3, Places, FlightIdle, FlightMapping, Zenon DEF NextOK
  <2>4. Mine(t) = RunPages(r) /\ Apart(InFlight(next))
    <3>1. InFlight(loc[t]) = {r}
      BY <1>3, FlightDropping
    <3> QED
      BY <2>3, <3>1, OneRun, NothingHeld, ZenonT(60) DEF Mine
  <2>5. \A p : p \in PagesOf(InFlight(next)) <=> p \in Mine(t) /\ p \notin RunPages(r)
    BY <2>3, <2>4, NothingHeld, Zenon
  <2> QED
    BY <1>1, <2>2, <2>3, <2>4, <2>5, Unmaps, Zenon
<1>4. ASSUME NEW r \in Runs, NEW s \in Runs, NEW next, r # s, NextOK(next),
             loc[t] = Dropping(<<r, s>>, next)
      PROVE  AllocInv'
  <2>1. /\ loc[t].pieces = <<r, s>> /\ loc[t].next = next /\ loc[t].pieces[1] = r
        /\ Tail(loc[t].pieces) = <<s>> /\ <<s>> # <<>>
    BY <1>4 DEF Dropping
  <2> PICK l : l = Dropping(<<s>>, next)
    OBVIOUS
  <2>2. Goto(t, l) /\ SafeMunmap(r, ok)
    BY <1>2, <2>1, Zenon DEF Drop
  <2>3. LocOK(l) /\ InFlight(l) = {s} /\ ~Pure(l)
    <3>1. InFlight(Dropping(<<s>>, next)) = {s} /\ ~Pure(Dropping(<<s>>, next))
      BY FlightDropping, Zenon
    <3>2. LocOK(Dropping(<<s>>, next))
      BY <1>4, Places, Zenon
    <3> QED
      BY <3>1, <3>2, Zenon
  <2>4. InFlight(loc[t]) = {r, s}
    <3>1. InFlight(Dropping(<<r, s>>, next)) = {r, s}
      BY FlightDropping, Zenon
    <3> QED
      BY <1>4, <3>1, Zenon
  <2>5. RunPages(r) \cap RunPages(s) = {}
    BY <1>1, <1>4, <2>4, Zenon DEF Apart
  <2>6. (\A p : p \in Mine(t) <=> p \in RunPages(r) \/ p \in RunPages(s))
    <3>1. \A p : p \in PagesOf({r, s}) <=> p \in RunPages(r) \/ p \in RunPages(s)
      BY <2>5, TwoRuns, Zenon
    <3>2. Mine(t) = PagesOf({r, s})
      BY <2>4 DEF Mine
    <3> QED
      BY <3>1, <3>2, Zenon
  <2>7. PagesOf(InFlight(l)) = RunPages(s) /\ Apart(InFlight(l))
    BY <2>3, OneRun, Zenon
  <2>8. /\ \A p \in RunPages(r) : p \in Mine(t)
        /\ \A p : p \in PagesOf(InFlight(l)) <=> p \in Mine(t) /\ p \notin RunPages(r)
    BY <2>5, <2>6, <2>7, Zenon
  <2> QED
    BY <1>1, <2>2, <2>3, <2>7, <2>8, Unmaps, Zenon
<1>5. \/ \E r \in Runs : \E next : NextOK(next) /\ loc[t] = Dropping(<<r>>, next)
      \/ \E r, s \in Runs : \E next : r # s /\ NextOK(next) /\ loc[t] = Dropping(<<r, s>>, next)
  BY <1>1, ShapeDropping, Zenon
<1>6. CASE \E r \in Runs : \E next : NextOK(next) /\ loc[t] = Dropping(<<r>>, next)
  BY <1>3, <1>6, Zenon
<1>7. CASE \E r, s \in Runs : \E next : r # s /\ NextOK(next) /\ loc[t] = Dropping(<<r, s>>, next)
  BY <1>4, <1>7, Zenon
<1> QED
  BY <1>5, <1>6, <1>7, Zenon
LEMMA TrimHeadStep ==
    ASSUME AllocInv, NEW t \in Threads, TrimHead(t)
    PROVE  AllocInv'
<1>1. UNCHANGED <<cache, owned>> /\ LocOK(loc[t]) /\ loc[t].pc = "head"
  BY Zenon DEF TrimHead, At, AllocInv, Typed
<1>2. PICK raw \in Nat, n \in Nat \ {0} : loc[t] = Trimming("head", raw, n)
  BY <1>1, ShapeTrimming, Zenon
<1>3. loc[t].raw = raw /\ loc[t].n = n
  BY <1>2 DEF Trimming
<1> PICK h, b, z : h = HeadRun(raw) /\ b = BodyRun(raw, n) /\ z = TailRun(raw, n)
  OBVIOUS
<1>4. b \in Runs /\ z \in Runs /\ (h[2] = 0 => RunPages(h) = {})
  BY Parts, Zenon
<1>5. /\ RunPages(h) \cap RunPages(b) = {} /\ RunPages(h) \cap RunPages(z) = {}
      /\ RunPages(b) \cap RunPages(z) = {}
  BY Parts, Zenon
<1>6. \A p : p \in Mine(t) <=> p \in RunPages(h) \/ p \in RunPages(b) \/ p \in RunPages(z)
  <2>1. InFlight(Trimming("head", raw, n)) = {h, b, z}
    BY FlightTrimming
  <2>2. Mine(t) = PagesOf({h, b, z})
    BY <1>2, <2>1 DEF Mine
  <2>3. \A p : p \in PagesOf({h, b, z}) <=> p \in RunPages(h) \/ p \in RunPages(b) \/ p \in RunPages(z)
    BY <1>5, ThreeRuns
  <2> QED
    BY <2>2, <2>3, Zenon
<1>7. /\ \A p : p \in PagesOf({b, z}) <=> p \in Mine(t) /\ p \notin RunPages(h)
      /\ Apart({b, z}) /\ \A p \in RunPages(h) : p \in Mine(t)
  <2>1. (\A p : p \in PagesOf({b, z}) <=> p \in RunPages(b) \/ p \in RunPages(z)) /\ Apart({b, z})
    BY <1>5, TwoRuns
  <2> QED
    BY <1>5, <1>6, <2>1, Zenon
<1>8. InFlight(Trimming("tail", raw, n)) = {b, z} /\ LocOK(Trimming("tail", raw, n))
  BY FlightTrimming, Places, Zenon
<1>9. Pure(loc[t])
  BY <1>1, Zenon DEF Pure
<1>10. CASE h[2] = 0
  <2>1. Goto(t, Trimming("tail", raw, n)) /\ UNCHANGED <<mapped, dirty, refused>>
    BY <1>3, <1>10 DEF TrimHead
  <2>2. PagesOf({b, z}) = Mine(t)
    <3>1. \A p : p \in PagesOf({b, z}) <=> p \in Mine(t)
      BY <1>4, <1>7, <1>10, Zenon
    <3> QED
      BY <3>1, Zenon
  <2>3. \A p \in Mine(t) : p \notin dirty
    BY <1>9, Zenon DEF AllocInv, Clean
  <2> QED
    BY <1>1, <1>7, <1>8, <2>1, <2>2, <2>3, Stays, ZenonT(60)
<1>11. CASE h[2] # 0
  <2>1. PICK ok \in BOOLEAN : /\ SafeMunmap(h, ok)
                              /\ Goto(t, IF ok THEN Trimming("tail", raw, n) ELSE CleanupAfterHead(raw, n))
    BY <1>3, <1>11, Zenon DEF TrimHead
  <2> PICK l : l = IF ok THEN Trimming("tail", raw, n) ELSE CleanupAfterHead(raw, n)
    OBVIOUS
  <2>2. LocOK(l) /\ InFlight(l) = {b, z} /\ Goto(t, l)
    <3>1. CASE ok
      BY <1>8, <2>1, <3>1, Zenon
    <3>2. CASE ~ok
      <4>1. b # z
        <5>1. b[1] \in RunPages(b)
          BY <1>4 DEF Runs, RunPages
        <5> QED
          BY <1>5, <5>1, Zenon
      <4>2. MappingOK(HugeFailed(n))
        BY MappingPlace, Zenon DEF HugeFailed
      <4>3. CleanupAfterHead(raw, n) = Dropping(<<b, z>>, HugeFailed(n))
        BY Zenon DEF CleanupAfterHead
      <4>4. LocOK(Dropping(<<b, z>>, HugeFailed(n)))
        BY <1>4, <4>1, <4>2, Places, Zenon DEF NextOK
      <4>5. InFlight(Dropping(<<b, z>>, HugeFailed(n))) = {b, z}
        BY FlightDropping, Zenon
      <4> QED
        BY <2>1, <3>2, <4>3, <4>4, <4>5, Zenon
    <3> QED
      BY <3>1, <3>2, Zenon
  <2>3. /\ \A p : p \in PagesOf(InFlight(l)) <=> p \in Mine(t) /\ p \notin RunPages(h)
        /\ Apart(InFlight(l))
    <3>1. PagesOf(InFlight(l)) = PagesOf({b, z}) /\ Apart(InFlight(l))
      BY <1>7, <2>2
    <3> QED
      BY <1>7, <3>1, Zenon
  <2> QED
    BY <1>1, <1>7, <1>9, <2>1, <2>2, <2>3, Unmaps, ZenonT(60)
<1> QED
  BY <1>10, <1>11, Zenon

LEMMA TrimTailStep ==
    ASSUME AllocInv, NEW t \in Threads, TrimTail(t)
    PROVE  AllocInv'
<1>1. UNCHANGED <<cache, owned>> /\ LocOK(loc[t]) /\ loc[t].pc = "tail"
  BY Zenon DEF TrimTail, At, AllocInv, Typed
<1>2. PICK raw \in Nat, n \in Nat \ {0} : loc[t] = Trimming("tail", raw, n)
  BY <1>1, ShapeTrimming, Zenon
<1>3. loc[t].raw = raw /\ loc[t].n = n
  BY <1>2 DEF Trimming
<1> PICK b, z : b = BodyRun(raw, n) /\ z = TailRun(raw, n)
  OBVIOUS
<1>4. b \in Runs /\ z \in Runs /\ RunPages(b) \cap RunPages(z) = {}
  BY Parts, Zenon
<1>5. \A p : p \in Mine(t) <=> p \in RunPages(b) \/ p \in RunPages(z)
  <2>1. InFlight(Trimming("tail", raw, n)) = {b, z}
    BY FlightTrimming, Zenon
  <2>2. Mine(t) = PagesOf({b, z})
    BY <1>2, <2>1 DEF Mine
  <2>3. \A p : p \in PagesOf({b, z}) <=> p \in RunPages(b) \/ p \in RunPages(z)
    BY <1>4, TwoRuns
  <2> QED
    BY <2>2, <2>3, Zenon
<1>6. Pure(loc[t])
  BY <1>1, Zenon DEF Pure
<1>7. PICK ok \in BOOLEAN : /\ SafeMunmap(z, ok)
                            /\ Goto(t, IF ok THEN Returned(b) ELSE Dropping(<<b>>, HugeFailed(n)))
  BY <1>3, Zenon DEF TrimTail
<1> PICK l : l = IF ok THEN Returned(b) ELSE Dropping(<<b>>, HugeFailed(n))
  OBVIOUS
<1>8. LocOK(l) /\ InFlight(l) = {b} /\ Goto(t, l)
  <2>1. CASE ok
    <3>1. LocOK(Returned(b)) /\ InFlight(Returned(b)) = {b}
      BY <1>4, Places, FlightRun, Zenon
    <3> QED
      BY <1>7, <2>1, <3>1, Zenon
  <2>2. CASE ~ok
    <3>1. MappingOK(HugeFailed(n))
      BY MappingPlace, Zenon DEF HugeFailed
    <3>2. LocOK(Dropping(<<b>>, HugeFailed(n)))
      BY <1>4, <3>1, Places, Zenon DEF NextOK
    <3>3. InFlight(Dropping(<<b>>, HugeFailed(n))) = {b}
      BY FlightDropping, Zenon
    <3> QED
      BY <1>7, <2>2, <3>2, <3>3, Zenon
  <2> QED
    BY <2>1, <2>2, Zenon
<1>9. PagesOf(InFlight(l)) = RunPages(b) /\ Apart(InFlight(l))
  BY <1>8, OneRun, Zenon
<1>10. /\ \A p \in RunPages(z) : p \in Mine(t)
       /\ \A p : p \in PagesOf(InFlight(l)) <=> p \in Mine(t) /\ p \notin RunPages(z)
  BY <1>4, <1>5, <1>9, Zenon
<1> QED
  BY <1>1, <1>6, <1>7, <1>8, <1>9, <1>10, Unmaps, ZenonT(60)
LEMMA MadviseStep ==
    ASSUME AllocInv, NEW t \in Threads, MadviseDontneed(t)
    PROVE  AllocInv'
<1>1. UNCHANGED <<mapped, cache, owned, refused>> /\ LocOK(loc[t]) /\ loc[t].pc = "madvise"
  BY Zenon DEF MadviseDontneed, At, AllocInv, Typed
<1>2. PICK a \in Nat : loc[t] = Discarding(<<a, HugePages>>)
  BY <1>1, Shapes
<1> PICK r : r = <<a, HugePages>>
  OBVIOUS
<1>3. loc[t].run = r /\ r \in Runs
  BY <1>2 DEF Discarding, Runs
<1>4. Mine(t) = RunPages(r)
  BY <1>2, FlightRun, OneRun, Zenon DEF Mine
<1>5. CASE dirty' = dirty \ RunPages(r) /\ Goto(t, Putting(r))
  <2>1. LocOK(Putting(r)) /\ InFlight(Putting(r)) = {r}
    BY Places, FlightRun, Zenon
  <2>2. PagesOf(InFlight(Putting(r))) = Mine(t) /\ Apart(InFlight(Putting(r)))
    BY <1>4, <2>1, OneRun, Zenon
  <2>3. (\A p \in dirty' : p \in dirty) /\ \A p \in Mine(t) : p \notin dirty'
    BY <1>4, <1>5, Zenon
  <2> QED
    BY <1>1, <1>5, <2>1, <2>2, <2>3, Stays, Zenon
<1>6. CASE dirty' = dirty /\ Goto(t, MadviseFailed(r))
  <2> PICK l : l = Dropping(<<r>>, Idle)
    OBVIOUS
  <2>1. LocOK(Dropping(<<r>>, Idle))
    BY <1>3, Places, Zenon DEF NextOK
  <2>2. InFlight(Dropping(<<r>>, Idle)) = {r} /\ ~Pure(Dropping(<<r>>, Idle))
    BY FlightDropping, Zenon
  <2>3. LocOK(l) /\ InFlight(l) = {r} /\ ~Pure(l) /\ Goto(t, l)
    BY <1>6, <2>1, <2>2, Zenon DEF MadviseFailed
  <2>4. PagesOf(InFlight(l)) = Mine(t) /\ Apart(InFlight(l))
    BY <1>4, <2>3, OneRun, Zenon
  <2>5. \A p \in dirty' : p \in dirty
    BY <1>6, Zenon
  <2> QED
    BY <1>1, <2>3, <2>4, <2>5, Stays, Zenon
<1> QED
  BY <1>3, <1>5, <1>6, Zenon DEF MadviseDontneed

\* The cache takes the mapping.
LEMMA CacheStep ==
    ASSUME AllocInv, NEW t \in Threads, NEW a \in Nat, loc[t] = Putting(<<a, HugePages>>),
           cache' = cache \cup {a}, Goto(t, Idle), UNCHANGED <<mapped, dirty, owned, refused>>
    PROVE  AllocInv'
<1> PICK r : r = <<a, HugePages>>
  OBVIOUS
<1>1. /\ Typed /\ Accounted /\ Clean /\ LocOK(Idle) /\ InFlight(Idle) = {} /\ ~Pure(Idle)
      /\ mapped' = mapped /\ dirty' = dirty /\ owned' = owned /\ refused' = refused
      /\ PagesOf(owned)' = PagesOf(owned)
  BY FlightIdle, Places, Zenon DEF AllocInv
<1>2. Mine(t) = RunPages(r) /\ Pure(loc[t])
  <2>1. Pure(Putting(r))
    BY DEF Pure, Putting
  <2> QED
    BY <2>1, FlightRun, OneRun, Zenon DEF Mine
<1>3. \A s : s \in CachedRuns' <=> s \in CachedRuns \/ s = r
  BY Zenon DEF CachedRuns
<1>4. \A p : p \in PagesOf(CachedRuns)' <=> p \in PagesOf(CachedRuns) \/ p \in RunPages(r)
  <2>1. \A p : p \in PagesOf(CachedRuns)' <=> \E s \in CachedRuns' : p \in RunPages(s)
    BY Zenon DEF PagesOf, RunPages
  <2>2. \A p : p \in PagesOf(CachedRuns) <=> \E s \in CachedRuns : p \in RunPages(s)
    BY InPages, Zenon
  <2> QED
    BY <1>3, <2>1, <2>2, Zenon
<1>5. \A p \in RunPages(r) : /\ p \in mapped /\ p \notin PagesOf(owned) /\ p \notin PagesOf(CachedRuns)
                             /\ p \notin refused /\ p \notin dirty
  <2> SUFFICES ASSUME NEW p, p \in Mine(t)
               PROVE  /\ p \in mapped /\ p \notin PagesOf(owned) /\ p \notin PagesOf(CachedRuns)
                      /\ p \notin refused /\ p \notin dirty
    BY <1>2, Zenon
  <2> QED
    BY <1>1, <1>2, Zenon DEF Accounted, Clean
<1>6. Moves(t, Idle, RunPages(r))
  BY <1>1, <1>2, <1>4, <1>5, NothingHeld, Zenon DEF Moves
<1>7. Cleans(t, Idle)
  BY <1>1, <1>4, <1>5, Zenon DEF Cleans, Clean
<1>8. Apart(CachedRuns)'
  <2>1. Apart(CachedRuns) /\ \A s \in CachedRuns : \A p \in RunPages(s) : p \in PagesOf(CachedRuns)
    BY <1>1, InPages, Zenon DEF Typed
  <2>2. \A s \in CachedRuns : RunPages(s) \cap RunPages(r) = {} /\ RunPages(r) \cap RunPages(s) = {}
    BY <1>5, <2>1, Zenon
  <2>3. Apart(CachedRuns')
    BY <1>3, <2>1, <2>2, Zenon DEF Apart
  <2> QED
    BY <2>3, Zenon DEF Apart, RunPages
<1>9. owned' \subseteq Runs /\ cache' \subseteq Nat /\ Apart(owned)'
  BY <1>1, Zenon DEF Typed, Apart, RunPages
<1> QED
  BY <1>1, <1>6, <1>7, <1>8, <1>9, NothingHeld, Assemble, Zenon

LEMMA PutStep ==
    ASSUME AllocInv, NEW t \in Threads, Put(t)
    PROVE  AllocInv'
<1>1. UNCHANGED <<mapped, dirty, owned, refused>> /\ LocOK(loc[t]) /\ loc[t].pc = "put"
  BY Zenon DEF Put, At, AllocInv, Typed
<1>2. PICK a \in Nat : loc[t] = Putting(<<a, HugePages>>)
  BY <1>1, Shapes
<1> PICK r : r = <<a, HugePages>>
  OBVIOUS
<1>3. loc[t].run = r /\ r \in Runs /\ r[1] = a
  BY <1>2 DEF Putting, Runs
<1>4. CASE cache' = cache \cup {a} /\ Goto(t, Idle)
  BY <1>1, <1>2, <1>4, CacheStep, Zenon
<1>5. CASE cache' = cache /\ Goto(t, Dropping(<<r>>, Idle))
  <2> PICK l : l = Dropping(<<r>>, Idle)
    OBVIOUS
  <2>1. LocOK(Dropping(<<r>>, Idle))
    BY <1>3, Places, Zenon DEF NextOK
  <2>2. InFlight(Dropping(<<r>>, Idle)) = {r} /\ ~Pure(Dropping(<<r>>, Idle))
    BY FlightDropping, Zenon
  <2>3. LocOK(l) /\ InFlight(l) = {r} /\ ~Pure(l) /\ Goto(t, l)
    BY <1>5, <2>1, <2>2, Zenon
  <2>4. Mine(t) = RunPages(r)
    BY <1>2, FlightRun, OneRun, Zenon DEF Mine
  <2>5. PagesOf(InFlight(l)) = Mine(t) /\ Apart(InFlight(l))
    BY <2>3, <2>4, OneRun, Zenon
  <2>6. (\A p \in dirty' : p \in dirty) /\ UNCHANGED <<mapped, cache, owned, refused>>
    BY <1>1, <1>5, Zenon
  <2> QED
    BY <2>3, <2>5, <2>6, Stays, Zenon
<1> QED
  BY <1>3, <1>4, <1>5, Zenon DEF Put

-----------------------------------------------------------------------------
(* The invariant *)

LEMMA AllocInit ==
    ASSUME Init PROVE AllocInv
<1>1. /\ owned = {} /\ cache = {} /\ refused = {} /\ mapped = {} /\ dirty = {}
      /\ loc = [t \in Threads |-> Idle]
  BY Zenon DEF Init
<1>2. CachedRuns = {}
  BY <1>1, Zenon DEF CachedRuns
<1>3. \A t \in Threads : loc[t] = Idle /\ InFlight(loc[t]) = {} /\ Mine(t) = {}
  BY <1>1, FlightIdle, NoPages, Zenon DEF Mine
<1>4. loc = [t \in Threads |-> loc[t]]
  BY <1>1, Zenon
<1>5. Typed
  BY <1>1, <1>2, <1>3, <1>4, Places, NothingHeld, Zenon DEF Typed
<1>6. Accounted /\ Clean
  BY <1>1, <1>2, <1>3, NothingHeld, Zenon DEF Accounted, Clean
<1> QED
  BY <1>5, <1>6, Zenon DEF AllocInv

LEMMA AllocNext ==
    ASSUME AllocInv, [Next]_vars PROVE AllocInv'
<1>1. CASE Next
  <2>1. PICK t \in Threads : Step(t) \/ Call(t) \/ Take(t) \/ Free(t)
    BY <1>1, Zenon DEF Next
  <2>2. CASE Step(t)
    BY <2>2, MmapStep, MmapFailsStep, DropStep, TrimHeadStep, TrimTailStep, MadviseStep, PutStep,
       Zenon DEF Step
  <2> QED
    BY <2>1, <2>2, CallStep, TakeStep, FreeStep, Zenon
<1>2. CASE UNCHANGED vars
  <2>1. /\ mapped' = mapped /\ dirty' = dirty /\ cache' = cache /\ owned' = owned /\ refused' = refused
        /\ loc' = loc
    BY <1>2, Zenon DEF vars
  <2>2. /\ PagesOf(owned)' = PagesOf(owned) /\ PagesOf(CachedRuns)' = PagesOf(CachedRuns)
        /\ \A t \in Threads : Mine(t)' = Mine(t)
    BY <2>1, Zenon DEF CachedRuns, Mine
  <2>3. Accounted' /\ Clean'
    <3>1. Accounted /\ Clean
      BY Zenon DEF AllocInv
    <3>2. Accounted'
      BY <2>1, <2>2, <3>1 DEF Accounted
    <3>3. \A t \in Threads : Pure(loc[t])' => Pure(loc[t])
      BY <2>1, Zenon DEF Pure
    <3> QED
      BY <2>1, <2>2, <3>1, <3>2, <3>3, Zenon DEF Clean
  <2>4. Typed'
    BY <2>1, Zenon DEF AllocInv, Typed, CachedRuns, Apart, LocOK
  <2> QED
    BY <2>3, <2>4, Zenon DEF AllocInv
<1> QED
  BY <1>1, <1>2, Zenon

LEMMA AllocInvariance == Spec => []AllocInv
<1>1. Init => AllocInv
  BY AllocInit, Zenon
<1>2. AllocInv /\ [Next]_vars => AllocInv'
  BY AllocNext, Zenon
<1> QED
  BY <1>1, <1>2, PTL DEF Spec

\* Nobody holds an empty run, except for a head that needs no trimming.
LEMMA AccountedExactly ==
    ASSUME AllocInv PROVE PagesAccounted
<1>1. Typed /\ Accounted
  BY Zenon DEF AllocInv
<1> DEFINE held == owned \cup CachedRuns \cup UNION {InFlight(loc[t]) : t \in Threads}
<1>2. \A p : p \in PagesOf(held) <=> \/ p \in PagesOf(owned) \/ p \in PagesOf(CachedRuns)
                                     \/ \E t \in Threads : p \in Mine(t)
  <2>1. \A r : r \in held <=> r \in owned \/ r \in CachedRuns \/ \E t \in Threads : r \in InFlight(loc[t])
    BY Zenon
  <2> HIDE DEF held
  <2>2. \A p : p \in PagesOf(held) <=> \E r \in held : p \in RunPages(r)
    BY InPages, Zenon
  <2>3. /\ \A p : p \in PagesOf(owned) <=> \E r \in owned : p \in RunPages(r)
        /\ \A p : p \in PagesOf(CachedRuns) <=> \E r \in CachedRuns : p \in RunPages(r)
        /\ \A t \in Threads : \A p : p \in Mine(t) <=> \E r \in InFlight(loc[t]) : p \in RunPages(r)
    BY InPages, Zenon DEF Mine
  <2> QED
    BY <2>1, <2>2, <2>3, Zenon
<1>3. PagesOf(held) \cup refused = mapped /\ PagesOf(held) \cap refused = {}
  BY <1>1, <1>2, Zenon DEF Accounted
<1>4. \A r \in owned \cup CachedRuns : \E p : p \in RunPages(r)
  <2>1. owned \cup CachedRuns \subseteq Runs
    <3>1. \A c \in cache : <<c, HugePages>> \in Runs
      BY <1>1 DEF Typed, Runs
    <3> QED
      BY <1>1, <3>1, Zenon DEF Typed, CachedRuns
  <2>2. \A r \in Runs : r[1] \in RunPages(r)
    BY DEF Runs, RunPages
  <2> QED
    BY <2>1, <2>2, Zenon
<1>5. /\ \A r \in owned : \A p \in RunPages(r) : p \in PagesOf(owned)
      /\ \A r \in CachedRuns : \A p \in RunPages(r) : p \in PagesOf(CachedRuns)
      /\ \A t \in Threads : \A r \in InFlight(loc[t]) : \A p \in RunPages(r) : p \in Mine(t)
  BY Zenon DEF PagesOf, Mine
<1>6. \A p : /\ p \in PagesOf(owned) => p \notin PagesOf(CachedRuns) /\ \A t \in Threads : p \notin Mine(t)
             /\ p \in PagesOf(CachedRuns) => \A t \in Threads : p \notin Mine(t)
             /\ \A t, u \in Threads : t # u => p \notin Mine(t) \/ p \notin Mine(u)
  BY <1>1, Zenon DEF Accounted
<1>7. owned \cap CachedRuns = {}
  <2> SUFFICES ASSUME NEW r, r \in owned, r \in CachedRuns PROVE FALSE
    BY Zenon
  <2>1. PICK p : p \in RunPages(r)
    BY <1>4, Zenon
  <2> QED
    BY <1>5, <1>6, <2>1, Zenon
<1>8. \A t \in Threads : InFlight(loc[t]) \cap (owned \cup CachedRuns) = {}
  <2> SUFFICES ASSUME NEW t \in Threads, NEW r, r \in InFlight(loc[t]), r \in owned \cup CachedRuns
               PROVE  FALSE
    BY Zenon
  <2>1. PICK p : p \in RunPages(r)
    BY <1>4, Zenon
  <2> QED
    BY <1>5, <1>6, <2>1, Zenon
<1>9. \A t, u \in Threads : t # u => Mine(t) \cap Mine(u) = {}
  BY <1>6, Zenon
<1>10. \A r \in held : r \in owned \/ r \in CachedRuns \/ \E t \in Threads : r \in InFlight(loc[t])
  BY Zenon
<1>11. ASSUME NEW r \in held, NEW s \in held, r # s, NEW p, p \in RunPages(r), p \in RunPages(s)
      PROVE  FALSE
  <2>1. CASE r \in owned
    <3>1. CASE s \in owned
      BY <1>1, <1>11, <2>1, <3>1, Zenon DEF Typed, Apart
    <3>2. CASE s \notin owned
      BY <1>5, <1>6, <1>10, <1>11, <2>1, <3>2, Zenon
    <3> QED
      BY <3>1, <3>2, Zenon
  <2>2. CASE r \in CachedRuns
    <3>1. CASE s \in CachedRuns
      BY <1>1, <1>11, <2>2, <3>1, Zenon DEF Typed, Apart
    <3>2. CASE s \notin CachedRuns
      BY <1>5, <1>6, <1>10, <1>11, <2>2, <3>2, Zenon
    <3> QED
      BY <3>1, <3>2, Zenon
  <2>3. ASSUME NEW t \in Threads, r \in InFlight(loc[t])
        PROVE  FALSE
    <3>1. CASE s \in InFlight(loc[t])
      BY <1>1, <1>11, <2>3, <3>1, Zenon DEF Typed, Apart
    <3>2. CASE s \notin InFlight(loc[t])
      BY <1>5, <1>6, <1>10, <1>11, <2>3, <3>2, Zenon
    <3> QED
      BY <3>1, <3>2, Zenon
  <2> QED
    BY <1>10, <2>1, <2>2, <2>3, Zenon
<1>12. \A r, s \in held : r # s => RunPages(r) \cap RunPages(s) = {}
  BY <1>11, Zenon
<1> QED
  BY <1>3, <1>7, <1>8, <1>9, <1>12, Zenon DEF PagesAccounted, Mine

\* Through over-allocation, trimming, failing system calls and their cleanup,
\* every mapped page has exactly one place: a caller, the cache, one thread
\* inside SystemAlloc or SystemFree, or the pages the OS refused to unmap.
THEOREM NoPageLeaks == Spec => []PagesAccounted
<1>1. AllocInv => PagesAccounted
  BY AccountedExactly, Zenon
<1> QED
  BY <1>1, AllocInvariance, PTL

\* SystemAlloc returns zero-filled memory, whatever an earlier owner wrote to
\* a mapping that comes out of the cache.
THEOREM ReturnsZeros == Spec => []ZeroFilled
<1>1. AllocInv => ZeroFilled
  <2> SUFFICES ASSUME AllocInv, NEW t \in Threads, At(t, "returned")
               PROVE  RunPages(loc[t].run) \cap dirty = {}
    BY Zenon DEF ZeroFilled
  <2>1. LocOK(loc[t]) /\ loc[t].pc = "returned" /\ Pure(loc[t])
    BY Zenon DEF At, Pure, AllocInv, Typed
  <2>2. PICK r : loc[t] = Returned(r)
    BY <2>1, Shapes
  <2>3. loc[t].run = r
    BY <2>2 DEF Returned
  <2>4. Mine(t) = RunPages(r)
    BY <2>2, FlightRun, OneRun, Zenon DEF Mine
  <2> QED
    BY <2>1, <2>3, <2>4, Zenon DEF AllocInv, Clean
<1> QED
  BY <1>1, AllocInvariance, PTL

-----------------------------------------------------------------------------
(* The object pool *)

HIDE AllocatorAssumption
USE PoolAssumption

Objects == live \cup Listed
Multiple(a) == \E k \in Nat : a = k * ObjAlign

\* The objects are slots of the chunks, the region still to be carved is one.
PoolInv ==
    /\ data_ \in Nat /\ remain_bytes_ \in Nat /\ chunk_list_ \subseteq Nat
    /\ live \subseteq Nat /\ free_list_ \in Seq(Nat)
    /\ live \cap Listed = {}
    /\ \A i, j \in 1 .. Len(free_list_) : i # j => free_list_[i] # free_list_[j]
    /\ \A o \in Objects : InChunk(o, ObjSize) /\ Multiple(o)
    /\ \A o, p \in Objects : o < p => o + ObjSize <= p
    /\ remain_bytes_ > 0 => /\ InChunk(data_, remain_bytes_) /\ Multiple(data_)
                            /\ \A o \in Objects : o + ObjSize <= data_ \/ data_ + remain_bytes_ <= o

LEMMA PoolNats ==
    /\ NumObjs \in Nat \ {0} /\ NumObjs * ObjSize \in Nat /\ NumObjs * ObjSize >= ObjSize
    /\ NeededBytes \in Nat /\ NeededBytes >= HeaderSize + ObjSize + ObjAlign - 1
<1>1. NumObjs \in Nat \ {0}
  <2>1. ChunkSize \div ObjSize \in Nat
    OBVIOUS
  <2> QED
    BY <2>1 DEF NumObjs
<1> PICK n \in Nat : n = NumObjs - 1
  BY <1>1
<1>2. NumObjs * ObjSize = n * ObjSize + ObjSize /\ n * ObjSize \in Nat
  BY <1>1
<1> QED
  BY <1>1, <1>2 DEF NeededBytes

LEMMA DivBounds ==
    ASSUME NEW a \in Nat, NEW m \in Nat \ {0}
    PROVE  /\ a \div m \in Nat /\ (a \div m) * m \in Nat /\ (a \div m) * m <= a
           /\ a < (a \div m) * m + m
OBVIOUS

LEMMA ChunkFits == ChunkBytes \in Nat /\ ChunkBytes >= HeaderSize + ObjSize + ObjAlign - 1
<1> PICK a : a = NeededBytes + PageSize - 1
  OBVIOUS
<1> PICK q : q = a \div PageSize
  OBVIOUS
<1>1. a \in Nat /\ PageSize \in Nat \ {0}
  BY PoolNats
<1>2. q \in Nat /\ q * PageSize \in Nat /\ a < q * PageSize + PageSize
  BY <1>1, DivBounds, Zenon
<1>3. ChunkBytes = q * PageSize
  BY <1>1, <1>2 DEF ChunkBytes
<1> QED
  BY <1>1, <1>2, <1>3, PoolNats

LEMMA Slot ==
    ASSUME NEW a \in Nat
    PROVE  /\ AlignedUp(a) \in Nat /\ a <= AlignedUp(a) /\ AlignedUp(a) <= a + ObjAlign - 1
           /\ Multiple(AlignedUp(a))
<1> PICK b : b = a + ObjAlign - 1
  OBVIOUS
<1> PICK q : q = b \div ObjAlign
  OBVIOUS
<1>1. b \in Nat /\ ObjAlign \in Nat \ {0}
  OBVIOUS
<1>2. q \in Nat /\ q * ObjAlign \in Nat /\ q * ObjAlign <= b /\ b < q * ObjAlign + ObjAlign
  BY <1>1
<1>3. AlignedUp(a) = q * ObjAlign
  BY DEF AlignedUp
<1> QED
  BY <1>1, <1>2, <1>3 DEF Multiple

LEMMA MultipleIsAligned ==
    ASSUME NEW a \in Nat, Multiple(a) PROVE a % ObjAlign = 0
<1>1. PICK k \in Nat : a = k * ObjAlign
  BY DEF Multiple
<1>2. (k * ObjAlign) % ObjAlign = 0
  OBVIOUS
<1> QED
  BY <1>1, <1>2

LEMMA NextSlot ==
    ASSUME NEW a \in Nat, Multiple(a) PROVE Multiple(a + ObjSize)
<1>1. PICK k \in Nat : a = k * ObjAlign
  BY DEF Multiple
<1>2. PICK m \in Nat : ObjSize = m * ObjAlign
  <2>1. ObjSize = (ObjSize \div ObjAlign) * ObjAlign /\ ObjSize \div ObjAlign \in Nat
    OBVIOUS
  <2> QED
    BY <2>1
<1>3. a + ObjSize = (k + m) * ObjAlign
  BY <1>1, <1>2
<1> QED
  BY <1>3 DEF Multiple

LEMMA ChunksApart ==
    ASSUME NEW c \in Nat, NEW d \in Nat, c < d
    PROVE  /\ c * ChunkBytes \in Nat /\ d * ChunkBytes \in Nat /\ (c + 1) * ChunkBytes \in Nat
           /\ (c + 1) * ChunkBytes <= d * ChunkBytes
<1> PICK B \in Nat : B = ChunkBytes
  BY ChunkFits
<1> PICK k \in Nat : d = c + 1 + k
  BY SMT
<1>1. d * B = (c + 1) * B + k * B /\ k * B \in Nat /\ c * B \in Nat /\ (c + 1) * B \in Nat /\ d * B \in Nat
  OBVIOUS
<1> QED
  BY <1>1
-----------------------------------------------------------------------------
(* The free list *)

LEMMA ObjectsNat ==
    ASSUME PoolInv PROVE \A o \in Objects : o \in Nat
<1>1. live \subseteq Nat /\ free_list_ \in Seq(Nat)
  BY Zenon DEF PoolInv
<1>2. \A i \in 1 .. Len(free_list_) : free_list_[i] \in Nat
  BY <1>1
<1> QED
  BY <1>1, <1>2, Zenon DEF Objects, Listed

LEMMA PopList ==
    ASSUME PoolInv, free_list_ # <<>>, NEW x, x = Head(free_list_), free_list_' = Tail(free_list_)
    PROVE  /\ x \in Listed /\ x \in Nat /\ free_list_' \in Seq(Nat)
           /\ \A o : o \in Listed' <=> o \in Listed /\ o # x
           /\ \A i, j \in 1 .. Len(free_list_') : i # j => free_list_'[i] # free_list_'[j]
<1> PICK q, r : q = free_list_ /\ r = Tail(q)
  OBVIOUS
<1>1. q \in Seq(Nat) /\ q # <<>> /\ \A i, j \in 1 .. Len(q) : i # j => q[i] # q[j]
  BY Zenon DEF PoolInv
<1>2. /\ r \in Seq(Nat) /\ Len(q) \in Nat \ {0} /\ Len(r) = Len(q) - 1 /\ x = q[1] /\ x \in Nat
      /\ \A i \in 1 .. Len(r) : r[i] = q[i + 1]
  BY <1>1
<1>3. \A i, j \in 1 .. Len(r) : i # j => r[i] # r[j]
  BY <1>1, <1>2
<1>4. ASSUME NEW i \in 1 .. Len(r) PROVE r[i] # x /\ \E j \in 1 .. Len(q) : r[i] = q[j]
  <2>1. i + 1 \in 1 .. Len(q) /\ i + 1 # 1 /\ 1 \in 1 .. Len(q)
    BY <1>2
  <2> QED
    BY <1>1, <1>2, <2>1
<1>5. ASSUME NEW j \in 1 .. Len(q), q[j] # x PROVE \E i \in 1 .. Len(r) : r[i] = q[j]
  <2>1. j - 1 \in 1 .. Len(r) /\ r[j - 1] = q[j]
    BY <1>2, <1>5
  <2> QED
    BY <2>1
<1>6. /\ Listed = {q[i] : i \in 1 .. Len(q)} /\ Listed' = {r[i] : i \in 1 .. Len(r)}
  BY Zenon DEF Listed
<1>7. \A o : o \in Listed' <=> o \in Listed /\ o # x
  <2>1. ASSUME NEW o, o \in Listed' PROVE o \in Listed /\ o # x
    <3>1. PICK i \in 1 .. Len(r) : o = r[i]
      BY <1>6, <2>1, Zenon
    <3> QED
      BY <1>4, <1>6, <3>1, Zenon
  <2>2. ASSUME NEW o, o \in Listed, o # x PROVE o \in Listed'
    <3>1. PICK j \in 1 .. Len(q) : o = q[j]
      BY <1>6, <2>2, Zenon
    <3>2. PICK i \in 1 .. Len(r) : r[i] = q[j]
      BY <1>5, <2>2, <3>1, Zenon
    <3> QED
      BY <1>6, <3>1, <3>2, Zenon
  <2> QED
    BY <2>1, <2>2, Zenon
<1>8. x \in Listed
  BY <1>2, <1>6
<1> QED
  BY <1>2, <1>3, <1>7, <1>8, ZenonT(60)

LEMMA PushList ==
    ASSUME PoolInv, NEW x \in Nat, x \notin Listed, free_list_' = <<x>> \o free_list_
    PROVE  /\ free_list_' \in Seq(Nat)
           /\ \A o : o \in Listed' <=> o \in Listed \/ o = x
           /\ \A i, j \in 1 .. Len(free_list_') : i # j => free_list_'[i] # free_list_'[j]
<1> PICK q, r : q = free_list_ /\ r = <<x>> \o q
  OBVIOUS
<1>1. q \in Seq(Nat) /\ \A i, j \in 1 .. Len(q) : i # j => q[i] # q[j]
  BY Zenon DEF PoolInv
<1>2. /\ r \in Seq(Nat) /\ Len(q) \in Nat /\ Len(r) = Len(q) + 1 /\ r[1] = x
      /\ \A i \in 1 .. Len(q) : r[i + 1] = q[i]
  BY <1>1
<1>3. /\ Listed = {q[i] : i \in 1 .. Len(q)} /\ Listed' = {r[i] : i \in 1 .. Len(r)}
  BY Zenon DEF Listed
<1>4. ASSUME NEW i \in 1 .. Len(r), i # 1 PROVE i - 1 \in 1 .. Len(q) /\ r[i] = q[i - 1] /\ r[i] # x
  <2>1. i - 1 \in 1 .. Len(q) /\ r[i] = q[i - 1]
    BY <1>2, <1>4
  <2> QED
    BY <1>3, <2>1, Zenon
<1>5. \A i, j \in 1 .. Len(r) : i # j => r[i] # r[j]
  <2> SUFFICES ASSUME NEW i \in 1 .. Len(r), NEW j \in 1 .. Len(r), i # j PROVE r[i] # r[j]
    BY Zenon
  <2>1. CASE i # 1 /\ j # 1
    <3>1. i - 1 # j - 1
      OBVIOUS
    <3>2. /\ i - 1 \in 1 .. Len(q) /\ r[i] = q[i - 1]
          /\ j - 1 \in 1 .. Len(q) /\ r[j] = q[j - 1]
      BY <1>4, <2>1, Zenon
    <3> QED
      BY <1>1, <3>1, <3>2, Zenon
  <2>2. CASE i = 1
    BY <1>2, <1>4, <2>2, Zenon
  <2>3. CASE j = 1
    BY <1>2, <1>4, <2>3, Zenon
  <2> QED
    BY <2>1, <2>2, <2>3, Zenon
<1>6. \A o : o \in Listed' <=> o \in Listed \/ o = x
  <2>1. ASSUME NEW j \in 1 .. Len(q) PROVE j + 1 \in 1 .. Len(r) /\ r[j + 1] = q[j]
    <3>1. r[j + 1] = q[j]
      BY <1>2, Zenon
    <3>2. j + 1 \in 1 .. Len(r)
      BY <1>2
    <3> QED
      BY <3>1, <3>2, Zenon
  <2>2. 1 \in 1 .. Len(r) /\ r[1] = x
    BY <1>2
  <2>3. ASSUME NEW o, o \in Listed' PROVE o \in Listed \/ o = x
    <3>1. PICK i \in 1 .. Len(r) : o = r[i]
      BY <1>3, <2>3, Zenon
    <3> QED
      BY <1>2, <1>3, <1>4, <3>1, ZenonT(60)
  <2>4. ASSUME NEW o, o \in Listed PROVE o \in Listed'
    <3>1. PICK j \in 1 .. Len(q) : o = q[j]
      BY <1>3, <2>4, Zenon
    <3> QED
      BY <1>3, <2>1, <3>1, Zenon
  <2>5. x \in Listed'
    BY <1>3, <2>2, Zenon
  <2> QED
    BY <2>3, <2>4, <2>5, Zenon
<1> QED
  BY <1>2, <1>5, <1>6, ZenonT(60)

LEMMA ListCount ==
    ASSUME PoolInv PROVE Cardinality(Listed) = Len(free_list_)
<1>1. /\ free_list_ \in Seq(Nat) /\ Len(free_list_) \in Nat
      /\ \A i, j \in 1 .. Len(free_list_) : i # j => free_list_[i] # free_list_[j]
  <2>1. /\ free_list_ \in Seq(Nat)
        /\ \A i, j \in 1 .. Len(free_list_) : i # j => free_list_[i] # free_list_[j]
    BY Zenon DEF PoolInv
  <2>2. Len(free_list_) \in Nat
    BY <2>1
  <2> QED
    BY <2>1, <2>2, Zenon
<1> PICK n \in Nat : n = Len(free_list_)
  BY <1>1, Zenon
<1> PICK f : f = [i \in 1 .. n |-> free_list_[i]]
  OBVIOUS
<1>2. f \in Bijection(1 .. n, Listed)
  <2>1. /\ f \in [1 .. n -> Listed] /\ \A i \in 1 .. n : f[i] = free_list_[i]
        /\ Listed = {free_list_[i] : i \in 1 .. n}
    BY Zenon DEF Listed
  <2>2. \A i, j \in 1 .. n : f[i] = f[j] => i = j
    BY <1>1, <2>1, Zenon
  <2>3. \A o \in Listed : \E i \in 1 .. n : f[i] = o
    BY <2>1, Zenon
  <2> QED
    BY <2>1, <2>2, <2>3, ZenonT(60) DEF Bijection, Injection, IsInjective, Surjection
<1>3. ExistsBijection(1 .. n, Listed)
  BY <1>2, Zenon DEF ExistsBijection
<1> QED
  BY <1>3, FS_CountingElements, Zenon

-----------------------------------------------------------------------------
(* The steps *)

\* A step that moves objects between their users and the free list.
LEMMA SameObjects ==
    ASSUME PoolInv, UNCHANGED <<data_, remain_bytes_, chunk_list_>>, \A o : o \in Objects' <=> o \in Objects,
           live' \subseteq Nat, free_list_' \in Seq(Nat), live' \cap Listed' = {},
           \A i, j \in 1 .. Len(free_list_') : i # j => free_list_'[i] # free_list_'[j]
    PROVE  PoolInv'
<1>1. data_' = data_ /\ remain_bytes_' = remain_bytes_ /\ chunk_list_' = chunk_list_
  BY Zenon
<1>2. \A o \in Objects' : InChunk(o, ObjSize)' /\ Multiple(o)
  BY <1>1, Zenon DEF PoolInv, InChunk
<1>3. \A o, p \in Objects' : o < p => o + ObjSize <= p
  BY Zenon DEF PoolInv
<1>4. remain_bytes_' > 0 =>
        /\ InChunk(data_, remain_bytes_)' /\ Multiple(data_')
        /\ \A o \in Objects' : o + ObjSize <= data_' \/ data_' + remain_bytes_' <= o
  <2>1. InChunk(data_, remain_bytes_)' <=> InChunk(data_, remain_bytes_)
    BY <1>1, Zenon DEF InChunk
  <2> QED
    BY <1>1, <2>1, Zenon DEF PoolInv
<1>5. data_' \in Nat /\ remain_bytes_' \in Nat /\ chunk_list_' \subseteq Nat
  BY <1>1, Zenon DEF PoolInv
<1> QED
  BY <1>2, <1>3, <1>4, <1>5, Zenon DEF PoolInv, Multiple
LEMMA ReuseStep ==
    ASSUME PoolInv, NewReused PROVE PoolInv'
<1> PICK x : x = Head(free_list_)
  OBVIOUS
<1>1. /\ free_list_ # <<>> /\ live' = live \cup {x} /\ free_list_' = Tail(free_list_)
      /\ UNCHANGED <<data_, remain_bytes_, chunk_list_>>
  BY Zenon DEF NewReused
<1>2. /\ x \in Listed /\ x \in Nat /\ free_list_' \in Seq(Nat)
      /\ \A o : o \in Listed' <=> o \in Listed /\ o # x
      /\ \A i, j \in 1 .. Len(free_list_') : i # j => free_list_'[i] # free_list_'[j]
  BY <1>1, PopList, Zenon
<1>3. live \subseteq Nat /\ live \cap Listed = {}
  BY Zenon DEF PoolInv
<1>4. live' \subseteq Nat /\ live' \cap Listed' = {}
  BY <1>1, <1>2, <1>3, Zenon
<1>5. \A o : o \in Objects' <=> o \in Objects
  BY <1>1, <1>2, Zenon DEF Objects
<1> QED
  BY <1>1, <1>2, <1>4, <1>5, SameObjects, Zenon

LEMMA DeleteStep ==
    ASSUME PoolInv, Delete PROVE PoolInv'
<1>1. PICK x \in live : /\ free_list_' = <<x>> \o free_list_ /\ live' = live \ {x}
                        /\ UNCHANGED <<data_, remain_bytes_, chunk_list_>>
  BY Zenon DEF Delete
<1>2. x \in Nat /\ x \notin Listed /\ live \subseteq Nat /\ live \cap Listed = {}
  BY Zenon DEF PoolInv
<1>3. /\ free_list_' \in Seq(Nat) /\ \A o : o \in Listed' <=> o \in Listed \/ o = x
      /\ \A i, j \in 1 .. Len(free_list_') : i # j => free_list_'[i] # free_list_'[j]
  BY <1>1, <1>2, PushList, Zenon
<1>4. live' \subseteq Nat /\ live' \cap Listed' = {}
  BY <1>1, <1>2, <1>3, Zenon
<1>5. \A o : o \in Objects' <=> o \in Objects
  BY <1>1, <1>3, Zenon DEF Objects
<1> QED
  BY <1>1, <1>3, <1>4, <1>5, SameObjects, Zenon

\* An object at x that no other one overlaps is handed out, the region to be
\* carved begins behind it.
LEMMA CarveStep ==
    ASSUME PoolInv, NEW x \in Nat, live' = live \cup {x}, UNCHANGED free_list_, Multiple(x),
           \A o \in Objects : o + ObjSize <= x \/ x + ObjSize <= o,
           data_' = x + ObjSize, remain_bytes_' \in Nat, chunk_list_' \subseteq Nat,
           chunk_list_ \subseteq chunk_list_',
           NEW c \in chunk_list_', c * ChunkBytes + HeaderSize <= x,
           x + ObjSize + remain_bytes_' <= (c + 1) * ChunkBytes,
           \A o \in Objects : o + ObjSize <= x \/ x + ObjSize + remain_bytes_' <= o
    PROVE  PoolInv'
<1>1. /\ live \subseteq Nat /\ free_list_ \in Seq(Nat) /\ live \cap Listed = {} /\ Listed' = Listed
      /\ \A i, j \in 1 .. Len(free_list_) : i # j => free_list_[i] # free_list_[j]
      /\ free_list_' = free_list_
  BY Zenon DEF PoolInv, Listed
<1>2. \A o \in Objects : o \in Nat
  BY ObjectsNat, Zenon
<1>3. x \notin Objects
  <2> SUFFICES ASSUME x \in Objects PROVE FALSE
    BY Zenon
  <2>1. x + ObjSize <= x
    BY Zenon
  <2> QED
    BY <2>1
<1>4. \A o : o \in Objects' <=> o \in Objects \/ o = x
  BY <1>1, Zenon DEF Objects
<1>5. live' \subseteq Nat /\ live' \cap Listed' = {}
  BY <1>1, <1>3, Zenon DEF Objects
<1>6. c \in Nat /\ c * ChunkBytes \in Nat /\ (c + 1) * ChunkBytes \in Nat
  <2>1. c \in Nat
    BY Zenon
  <2>2. c + 1 \in Nat /\ c < c + 1
    BY <2>1
  <2> QED
    BY <2>1, <2>2, ChunksApart, Zenon
<1>7. InChunk(x, ObjSize)' /\ InChunk(data_, remain_bytes_)'
  <2>1. x + ObjSize <= (c + 1) * ChunkBytes /\ c * ChunkBytes + HeaderSize <= x + ObjSize
    BY <1>6
  <2>2. (x + ObjSize) + remain_bytes_' <= (c + 1) * ChunkBytes
    BY <1>6
  <2> QED
    BY <2>1, <2>2, Zenon DEF InChunk
<1>8. \A o \in Objects' : InChunk(o, ObjSize)' /\ Multiple(o)
  <2>1. \A o \in Objects : InChunk(o, ObjSize)' /\ Multiple(o)
    BY Zenon DEF PoolInv, InChunk
  <2> QED
    BY <1>4, <1>7, <2>1, Zenon
<1>9. \A o, p \in Objects' : o < p => o + ObjSize <= p
  <2> SUFFICES ASSUME NEW o \in Objects', NEW p \in Objects', o < p PROVE o + ObjSize <= p
    BY Zenon
  <2>1. CASE o \in Objects /\ p \in Objects
    BY <2>1, Zenon DEF PoolInv
  <2>2. CASE o = x /\ p \in Objects
    <3>1. p \in Nat /\ (p + ObjSize <= x \/ x + ObjSize <= p)
      BY <1>2, <2>2, Zenon
    <3> QED
      BY <2>2, <3>1
  <2>3. CASE p = x /\ o \in Objects
    <3>1. o \in Nat /\ (o + ObjSize <= x \/ x + ObjSize <= o)
      BY <1>2, <2>3, Zenon
    <3> QED
      BY <2>3, <3>1
  <2>4. CASE o = x /\ p = x
    BY <2>4
  <2> QED
    BY <1>4, <2>1, <2>2, <2>3, <2>4, Zenon
<1>10. \A o \in Objects' : o + ObjSize <= data_' \/ data_' + remain_bytes_' <= o
  <2> SUFFICES ASSUME NEW o \in Objects' PROVE o + ObjSize <= data_' \/ data_' + remain_bytes_' <= o
    BY Zenon
  <2>1. CASE o = x
    BY <2>1
  <2>2. CASE o \in Objects
    <3>1. o \in Nat /\ (o + ObjSize <= x \/ x + ObjSize + remain_bytes_' <= o)
      BY <1>2, <2>2, Zenon
    <3> QED
      BY <3>1
  <2> QED
    BY <1>4, <2>1, <2>2, Zenon
<1>11. Multiple(data_') /\ data_' \in Nat
  BY NextSlot
<1> QED
  BY <1>1, <1>5, <1>7, <1>8, <1>9, <1>10, <1>11, Zenon DEF PoolInv, Multiple

LEMMA BumpStep ==
    ASSUME PoolInv, NewBumped PROVE PoolInv'
<1>1. /\ remain_bytes_ >= ObjSize /\ live' = live \cup {data_} /\ data_' = data_ + ObjSize
      /\ remain_bytes_' = remain_bytes_ - ObjSize /\ UNCHANGED <<free_list_, chunk_list_>>
  BY Zenon DEF NewBumped
<1>2. data_ \in Nat /\ remain_bytes_ \in Nat /\ chunk_list_ \subseteq Nat
  BY Zenon DEF PoolInv
<1>3. remain_bytes_ > 0 /\ remain_bytes_' \in Nat
  BY <1>1, <1>2
<1>4. /\ InChunk(data_, remain_bytes_) /\ Multiple(data_)
      /\ \A o \in Objects : o + ObjSize <= data_ \/ data_ + remain_bytes_ <= o
  BY <1>3, Zenon DEF PoolInv
<1>5. PICK c \in chunk_list_ : /\ c * ChunkBytes + HeaderSize <= data_
                               /\ data_ + remain_bytes_ <= (c + 1) * ChunkBytes
  BY <1>4, Zenon DEF InChunk
<1>6. data_ + ObjSize + remain_bytes_' = data_ + remain_bytes_
  BY <1>1, <1>2
<1>7. \A o \in Objects : o \in Nat
  BY ObjectsNat, Zenon
<1>8. \A o \in Objects : o + ObjSize <= data_ \/ data_ + ObjSize <= o
  BY <1>1, <1>2, <1>4, <1>7
<1> QED
  BY <1>1, <1>2, <1>3, <1>4, <1>5, <1>6, <1>8, CarveStep, Zenon

LEMMA ChunkStep ==
    ASSUME PoolInv, NEW c \in Chunks \ chunk_list_, NewChunk(c) PROVE PoolInv'
<1> PICK base : base = c * ChunkBytes
  OBVIOUS
<1> PICK x : x = AlignedUp(base + HeaderSize)
  OBVIOUS
<1>1. /\ live' = live \cup {x} /\ data_' = x + ObjSize /\ remain_bytes_' = Usable(c, x) - ObjSize
      /\ chunk_list_' = chunk_list_ \cup {c} /\ free_list_' = free_list_
  BY Zenon DEF NewChunk
<1>2. c \in Nat /\ ChunkBytes \in Nat /\ base \in Nat /\ (c + 1) * ChunkBytes = base + ChunkBytes
  <2>1. c \in Nat /\ ChunkBytes \in Nat
    BY ChunkFits, Zenon
  <2> QED
    BY <2>1
<1>3. /\ x \in Nat /\ base + HeaderSize <= x /\ x <= base + HeaderSize + ObjAlign - 1 /\ Multiple(x)
  <2>1. base + HeaderSize \in Nat
    BY <1>2
  <2> QED
    BY <2>1, Slot
<1>4. /\ remain_bytes_' \in Nat /\ x + ObjSize + remain_bytes_' = (c + 1) * ChunkBytes
  BY <1>1, <1>2, <1>3, ChunkFits DEF Usable
<1>5. chunk_list_' \subseteq Nat /\ chunk_list_ \subseteq chunk_list_' /\ c \in chunk_list_'
  BY <1>1, <1>2, Zenon DEF PoolInv
<1>6. ASSUME NEW o \in Objects
      PROVE  o + ObjSize <= x \/ x + ObjSize + remain_bytes_' <= o
  <2>1. PICK d \in chunk_list_ : d * ChunkBytes + HeaderSize <= o /\ o + ObjSize <= (d + 1) * ChunkBytes
    BY Zenon DEF PoolInv, InChunk
  <2>2. d \in Nat /\ d # c
    BY Zenon DEF PoolInv
  <2>3. o \in Nat
    BY ObjectsNat, Zenon
  <2>4. CASE d < c
    <3>1. (d + 1) * ChunkBytes \in Nat /\ (d + 1) * ChunkBytes <= c * ChunkBytes
      BY <1>2, <2>2, <2>4, ChunksApart, Zenon
    <3> QED
      BY <1>2, <1>3, <2>1, <2>3, <3>1
  <2>5. CASE c < d
    <3>1. d * ChunkBytes \in Nat /\ (c + 1) * ChunkBytes <= d * ChunkBytes
      BY <1>2, <2>2, <2>5, ChunksApart, Zenon
    <3> QED
      BY <1>2, <1>4, <2>1, <2>3, <3>1
  <2> QED
    BY <1>2, <2>2, <2>4, <2>5
<1>7. ASSUME NEW o \in Objects
      PROVE  o + ObjSize <= x \/ x + ObjSize <= o
  <2>1. o \in Nat
    BY ObjectsNat, Zenon
  <2> QED
    BY <1>3, <1>4, <1>6, <2>1
<1>8. x + ObjSize + remain_bytes_' <= (c + 1) * ChunkBytes /\ c * ChunkBytes + HeaderSize <= x
  BY <1>2, <1>3, <1>4
<1> QED
  BY <1>1, <1>3, <1>4, <1>5, <1>6, <1>7, <1>8, CarveStep, ZenonT(60)
LEMMA PoolStep ==
    ASSUME PoolInv, [PoolNext]_poolVars PROVE PoolInv'
<1>1. ASSUME ReleaseMemory PROVE PoolInv'
  <2>1. /\ chunk_list_' = {} /\ free_list_' = <<>> /\ live' = {} /\ data_' = 0 /\ remain_bytes_' = 0
    BY <1>1, Zenon DEF ReleaseMemory
  <2>2. Len(free_list_') = 0 /\ 1 .. 0 = {} /\ free_list_' \in Seq(Nat) /\ 0 \in Nat /\ ~(0 > 0)
    BY <2>1
  <2>3. Listed' = {} /\ Objects' = {}
    BY <2>1, <2>2, Zenon DEF Listed, Objects
  <2> QED
    BY <2>1, <2>2, <2>3, Zenon DEF PoolInv
<1>2. ASSUME UNCHANGED poolVars PROVE PoolInv'
  <2>1. /\ UNCHANGED <<data_, remain_bytes_, chunk_list_>> /\ live' = live /\ free_list_' = free_list_
        /\ Listed' = Listed
    BY <1>2, Zenon DEF poolVars, Listed
  <2>2. /\ live \subseteq Nat /\ free_list_ \in Seq(Nat) /\ live \cap Listed = {}
        /\ \A i, j \in 1 .. Len(free_list_) : i # j => free_list_[i] # free_list_[j]
    BY Zenon DEF PoolInv
  <2> QED
    BY <2>1, <2>2, SameObjects, Zenon DEF Objects
<1> QED
  BY <1>1, <1>2, ReuseStep, DeleteStep, BumpStep, ChunkStep, Zenon DEF PoolNext, TryNew, NewFails

LEMMA PoolInvariance == PoolSpec => []PoolInv
<1>1. PoolInit => PoolInv
  <2> SUFFICES ASSUME PoolInit PROVE PoolInv
    BY Zenon
  <2>1. /\ chunk_list_ = {} /\ free_list_ = <<>> /\ live = {} /\ data_ = 0 /\ remain_bytes_ = 0
    BY Zenon DEF PoolInit
  <2>2. Len(free_list_) = 0 /\ 1 .. 0 = {} /\ free_list_ \in Seq(Nat) /\ 0 \in Nat /\ ~(0 > 0)
    BY <2>1
  <2>3. Listed = {} /\ Objects = {}
    BY <2>1, <2>2, Zenon DEF Listed, Objects
  <2> QED
    BY <2>1, <2>2, <2>3, Zenon DEF PoolInv
<1>2. PoolInv /\ [PoolNext]_poolVars => PoolInv'
  BY PoolStep, Zenon
<1> QED
  BY <1>1, <1>2, PTL DEF PoolSpec

\* Objects in use, freed objects and the bytes that TryNew has still to carve
\* never overlap, are aligned, and lie behind the headers of chunks the pool
\* owns: for any sizes, any alignment that divides both, and any chunks.
THEOREM PoolKeepsApart == PoolSpec => []PoolDisjoint
<1>1. PoolInv => PoolDisjoint
  <2> SUFFICES ASSUME PoolInv PROVE PoolDisjoint
    BY Zenon
  <2>1. Cardinality(Listed) = Len(free_list_)
    BY ListCount, Zenon
  <2>2. \A o \in Objects : InChunk(o, ObjSize) /\ o % ObjAlign = 0
    BY ObjectsNat, MultipleIsAligned, Zenon DEF PoolInv
  <2> QED
    BY <2>1, <2>2, Zenon DEF PoolDisjoint, PoolInv, Objects
<1> QED
  BY <1>1, PoolInvariance, PTL
=============================================================================
