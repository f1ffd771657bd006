------------------------------- MODULE PageMap -------------------------------
(***************************************************************************)
(* The radix tree from page numbers to Span descriptors                     *)
(* (src/src/page_cache.cpp, src/include/ammalloc/page_cache.h).             *)
(*                                                                          *)
(* Shards are the writers.  Each holds its own shard mutex for a whole      *)
(* operation and works on pages no other shard has, but all of them grow    *)
(* the same tree.  A shard step is one publication (a node link or a leaf)  *)
(* or one decision; the loads of a shard's own finished path are merged     *)
(* with the store they lead to.  HasPath is one step: links only appear,    *)
(* top down, so its answer is the one of its last load.  A lookup is one    *)
(* step per load.                                                           *)
(*                                                                          *)
(* TryNewRadixNode gives some node that is not in use, or fails; what the   *)
(* shards do around the PageMap calls (AllocSpanLocked, ReleaseSpanLocked)  *)
(* is reduced to the fields of the descriptors and the calls themselves.    *)
(***************************************************************************)
EXTENDS Integers

CONSTANTS
    Shards, Readers,
    RootSize,       \* RADIX_ROOT_SIZE
    NodeSize,       \* RADIX_NODE_SIZE
    Nodes,          \* storage of radix_node_pool_
    Root,           \* &root_storage_
    Spans,          \* descriptors
    Null,
    PageIds,        \* page numbers
    LookupIds,      \* those that lookups are made for
    Requests        \* <<first page, page count>> of the mappings SystemAlloc may return

Cells == 0 .. (IF RootSize > NodeSize THEN RootSize ELSE NodeSize) - 1

ASSUME TreeAssumption ==
    /\ RootSize \in Nat \ {0} /\ NodeSize \in Nat \ {0}
    /\ PageIds \subseteq Nat /\ LookupIds \subseteq PageIds
    /\ Requests \subseteq Nat \X (Nat \ {0})
    /\ \A q \in Requests : q[1] .. q[1] + q[2] - 1 \subseteq PageIds
    /\ Root \notin Nodes /\ Null \notin Nodes \cup Spans \cup {Root} \cup Shards
    /\ Nodes \cap Spans = {} /\ Root \notin Spans

VARIABLES
    root_,              \* Root or Null
    children,           \* node -> cell -> node, Span or Null
    in_use,             \* nodes taken from radix_node_pool_
    structure_mutex_,   \* the shard inside, or Null
    range,              \* Span -> its <<start_page_idx, page_num>> and shard
    op,                 \* shard -> what it is doing
    rd                  \* reader -> its lookup

vars == <<root_, children, in_use, structure_mutex_, range, op, rd>>
tree == <<root_, children, in_use>>

-----------------------------------------------------------------------------
(* Indexes and paths *)

\* The pages of one leaf node share Block, those of one second-level node
\* Area; dividing is shifting by RADIX_NODE_BITS.
Block(p) == p \div NodeSize
Area(p) == Block(p) \div NodeSize
I0(p) == Area(p) \div NodeSize
I1(p) == Area(p) % NodeSize
I2(p) == Block(p) % NodeSize
I3(p) == p % NodeSize
InRoot(p) == I0(p) < RootSize

NoCells == [i \in Cells |-> Null]
Child(n, i) == IF n = Null THEN Null ELSE children[n][i]
P1(p) == IF InRoot(p) THEN Child(root_, I0(p)) ELSE Null
P2(p) == Child(P1(p), I1(p))
P3(p) == Child(P2(p), I2(p))
HasPath(p) == P3(p) # Null

\* What GetSpan returns when nothing moves.
Lookup(p) == Child(P3(p), I3(p))

PagesOf(q) == q[1] .. q[1] + q[2] - 1
Unused == [pages |-> <<0, 0>>, shard |-> Null]
InUse(s) == range[s].shard # Null
Held(w) == {s \in Spans : range[s].shard = w}

Idle == [pc |-> "idle"]
Ensuring(s, q) == [pc |-> "ensure", span |-> s, cur |-> q[1], remaining |-> q[2]]
\* Leaf stores still to make: of `span' from cur on, then those of `then';
\* the descriptors of `retired' are deleted after that.
Setting(s, q, next, retired) ==
    [pc |-> "set", span |-> s, cur |-> q[1], remaining |-> q[2], then |-> next,
     retired |-> retired]
Clearing(s, q) == [pc |-> "clear", span |-> s, cur |-> q[1], remaining |-> q[2]]

At(w, pc) == op[w].pc = pc
Goto(w, o) == op' = [op EXCEPT ![w] = o]
SetRange(s, w, q) == range' = [range EXCEPT ![s] = [pages |-> q, shard |-> w]]

Init ==
    /\ root_ = Null
    /\ children = [n \in Nodes \cup {Root} |-> NoCells]
    /\ in_use = {} /\ structure_mutex_ = Null
    /\ range = [s \in Spans |-> Unused]
    /\ op = [w \in Shards |-> Idle]
    /\ rd = [r \in Readers |-> Idle]

-----------------------------------------------------------------------------
(* A new mapping: EnsureRange, then SetSpan *)

\* AllocSpanLocked has a mapping and a descriptor.  (EnsureRange's first test
\* refuses a range that wraps around size_t, which no mapping does.)
AllocSpan(w) ==
    /\ At(w, "idle")
    /\ \E s \in Spans, q \in Requests :
         /\ ~InUse(s)
         /\ \A t \in Spans : InUse(t) => PagesOf(q) \cap PagesOf(range[t].pages) = {}
         /\ SetRange(s, w, q) /\ Goto(w, Ensuring(s, q))
    /\ UNCHANGED <<tree, structure_mutex_, rd>>

StepOfNode(o) == IF o.remaining < NodeSize THEN o.remaining ELSE NodeSize

\* The pages one iteration covers: what is left, at most to the end of the node.
StepOf(o) == LET rest == NodeSize - I3(o.cur)
             IN  IF o.remaining < rest THEN o.remaining ELSE rest
Advanced(o) == [o EXCEPT !.cur = @ + StepOf(o), !.remaining = @ - StepOf(o), !.pc = "ensure"]

\* The mapping and the descriptor go back; no leaf has been written.
EnsureFails(w) ==
    /\ SetRange(op[w].span, Null, <<0, 0>>)
    /\ Goto(w, Idle)

EnsureRange(w) ==
    LET o == op[w]
    IN  /\ At(w, "ensure")
        /\ \/ /\ o.remaining = 0
              /\ Goto(w, Setting(o.span, range[o.span].pages, {}, {})) /\ UNCHANGED range
           \/ o.remaining > 0 /\ ~InRoot(o.cur) /\ EnsureFails(w)
           \/ /\ o.remaining > 0 /\ InRoot(o.cur)
              /\ Goto(w, IF HasPath(o.cur) THEN Advanced(o) ELSE [o EXCEPT !.pc = "lock"])
              /\ UNCHANGED range
        /\ UNCHANGED <<tree, structure_mutex_, rd>>

EnsureRootUncleared(w) ==
    /\ At(w, "lock") /\ structure_mutex_ = Null
    /\ structure_mutex_' = w /\ root_' = Root
    /\ Goto(w, [op[w] EXCEPT !.pc = "path1"])
    /\ UNCHANGED <<children, in_use, range, rd>>

\* EnsurePathLocked up to the root: a first or a reset root is cleared again.
EnsureRoot(w) ==
    /\ At(w, "lock") /\ structure_mutex_ = Null
    /\ structure_mutex_' = w
    /\ IF root_ = Null
       THEN root_' = Root /\ children' = [children EXCEPT ![Root] = NoCells]
       ELSE UNCHANGED <<root_, children>>
    /\ Goto(w, [op[w] EXCEPT !.pc = "path1"])
    /\ UNCHANGED <<in_use, range, rd>>

\* The slot radix_node_pool_ hands out next; which one it is does not matter.
NewNode == CHOOSE n \in Nodes : n \notin in_use

\* One level of EnsurePathLocked: the link is there, or a zeroed node is hung
\* in, or there is no memory.  `next' is the level below.
Link(w, parent, i, next) ==
    \/ children[parent][i] # Null /\ next /\ UNCHANGED <<children, in_use, range>>
    \/ /\ children[parent][i] = Null
       /\ in_use # Nodes
       /\ children' = [children EXCEPT ![parent] = [@ EXCEPT ![i] = NewNode],
                                        ![NewNode] = NoCells]
       /\ in_use' = in_use \cup {NewNode}
       /\ next /\ UNCHANGED range
    \/ /\ children[parent][i] = Null
       /\ EnsureFails(w) /\ structure_mutex_' = Null
       /\ UNCHANGED <<children, in_use>>

EnsurePathLocked(w) ==
    LET p == op[w].cur
        Below(pc) == Goto(w, [op[w] EXCEPT !.pc = pc]) /\ UNCHANGED structure_mutex_
        Done == Goto(w, Advanced(op[w])) /\ structure_mutex_' = Null
    IN  /\ \/ At(w, "path1") /\ Link(w, root_, I0(p), Below("path2"))
           \/ At(w, "path2") /\ Link(w, P1(p), I1(p), Below("path3"))
           \/ At(w, "path3") /\ Link(w, P2(p), I2(p), Done)
        /\ UNCHANGED <<root_, rd>>

\* One leaf store of SetSpan, and the end of its loop.  Without a path the
\* process ends: FatalNoAlloc.
SetSpan(w) ==
    LET o == op[w]
    IN  /\ At(w, "set")
        /\ \/ /\ o.remaining > 0
              /\ children' = IF HasPath(o.cur)
                             THEN [children EXCEPT ![P3(o.cur)][I3(o.cur)] = o.span]
                             ELSE children
              /\ Goto(w, IF HasPath(o.cur) THEN [o EXCEPT !.cur = @ + 1, !.remaining = @ - 1]
                         ELSE [pc |-> "fatal"])
              /\ UNCHANGED range
           \/ /\ o.remaining = 0
              /\ \E s \in o.then :
                   Goto(w, Setting(s, range[s].pages, o.then \ {s}, o.retired))
              /\ UNCHANGED <<children, range>>
           \/ /\ o.remaining = 0 /\ o.then = {}
              /\ range' = [s \in Spans |-> IF s \in o.retired THEN Unused ELSE range[s]]
              /\ Goto(w, Idle) /\ UNCHANGED children
        /\ UNCHANGED <<root_, in_use, structure_mutex_, rd>>

-----------------------------------------------------------------------------
(* Remapping inside a mapping, and its end *)

\* Split: `t' takes the first k pages of `s', then both are published.
Split(w) ==
    /\ At(w, "idle")
    /\ \E s \in Held(w), t \in Spans :
         LET q == range[s].pages
         IN  \E k \in 1 .. q[2] - 1 :
               /\ ~InUse(t)
               /\ range' = [range EXCEPT ![t] = [pages |-> <<q[1], k>>, shard |-> w],
                                         ![s].pages = <<q[1] + k, q[2] - k>>]
               /\ Goto(w, Setting(t, <<q[1], k>>, {s}, {}))
    /\ UNCHANGED <<tree, structure_mutex_, rd>>

\* ReleaseSpanLocked: `s' absorbs its neighbour `t', the union is published,
\* and only then is t's descriptor deleted.
Union(q, n) == <<IF q[1] < n[1] THEN q[1] ELSE n[1], q[2] + n[2]>>
Adjacent(q, n) == q[1] + q[2] = n[1] \/ n[1] + n[2] = q[1]

CoalesceDeletesFirst(w) ==
    /\ At(w, "idle")
    /\ \E s, t \in Held(w) :
         LET u == Union(range[s].pages, range[t].pages)
         IN  /\ Adjacent(range[s].pages, range[t].pages)
             /\ range' = [range EXCEPT ![t] = Unused, ![s].pages = u]
             /\ Goto(w, Setting(s, u, {}, {}))
    /\ UNCHANGED <<tree, structure_mutex_, rd>>

Coalesce(w) ==
    /\ At(w, "idle")
    /\ \E s, t \in Held(w) :
         LET u == Union(range[s].pages, range[t].pages)
         IN  /\ Adjacent(range[s].pages, range[t].pages)
             /\ range' = [range EXCEPT ![t].pages = <<0, 0>>, ![s].pages = u]
             /\ Goto(w, Setting(s, u, {}, {t}))
    /\ UNCHANGED <<tree, structure_mutex_, rd>>

\* Release of an oversized span: ClearRange, then pages and descriptor go back.
ReleaseSpan(w) ==
    /\ At(w, "idle")
    /\ \E s \in Held(w) : Goto(w, Clearing(s, range[s].pages))
    /\ UNCHANGED <<tree, structure_mutex_, range, rd>>

ClearRangeShort(w) ==
    LET o == op[w]
    IN  /\ At(w, "clear")
        /\ \/ /\ o.remaining > 1
              /\ children' = [children EXCEPT ![P3(o.cur)][I3(o.cur)] = Null]
              /\ Goto(w, [o EXCEPT !.cur = @ + 1, !.remaining = @ - 1])
              /\ UNCHANGED range
           \/ /\ o.remaining <= 1
              /\ SetRange(o.span, Null, <<0, 0>>) /\ Goto(w, Idle)
              /\ UNCHANGED children
        /\ UNCHANGED <<root_, in_use, structure_mutex_, rd>>

ClearRangeReclaims(w) ==
    LET o == op[w]
        leaf == P3(o.cur)
        cells == [children[leaf] EXCEPT ![I3(o.cur)] = Null]
    IN  /\ At(w, "clear")
        /\ \/ /\ o.remaining > 0
              /\ IF cells = NoCells
                 THEN /\ children' = [children EXCEPT ![P2(o.cur)][I2(o.cur)] = Null]
                      /\ in_use' = in_use \ {leaf}
                 ELSE children' = [children EXCEPT ![leaf] = cells] /\ UNCHANGED in_use
              /\ Goto(w, [o EXCEPT !.cur = @ + 1, !.remaining = @ - 1])
              /\ UNCHANGED range
           \/ /\ o.remaining = 0
              /\ SetRange(o.span, Null, <<0, 0>>) /\ Goto(w, Idle)
              /\ UNCHANGED <<children, in_use>>
        /\ UNCHANGED <<root_, structure_mutex_, rd>>

\* One page of ClearRange; pages below a missing link are skipped.
ClearRange(w) ==
    LET o == op[w]
    IN  /\ At(w, "clear")
        /\ \/ /\ o.remaining > 0
              /\ children' = IF HasPath(o.cur)
                             THEN [children EXCEPT ![P3(o.cur)][I3(o.cur)] = Null]
                             ELSE children
              /\ Goto(w, [o EXCEPT !.cur = @ + 1, !.remaining = @ - 1])
              /\ UNCHANGED range
           \/ /\ o.remaining = 0
              /\ SetRange(o.span, Null, <<0, 0>>) /\ Goto(w, Idle)
              /\ UNCHANGED children
        /\ UNCHANGED <<root_, in_use, structure_mutex_, rd>>

\* Reset, which its callers may use only when nothing else runs: the nodes'
\* pages are unmapped, root_storage_ keeps its links.
Reset ==
    /\ \A w \in Shards : At(w, "idle")
    /\ \A r \in Readers : rd[r].pc \in {"idle", "done"}
    /\ root_' = Null /\ in_use' = {}
    /\ children' = [n \in Nodes \cup {Root} |-> IF n = Root THEN children[n] ELSE NoCells]
    /\ range' = [s \in Spans |-> Unused]
    /\ UNCHANGED <<structure_mutex_, op, rd>>

-----------------------------------------------------------------------------
(* GetSpan, one step per load *)

Look(r, l) == rd' = [rd EXCEPT ![r] = l] /\ UNCHANGED <<tree, structure_mutex_, range, op>>
Done(p, v) == [pc |-> "done", page |-> p, value |-> v]

GetSpan(r) ==
    /\ rd[r].pc \in {"idle", "done"}
    /\ \E p \in LookupIds : Look(r, [pc |-> "root", page |-> p])

\* A null pointer ends the lookup; otherwise it goes on below.
Follow(r, n, pc) ==
    LET p == rd[r].page
    IN  Look(r, IF n = Null THEN Done(p, Null) ELSE [pc |-> pc, page |-> p, node |-> n])

GetSpanLoad(r) ==
    LET p == rd[r].page
        n == rd[r].node
    IN  \/ rd[r].pc = "root" /\ Follow(r, IF InRoot(p) THEN root_ ELSE Null, "level0")
        \/ rd[r].pc = "level0" /\ Follow(r, children[n][I0(p)], "level1")
        \/ rd[r].pc = "level1" /\ Follow(r, children[n][I1(p)], "level2")
        \/ rd[r].pc = "level2" /\ Follow(r, children[n][I2(p)], "leaf")
        \/ rd[r].pc = "leaf" /\ Look(r, Done(p, children[n][I3(p)]))

Next ==
    \/ \E w \in Shards :
         \/ AllocSpan(w) \/ EnsureRange(w) \/ EnsureRoot(w) \/ EnsurePathLocked(w)
         \/ SetSpan(w) \/ Split(w) \/ Coalesce(w) \/ ReleaseSpan(w) \/ ClearRange(w)
    \/ \E r \in Readers : GetSpan(r) \/ GetSpanLoad(r)
    \/ Reset

Spec == Init /\ [][Next]_vars

-----------------------------------------------------------------------------
(* Properties *)

\* SetSpan never finds a page without a path (its FatalNoAlloc is never
\* reached): what EnsureRange prepared, block by block and partly by finding
\* links of another shard, stays prepared.
PathPrepared == \A w \in Shards : ~At(w, "fatal")

\* The nodes taken from the pool and the links of the tree match one to one:
\* no node is linked twice, and none is lost when EnsureRange fails half-way
\* or two shards grow the same path.
Links == {l \in (in_use \cup ({root_} \ {Null})) \X Cells : children[l[1]][l[2]] \in Nodes}
NodesConserved ==
    /\ {children[l[1]][l[2]] : l \in Links} = in_use
    /\ \A l, m \in Links : children[l[1]][l[2]] = children[m[1]][m[2]] => l = m

\* A finished mapping is found on each of its pages, and a page without one
\* maps to nothing, whatever other shards do to the nodes they share; a failed
\* EnsureRange publishes no leaf.  (am_free depends on it for every pointer.)
Settled(s) == InUse(s) /\ At(range[s].shard, "idle")
PublishedExact ==
    /\ \A s \in Spans : Settled(s) => \A p \in PagesOf(range[s].pages) : Lookup(p) = s
    /\ \A p \in PageIds :
         (\A s \in Spans : InUse(s) => p \notin PagesOf(range[s].pages)) => Lookup(p) = Null

\* The tree never names a descriptor that has gone back to span_pool_: leaves
\* are rewritten or cleared before the descriptor they name is deleted.
LeavesNameLive == \A p \in PageIds : Lookup(p) # Null => InUse(Lookup(p))

\* The tree implements one word per page: lookups in several loads, without a
\* lock, while other threads grow and rewrite the tree, return what the page
\* mapped to at one instant of the call.
CallOf(l) ==
    CASE l.pc = "idle" -> [pc |-> "idle"]
      [] l.pc = "done" -> [pc |-> "returned", page |-> l.page, value |-> l.value]
      [] OTHER -> [pc |-> "called", page |-> l.page]
Flat == INSTANCE FlatMap WITH Values <- Spans,
                              map <- [p \in PageIds |-> Lookup(p)],
                              call <- [r \in Readers |-> CallOf(rd[r])]
ImplementsFlatMap == Flat!Spec
=============================================================================
