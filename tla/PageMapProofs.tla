--------------------------- MODULE PageMapProofs ----------------------------
(***************************************************************************)
(* Proofs about PageMap, for every node size and every number of shards,    *)
(* readers, pages, nodes and descriptors.  The first half is about the      *)
(* radix tree: what a well-formed tree is, that paths lead to nodes of      *)
(* their level, that two pages share a leaf cell only if they are the same  *)
(* page, and what growing the tree and writing a leaf do to the paths and   *)
(* lookups of all pages.  Then every step of a shard keeps the invariant of *)
(* the shards: what EnsureRange has prepared stays prepared, and the pages  *)
(* of every other descriptor keep their paths.  So SetSpan always finds the *)
(* path EnsureRange has made, lock-free lookups read one instant of the     *)
(* map, leaves name live spans, and the nodes taken from the pool are the   *)
(* ones the tree links, each once.                                          *)
(***************************************************************************)
EXTENDS PageMap, TLAPS

USE TreeAssumption

-----------------------------------------------------------------------------
(* Indexes *)

LEMMA DivMod ==
    ASSUME NEW x \in Nat
    PROVE  /\ x \div NodeSize \in Nat
           /\ x % NodeSize \in 0 .. NodeSize - 1
           /\ x = NodeSize * (x \div NodeSize) + (x % NodeSize)
  BY Z3

LEMMA SameDivMod ==
    ASSUME NEW x \in Nat, NEW y \in Nat,
           x \div NodeSize = y \div NodeSize, x % NodeSize = y % NodeSize
    PROVE  x = y
<1>1. x = NodeSize * (x \div NodeSize) + (x % NodeSize)
  BY DivMod, Zenon
<1>2. y = NodeSize * (y \div NodeSize) + (y % NodeSize)
  BY DivMod, Zenon
<1> QED BY <1>1, <1>2, Zenon

LEMMA Indexes ==
    ASSUME NEW p \in Nat
    PROVE  /\ Block(p) \in Nat /\ Area(p) \in Nat /\ I0(p) \in Nat
           /\ I1(p) \in Cells /\ I2(p) \in Cells /\ I3(p) \in Cells
           /\ InRoot(p) => I0(p) \in Cells
<1>1. Block(p) \in Nat /\ I3(p) \in 0 .. NodeSize - 1
  BY DivMod, Zenon DEF Block, I3
<1>2. Area(p) \in Nat /\ I2(p) \in 0 .. NodeSize - 1
  BY DivMod, <1>1, Zenon DEF Area, I2
<1>3. I0(p) \in Nat /\ I1(p) \in 0 .. NodeSize - 1
  BY DivMod, <1>2, Zenon DEF I0, I1
<1> QED BY <1>1, <1>2, <1>3 DEF Cells, InRoot

\* The four indexes determine the page.
LEMMA IndexesInjective ==
    ASSUME NEW p \in Nat, NEW q \in Nat,
           I0(p) = I0(q), I1(p) = I1(q), I2(p) = I2(q)
    PROVE  Block(p) = Block(q) /\ (I3(p) = I3(q) => p = q)
<1>1. /\ Block(p) \in Nat /\ Area(p) \in Nat
      /\ Block(q) \in Nat /\ Area(q) \in Nat
  BY Indexes, Zenon
<1>2. Area(p) = Area(q)
  BY <1>1, SameDivMod, Zenon DEF I0, I1
<1>3. Block(p) = Block(q)
  BY <1>1, <1>2, SameDivMod, Zenon DEF Area, I2
<1> QED BY <1>3, SameDivMod, Zenon DEF Block, I3

\* Up to the end of a leaf node the block stays the same.
LEMMA BlockOfRest ==
    ASSUME NEW p \in Nat, NEW q \in Nat, p <= q, q < p + (NodeSize - I3(p))
    PROVE  Block(q) = Block(p)
<1>1. PICK b \in Nat, i \in 0 .. NodeSize - 1 :
         b = Block(p) /\ i = I3(p) /\ p = NodeSize * b + i
  BY DivMod, Zenon DEF Block, I3
<1>2. PICK c \in Nat, j \in 0 .. NodeSize - 1 :
         c = Block(q) /\ j = I3(q) /\ q = NodeSize * c + j
  BY DivMod, Zenon DEF Block, I3
<1>3. ASSUME NEW x \in Nat, NEW y \in Nat, x + 1 <= y
      PROVE  NodeSize * x + NodeSize <= NodeSize * y
  BY <1>3, Z3
<1>4. CASE b + 1 <= c
  BY <1>1, <1>2, <1>3, <1>4
<1>5. CASE c + 1 <= b
  BY <1>1, <1>2, <1>3, <1>5
<1> QED BY <1>1, <1>2, <1>4, <1>5

-----------------------------------------------------------------------------
(* Well-formed trees *)

TreeType ==
    /\ root_ \in {Root, Null}
    /\ children \in [Nodes \cup {Root} -> [Cells -> Nodes \cup Spans \cup {Null}]]
    /\ in_use \subseteq Nodes

Levels == [Nodes -> 1 .. 3]

\* Nodes whose cells are links.
Inner(lev) == {n \in in_use : lev[n] # 3} \cup ({root_} \ {Null})

\* lev gives every node in use its level: links lead one level down to nodes in
\* use, leaves hold descriptors, and no two links lead to the same node.
Tree(lev) ==
    /\ \A n \in in_use, i \in Cells : children[n][i] # Null =>
         IF lev[n] = 3 THEN children[n][i] \in Spans
         ELSE children[n][i] \in in_use /\ lev[children[n][i]] = lev[n] + 1
    /\ root_ = Root => \A i \in Cells : children[Root][i] # Null =>
         children[Root][i] \in in_use /\ lev[children[Root][i]] = 1
    /\ \A m, n \in Inner(lev), i, j \in Cells :
         children[m][i] # Null /\ children[m][i] = children[n][j] => m = n /\ i = j

TreeInv == TreeType /\ \E lev \in Levels : Tree(lev)

\* A path leads to a node of its level, and the leaf cell to a descriptor.
LEMMA Paths ==
    ASSUME TreeType, NEW lev \in Levels, Tree(lev), NEW p \in Nat
    PROVE  /\ P1(p) # Null => /\ InRoot(p) /\ root_ = Root
                              /\ P1(p) \in in_use /\ lev[P1(p)] = 1
                              /\ P1(p) = children[Root][I0(p)]
           /\ P2(p) # Null => /\ P1(p) # Null /\ P2(p) \in in_use /\ lev[P2(p)] = 2
                              /\ P2(p) = children[P1(p)][I1(p)]
           /\ P3(p) # Null => /\ P2(p) # Null /\ P3(p) \in in_use /\ lev[P3(p)] = 3
                              /\ P3(p) = children[P2(p)][I2(p)]
           /\ Lookup(p) # Null => P3(p) # Null
           /\ P3(p) # Null => Lookup(p) = children[P3(p)][I3(p)]
           /\ Lookup(p) \in Spans \cup {Null}
<1>1. I1(p) \in Cells /\ I2(p) \in Cells /\ I3(p) \in Cells /\ (InRoot(p) => I0(p) \in Cells)
  BY Indexes, Zenon
<1>2. P1(p) # Null => /\ InRoot(p) /\ root_ = Root /\ P1(p) \in in_use /\ lev[P1(p)] = 1
                      /\ P1(p) = children[Root][I0(p)]
  BY <1>1, Zenon DEF P1, Child, Tree, TreeType
<1>3. P2(p) # Null => /\ P1(p) # Null /\ P2(p) \in in_use /\ lev[P2(p)] = 2
                      /\ P2(p) = children[P1(p)][I1(p)]
  BY <1>1, <1>2 DEF P2, Child, Tree
<1>4. P3(p) # Null => /\ P2(p) # Null /\ P3(p) \in in_use /\ lev[P3(p)] = 3
                      /\ P3(p) = children[P2(p)][I2(p)]
  BY <1>1, <1>3 DEF P3, Child, Tree
<1>5. /\ Lookup(p) # Null => P3(p) # Null
      /\ P3(p) # Null => Lookup(p) = children[P3(p)][I3(p)]
  BY Zenon DEF Lookup, Child
<1>6. Lookup(p) \in Spans \cup {Null}
  BY <1>1, <1>4, <1>5 DEF Tree
<1> QED BY <1>2, <1>3, <1>4, <1>5, <1>6, Zenon

\* The pages of a block have the same path; two pages that share a leaf are of
\* one block.
LEMMA SameBlock ==
    ASSUME NEW p \in Nat, NEW q \in Nat, Block(p) = Block(q)
    PROVE  P3(p) = P3(q)
  BY Zenon DEF P3, P2, P1, I0, I1, I2, Area, InRoot

LEMMA SameLeaf ==
    ASSUME TreeType, NEW lev \in Levels, Tree(lev), NEW p \in Nat, NEW q \in Nat,
           P3(p) # Null, P3(p) = P3(q)
    PROVE  I3(p) = I3(q) => p = q
<1>1. /\ I0(p) \in Cells /\ I1(p) \in Cells /\ I2(p) \in Cells
      /\ I0(q) \in Cells /\ I1(q) \in Cells /\ I2(q) \in Cells
  BY Indexes, Paths, Zenon
<1>2. ASSUME NEW m \in Inner(lev), NEW n \in Inner(lev), NEW i \in Cells, NEW j \in Cells,
             children[m][i] # Null, children[m][i] = children[n][j]
      PROVE  m = n /\ i = j
  BY <1>2, Paths DEF Tree
<1>3. P2(p) = P2(q) /\ I2(p) = I2(q)
  <2>1. P2(p) \in Inner(lev) /\ P2(q) \in Inner(lev)
    BY Paths DEF Inner
  <2> QED BY <2>1, <1>1, <1>2, Paths
<1>4. P1(p) = P1(q) /\ I1(p) = I1(q)
  <2>1. P1(p) \in Inner(lev) /\ P1(q) \in Inner(lev)
    BY Paths DEF Inner
  <2> QED BY <2>1, <1>1, <1>2, <1>3, Paths
<1>5. I0(p) = I0(q)
  <2>1. Root \in Inner(lev)
    BY Paths, Zenon DEF Inner
  <2> QED BY <2>1, <1>1, <1>2, <1>4, Paths
<1> QED BY <1>3, <1>4, <1>5, IndexesInjective, Zenon

-----------------------------------------------------------------------------
(* What the writers do to the tree *)

\* EnsurePathLocked gives the tree its root, with cleared cells.
LEMMA RootPublished ==
    ASSUME TreeInv, root_ = Null, root_' = Root, in_use' = in_use,
           children' = [children EXCEPT ![Root] = NoCells]
    PROVE  TreeInv' /\ \A p \in Nat : Lookup(p) = Null /\ Lookup(p)' = Null
<1>1. PICK lev \in Levels : Tree(lev)
  BY Zenon DEF TreeInv
<1>2. TreeType
  BY Zenon DEF TreeInv
<1>3. TreeType'
  BY <1>2, Zenon DEF TreeType, NoCells
<1>4. /\ \A i \in Cells : children'[Root][i] = Null
      /\ \A n \in in_use : children'[n] = children[n]
  BY <1>2, Zenon DEF TreeType, NoCells
<1>5. Inner(lev) \subseteq in_use /\ Inner(lev)' = Inner(lev) \cup {Root}
  BY Zenon DEF Inner
<1>6. Tree(lev)'
  <2>1. /\ \A n \in in_use', i \in Cells : children'[n][i] # Null =>
            IF lev[n] = 3 THEN children'[n][i] \in Spans
            ELSE children'[n][i] \in in_use' /\ lev[children'[n][i]] = lev[n] + 1
        /\ \A i \in Cells : children'[Root][i] # Null =>
             children'[Root][i] \in in_use' /\ lev[children'[Root][i]] = 1
    BY <1>1, <1>4 DEF Tree
  <2>2. ASSUME NEW m \in Inner(lev)', NEW n \in Inner(lev)', NEW i \in Cells, NEW j \in Cells,
               children'[m][i] # Null, children'[m][i] = children'[n][j]
        PROVE  m = n /\ i = j
    BY <2>2, <1>1, <1>4, <1>5 DEF Tree
  <2> QED BY <2>1, <2>2 DEF Tree
<1>7. ASSUME NEW p \in Nat PROVE Lookup(p) = Null /\ Lookup(p)' = Null
  <2>1. P1(p) = Null
    BY Zenon DEF P1, Child
  <2>2. P1(p)' = Null
    BY <1>4, Indexes, Zenon DEF P1, Child
  <2> QED BY <2>1, <2>2, Zenon DEF Lookup, P3, P2, Child
<1> QED BY <1>3, <1>6, <1>7, Zenon DEF TreeInv

\* Finished parts of paths stay.
Kept ==
    /\ root_ = Root => root_' = Root
    /\ \A p \in Nat : /\ P1(p) # Null => P1(p)' = P1(p)
                      /\ P2(p) # Null => P2(p)' = P2(p)
                      /\ P3(p) # Null => P3(p)' = P3(p)

MapSame == \A p \in Nat : Lookup(p)' = Lookup(p)
MapSet(c, v) == \A p \in Nat : Lookup(p)' = IF p = c THEN v ELSE Lookup(p)

\* A zeroed node n in cell i of parent; v in the leaf cell of page c.
Hung(parent, i, n) ==
    /\ \A j \in Cells : children'[n][j] = Null
    /\ \A m \in in_use \cup {Root}, j \in Cells :
         children'[m][j] = IF m = parent /\ j = i THEN n ELSE children[m][j]
Stored(c, v) ==
    \A m \in Nodes \cup {Root}, j \in Cells :
       children'[m][j] = IF m = P3(c) /\ j = I3(c) THEN v ELSE children[m][j]

\* One level of EnsurePathLocked hangs a zeroed node into an empty cell: every
\* finished path stays, and no lookup changes.
LEMMA NodeLinked ==
    ASSUME TreeType, TreeType', NEW lev \in Levels, Tree(lev), root_ = Root, root_' = Root,
           NEW parent \in Inner(lev), NEW i \in Cells, children[parent][i] = Null,
           NEW n \in Nodes \ in_use, in_use' = in_use \cup {n}, Hung(parent, i, n)
    PROVE  TreeInv' /\ Kept /\ MapSame
<1> DEFINE lev2 == [lev EXCEPT ![n] = IF parent = Root THEN 1 ELSE lev[parent] + 1]
<1>1. /\ parent \in Nodes \cup {Root} /\ parent # n /\ n # Root
      /\ parent # Root => parent \in in_use /\ lev[parent] \in 1 .. 2
  BY DEF TreeType, Inner, Levels
<1>2. lev2 \in Levels /\ (\A m \in in_use : lev2[m] = lev[m])
      /\ lev2[n] = IF parent = Root THEN 1 ELSE lev[parent] + 1
  BY <1>1 DEF Levels, TreeType
<1> HIDE DEF lev2
<1>4. /\ \A j \in Cells : children'[n][j] = Null
      /\ \A m \in in_use \cup {Root}, j \in Cells :
           children'[m][j] = IF m = parent /\ j = i THEN n ELSE children[m][j]
  BY Zenon DEF Hung
<1>5. /\ Inner(lev2)' \subseteq Inner(lev) \cup {n}
      /\ Inner(lev) \subseteq in_use \cup {Root}
      /\ n \notin Inner(lev)
  BY <1>1, <1>2, Zenon DEF Inner
<1>6. \A m \in in_use \cup {Root}, j \in Cells : children[m][j] # n
  BY DEF Tree, TreeType
<1>7. Tree(lev2)'
  <2>1. ASSUME NEW m \in in_use', NEW j \in Cells, children'[m][j] # Null
        PROVE  IF lev2[m] = 3 THEN children'[m][j] \in Spans
               ELSE children'[m][j] \in in_use' /\ lev2[children'[m][j]] = lev2[m] + 1
    <3>1. m # n /\ m \in in_use /\ m # Root
      BY <2>1, <1>4, Zenon DEF TreeType
    <3>2. CASE m = parent /\ j = i
      BY <3>1, <3>2, <1>1, <1>2, <1>4
    <3>3. CASE ~(m = parent /\ j = i)
      BY <3>1, <3>3, <2>1, <1>2, <1>4 DEF Tree
    <3> QED BY <3>2, <3>3, Zenon
  <2>2. ASSUME NEW j \in Cells, children'[Root][j] # Null
        PROVE  children'[Root][j] \in in_use' /\ lev2[children'[Root][j]] = 1
    BY <2>2, <1>2, <1>4 DEF Tree
  <2>3. ASSUME NEW m \in Inner(lev2)', NEW k \in Inner(lev2)', NEW j \in Cells, NEW l \in Cells,
               children'[m][j] # Null, children'[m][j] = children'[k][l]
        PROVE  m = k /\ j = l
    <3>1. m \in Inner(lev) /\ k \in Inner(lev)
      BY <2>3, <1>4, <1>5, Zenon
    <3>2. /\ children'[m][j] = IF m = parent /\ j = i THEN n ELSE children[m][j]
          /\ children'[k][l] = IF k = parent /\ l = i THEN n ELSE children[k][l]
          /\ children[m][j] # n /\ children[k][l] # n
      BY <3>1, <1>4, <1>5, <1>6, Zenon
    <3>3. children[m][j] # Null /\ children[m][j] = children[k][l] => m = k /\ j = l
      BY <3>1 DEF Tree
    <3> QED BY <2>3, <3>2, <3>3, Zenon
  <2> QED BY <2>1, <2>2, <2>3 DEF Tree
<1>8. ASSUME NEW p \in Nat
      PROVE  /\ P1(p) # Null => P1(p)' = P1(p)
             /\ P2(p) # Null => P2(p)' = P2(p)
             /\ P3(p) # Null => P3(p)' = P3(p)
             /\ Lookup(p)' = Lookup(p)
  <2>1. /\ I1(p) \in Cells /\ I2(p) \in Cells /\ I3(p) \in Cells /\ (InRoot(p) => I0(p) \in Cells)
    BY Indexes, Zenon
  \* A child is what it was, or the new node where there was none.
  <2>2. ASSUME NEW m \in in_use \cup {Root}, NEW j \in Cells
        PROVE  /\ children[m][j] # Null => children'[m][j] = children[m][j]
               /\ children[m][j] = Null => children'[m][j] \in {Null, n}
    BY <1>4, <2>2, Zenon
  <2>3. \/ P1(p)' = P1(p)
        \/ P1(p) = Null /\ P1(p)' = n
    BY <2>1, <2>2 DEF P1, Child
  <2>4. \/ P2(p)' = P2(p)
        \/ P2(p) = Null /\ P2(p)' = n
    BY <2>1, <2>2, <2>3, <1>4, Paths DEF P2, Child
  <2>5. \/ P3(p)' = P3(p)
        \/ P3(p) = Null /\ P3(p)' = n
    BY <2>1, <2>2, <2>4, <1>4, Paths DEF P3, Child
  <2>6. Lookup(p)' = Lookup(p)
    <3>1. CASE P3(p) = Null
      BY <3>1, <2>1, <2>5, <1>4, Zenon DEF Lookup, Child
    <3>2. CASE P3(p) # Null
      <4>1. P3(p) \in in_use /\ P3(p) # parent /\ P3(p)' = P3(p)
        BY <3>2, <2>5, <1>1, Paths DEF TreeType
      <4> QED BY <3>2, <4>1, <2>1, <1>4 DEF Lookup, Child
    <3> QED BY <3>1, <3>2, Zenon
  <2> QED BY <2>3, <2>4, <2>5, <2>6, Zenon
<1> QED BY <1>2, <1>7, <1>8, Zenon DEF TreeInv, Kept, MapSame

\* A leaf store of SetSpan or ClearRange changes the lookup of its own page and
\* of no other, and no path.
LEMMA LeafStored ==
    ASSUME TreeType, TreeType', NEW lev \in Levels, Tree(lev), NEW c \in Nat, P3(c) # Null,
           NEW v \in Spans \cup {Null}, root_' = root_, in_use' = in_use, Stored(c, v)
    PROVE  TreeInv' /\ Kept /\ MapSet(c, v)
<1> DEFINE leaf == P3(c)  i == I3(c)
<1>1. leaf \in in_use /\ leaf \in Nodes /\ lev[leaf] = 3 /\ i \in Cells
  BY Paths, Indexes, Zenon DEF TreeType
<1>4. \A m \in Nodes \cup {Root}, j \in Cells :
         children'[m][j] = IF m = leaf /\ j = i THEN v ELSE children[m][j]
  BY Zenon DEF Stored
<1> HIDE DEF leaf, i
<1>5. Inner(lev)' = Inner(lev) /\ Inner(lev) \subseteq (Nodes \cup {Root}) \ {leaf}
  BY <1>1, Zenon DEF Inner, TreeType
<1>6. Tree(lev)'
  <2>1. ASSUME NEW m \in in_use', NEW j \in Cells, children'[m][j] # Null
        PROVE  IF lev[m] = 3 THEN children'[m][j] \in Spans
               ELSE children'[m][j] \in in_use' /\ lev[children'[m][j]] = lev[m] + 1
    BY <2>1, <1>1, <1>4 DEF Tree, TreeType
  <2>2. ASSUME root_' = Root, NEW j \in Cells, children'[Root][j] # Null
        PROVE  children'[Root][j] \in in_use' /\ lev[children'[Root][j]] = 1
    BY <2>2, <1>1, <1>4 DEF Tree
  <2>3. ASSUME NEW m \in Inner(lev)', NEW k \in Inner(lev)', NEW j \in Cells, NEW l \in Cells,
               children'[m][j] # Null, children'[m][j] = children'[k][l]
        PROVE  m = k /\ j = l
    BY <2>3, <1>4, <1>5 DEF Tree
  <2> QED BY <2>1, <2>2, <2>3 DEF Tree
<1>7. ASSUME NEW p \in Nat
      PROVE  /\ P1(p)' = P1(p) /\ P2(p)' = P2(p) /\ P3(p)' = P3(p)
             /\ Lookup(p)' = IF p = c THEN v ELSE Lookup(p)
  <2>1. /\ I1(p) \in Cells /\ I2(p) \in Cells /\ I3(p) \in Cells /\ (InRoot(p) => I0(p) \in Cells)
    BY Indexes, Zenon
  <2>2. P1(p)' = P1(p)
    BY <2>1, <1>1, <1>4 DEF P1, Child, TreeType
  <2>3. P2(p)' = P2(p)
    <3>1. P1(p) # Null => P1(p) # leaf /\ P1(p) \in Nodes
      BY <1>1, Paths DEF TreeType
    <3> QED BY <3>1, <2>1, <2>2, <1>4 DEF P2, Child
  <2>4. P3(p)' = P3(p)
    <3>1. P2(p) # Null => P2(p) # leaf /\ P2(p) \in Nodes
      BY <1>1, Paths DEF TreeType
    <3> QED BY <3>1, <2>1, <2>3, <1>4 DEF P3, Child
  <2>5. Lookup(p)' = IF P3(p) = leaf /\ I3(p) = i THEN v ELSE Lookup(p)
    <3>1. P3(p) # Null => P3(p) \in Nodes
      BY Paths, Zenon DEF TreeType
    <3> QED BY <3>1, <2>1, <2>4, <1>1, <1>4 DEF Lookup, Child
  <2>6. P3(p) = leaf /\ I3(p) = i <=> p = c
    BY SameLeaf, Zenon DEF leaf, i
  <2> QED BY <2>2, <2>3, <2>4, <2>5, <2>6, Zenon
<1> QED BY <1>6, <1>7, Zenon DEF TreeInv, Kept, MapSet

-----------------------------------------------------------------------------
(* The same, for the steps as PageMap writes them *)

LEMMA TreeUnchanged ==
    ASSUME TreeInv, UNCHANGED tree
    PROVE  TreeInv' /\ Kept /\ MapSame
<1>1. TreeType' /\ (\A lev \in Levels : Tree(lev) => Tree(lev)')
  BY DEF TreeInv, TreeType, Tree, Inner, tree
<1>2. Kept /\ MapSame
  BY Zenon DEF Kept, MapSame, Lookup, P3, P2, P1, Child, tree
<1> QED BY <1>1, <1>2, Zenon DEF TreeInv

LEMMA NewNodeIsFree ==
    ASSUME TreeType, in_use # Nodes PROVE NewNode \in Nodes \ in_use
  BY Zenon DEF TreeType, NewNode

\* Link, where it hangs in a node.
LEMMA LinkAdds ==
    ASSUME TreeType, NEW lev \in Levels, Tree(lev), root_ = Root, root_' = Root,
           NEW parent \in Inner(lev), NEW i \in Cells, children[parent][i] = Null,
           in_use # Nodes, in_use' = in_use \cup {NewNode},
           children' = [children EXCEPT ![parent] = [@ EXCEPT ![i] = NewNode],
                                        ![NewNode] = NoCells]
    PROVE  TreeInv' /\ Kept /\ MapSame /\ children'[parent][i] # Null
<1> DEFINE n == NewNode
<1>1. n \in Nodes \ in_use
  BY NewNodeIsFree, Zenon
<1>2. parent \in in_use \cup {Root} /\ parent \in Nodes \cup {Root} /\ parent # n /\ n # Root
  BY <1>1, Zenon DEF TreeType, Inner
<1>3. in_use' = in_use \cup {n}
  BY Zenon
<1>4. children' = [children EXCEPT ![parent] = [@ EXCEPT ![i] = n], ![n] = NoCells]
  BY Zenon
<1> HIDE DEF n
<1>5. TreeType'
  BY <1>1, <1>2, <1>3, <1>4 DEF TreeType, NoCells
<1>6. /\ \A j \in Cells : children'[n][j] = Null
      /\ \A m \in in_use \cup {Root}, j \in Cells :
           children'[m][j] = IF m = parent /\ j = i THEN n ELSE children[m][j]
  BY <1>1, <1>2, <1>4 DEF TreeType, NoCells
<1>7. TreeInv' /\ Kept /\ MapSame
  <2>1. Hung(parent, i, n)
    BY <1>6, Zenon DEF Hung
  <2> QED BY <1>1, <1>3, <1>5, <2>1, NodeLinked, Zenon
<1>8. children'[parent][i] # Null
  BY <1>1, <1>2, <1>6, Zenon
<1> QED BY <1>7, <1>8, Zenon

\* A store of SetSpan or ClearRange.
LEMMA CellStored ==
    ASSUME NEW f \in [Nodes \cup {Root} -> [Cells -> Nodes \cup Spans \cup {Null}]],
           NEW leaf \in Nodes, NEW i \in Cells, NEW v \in Spans \cup {Null}
    PROVE  /\ [f EXCEPT ![leaf][i] = v] \in [Nodes \cup {Root} -> [Cells -> Nodes \cup Spans \cup {Null}]]
           /\ \A m \in Nodes \cup {Root}, j \in Cells :
                [f EXCEPT ![leaf][i] = v][m][j] = IF m = leaf /\ j = i THEN v ELSE f[m][j]
  BY Zenon

LEMMA StoreSets ==
    ASSUME TreeInv, NEW c \in Nat, P3(c) # Null, NEW v \in Spans \cup {Null},
           root_' = root_, in_use' = in_use,
           children' = [children EXCEPT ![P3(c)][I3(c)] = v]
    PROVE  TreeInv' /\ Kept /\ MapSet(c, v)
<1>1. PICK lev \in Levels : Tree(lev)
  BY Zenon DEF TreeInv
<1>2. TreeType
  BY Zenon DEF TreeInv
<1>3. P3(c) \in Nodes /\ I3(c) \in Cells
  BY <1>1, <1>2, Paths, Indexes, Zenon DEF TreeType
<1>4. TreeType'
  BY <1>2, <1>3, CellStored, Zenon DEF TreeType
<1>5. Stored(c, v)
  BY <1>2, <1>3, CellStored DEF TreeType, Stored
<1> QED BY <1>1, <1>2, <1>4, <1>5, LeafStored, Zenon

-----------------------------------------------------------------------------
(* The inductive invariant *)

Ensures == {"ensure", "lock", "path1", "path2", "path3"}
EnsureRec == [pc : Ensures, span : Spans, cur : Nat, remaining : Nat]
SetRec == [pc : {"set"}, span : Spans, cur : Nat, remaining : Nat,
           then : SUBSET Spans, retired : SUBSET Spans]
ClearRec == [pc : {"clear"}, span : Spans, cur : Nat, remaining : Nat]

OpType ==
    /\ op \in [Shards -> {Idle} \cup EnsureRec \cup SetRec \cup ClearRec]
    /\ range \in [Spans -> [pages : Nat \X Nat, shard : Shards \cup {Null}]]

\* The pages of a run of n pages from page a.
Run(a, n) == {p \in Nat : a <= p /\ p < a + n}

Ensured(s) == /\ range[s].shard \in Shards
              /\ op[range[s].shard].pc \in Ensures /\ op[range[s].shard].span = s

\* A descriptor in use names pages of the map; unless EnsureRange still works
\* for it, all of them have paths.
SpanOK(s) ==
    InUse(s) => \A p \in Run(range[s].pages[1], range[s].pages[2]) :
                   p \in PageIds /\ (~Ensured(s) => HasPath(p))

\* EnsureRange has prepared the pages up to cur, and the levels of cur's path
\* down to the one it is at.
EnsureOK(w, o) ==
    LET q == range[o.span].pages
    IN  /\ range[o.span].shard = w
        /\ q[1] <= o.cur /\ o.cur + o.remaining = q[1] + q[2]
        /\ \A p \in Nat : q[1] <= p /\ p < o.cur => HasPath(p)
        /\ o.pc # "ensure" => o.remaining > 0 /\ InRoot(o.cur)
        /\ o.pc \in {"path1", "path2", "path3"} => root_ = Root
        /\ o.pc = "path2" => P1(o.cur) # Null
        /\ o.pc = "path3" => P2(o.cur) # Null

\* The leaf stores still to make have their paths, and the descriptors named by
\* the operation belong to the shard.
SetOK(w, o) ==
    /\ \A p \in Run(o.cur, o.remaining) : p \in PageIds /\ HasPath(p)
    /\ \A s \in o.then \cup o.retired : range[s].shard = w

ClearOK(w, o) ==
    /\ \A p \in Run(o.cur, o.remaining) : p \in PageIds
    /\ range[o.span].shard = w

ShardOK(w) ==
    /\ op[w] \in EnsureRec => EnsureOK(w, op[w])
    /\ op[w] \in SetRec => SetOK(w, op[w])
    /\ op[w] \in ClearRec => ClearOK(w, op[w])

OpInv == /\ OpType
         /\ \A w \in Shards : ShardOK(w)
         /\ \A s \in Spans : SpanOK(s)

LEMMA OpCases ==
    ASSUME OpType, NEW w \in Shards
    PROVE  /\ op[w].pc = "idle" <=> op[w] = Idle
           /\ op[w].pc \in Ensures <=> op[w] \in EnsureRec
           /\ op[w].pc = "set" <=> op[w] \in SetRec
           /\ op[w].pc = "clear" <=> op[w] \in ClearRec
           /\ op[w].pc # "fatal"
  BY DEF OpType, Idle, EnsureRec, SetRec, ClearRec, Ensures

-----------------------------------------------------------------------------
(* What the shards' steps do to the tree *)

ShardStep(w) == \/ AllocSpan(w) \/ EnsureRange(w) \/ EnsureRoot(w) \/ EnsurePathLocked(w)
                \/ SetSpan(w) \/ Split(w) \/ Coalesce(w) \/ ReleaseSpan(w) \/ ClearRange(w)

TreeEffect == /\ TreeInv' /\ Kept
              /\ \/ MapSame
                 \/ \E c \in PageIds, v \in Spans \cup {Null} : MapSet(c, v)

LEMMA RootEffect ==
    ASSUME TreeInv, NEW w \in Shards, EnsureRoot(w) PROVE TreeEffect
<1>1. CASE root_ = Null
  <2>1. root_' = Root /\ in_use' = in_use /\ children' = [children EXCEPT ![Root] = NoCells]
    BY <1>1, Zenon DEF EnsureRoot
  <2>2. TreeInv' /\ MapSame
    BY <1>1, <2>1, RootPublished, Zenon DEF MapSame
  <2>3. Kept
    <3>1. \A p \in Nat : P1(p) = Null /\ P2(p) = Null /\ P3(p) = Null
      BY <1>1, Zenon DEF P3, P2, P1, Child
    <3> QED BY <3>1, <2>1, Zenon DEF Kept
  <2> QED BY <2>2, <2>3, Zenon DEF TreeEffect
<1>2. CASE root_ # Null
  BY <1>2, TreeUnchanged, Zenon DEF EnsureRoot, TreeEffect, tree
<1> QED BY <1>1, <1>2, Zenon

\* One level of EnsurePathLocked.
Hangs(parent, i) ==
    /\ children[parent][i] = Null /\ in_use # Nodes
    /\ children' = [children EXCEPT ![parent] = [@ EXCEPT ![i] = NewNode], ![NewNode] = NoCells]
    /\ in_use' = in_use \cup {NewNode}

LEMMA LevelEffect ==
    ASSUME TreeInv, NEW lev \in Levels, Tree(lev), root_ = Root, root_' = Root,
           NEW parent \in Inner(lev), NEW i \in Cells,
           Hangs(parent, i) \/ UNCHANGED <<children, in_use>>
    PROVE  /\ TreeInv' /\ Kept /\ MapSame
           /\ Hangs(parent, i) \/ children[parent][i] # Null => children'[parent][i] # Null
<1>1. CASE UNCHANGED <<children, in_use>> /\ ~Hangs(parent, i)
  BY <1>1, TreeUnchanged, Zenon DEF tree
<1>2. CASE Hangs(parent, i)
  BY <1>2, LinkAdds, Zenon DEF Hangs, TreeInv
<1> QED BY <1>1, <1>2, Zenon

\* What EnsurePathLocked does to the tree, and to the level it is at.
LEMMA PathEffect ==
    ASSUME TreeInv, OpInv, NEW w \in Shards, EnsurePathLocked(w)
    PROVE  /\ TreeInv' /\ Kept /\ MapSame
           /\ \/ /\ EnsureFails(w)
              \/ At(w, "path1") /\ UNCHANGED range /\ Goto(w, [op[w] EXCEPT !.pc = "path2"])
                 /\ \A p \in Nat : p = op[w].cur => P1(p)' # Null
              \/ At(w, "path2") /\ UNCHANGED range /\ Goto(w, [op[w] EXCEPT !.pc = "path3"])
                 /\ \A p \in Nat : p = op[w].cur => P2(p)' # Null
              \/ At(w, "path3") /\ UNCHANGED range /\ Goto(w, Advanced(op[w]))
                 /\ \A p \in Nat : p = op[w].cur => P3(p)' # Null
<1>1. PICK lev \in Levels : Tree(lev)
  BY Zenon DEF TreeInv
<1>2. /\ op[w] \in EnsureRec /\ EnsureOK(w, op[w]) /\ op[w].cur \in Nat
      /\ op[w].pc \in {"path1", "path2", "path3"}
  BY OpCases, Zenon DEF EnsurePathLocked, At, OpInv, ShardOK, Ensures, EnsureRec
<1>3. PICK p \in Nat : p = op[w].cur
  BY <1>2, Zenon
<1>4. InRoot(p) /\ I0(p) \in Cells /\ I1(p) \in Cells /\ I2(p) \in Cells
  BY <1>2, <1>3, Indexes, Zenon DEF EnsureOK
<1>5. root_ = Root /\ root_' = Root /\ TreeType
  BY <1>2, Zenon DEF EnsureOK, EnsurePathLocked, TreeInv
<1>6. /\ root_ \in Inner(lev)
      /\ P1(p) # Null => P1(p) \in Inner(lev)
      /\ P2(p) # Null => P2(p) \in Inner(lev)
  BY <1>1, <1>5, Paths DEF Inner
<1>7. CASE At(w, "path1")
  <2>1. \/ EnsureFails(w) /\ UNCHANGED <<children, in_use>>
        \/ /\ Hangs(root_, I0(p)) \/ (children[root_][I0(p)] # Null /\ UNCHANGED <<children, in_use>>)
           /\ UNCHANGED range /\ Goto(w, [op[w] EXCEPT !.pc = "path2"])
    BY <1>3, <1>7, Zenon DEF EnsurePathLocked, Link, Hangs, At
  <2>2. /\ TreeInv' /\ Kept /\ MapSame
        /\ Hangs(root_, I0(p)) \/ children[root_][I0(p)] # Null => children'[root_][I0(p)] # Null
    BY <2>1, <1>1, <1>4, <1>5, <1>6, LevelEffect, Zenon
  <2>3. children'[root_][I0(p)] # Null => P1(p)' # Null
    BY <1>4, <1>5, Zenon DEF P1, Child
  <2> QED BY <2>1, <2>2, <2>3, <1>3, <1>7, Zenon
<1>8. CASE At(w, "path2")
  <2>1. P1(p) # Null
    BY <1>2, <1>3, <1>8, Zenon DEF EnsureOK, At
  <2>2. \/ EnsureFails(w) /\ UNCHANGED <<children, in_use>>
        \/ /\ Hangs(P1(p), I1(p)) \/ (children[P1(p)][I1(p)] # Null /\ UNCHANGED <<children, in_use>>)
           /\ UNCHANGED range /\ Goto(w, [op[w] EXCEPT !.pc = "path3"])
    BY <1>3, <1>8, Zenon DEF EnsurePathLocked, Link, Hangs, At
  <2>3. /\ TreeInv' /\ Kept /\ MapSame
        /\ Hangs(P1(p), I1(p)) \/ children[P1(p)][I1(p)] # Null => children'[P1(p)][I1(p)] # Null
    BY <2>1, <2>2, <1>1, <1>4, <1>5, <1>6, LevelEffect, Zenon
  <2>4. children'[P1(p)][I1(p)] # Null => P2(p)' # Null
    BY <2>1, <2>3, Zenon DEF P2, Child, Kept
  <2> QED BY <2>2, <2>3, <2>4, <1>3, <1>8, Zenon
<1>9. CASE At(w, "path3")
  <2>1. P2(p) # Null
    BY <1>2, <1>3, <1>9, Zenon DEF EnsureOK, At
  <2>2. \/ EnsureFails(w) /\ UNCHANGED <<children, in_use>>
        \/ /\ Hangs(P2(p), I2(p)) \/ (children[P2(p)][I2(p)] # Null /\ UNCHANGED <<children, in_use>>)
           /\ UNCHANGED range /\ Goto(w, Advanced(op[w]))
    BY <1>3, <1>9, Zenon DEF EnsurePathLocked, Link, Hangs, At
  <2>3. /\ TreeInv' /\ Kept /\ MapSame
        /\ Hangs(P2(p), I2(p)) \/ children[P2(p)][I2(p)] # Null => children'[P2(p)][I2(p)] # Null
    BY <2>1, <2>2, <1>1, <1>4, <1>5, <1>6, LevelEffect, Zenon
  <2>4. children'[P2(p)][I2(p)] # Null => P3(p)' # Null
    BY <2>1, <2>3, Zenon DEF P3, Child, Kept
  <2> QED BY <2>2, <2>3, <2>4, <1>3, <1>9, Zenon
<1> QED BY <1>2, <1>7, <1>8, <1>9, Zenon DEF At

LEMMA SetEffect ==
    ASSUME TreeInv, OpInv, NEW w \in Shards, SetSpan(w) PROVE TreeEffect
<1>1. /\ op[w] \in SetRec /\ SetOK(w, op[w])
      /\ op[w].span \in Spans /\ op[w].cur \in Nat /\ op[w].remaining \in Nat
  BY OpCases, Zenon DEF SetSpan, At, OpInv, ShardOK, SetRec
<1>2. CASE UNCHANGED children
  BY <1>2, TreeUnchanged, Zenon DEF SetSpan, TreeEffect, tree
<1>3. CASE /\ op[w].remaining > 0 /\ HasPath(op[w].cur)
           /\ children' = [children EXCEPT ![P3(op[w].cur)][I3(op[w].cur)] = op[w].span]
  <2>1. PICK c \in Nat, v \in Spans : c = op[w].cur /\ v = op[w].span
    BY <1>1, Zenon
  <2>2. c \in PageIds /\ P3(c) # Null
    BY <2>1, <1>1, <1>3 DEF SetOK, Run, HasPath
  <2>3. root_' = root_ /\ in_use' = in_use /\ children' = [children EXCEPT ![P3(c)][I3(c)] = v]
    BY <2>1, <1>3, Zenon DEF SetSpan
  <2> QED BY <2>2, <2>3, StoreSets, Zenon DEF TreeEffect
<1> QED BY <1>2, <1>3, Zenon DEF SetSpan

LEMMA ClearEffect ==
    ASSUME TreeInv, OpInv, NEW w \in Shards, ClearRange(w) PROVE TreeEffect
<1>1. /\ op[w] \in ClearRec /\ ClearOK(w, op[w])
      /\ op[w].cur \in Nat /\ op[w].remaining \in Nat
  BY OpCases, Zenon DEF ClearRange, At, OpInv, ShardOK, ClearRec
<1>2. CASE UNCHANGED children
  BY <1>2, TreeUnchanged, Zenon DEF ClearRange, TreeEffect, tree
<1>3. CASE /\ op[w].remaining > 0 /\ HasPath(op[w].cur)
           /\ children' = [children EXCEPT ![P3(op[w].cur)][I3(op[w].cur)] = Null]
  <2>1. PICK c \in Nat : c = op[w].cur
    BY <1>1, Zenon
  <2>2. c \in PageIds /\ P3(c) # Null
    BY <2>1, <1>1, <1>3 DEF ClearOK, Run, HasPath
  <2>3. root_' = root_ /\ in_use' = in_use /\ children' = [children EXCEPT ![P3(c)][I3(c)] = Null]
    BY <2>1, <1>3, Zenon DEF ClearRange
  <2> QED BY <2>2, <2>3, StoreSets, Zenon DEF TreeEffect
<1> QED BY <1>2, <1>3, Zenon DEF ClearRange

LEMMA ShardEffect ==
    ASSUME TreeInv, OpInv, NEW w \in Shards, ShardStep(w)
    PROVE  TreeEffect /\ UNCHANGED rd
<1>1. CASE AllocSpan(w) \/ EnsureRange(w) \/ Split(w) \/ Coalesce(w) \/ ReleaseSpan(w)
  BY <1>1, TreeUnchanged, Zenon DEF AllocSpan, EnsureRange, Split, Coalesce, ReleaseSpan, TreeEffect
<1>2. CASE EnsureRoot(w)
  BY <1>2, RootEffect, Zenon DEF EnsureRoot
<1>3. CASE EnsurePathLocked(w)
  BY <1>3, PathEffect, Zenon DEF TreeEffect, EnsurePathLocked
<1>4. CASE SetSpan(w)
  BY <1>4, SetEffect, Zenon DEF SetSpan
<1>5. CASE ClearRange(w)
  BY <1>5, ClearEffect, Zenon DEF ClearRange
<1> QED BY <1>1, <1>2, <1>3, <1>4, <1>5, Zenon DEF ShardStep

-----------------------------------------------------------------------------
(* The invariant of the shards *)

LEMMA KeptPaths ==
    ASSUME Kept, NEW p \in Nat, HasPath(p) PROVE HasPath(p)'
  BY Zenon DEF Kept, HasPath

\* Shard w moves, and touches no descriptor of another shard.
Apart(w) ==
    /\ \A u \in Shards \ {w} : op'[u] = op[u]
    /\ \A s \in Spans : \/ range'[s] = range[s]
                        \/ range[s].shard \in {w, Null} /\ range'[s].shard \in {w, Null}

LEMMA OthersKeep ==
    ASSUME OpInv, Kept, NEW w \in Shards \cup {Null}, Apart(w), NEW u \in Shards \ {w}
    PROVE  ShardOK(u)'
<1>1. op'[u] = op[u]
  BY Zenon DEF Apart
<1>2. \A s \in Spans : range[s].shard = u => range'[s] = range[s]
  BY Zenon DEF Apart
<1>3. CASE op[u] \in EnsureRec
  <2>1. PICK o \in EnsureRec : o = op[u]
    BY <1>3, Zenon
  <2>2. EnsureOK(u, o)
    BY <2>1, Zenon DEF OpInv, ShardOK
  <2>3. o.span \in Spans /\ o.cur \in Nat
    BY Zenon DEF EnsureRec
  <2>4. range'[o.span] = range[o.span]
    BY <2>2, <2>3, <1>2, Zenon DEF EnsureOK
  <2>5. EnsureOK(u, o)'
    BY <2>2, <2>3, <2>4, KeptPaths, Zenon DEF EnsureOK, Kept
  <2>6. op[u] \notin SetRec /\ op[u] \notin ClearRec
    BY <1>3, Zenon DEF EnsureRec, SetRec, ClearRec, Ensures
  <2> QED BY <2>1, <2>5, <2>6, <1>1, Zenon DEF ShardOK
<1>4. CASE op[u] \in SetRec
  <2>1. PICK o \in SetRec : o = op[u]
    BY <1>4, Zenon
  <2>2. SetOK(u, o) /\ o.then \cup o.retired \subseteq Spans
    BY <2>1, Zenon DEF OpInv, ShardOK, SetRec
  <2>3. SetOK(u, o)'
    <3>1. \A p \in Run(o.cur, o.remaining) : p \in PageIds /\ HasPath(p)'
      BY <2>2, KeptPaths, Zenon DEF SetOK, Run
    <3>2. \A s \in o.then \cup o.retired : range'[s].shard = u
      BY <2>2, <1>2, Zenon DEF SetOK
    <3> QED BY <3>1, <3>2, Zenon DEF SetOK
  <2>4. op[u] \notin EnsureRec /\ op[u] \notin ClearRec
    BY <1>4, Zenon DEF EnsureRec, SetRec, ClearRec, Ensures
  <2> QED BY <2>1, <2>3, <2>4, <1>1, Zenon DEF ShardOK
<1>5. CASE op[u] \in ClearRec
  <2>1. PICK o \in ClearRec : o = op[u]
    BY <1>5, Zenon
  <2>2. ClearOK(u, o) /\ o.span \in Spans
    BY <2>1, Zenon DEF OpInv, ShardOK, ClearRec
  <2>3. ClearOK(u, o)'
    BY <2>2, <1>2, Zenon DEF ClearOK
  <2>4. op[u] \notin EnsureRec /\ op[u] \notin SetRec
    BY <1>5, Zenon DEF EnsureRec, SetRec, ClearRec, Ensures
  <2> QED BY <2>1, <2>3, <2>4, <1>1, Zenon DEF ShardOK
<1> QED BY <1>1, <1>3, <1>4, <1>5, Zenon DEF ShardOK

\* A descriptor that keeps its pages and its shard.
LEMMA SpanKeeps ==
    ASSUME OpInv, Kept, NEW s \in Spans, range'[s] = range[s], Ensured(s) => Ensured(s)'
    PROVE  SpanOK(s)'
<1>1. InUse(s)' <=> InUse(s)
  BY Zenon DEF InUse
<1>2. InUse(s) => \A p \in Run(range[s].pages[1], range[s].pages[2]) :
                    p \in Nat /\ p \in PageIds /\ (~Ensured(s) => HasPath(p))
  BY Zenon DEF OpInv, SpanOK, Run
<1>3. InUse(s) => \A p \in Run(range[s].pages[1], range[s].pages[2]) :
                    p \in PageIds /\ (~Ensured(s)' => HasPath(p)')
  BY <1>2, KeptPaths, Zenon
<1> QED BY <1>1, <1>3, Zenon DEF SpanOK

\* A step of shard w keeps the invariant when w and its own descriptors do.
LEMMA Assemble ==
    ASSUME OpInv, Kept, NEW w \in Shards, OpType', Apart(w), ShardOK(w)',
           \A s \in Spans : range'[s].shard = w => SpanOK(s)'
    PROVE  OpInv'
<1>1. \A u \in Shards : ShardOK(u)'
  BY OthersKeep
<1>2. ASSUME NEW s \in Spans PROVE SpanOK(s)'
  <2>1. CASE range'[s].shard = w
    BY <2>1, Zenon
  <2>2. CASE range'[s].shard = Null
    BY <2>2, Zenon DEF SpanOK, InUse
  <2>3. CASE range'[s].shard \notin {w, Null}
    <3>1. range'[s] = range[s]
      BY <2>3, Zenon DEF Apart
    <3>2. Ensured(s) => Ensured(s)'
      BY <3>1, <2>3, Zenon DEF Ensured, Apart
    <3> QED BY <3>1, <3>2, SpanKeeps, Zenon
  <2> QED BY <2>1, <2>2, <2>3, Zenon
<1> QED BY <1>1, <1>2, Zenon DEF OpInv

\* EnsureRange goes on for the same descriptor.
LEMMA EnsureMove ==
    ASSUME OpInv, Kept, NEW w \in Shards, op[w] \in EnsureRec, NEW o \in EnsureRec,
           o.span = op[w].span, Goto(w, o), UNCHANGED range, EnsureOK(w, o)'
    PROVE  OpInv'
<1>1. OpType' /\ op'[w] = o /\ Apart(w)
  BY Zenon DEF OpInv, OpType, Goto, Apart
<1>2. o \notin SetRec /\ o \notin ClearRec
  BY Zenon DEF EnsureRec, SetRec, ClearRec, Ensures
<1>3. ShardOK(w)'
  BY <1>1, <1>2, Zenon DEF ShardOK
<1>4. ASSUME NEW s \in Spans, range'[s].shard = w PROVE SpanOK(s)'
  <2>1. Ensured(s) => Ensured(s)'
    BY <1>1, <1>4, Zenon DEF Ensured, EnsureRec
  <2> QED BY <2>1, SpanKeeps, Zenon
<1> QED BY <1>1, <1>3, <1>4, Assemble, Zenon

LEMMA EnsureEnds ==
    ASSUME OpInv, Kept, NEW w \in Shards, op[w] \in EnsureRec, EnsureFails(w)
    PROVE  OpInv'
<1>1. PICK t \in Spans : t = op[w].span
  BY Zenon DEF EnsureRec
<1>2. /\ op' = [op EXCEPT ![w] = Idle]
      /\ range' = [range EXCEPT ![t] = [pages |-> <<0, 0>>, shard |-> Null]]
      /\ range[t].shard = w
  BY <1>1, Zenon DEF EnsureFails, SetRange, Goto, OpInv, ShardOK, EnsureOK
<1>3. OpType' /\ op'[w] = Idle /\ Apart(w)
  BY <1>2, Zenon DEF OpInv, OpType, Apart
<1>4. ShardOK(w)'
  BY <1>3 DEF ShardOK, Idle, EnsureRec, SetRec, ClearRec, Ensures
<1>5. ASSUME NEW s \in Spans, range'[s].shard = w PROVE SpanOK(s)'
  <2>1. s # t /\ range'[s] = range[s]
    BY <1>2, <1>5, Zenon DEF OpInv, OpType
  <2>2. ~Ensured(s)
    BY <1>1, <1>5, <2>1, Zenon DEF Ensured
  <2> QED BY <2>1, <2>2, SpanKeeps, Zenon
<1> QED BY <1>3, <1>4, <1>5, Assemble, Zenon

\* The block that EnsureRange steps over has its path.
LEMMA EnsureAdvances ==
    ASSUME OpInv, Kept, NEW w \in Shards, op[w] \in EnsureRec, op[w].remaining > 0,
           NEW p \in Nat, p = op[w].cur, HasPath(p)',
           Goto(w, Advanced(op[w])), UNCHANGED range
    PROVE  OpInv'
<1>1. PICK o \in EnsureRec, n \in Nat : o = op[w] /\ n = StepOf(o)
  BY DivMod DEF StepOf, I3, EnsureRec
<1>2. /\ o.cur = p /\ o.remaining \in Nat /\ o.span \in Spans
      /\ n <= o.remaining /\ n <= NodeSize - I3(p) /\ I3(p) \in 0 .. NodeSize - 1
  BY <1>1, DivMod DEF StepOf, I3, EnsureRec
<1>3. PICK a \in EnsureRec : /\ a = Advanced(op[w]) /\ a.pc = "ensure" /\ a.span = o.span
                            /\ a.cur = p + n /\ a.remaining = o.remaining - n
  <2>1. PICK c \in Nat, m \in Nat : c = p + n /\ m = o.remaining - n
    BY <1>2
  <2> DEFINE b == [o EXCEPT !.cur = c, !.remaining = m, !.pc = "ensure"]
  <2>2. b = Advanced(op[w])
    BY <1>1, <1>2, <2>1, Zenon DEF Advanced
  <2>3. b \in EnsureRec /\ b.pc = "ensure" /\ b.span = o.span /\ b.cur = c /\ b.remaining = m
    BY Zenon DEF EnsureRec, Ensures
  <2> HIDE DEF b
  <2> QED BY <2>1, <2>2, <2>3, Zenon
<1>4. EnsureOK(w, o)
  BY <1>1, Zenon DEF OpInv, ShardOK
<1>5. ASSUME NEW x \in Nat, p <= x, x < p + n PROVE HasPath(x)'
  <2>1. Block(x) = Block(p)
    BY <1>2, <1>5, BlockOfRest
  <2>2. P3(x)' = P3(p)'
    BY <2>1, Zenon DEF P3, P2, P1, I0, I1, I2, Area, InRoot
  <2> QED BY <2>2, Zenon DEF HasPath
<1>6. range[o.span].pages \in Nat \X Nat
  BY <1>2, ZenonT(60) DEF OpInv, OpType
<1>7. EnsureOK(w, a)'
  <2>1. \A x \in Nat : range[o.span].pages[1] <= x /\ x < p => HasPath(x)'
    BY <1>2, <1>4, KeptPaths, Zenon DEF EnsureOK
  <2>2. \A x \in Nat : range[o.span].pages[1] <= x /\ x < p + n => HasPath(x)'
    BY <2>1, <1>5
  <2> QED BY <2>2, <1>2, <1>3, <1>4, <1>6 DEF EnsureOK
<1> QED BY <1>1, <1>3, <1>7, EnsureMove, Zenon

LEMMA AllocKeeps ==
    ASSUME OpInv, Kept, NEW w \in Shards, AllocSpan(w) PROVE OpInv'
<1>1. PICK t \in Spans, q \in Requests :
         ~InUse(t) /\ SetRange(t, w, q) /\ Goto(w, Ensuring(t, q))
  BY Zenon DEF AllocSpan
<1>2. op[w] = Idle
  BY OpCases, Zenon DEF AllocSpan, At, OpInv
<1>3. q \in Nat \X Nat /\ (\A p \in Run(q[1], q[2]) : p \in PageIds)
  BY DEF Run
<1>4. /\ op' = [op EXCEPT ![w] = Ensuring(t, q)]
      /\ range' = [range EXCEPT ![t] = [pages |-> q, shard |-> w]]
      /\ range[t].shard = Null
  BY <1>1, Zenon DEF Goto, SetRange, InUse
<1>5. PICK o \in EnsureRec : /\ o = Ensuring(t, q) /\ o.pc = "ensure" /\ o.span = t
                            /\ o.cur = q[1] /\ o.remaining = q[2]
  <2> DEFINE b == Ensuring(t, q)
  <2>1. /\ b \in EnsureRec /\ b.pc = "ensure" /\ b.span = t
        /\ b.cur = q[1] /\ b.remaining = q[2]
    BY <1>3, Zenon DEF Ensuring, EnsureRec, Ensures
  <2> QED BY <2>1, Zenon
<1>6. OpType' /\ op'[w] = o /\ Apart(w) /\ range'[t] = [pages |-> q, shard |-> w]
  BY <1>3, <1>4, <1>5, Zenon DEF OpInv, OpType, Apart
<1>7. ShardOK(w)'
  <2>1. EnsureOK(w, o)'
    BY <1>3, <1>5, <1>6 DEF EnsureOK
  <2>2. o \notin SetRec /\ o \notin ClearRec
    BY Zenon DEF EnsureRec, SetRec, ClearRec, Ensures
  <2> QED BY <2>1, <2>2, <1>6, Zenon DEF ShardOK
<1>8. ASSUME NEW s \in Spans, range'[s].shard = w PROVE SpanOK(s)'
  <2>1. CASE s = t
    <3>1. Ensured(s)'
      BY <2>1, <1>5, <1>6 DEF Ensured, EnsureRec
    <3> QED BY <2>1, <3>1, <1>3, <1>6 DEF SpanOK
  <2>2. CASE s # t
    <3>1. range'[s] = range[s]
      BY <2>2, <1>4, Zenon DEF OpInv, OpType
    <3>2. ~Ensured(s)
      BY <3>1, <1>2, <1>8 DEF Ensured, Idle, Ensures
    <3> QED BY <3>1, <3>2, SpanKeeps, Zenon
  <2> QED BY <2>1, <2>2, Zenon
<1> QED BY <1>6, <1>7, <1>8, Assemble, Zenon

\* Shard w ends or begins an operation other than EnsureRange.
LEMMA OwnPages ==
    ASSUME OpInv, Kept, NEW w \in Shards, NEW s \in Spans, range[s].shard = w, ~Ensured(s),
           NEW p \in Run(range[s].pages[1], range[s].pages[2])
    PROVE  p \in PageIds /\ HasPath(p)'
<1>1. p \in Nat /\ p \in PageIds /\ HasPath(p)
  BY Zenon DEF OpInv, SpanOK, InUse, Run
<1> QED BY <1>1, KeptPaths, Zenon

RangesMove(w) ==
    /\ range' \in [Spans -> [pages : Nat \X Nat, shard : Shards \cup {Null}]]
    /\ \A s \in Spans : \/ range'[s] = range[s]
                        \/ range[s].shard \in {w, Null} /\ range'[s].shard \in {w, Null}
OwnPrepared(w) ==
    \A s \in Spans : range'[s].shard = w =>
       \A p \in Run(range'[s].pages[1], range'[s].pages[2]) : p \in PageIds /\ HasPath(p)'

LEMMA OperationMoves ==
    ASSUME OpInv, Kept, NEW w \in Shards, NEW o \in {Idle} \cup SetRec \cup ClearRec, Goto(w, o),
           RangesMove(w), OwnPrepared(w),
           o \in SetRec => SetOK(w, o)',
           o \in ClearRec => ClearOK(w, o)'
    PROVE  OpInv'
<1>1. OpType' /\ op'[w] = o /\ Apart(w)
  BY Zenon DEF OpInv, OpType, Goto, Apart, RangesMove
<1>2. o \notin EnsureRec
  BY DEF EnsureRec, SetRec, ClearRec, Ensures, Idle
<1>3. ShardOK(w)'
  BY <1>1, <1>2, Zenon DEF ShardOK
<1>4. \A s \in Spans : range'[s].shard = w => SpanOK(s)'
  BY Zenon DEF SpanOK, OwnPrepared
<1> QED BY <1>1, <1>3, <1>4, Assemble, Zenon

LEMMA RangesStay ==
    ASSUME OpInv, UNCHANGED range, NEW w \in Shards PROVE RangesMove(w)
  BY Zenon DEF OpInv, OpType, RangesMove

LEMMA SettingRec ==
    ASSUME NEW s \in Spans, NEW q \in Nat \X Nat, NEW next \in SUBSET Spans,
           NEW retired \in SUBSET Spans
    PROVE  /\ Setting(s, q, next, retired) \in SetRec
           /\ Setting(s, q, next, retired).span = s
           /\ Setting(s, q, next, retired).cur = q[1]
           /\ Setting(s, q, next, retired).remaining = q[2]
           /\ Setting(s, q, next, retired).then = next
           /\ Setting(s, q, next, retired).retired = retired
  BY Zenon DEF Setting, SetRec

LEMMA EnsureKeeps ==
    ASSUME OpInv, Kept, NEW w \in Shards, EnsureRange(w), UNCHANGED tree PROVE OpInv'
<1>1. op[w] \in EnsureRec /\ op[w].pc = "ensure"
  BY OpCases, Zenon DEF EnsureRange, At, OpInv, Ensures
<1>2. PICK o \in EnsureRec, p \in Nat, t \in Spans : o = op[w] /\ p = o.cur /\ t = o.span
  BY <1>1, Zenon DEF EnsureRec
<1>3. EnsureOK(w, o) /\ o.remaining \in Nat /\ range[t].pages \in Nat \X Nat
  BY <1>2, Zenon DEF OpInv, OpType, ShardOK, EnsureRec
<1>4. CASE EnsureFails(w)
  BY <1>1, <1>4, EnsureEnds, Zenon
<1>5. CASE o.remaining > 0 /\ InRoot(p) /\ UNCHANGED range /\ HasPath(p) /\ Goto(w, Advanced(op[w]))
  BY <1>1, <1>2, <1>5, KeptPaths, EnsureAdvances, Zenon
<1>6. CASE o.remaining > 0 /\ InRoot(p) /\ UNCHANGED range /\ Goto(w, [op[w] EXCEPT !.pc = "lock"])
  <2> DEFINE b == [o EXCEPT !.pc = "lock"]
  <2>1. /\ b \in EnsureRec /\ b.pc = "lock" /\ b.span = t /\ b.cur = p
        /\ b.remaining = o.remaining /\ Goto(w, b)
    BY <1>2, <1>6, Zenon DEF EnsureRec, Ensures
  <2>2. PICK a \in EnsureRec : /\ a.pc = "lock" /\ a.span = t /\ a.cur = p
                              /\ a.remaining = o.remaining /\ Goto(w, a)
    <3> HIDE DEF b
    <3> QED BY <2>1, Zenon
  <2>3. \A x \in Nat : range[t].pages[1] <= x /\ x < p => HasPath(x)'
    BY <1>2, <1>3, KeptPaths, Zenon DEF EnsureOK
  <2>4. EnsureOK(w, a)'
    BY <2>2, <2>3, <1>2, <1>3, <1>6, Zenon DEF EnsureOK
  <2> QED BY <2>2, <2>4, <1>1, <1>2, <1>6, EnsureMove, Zenon
<1>7. CASE o.remaining = 0 /\ UNCHANGED range /\ Goto(w, Setting(t, range[t].pages, {}, {}))
  <2>1. PICK q \in Nat \X Nat : q = range[t].pages
    BY <1>3, Zenon
  <2>2. PICK a \in SetRec : /\ a = Setting(t, q, {}, {}) /\ a.cur = q[1] /\ a.remaining = q[2]
                           /\ a.then = {} /\ a.retired = {}
    BY SettingRec
  <2>3. \A x \in Run(q[1], q[2]) : x \in PageIds /\ HasPath(x)'
    <3>1. InUse(t)
      BY <1>2, <1>3, Zenon DEF EnsureOK, InUse
    <3>2. \A x \in Run(q[1], q[2]) : x \in Nat /\ x \in PageIds
      BY <3>1, <2>1, ZenonT(60) DEF OpInv, SpanOK, Run
    <3>3. p = q[1] + q[2]
      BY <1>2, <1>3, <1>7, <2>1 DEF EnsureOK
    <3>4. \A x \in Run(q[1], q[2]) : HasPath(x)
      BY <1>2, <1>3, <2>1, <3>3, Zenon DEF EnsureOK, Run
    <3> QED BY <3>2, <3>4, KeptPaths, Zenon
  <2>4. SetOK(w, a)'
    BY <2>2, <2>3, Zenon DEF SetOK
  <2>5. Goto(w, a) /\ a \notin ClearRec
    BY <2>1, <2>2, <1>7, Zenon DEF SetRec, ClearRec
  <2>6. ASSUME NEW s \in Spans, range'[s].shard = w
        PROVE  \A x \in Run(range'[s].pages[1], range'[s].pages[2]) : x \in PageIds /\ HasPath(x)'
    <3>1. CASE s = t
      BY <3>1, <2>1, <2>3, <1>7, Zenon
    <3>2. CASE s # t
      <4>1. ~Ensured(s) /\ range'[s] = range[s]
        BY <3>2, <2>6, <1>2, <1>7, Zenon DEF Ensured
      <4> QED BY <4>1, <2>6, OwnPages, Zenon
    <3> QED BY <3>1, <3>2, Zenon
  <2>7. OwnPrepared(w)
    BY <2>6, Zenon DEF OwnPrepared
  <2> QED BY <2>4, <2>5, <2>7, <1>7, RangesStay, OperationMoves, Zenon
<1> QED BY <1>2, <1>4, <1>5, <1>6, <1>7, Zenon DEF EnsureRange

\* The path is one level further: pc is all that changes.
LEMMA LevelMoves ==
    ASSUME OpInv, Kept, NEW w \in Shards, op[w] \in EnsureRec, UNCHANGED range,
           NEW pc \in {"path1", "path2", "path3"}, Goto(w, [op[w] EXCEPT !.pc = pc]),
           op[w].pc # "ensure", NEW p \in Nat, p = op[w].cur, root_' = Root,
           pc = "path2" => P1(p)' # Null, pc = "path3" => P2(p)' # Null
    PROVE  OpInv'
<1>1. PICK o \in EnsureRec, t \in Spans : o = op[w] /\ t = o.span
  BY Zenon DEF EnsureRec
<1>2. EnsureOK(w, o) /\ o.remaining \in Nat
  BY <1>1, Zenon DEF OpInv, ShardOK, EnsureRec
<1> DEFINE b == [o EXCEPT !.pc = pc]
<1>3. /\ b \in EnsureRec /\ b.pc = pc /\ b.span = t /\ b.cur = p
      /\ b.remaining = o.remaining /\ Goto(w, b)
  BY <1>1, Zenon DEF EnsureRec, Ensures
<1> HIDE DEF b
<1>4. PICK a \in EnsureRec : /\ a.pc = pc /\ a.span = t /\ a.cur = p
                            /\ a.remaining = o.remaining /\ Goto(w, a)
  BY <1>3, Zenon
<1>5. \A x \in Nat : range[t].pages[1] <= x /\ x < p => HasPath(x)'
  BY <1>1, <1>2, KeptPaths, Zenon DEF EnsureOK
<1>6. EnsureOK(w, a)'
  BY <1>1, <1>2, <1>4, <1>5, Zenon DEF EnsureOK
<1> QED BY <1>1, <1>4, <1>6, EnsureMove, Zenon

LEMMA RootKeeps ==
    ASSUME TreeInv, OpInv, Kept, NEW w \in Shards, EnsureRoot(w) PROVE OpInv'
<1>1. op[w] \in EnsureRec /\ op[w].pc = "lock" /\ op[w].cur \in Nat
  BY OpCases, Zenon DEF EnsureRoot, At, OpInv, Ensures, EnsureRec
<1>2. root_' = Root
  BY Zenon DEF EnsureRoot, TreeInv, TreeType
<1>3. UNCHANGED range /\ Goto(w, [op[w] EXCEPT !.pc = "path1"])
  BY Zenon DEF EnsureRoot
<1>4. PICK p \in Nat : p = op[w].cur
  BY <1>1, Zenon
<1> QED BY <1>1, <1>2, <1>3, <1>4, LevelMoves, Zenon

LEMMA PathKeeps ==
    ASSUME TreeInv, OpInv, Kept, NEW w \in Shards, EnsurePathLocked(w) PROVE OpInv'
<1>1. /\ op[w] \in EnsureRec /\ op[w].pc \in {"path1", "path2", "path3"} /\ op[w].cur \in Nat
  BY OpCases, Zenon DEF EnsurePathLocked, At, OpInv, Ensures, EnsureRec
<1>2. EnsureOK(w, op[w])
  BY <1>1, Zenon DEF OpInv, ShardOK
<1>3. PICK p \in Nat : p = op[w].cur
  BY <1>1, Zenon
<1>4. root_' = Root /\ op[w].remaining > 0
  BY <1>1, <1>2, Zenon DEF EnsureOK, EnsurePathLocked
<1>5. CASE EnsureFails(w)
  BY <1>1, <1>5, EnsureEnds, Zenon
<1>6. CASE UNCHANGED range /\ Goto(w, [op[w] EXCEPT !.pc = "path2"]) /\ P1(p)' # Null
  BY <1>1, <1>3, <1>4, <1>6, LevelMoves, Zenon
<1>7. CASE UNCHANGED range /\ Goto(w, [op[w] EXCEPT !.pc = "path3"]) /\ P2(p)' # Null
  BY <1>1, <1>3, <1>4, <1>7, LevelMoves, Zenon
<1>8. CASE UNCHANGED range /\ Goto(w, Advanced(op[w])) /\ P3(p)' # Null
  BY <1>1, <1>3, <1>4, <1>8, EnsureAdvances, Zenon DEF HasPath
<1> QED BY <1>3, <1>5, <1>6, <1>7, <1>8, PathEffect, Zenon

\* Outside EnsureRange a shard's descriptors all have their paths.
LEMMA OwnStays ==
    ASSUME OpInv, Kept, NEW w \in Shards, op[w] \notin EnsureRec, UNCHANGED range
    PROVE  OwnPrepared(w)
<1>1. \A s \in Spans : range[s].shard = w => ~Ensured(s)
  BY OpCases, Zenon DEF Ensured, OpInv
<1> QED BY <1>1, OwnPages, Zenon DEF OwnPrepared

LEMMA SetKeeps ==
    ASSUME OpInv, Kept, NEW w \in Shards, SetSpan(w) PROVE OpInv'
<1>1. op[w] \in SetRec /\ op[w] \notin EnsureRec
  BY OpCases, Zenon DEF SetSpan, At, OpInv, Ensures, EnsureRec, SetRec
<1>2. PICK o \in SetRec : o = op[w]
  BY <1>1, Zenon
<1>3. /\ SetOK(w, o) /\ o.cur \in Nat /\ o.remaining \in Nat
      /\ o.then \subseteq Spans /\ o.retired \subseteq Spans
  BY <1>2, Zenon DEF OpInv, ShardOK, SetRec
<1>4. \A p \in Run(o.cur, o.remaining) : p \in PageIds /\ HasPath(p)'
  BY <1>3, KeptPaths, Zenon DEF SetOK, Run
<1>5. CASE /\ o.remaining > 0 /\ UNCHANGED range
           /\ Goto(w, [o EXCEPT !.cur = @ + 1, !.remaining = @ - 1])
  <2>1. PICK c \in Nat, m \in Nat : c = o.cur + 1 /\ m = o.remaining - 1
    BY <1>3, <1>5
  <2> DEFINE b == [o EXCEPT !.cur = c, !.remaining = m]
  <2>2. Goto(w, b)
    BY <2>1, <1>5, Zenon
  <2>3. /\ b \in SetRec /\ b.cur = c /\ b.remaining = m /\ b.then = o.then
        /\ b.retired = o.retired
    BY Zenon DEF SetRec
  <2> HIDE DEF b
  <2>4. PICK a \in SetRec : /\ Goto(w, a) /\ a.cur = c /\ a.remaining = m
                           /\ a.then = o.then /\ a.retired = o.retired
    BY <2>2, <2>3, Zenon
  <2>5. Run(c, m) \subseteq Run(o.cur, o.remaining)
    BY <2>1, <1>3, <1>5 DEF Run
  <2>6. SetOK(w, a)'
    BY <2>4, <2>5, <1>3, <1>4, <1>5, Zenon DEF SetOK
  <2>7. a \notin ClearRec
    BY Zenon DEF SetRec, ClearRec
  <2> QED BY <2>4, <2>6, <2>7, <1>1, <1>5, RangesStay, OwnStays, OperationMoves, Zenon
<1>6. CASE UNCHANGED range /\ \E s \in o.then : Goto(w, Setting(s, range[s].pages, o.then \ {s}, o.retired))
  <2>1. PICK s \in Spans, q \in Nat \X Nat :
           /\ s \in o.then /\ q = range[s].pages
           /\ Goto(w, Setting(s, q, o.then \ {s}, o.retired))
    BY <1>3, <1>6, Zenon DEF OpInv, OpType
  <2>2. PICK a \in SetRec : /\ Goto(w, a) /\ a.cur = q[1] /\ a.remaining = q[2]
                           /\ a.then = o.then \ {s} /\ a.retired = o.retired
    BY <2>1, <1>3, SettingRec
  <2>3. range[s].shard = w /\ ~Ensured(s)
    BY <2>1, <1>1, <1>3, OpCases, Zenon DEF SetOK, Ensured, OpInv
  <2>4. SetOK(w, a)'
    <3>1. \A p \in Run(q[1], q[2]) : p \in PageIds /\ HasPath(p)'
      BY <2>1, <2>3, OwnPages, Zenon
    <3> QED BY <3>1, <2>2, <1>3, <1>6, Zenon DEF SetOK
  <2>5. a \notin ClearRec
    BY Zenon DEF SetRec, ClearRec
  <2> QED BY <2>2, <2>4, <2>5, <1>1, <1>6, RangesStay, OwnStays, OperationMoves, Zenon
<1>7. CASE /\ range' = [s \in Spans |-> IF s \in o.retired THEN Unused ELSE range[s]]
           /\ Goto(w, Idle)
  <2>1. RangesMove(w)
    BY <1>3, <1>7, Zenon DEF RangesMove, SetOK, Unused, OpInv, OpType
  <2>2. ASSUME NEW s \in Spans, range'[s].shard = w
        PROVE  \A p \in Run(range'[s].pages[1], range'[s].pages[2]) : p \in PageIds /\ HasPath(p)'
    <3>1. range'[s] = range[s]
      BY <2>2, <1>7, Zenon DEF Unused
    <3>2. ~Ensured(s)
      BY <3>1, <2>2, <1>1, OpCases, Zenon DEF Ensured, OpInv
    <3> QED BY <3>1, <3>2, <2>2, OwnPages, Zenon
  <2>3. OwnPrepared(w)
    BY <2>2, Zenon DEF OwnPrepared
  <2>4. Idle \notin SetRec /\ Idle \notin ClearRec
    BY Zenon DEF Idle, SetRec, ClearRec
  <2> QED BY <2>1, <2>3, <2>4, <1>7, OperationMoves, Zenon
<1> QED
  <2>1. o.remaining > 0 => HasPath(o.cur)
    BY <1>3 DEF SetOK, Run
  <2> QED BY <2>1, <1>2, <1>5, <1>6, <1>7, Zenon DEF SetSpan

LEMMA SplitKeeps ==
    ASSUME OpInv, Kept, NEW w \in Shards, Split(w) PROVE OpInv'
<1>1. op[w] = Idle /\ (\A s \in Spans : range[s].shard = w => ~Ensured(s))
  BY OpCases, Zenon DEF Split, At, OpInv, Ensured, Ensures
<1>2. PICK s \in Held(w), t \in Spans : \E k \in 1 .. range[s].pages[2] - 1 :
         /\ ~InUse(t)
         /\ range' = [range EXCEPT ![t] = [pages |-> <<range[s].pages[1], k>>, shard |-> w],
                                   ![s].pages = <<range[s].pages[1] + k, range[s].pages[2] - k>>]
         /\ Goto(w, Setting(t, <<range[s].pages[1], k>>, {s}, {}))
  BY Zenon DEF Split
<1>a. s \in Spans /\ range[s].shard = w /\ range[s].pages \in Nat \X Nat
  BY Zenon DEF Held, OpInv, OpType
<1>b. PICK a \in Nat, n \in Nat : range[s].pages = <<a, n>>
  BY <1>a
<1>c. range[s].pages[1] = a /\ range[s].pages[2] = n
  BY <1>b
<1>d. PICK k \in 1 .. n - 1 :
         /\ range[t].shard = Null
         /\ range' = [range EXCEPT ![t] = [pages |-> <<a, k>>, shard |-> w],
                                   ![s].pages = <<a + k, n - k>>]
         /\ Goto(w, Setting(t, <<a, k>>, {s}, {}))
  BY <1>2, <1>c, Zenon DEF InUse
<1>e. k \in Nat /\ a + k \in Nat /\ n - k \in Nat
  OBVIOUS
<1>3. s # t
  BY <1>a, <1>d, TreeAssumption, Zenon
<1>4. /\ range'[t] = [pages |-> <<a, k>>, shard |-> w]
      /\ range'[s].pages = <<a + k, n - k>> /\ range'[s].shard = w
      /\ \A x \in Spans \ {s, t} : range'[x] = range[x]
      /\ range' \in [Spans -> [pages : Nat \X Nat, shard : Shards \cup {Null}]]
  <2>1. <<a, k>> \in Nat \X Nat /\ <<a + k, n - k>> \in Nat \X Nat
    BY <1>e, Zenon
  <2>2. PICK x \in Nat \X Nat, y \in Nat \X Nat : x = <<a, k>> /\ y = <<a + k, n - k>>
    BY <2>1, Zenon
  <2>3. range' = [range EXCEPT ![t] = [pages |-> x, shard |-> w], ![s].pages = y]
    BY <1>d, <2>2, Zenon
  <2>4. /\ range'[t] = [pages |-> x, shard |-> w]
        /\ range'[s].pages = y /\ range'[s].shard = w
        /\ \A z \in Spans \ {s, t} : range'[z] = range[z]
        /\ range' \in [Spans -> [pages : Nat \X Nat, shard : Shards \cup {Null}]]
    <3> HIDE <1>d, <2>2
    <3> QED BY <1>a, <1>3, <2>3, ZenonT(60) DEF OpInv, OpType
  <2> QED BY <2>2, <2>4, ZenonT(60)
<1>5. RangesMove(w)
  BY <1>a, <1>d, <1>4, Zenon DEF RangesMove
<1>6. \A p \in Run(a, n) : p \in PageIds /\ HasPath(p)'
  BY <1>1, <1>a, <1>c, OwnPages, Zenon
<1>7. Run(a, k) \subseteq Run(a, n) /\ Run(a + k, n - k) \subseteq Run(a, n)
  BY <1>e DEF Run
<1>8. ASSUME NEW x \in Spans, range'[x].shard = w
      PROVE  \A p \in Run(range'[x].pages[1], range'[x].pages[2]) : p \in PageIds /\ HasPath(p)'
  <2>1. CASE x \notin {s, t}
    BY <2>1, <1>1, <1>4, <1>8, OwnPages, Zenon
  <2>2. CASE x = s
    BY <2>2, <1>4, <1>6, <1>7
  <2>3. CASE x = t
    BY <2>3, <1>4, <1>6, <1>7
  <2> QED BY <2>1, <2>2, <2>3, Zenon
<1>9. OwnPrepared(w)
  BY <1>8, Zenon DEF OwnPrepared
<1>10. PICK o \in SetRec : /\ Goto(w, o) /\ o.cur = a /\ o.remaining = k
                          /\ o.then = {s} /\ o.retired = {}
  <2>1. <<a, k>> \in Nat \X Nat /\ {s} \in SUBSET Spans
    BY <1>a, <1>e, Zenon
  <2> QED BY <1>d, <2>1, SettingRec
<1>11. SetOK(w, o)' /\ o \notin ClearRec
  BY <1>4, <1>6, <1>7, <1>10, Zenon DEF SetOK, SetRec, ClearRec
<1> QED BY <1>5, <1>9, <1>10, <1>11, OperationMoves, Zenon

LEMMA CoalesceKeeps ==
    ASSUME OpInv, Kept, NEW w \in Shards, Coalesce(w) PROVE OpInv'
<1>1. op[w] = Idle /\ (\A s \in Spans : range[s].shard = w => ~Ensured(s))
  BY OpCases, Zenon DEF Coalesce, At, OpInv, Ensured, Ensures
<1>2. PICK s \in Spans, t \in Spans, q \in Nat \X Nat, r \in Nat \X Nat, u \in Nat \X Nat :
         /\ range[s].shard = w /\ range[s].pages = q /\ range[t].shard = w /\ range[t].pages = r
         /\ u = Union(q, r) /\ Adjacent(q, r)
         /\ range' = [range EXCEPT ![t].pages = <<0, 0>>, ![s].pages = u]
         /\ Goto(w, Setting(s, u, {}, {t}))
  <2>1. PICK s \in Held(w), t \in Held(w) :
           /\ Adjacent(range[s].pages, range[t].pages)
           /\ range' = [range EXCEPT ![t].pages = <<0, 0>>,
                                     ![s].pages = Union(range[s].pages, range[t].pages)]
           /\ Goto(w, Setting(s, Union(range[s].pages, range[t].pages), {}, {t}))
    BY Zenon DEF Coalesce
  <2>2. /\ s \in Spans /\ range[s].shard = w /\ range[s].pages \in Nat \X Nat
        /\ t \in Spans /\ range[t].shard = w /\ range[t].pages \in Nat \X Nat
    BY Zenon DEF Held, OpInv, OpType
  <2>3. Union(range[s].pages, range[t].pages) \in Nat \X Nat
    BY <2>2 DEF Union
  <2> QED BY <2>1, <2>2, <2>3, Zenon
<1>3. /\ range'[s].pages = u /\ range'[s].shard = w
      /\ t # s => range'[t].pages = <<0, 0>>
      /\ range'[t].shard = w
      /\ \A x \in Spans \ {s, t} : range'[x] = range[x]
      /\ range' \in [Spans -> [pages : Nat \X Nat, shard : Shards \cup {Null}]]
  <2>1. <<0, 0>> \in Nat \X Nat
    BY Zenon
  <2> QED BY <1>2, <2>1 DEF OpInv, OpType
<1>4. RangesMove(w)
  BY <1>2, <1>3, Zenon DEF RangesMove
<1>5. \A p \in Run(q[1], q[2]) \cup Run(r[1], r[2]) : p \in PageIds /\ HasPath(p)'
  BY <1>1, <1>2, OwnPages, Zenon
<1>6. Run(u[1], u[2]) \subseteq Run(q[1], q[2]) \cup Run(r[1], r[2])
  BY <1>2 DEF Union, Adjacent, Run
<1>7. ASSUME NEW x \in Spans, range'[x].shard = w
      PROVE  \A p \in Run(range'[x].pages[1], range'[x].pages[2]) : p \in PageIds /\ HasPath(p)'
  <2>1. CASE x \notin {s, t}
    BY <2>1, <1>1, <1>3, <1>7, OwnPages, Zenon
  <2>2. CASE x = s
    BY <2>2, <1>3, <1>5, <1>6, Zenon
  <2>3. CASE x = t /\ t # s
    BY <2>3, <1>3 DEF Run
  <2> QED BY <2>1, <2>2, <2>3, Zenon
<1>8. OwnPrepared(w)
  BY <1>7, Zenon DEF OwnPrepared
<1>9. PICK o \in SetRec : /\ Goto(w, o) /\ o.cur = u[1] /\ o.remaining = u[2]
                         /\ o.then = {} /\ o.retired = {t}
  BY <1>2, SettingRec
<1>10. SetOK(w, o)' /\ o \notin ClearRec
  BY <1>3, <1>5, <1>6, <1>9, Zenon DEF SetOK, SetRec, ClearRec
<1> QED BY <1>4, <1>8, <1>9, <1>10, OperationMoves, Zenon

LEMMA ReleaseKeeps ==
    ASSUME OpInv, Kept, NEW w \in Shards, ReleaseSpan(w) PROVE OpInv'
<1>1. op[w] = Idle /\ op[w] \notin EnsureRec /\ UNCHANGED range
  BY OpCases, Zenon DEF ReleaseSpan, At, OpInv, Idle, Ensures
<1>2. PICK s \in Spans, q \in Nat \X Nat :
         range[s].shard = w /\ range[s].pages = q /\ Goto(w, Clearing(s, q))
  BY Zenon DEF ReleaseSpan, Held, OpInv, OpType
<1> DEFINE b == Clearing(s, q)
<1>3. b \in ClearRec /\ b.span = s /\ b.cur = q[1] /\ b.remaining = q[2]
  BY Zenon DEF Clearing, ClearRec
<1>4. Goto(w, b)
  BY <1>2, Zenon
<1> HIDE DEF b
<1>5. PICK o \in ClearRec : Goto(w, o) /\ o.span = s /\ o.cur = q[1] /\ o.remaining = q[2]
  BY <1>3, <1>4, Zenon
<1>6. ~Ensured(s)
  BY <1>1, <1>2 DEF Ensured, Idle, Ensures
<1>7. ClearOK(w, o)' /\ o \notin SetRec
  BY <1>1, <1>2, <1>5, <1>6, OwnPages, Zenon DEF ClearOK, SetRec, ClearRec
<1> QED BY <1>1, <1>5, <1>7, RangesStay, OwnStays, OperationMoves, Zenon

LEMMA ClearKeeps ==
    ASSUME OpInv, Kept, NEW w \in Shards, ClearRange(w) PROVE OpInv'
<1>1. op[w] \in ClearRec /\ op[w] \notin EnsureRec
  BY OpCases, Zenon DEF ClearRange, At, OpInv, Ensures, EnsureRec, ClearRec
<1>2. PICK o \in ClearRec, t \in Spans : o = op[w] /\ t = o.span
  BY <1>1, Zenon DEF ClearRec
<1>3. ClearOK(w, o) /\ o.cur \in Nat /\ o.remaining \in Nat
  BY <1>2, Zenon DEF OpInv, ShardOK, ClearRec
<1>4. CASE /\ o.remaining > 0 /\ UNCHANGED range
           /\ Goto(w, [o EXCEPT !.cur = @ + 1, !.remaining = @ - 1])
  <2>1. PICK c \in Nat, m \in Nat : c = o.cur + 1 /\ m = o.remaining - 1
    BY <1>3, <1>4
  <2> DEFINE b == [o EXCEPT !.cur = c, !.remaining = m]
  <2>2. Goto(w, b)
    BY <2>1, <1>4, Zenon
  <2>3. b \in ClearRec /\ b.cur = c /\ b.remaining = m /\ b.span = t
    BY <1>2, Zenon DEF ClearRec
  <2> HIDE DEF b
  <2>4. PICK a \in ClearRec : Goto(w, a) /\ a.cur = c /\ a.remaining = m /\ a.span = t
    BY <2>2, <2>3, Zenon
  <2>5. Run(c, m) \subseteq Run(o.cur, o.remaining)
    BY <2>1, <1>3, <1>4 DEF Run
  <2>6. ClearOK(w, a)' /\ a \notin SetRec
    BY <2>4, <2>5, <1>2, <1>3, <1>4, Zenon DEF ClearOK, SetRec, ClearRec
  <2> QED BY <2>4, <2>6, <1>1, <1>4, RangesStay, OwnStays, OperationMoves, Zenon
<1>5. CASE SetRange(t, Null, <<0, 0>>) /\ Goto(w, Idle)
  <2>1. range' = [range EXCEPT ![t] = [pages |-> <<0, 0>>, shard |-> Null]] /\ range[t].shard = w
    BY <1>2, <1>3, <1>5, Zenon DEF SetRange, ClearOK
  <2>2. RangesMove(w)
    BY <2>1, Zenon DEF RangesMove, OpInv, OpType
  <2>3. ASSUME NEW s \in Spans, range'[s].shard = w
        PROVE  \A p \in Run(range'[s].pages[1], range'[s].pages[2]) : p \in PageIds /\ HasPath(p)'
    <3>1. range'[s] = range[s]
      BY <2>1, <2>3, Zenon DEF OpInv, OpType
    <3>2. ~Ensured(s)
      BY <3>1, <2>3, <1>1, OpCases, Zenon DEF Ensured, OpInv
    <3> QED BY <3>1, <3>2, <2>3, OwnPages, Zenon
  <2>4. OwnPrepared(w)
    BY <2>3, Zenon DEF OwnPrepared
  <2>5. Idle \notin SetRec /\ Idle \notin ClearRec
    BY Zenon DEF Idle, SetRec, ClearRec
  <2> QED BY <2>2, <2>4, <2>5, <1>5, OperationMoves, Zenon
<1> QED BY <1>2, <1>4, <1>5, Zenon DEF ClearRange

LEMMA ShardKeeps ==
    ASSUME TreeInv, OpInv, NEW w \in Shards, ShardStep(w)
    PROVE  TreeEffect /\ OpInv' /\ UNCHANGED rd
<1>1. TreeEffect /\ Kept /\ UNCHANGED rd
  BY ShardEffect, Zenon DEF TreeEffect
<1>2. OpInv'
  <2>1. CASE AllocSpan(w)
    BY <1>1, <2>1, AllocKeeps, Zenon
  <2>2. CASE EnsureRange(w)
    <3>1. UNCHANGED tree
      BY <2>2, Zenon DEF EnsureRange
    <3> QED BY <1>1, <2>2, <3>1, EnsureKeeps, Zenon
  <2>3. CASE EnsureRoot(w)
    BY <1>1, <2>3, RootKeeps, Zenon
  <2>4. CASE EnsurePathLocked(w)
    BY <1>1, <2>4, PathKeeps, ZenonT(60)
  <2>5. CASE SetSpan(w)
    BY <1>1, <2>5, SetKeeps, Zenon
  <2>6. CASE Split(w)
    BY <1>1, <2>6, SplitKeeps, Zenon
  <2>7. CASE Coalesce(w)
    BY <1>1, <2>7, CoalesceKeeps, Zenon
  <2>8. CASE ReleaseSpan(w)
    BY <1>1, <2>8, ReleaseKeeps, Zenon
  <2>9. CASE ClearRange(w)
    BY <1>1, <2>9, ClearKeeps, Zenon
  <2> QED BY <2>1, <2>2, <2>3, <2>4, <2>5, <2>6, <2>7, <2>8, <2>9, Zenon DEF ShardStep
<1> QED BY <1>1, <1>2, Zenon

-----------------------------------------------------------------------------
(* Lookups *)

Walking == {"level0", "level1", "level2", "leaf"}
WalkRec == [pc : Walking, page : PageIds, node : Nodes \cup {Root}]
RootRec == [pc : {"root"}, page : PageIds]
DoneRec == [pc : {"done"}, page : PageIds, value : Spans \cup {Null}]
LookRec == {Idle} \cup RootRec \cup WalkRec \cup DoneRec

\* The node a lookup has reached is the one of its page's path, still.
WalkOK(l) ==
    /\ l.pc = "level0" => InRoot(l.page) /\ root_ = Root /\ l.node = Root
    /\ l.pc = "level1" => l.node = P1(l.page) /\ l.node # Null
    /\ l.pc = "level2" => l.node = P2(l.page) /\ l.node # Null
    /\ l.pc = "leaf" => l.node = P3(l.page) /\ l.node # Null

RdInv == /\ rd \in [Readers -> LookRec]
         /\ \A r \in Readers : rd[r] \in WalkRec => WalkOK(rd[r])

MapInv == TreeInv /\ OpInv /\ RdInv

LEMMA WalkKeeps ==
    ASSUME Kept, NEW l \in WalkRec, WalkOK(l) PROVE WalkOK(l)'
<1>1. l.page \in Nat
  BY Zenon DEF WalkRec
<1> QED BY <1>1, Zenon DEF WalkOK, Kept

\* A load of the lookup of page p: it reaches the next node of the path, or it
\* returns what p maps to now.
Loaded(r, p) ==
    \E l \in LookRec : /\ Look(r, l)
                       /\ \/ l \in WalkRec /\ WalkOK(l) /\ l.page = p
                          \/ l = Done(p, Lookup(p)) /\ l \in DoneRec

LEMMA FollowLoads ==
    ASSUME NEW r \in Readers, NEW p \in PageIds, p = rd[r].page, NEW pc \in Walking,
           NEW n \in Nodes \cup {Root, Null}, Follow(r, n, pc), n = Null => Lookup(p) = Null,
           \A l \in WalkRec : l.pc = pc /\ l.page = p /\ l.node = n /\ n # Null => WalkOK(l)
    PROVE  Loaded(r, p)
<1>1. CASE n = Null
  <2>1. Look(r, Done(p, Null)) /\ Done(p, Null) \in DoneRec
    BY <1>1, Zenon DEF Follow, Done, DoneRec
  <2> QED BY <2>1, <1>1, Zenon DEF Loaded, LookRec
<1>2. CASE n # Null
  <2> DEFINE m == [pc |-> pc, page |-> p, node |-> n]
  <2>1. Look(r, m)
    BY <1>2, Zenon DEF Follow
  <2>2. m \in WalkRec /\ m.pc = pc /\ m.page = p /\ m.node = n
    BY <1>2, Zenon DEF WalkRec
  <2> HIDE DEF m
  <2>3. WalkOK(m)
    BY <2>2, <1>2, Zenon
  <2> QED BY <2>1, <2>2, <2>3, Zenon DEF Loaded, LookRec
<1> QED BY <1>1, <1>2, Zenon

LEMMA LoadMoves ==
    ASSUME TreeInv, RdInv, NEW r \in Readers, GetSpanLoad(r)
    PROVE  /\ rd[r].page \in PageIds /\ rd[r].pc \in {"root"} \cup Walking
           /\ \A p \in PageIds : p = rd[r].page => Loaded(r, p)
<1>1. rd[r] \in LookRec /\ rd[r].pc \in {"root"} \cup Walking
  BY Zenon DEF RdInv, GetSpanLoad, Walking
<1>2. /\ rd[r].pc = "root" <=> rd[r] \in RootRec
      /\ rd[r].pc \in Walking <=> rd[r] \in WalkRec
  BY <1>1 DEF LookRec, RootRec, WalkRec, DoneRec, Idle, Walking
<1>3. rd[r].page \in PageIds
  BY <1>1, <1>2, Zenon DEF RootRec, WalkRec
<1>4. SUFFICES ASSUME NEW p \in PageIds, p = rd[r].page PROVE Loaded(r, p)
  BY <1>1, <1>3, Zenon
<1>5. PICK lev \in Levels : Tree(lev)
  BY Zenon DEF TreeInv
<1>6. TreeType /\ p \in Nat /\ I1(p) \in Cells /\ I2(p) \in Cells /\ I3(p) \in Cells
  BY Indexes, Zenon DEF TreeInv
<1>7. /\ P1(p) \in Nodes \cup {Null} /\ P2(p) \in Nodes \cup {Null} /\ P3(p) \in Nodes \cup {Null}
      /\ P1(p) = Null => P2(p) = Null
      /\ P2(p) = Null => P3(p) = Null
      /\ P3(p) = Null => Lookup(p) = Null
      /\ Lookup(p) \in Spans \cup {Null}
  BY <1>5, <1>6, Paths, Zenon DEF TreeType
<1>8. CASE rd[r].pc = "root"
  <2>1. PICK n \in {Root, Null} : n = IF InRoot(p) THEN root_ ELSE Null
    BY <1>6, Zenon DEF TreeType
  <2>2. Follow(r, n, "level0")
    BY <2>1, <1>4, <1>8, Zenon DEF GetSpanLoad
  <2>3. n = Null => P1(p) = Null
    BY <2>1, Zenon DEF P1, Child
  <2>4. \A l \in WalkRec : l.pc = "level0" /\ l.page = p /\ l.node = n /\ n # Null => WalkOK(l)
    BY <2>1, Zenon DEF WalkOK
  <2>5. n \in Nodes \cup {Root, Null} /\ (n = Null => Lookup(p) = Null) /\ "level0" \in Walking
    BY <2>1, <2>3, <1>7, Zenon DEF Walking
  <2> QED BY <2>2, <2>4, <2>5, <1>4, FollowLoads
<1>9. CASE rd[r].pc = "level0"
  <2>1. InRoot(p) /\ root_ = Root /\ rd[r].node = Root
    BY <1>2, <1>4, <1>9, Zenon DEF RdInv, WalkOK, Walking
  <2>2. P1(p) = children[rd[r].node][I0(p)]
    BY <2>1, Zenon DEF P1, Child
  <2>3. Follow(r, P1(p), "level1")
    BY <2>2, <1>4, <1>9, Zenon DEF GetSpanLoad
  <2>4. \A l \in WalkRec : l.pc = "level1" /\ l.page = p /\ l.node = P1(p) /\ P1(p) # Null => WalkOK(l)
    BY Zenon DEF WalkOK
  <2> QED BY <2>3, <2>4, <1>4, <1>7, FollowLoads DEF Walking
<1>10. CASE rd[r].pc = "level1"
  <2>1. rd[r].node = P1(p) /\ P1(p) # Null
    BY <1>2, <1>4, <1>10, Zenon DEF RdInv, WalkOK, Walking
  <2>2. P2(p) = children[rd[r].node][I1(p)]
    BY <2>1, Zenon DEF P2, Child
  <2>3. Follow(r, P2(p), "level2")
    BY <2>2, <1>4, <1>10, Zenon DEF GetSpanLoad
  <2>4. \A l \in WalkRec : l.pc = "level2" /\ l.page = p /\ l.node = P2(p) /\ P2(p) # Null => WalkOK(l)
    BY Zenon DEF WalkOK
  <2> QED BY <2>3, <2>4, <1>4, <1>7, FollowLoads DEF Walking
<1>11. CASE rd[r].pc = "level2"
  <2>1. rd[r].node = P2(p) /\ P2(p) # Null
    BY <1>2, <1>4, <1>11, Zenon DEF RdInv, WalkOK, Walking
  <2>2. P3(p) = children[rd[r].node][I2(p)]
    BY <2>1, Zenon DEF P3, Child
  <2>3. Follow(r, P3(p), "leaf")
    BY <2>2, <1>4, <1>11, Zenon DEF GetSpanLoad
  <2>4. \A l \in WalkRec : l.pc = "leaf" /\ l.page = p /\ l.node = P3(p) /\ P3(p) # Null => WalkOK(l)
    BY Zenon DEF WalkOK
  <2> QED BY <2>3, <2>4, <1>4, <1>7, FollowLoads DEF Walking
<1>12. CASE rd[r].pc = "leaf"
  <2>1. rd[r].node = P3(p) /\ P3(p) # Null
    BY <1>2, <1>4, <1>12, Zenon DEF RdInv, WalkOK, Walking
  <2>2. Lookup(p) = children[rd[r].node][I3(p)]
    BY <2>1, Zenon DEF Lookup, Child
  <2>3. Look(r, Done(p, Lookup(p)))
    BY <2>2, <1>4, <1>12, Zenon DEF GetSpanLoad
  <2>4. Done(p, Lookup(p)) \in DoneRec
    BY <1>7, Zenon DEF Done, DoneRec
  <2> QED BY <2>3, <2>4, Zenon DEF Loaded, LookRec
<1> QED BY <1>1, <1>8, <1>9, <1>10, <1>11, <1>12, Zenon DEF Walking

LEMMA LoadedKeeps ==
    ASSUME TreeInv, RdInv, NEW r \in Readers, NEW l \in LookRec, Look(r, l),
           l \in WalkRec => WalkOK(l)
    PROVE  RdInv'
<1>1. Kept
  BY TreeUnchanged, Zenon DEF Look
<1>2. rd' = [rd EXCEPT ![r] = l]
  BY Zenon DEF Look
<1>3. rd' \in [Readers -> LookRec]
  BY <1>2, Zenon DEF RdInv
<1>4. ASSUME NEW u \in Readers, rd'[u] \in WalkRec PROVE WalkOK(rd[u])'
  <2>1. PICK m \in WalkRec : m = rd'[u]
    BY <1>4, Zenon
  <2>2. WalkOK(m)
    BY <2>1, <1>2, Zenon DEF RdInv
  <2>3. WalkOK(m)'
    BY <2>2, <1>1, WalkKeeps, Zenon
  <2> QED BY <2>1, <2>3, Zenon
<1> QED BY <1>3, <1>4, Zenon DEF RdInv

LEMMA ReadersKeep ==
    ASSUME RdInv, Kept, UNCHANGED rd PROVE RdInv'
<1>1. ASSUME NEW r \in Readers, rd'[r] \in WalkRec PROVE WalkOK(rd[r])'
  <2>1. PICK m \in WalkRec : m = rd[r] /\ m = rd'[r]
    BY <1>1, Zenon
  <2>2. WalkOK(m)'
    BY <2>1, WalkKeeps, Zenon DEF RdInv
  <2> QED BY <2>1, <2>2, Zenon
<1> QED BY <1>1, Zenon DEF RdInv

LEMMA OpStays ==
    ASSUME OpInv, TreeInv, UNCHANGED <<tree, range, op>> PROVE OpInv'
<1>1. Kept /\ Apart(Null)
  BY TreeUnchanged, Zenon DEF Apart
<1>2. \A u \in Shards : ShardOK(u)'
  BY <1>1, OthersKeep, Zenon
<1>3. \A s \in Spans : Ensured(s) => Ensured(s)'
  BY Zenon DEF Ensured
<1>4. \A s \in Spans : SpanOK(s)'
  BY <1>1, <1>3, SpanKeeps, Zenon
<1> QED BY <1>2, <1>4, Zenon DEF OpInv, OpType

LEMMA MapInitInv == Init => MapInv
<1> SUFFICES ASSUME Init PROVE MapInv
  BY Zenon
<1>1. TreeInv
  <2>1. TreeType
    BY Zenon DEF Init, NoCells, TreeType
  <2>2. [n \in Nodes |-> 1] \in Levels
    BY DEF Levels
  <2>3. PICK lev \in Levels : TRUE
    BY <2>2, Zenon
  <2>4. Tree(lev)
    BY Zenon DEF Tree, Inner, Init
  <2> QED BY <2>1, <2>4, Zenon DEF TreeInv
<1>2. OpInv
  <2>1. OpType
    BY Zenon DEF Init, OpType, Unused
  <2>2. \A w \in Shards : ShardOK(w)
    BY Zenon DEF Init, ShardOK, Idle, EnsureRec, SetRec, ClearRec, Ensures
  <2>3. \A s \in Spans : SpanOK(s)
    BY Zenon DEF Init, SpanOK, InUse, Unused
  <2> QED BY <2>1, <2>2, <2>3, Zenon DEF OpInv
<1>3. RdInv
  BY Zenon DEF Init, RdInv, LookRec, WalkRec, Idle, Walking
<1> QED BY <1>1, <1>2, <1>3, Zenon DEF MapInv

LEMMA ResetKeeps ==
    ASSUME MapInv, Reset PROVE MapInv' /\ \A p \in Nat : Lookup(p)' = Null
<1>1. root_' = Null /\ in_use' = {} /\ UNCHANGED <<op, rd>> /\ range' = [s \in Spans |-> Unused]
  BY Zenon DEF Reset
<1>2. TreeInv'
  <2>1. TreeType'
    BY <1>1, Zenon DEF Reset, MapInv, TreeInv, TreeType, NoCells
  <2>2. PICK lev \in Levels : TRUE
    BY Zenon DEF MapInv, TreeInv
  <2>3. Tree(lev)'
    BY <1>1, Zenon DEF Tree, Inner
  <2> QED BY <2>1, <2>3, Zenon DEF TreeInv
<1>3. \A p \in Nat : Lookup(p)' = Null
  BY <1>1, Zenon DEF Lookup, P3, P2, P1, Child
<1>4. OpInv'
  <2>1. \A w \in Shards : op[w] = Idle
    BY OpCases, Zenon DEF Reset, MapInv, OpInv, At
  <2>2. OpType'
    BY <1>1, Zenon DEF MapInv, OpInv, OpType, Unused
  <2>3. \A w \in Shards : ShardOK(w)'
    BY <1>1, <2>1 DEF ShardOK, Idle, EnsureRec, SetRec, ClearRec, Ensures
  <2>4. \A s \in Spans : SpanOK(s)'
    BY <1>1, Zenon DEF SpanOK, InUse, Unused
  <2> QED BY <2>2, <2>3, <2>4, Zenon DEF OpInv
<1>5. RdInv'
  <2>1. \A r \in Readers : rd[r] \notin WalkRec
    BY Zenon DEF Reset, WalkRec, Walking
  <2> QED BY <1>1, <2>1, Zenon DEF MapInv, RdInv
<1> QED BY <1>2, <1>3, <1>4, <1>5, Zenon DEF MapInv

LEMMA BeginMoves ==
    ASSUME NEW r \in Readers, GetSpan(r)
    PROVE  \E p \in PageIds, l \in RootRec : Look(r, l) /\ l = [pc |-> "root", page |-> p]
  BY Zenon DEF GetSpan, RootRec

LEMMA LookKeeps ==
    ASSUME MapInv, NEW r \in Readers, NEW l \in LookRec, Look(r, l), l \in WalkRec => WalkOK(l)
    PROVE  MapInv'
<1>1. TreeInv'
  BY TreeUnchanged, Zenon DEF Look, MapInv
<1>2. OpInv'
  BY OpStays, Zenon DEF Look, MapInv
<1>3. RdInv'
  BY LoadedKeeps, Zenon DEF MapInv
<1> QED BY <1>1, <1>2, <1>3, Zenon DEF MapInv

LEMMA MapStep == MapInv /\ [Next]_vars => MapInv'
<1> SUFFICES ASSUME MapInv, [Next]_vars PROVE MapInv'
  BY Zenon
<1>1. ASSUME NEW w \in Shards, ShardStep(w) PROVE MapInv'
  BY <1>1, ShardKeeps, ReadersKeep, Zenon DEF MapInv, TreeEffect
<1>2. ASSUME NEW r \in Readers, GetSpan(r) PROVE MapInv'
  <2>1. PICK l \in RootRec : Look(r, l)
    BY <1>2, BeginMoves, Zenon
  <2>2. l \in LookRec /\ l \notin WalkRec
    BY Zenon DEF LookRec, RootRec, WalkRec, Walking
  <2> QED BY <2>1, <2>2, LookKeeps, Zenon
<1>3. ASSUME NEW r \in Readers, GetSpanLoad(r) PROVE MapInv'
  <2>1. PICK p \in PageIds : Loaded(r, p)
    BY <1>3, LoadMoves, Zenon DEF MapInv
  <2>2. PICK l \in LookRec : Look(r, l) /\ ((l \in WalkRec /\ WalkOK(l)) \/ l \in DoneRec)
    BY <2>1, Zenon DEF Loaded
  <2>3. l \in DoneRec => l \notin WalkRec
    BY Zenon DEF DoneRec, WalkRec, Walking
  <2> QED BY <2>2, <2>3, LookKeeps, Zenon
<1>4. CASE Reset
  BY <1>4, ResetKeeps, Zenon
<1>5. CASE UNCHANGED vars
  <2>1. TreeInv' /\ Kept
    BY <1>5, TreeUnchanged, Zenon DEF MapInv, vars, tree
  <2>2. OpInv'
    BY <1>5, OpStays, Zenon DEF MapInv, vars, tree
  <2>3. RdInv'
    BY <1>5, <2>1, ReadersKeep, Zenon DEF MapInv, vars
  <2> QED BY <2>1, <2>2, <2>3, Zenon DEF MapInv
<1> QED BY <1>1, <1>2, <1>3, <1>4, <1>5, Zenon DEF Next, ShardStep

\* The inductive invariant holds: links form a tree, every shard's operation in
\* progress has the paths it needs, and lookups stand on their page's path.
THEOREM MapInvariance == Spec => []MapInv
  BY MapInitInv, MapStep, PTL DEF Spec

\* PageMap::SetSpan never meets a page without a path: the FatalNoAlloc of
\* page_cache.cpp is unreachable, for any number of shards growing the tree.
THEOREM SetSpanFindsPaths == Spec => []PathPrepared
<1>1. MapInv => PathPrepared
  BY OpCases, Zenon DEF MapInv, OpInv, PathPrepared, At
<1> QED BY <1>1, MapInvariance, PTL

-----------------------------------------------------------------------------
(* The tree implements the flat map *)

LEMMA CallOfCases ==
    ASSUME NEW l \in LookRec
    PROVE  /\ l = Idle => CallOf(l) = [pc |-> "idle"]
           /\ l \in DoneRec => CallOf(l) = [pc |-> "returned", page |-> l.page, value |-> l.value]
           /\ l \in RootRec \cup WalkRec => CallOf(l) = [pc |-> "called", page |-> l.page]
  BY DEF CallOf, LookRec, RootRec, WalkRec, DoneRec, Idle, Walking

\* A step that moves one lookup moves one abstract call.
LEMMA CallMoves ==
    ASSUME RdInv, NEW r \in Readers, NEW l \in LookRec, Look(r, l)
    PROVE  /\ [u \in Readers |-> CallOf(rd[u])]'
              = [[u \in Readers |-> CallOf(rd[u])] EXCEPT ![r] = CallOf(l)]
           /\ UNCHANGED [p \in PageIds |-> Lookup(p)]
<1>1. rd' = [rd EXCEPT ![r] = l] /\ rd \in [Readers -> LookRec]
  BY Zenon DEF Look, RdInv
<1>2. \A u \in Readers : CallOf(rd[u])' = IF u = r THEN CallOf(l) ELSE CallOf(rd[u])
  BY <1>1, Zenon DEF CallOf
<1>3. UNCHANGED <<root_, children>>
  BY ZenonT(60) DEF Look, tree
<1>4. \A p \in PageIds : Lookup(p)' = Lookup(p)
  BY <1>3 DEF Lookup, P3, P2, P1, Child
<1> QED BY <1>2, <1>4, Zenon

LEMMA ShardStepWrites ==
    ASSUME MapInv, NEW w \in Shards, ShardStep(w)
    PROVE  \/ Flat!Write
           \/ UNCHANGED <<[p \in PageIds |-> Lookup(p)], [r \in Readers |-> CallOf(rd[r])]>>
<1>1. TreeEffect /\ UNCHANGED rd
  BY ShardEffect, Zenon DEF MapInv
<1>2. UNCHANGED [r \in Readers |-> CallOf(rd[r])]
  BY <1>1, Zenon DEF CallOf
<1>3. CASE MapSame
  BY <1>2, <1>3, Zenon DEF MapSame
<1>4. CASE \E c \in PageIds, v \in Spans \cup {Null} : MapSet(c, v)
  <2>1. PICK c \in PageIds, v \in Spans \cup {Null} : MapSet(c, v)
    BY <1>4, Zenon
  <2>2. \A p \in PageIds : Lookup(p)' = IF p = c THEN v ELSE Lookup(p)
    BY <2>1, Zenon DEF MapSet
  <2> DEFINE old == [p \in PageIds |-> Lookup(p)]
             new == [p \in PageIds |-> Lookup(p)']
  <2>3. new[c] = v /\ new = [old EXCEPT ![c] = new[c]]
    BY <2>2, Zenon
  <2> QED BY <2>3, <1>2, Zenon DEF Flat!Write
<1> QED BY <1>1, <1>3, <1>4, Zenon DEF TreeEffect

LEMMA GetSpanBegins ==
    ASSUME MapInv, NEW r \in Readers, GetSpan(r) PROVE Flat!Begin(r)
<1>1. PICK p \in PageIds, l \in RootRec : Look(r, l) /\ l = [pc |-> "root", page |-> p]
  BY BeginMoves, Zenon
<1>2. l \in LookRec /\ CallOf(l) = [pc |-> "called", page |-> p]
  BY <1>1, CallOfCases DEF LookRec
<1>3. rd[r] \in LookRec /\ rd[r].pc \in {"idle", "done"}
  BY Zenon DEF GetSpan, MapInv, RdInv
<1>4. CallOf(rd[r]).pc # "called"
  BY <1>3, Zenon DEF CallOf
<1>5. RdInv
  BY Zenon DEF MapInv
<1>6. /\ [u \in Readers |-> CallOf(rd[u])]'
         = [[u \in Readers |-> CallOf(rd[u])] EXCEPT ![r] = Flat!Called(p)]
      /\ UNCHANGED [q \in PageIds |-> Lookup(q)]
  BY <1>1, <1>2, <1>5, CallMoves, Zenon DEF Flat!Called
<1> QED BY <1>4, <1>6, Zenon DEF Flat!Begin

LEMMA LoadReturns ==
    ASSUME MapInv, NEW r \in Readers, GetSpanLoad(r)
    PROVE  \/ Flat!Return(r)
           \/ UNCHANGED <<[p \in PageIds |-> Lookup(p)], [u \in Readers |-> CallOf(rd[u])]>>
<1>1. RdInv /\ TreeInv /\ rd[r] \in LookRec
  BY Zenon DEF MapInv, RdInv
<1>2. PICK p \in PageIds : p = rd[r].page /\ Loaded(r, p)
  BY <1>1, LoadMoves, Zenon
<1>3. CallOf(rd[r]) = [pc |-> "called", page |-> p]
  BY <1>1, <1>2, LoadMoves, Zenon DEF CallOf, Walking
<1>4. PICK l \in LookRec : /\ Look(r, l)
                          /\ \/ l \in WalkRec /\ l.page = p
                             \/ l = Done(p, Lookup(p)) /\ l \in DoneRec
  BY <1>2, Zenon DEF Loaded
<1>5. /\ [u \in Readers |-> CallOf(rd[u])]'
         = [[u \in Readers |-> CallOf(rd[u])] EXCEPT ![r] = CallOf(l)]
      /\ UNCHANGED [q \in PageIds |-> Lookup(q)]
  BY <1>1, <1>4, CallMoves, Zenon
<1>6. CASE l \in WalkRec /\ l.page = p
  <2>1. CallOf(l) = CallOf(rd[r])
    BY <1>3, <1>6, CallOfCases, Zenon
  <2> QED BY <2>1, <1>5, Zenon
<1>7. CASE l = Done(p, Lookup(p)) /\ l \in DoneRec
  <2>1. CallOf(l) = [pc |-> "returned", page |-> p, value |-> Lookup(p)]
    BY <1>7, CallOfCases, Zenon DEF Done
  <2>2. CallOf(rd[r]).pc = "called" /\ CallOf(rd[r]).page = p
    BY <1>3
  <2> QED BY <2>1, <2>2, <1>5, Zenon DEF Flat!Return, Flat!Returned
<1> QED BY <1>4, <1>6, <1>7, Zenon

\* The radix tree implements FlatMap: a lookup that walks it without a lock,
\* while shards link nodes and rewrite leaves, returns what its page mapped to
\* at one instant of the call.
THEOREM LookupsAreAtomic == Spec => ImplementsFlatMap
<1>1. Init => Flat!Init
  <2> SUFFICES ASSUME Init PROVE Flat!Init
    BY Zenon
  <2>1. \A p \in PageIds : Lookup(p) = Null
    BY Zenon DEF Init, Lookup, P3, P2, P1, Child
  <2>2. \A r \in Readers : CallOf(rd[r]) = [pc |-> "idle"]
    BY Zenon DEF Init, CallOf, Idle
  <2> QED BY <2>1, <2>2, Zenon DEF Flat!Init, Flat!Idle
<1>2. MapInv /\ [Next]_vars
      => [Flat!Next]_<<[p \in PageIds |-> Lookup(p)], [r \in Readers |-> CallOf(rd[r])]>>
  <2> SUFFICES ASSUME MapInv, [Next]_vars
               PROVE  \/ Flat!Next
                      \/ UNCHANGED <<[p \in PageIds |-> Lookup(p)], [r \in Readers |-> CallOf(rd[r])]>>
    BY Zenon
  <2>1. ASSUME NEW w \in Shards, ShardStep(w)
        PROVE  \/ Flat!Write
               \/ UNCHANGED <<[p \in PageIds |-> Lookup(p)], [r \in Readers |-> CallOf(rd[r])]>>
    BY <2>1, ShardStepWrites, Zenon
  <2>2. ASSUME NEW r \in Readers, GetSpan(r) PROVE Flat!Begin(r)
    BY <2>2, GetSpanBegins, Zenon
  <2>3. ASSUME NEW r \in Readers, GetSpanLoad(r)
        PROVE  \/ Flat!Return(r)
               \/ UNCHANGED <<[p \in PageIds |-> Lookup(p)], [u \in Readers |-> CallOf(rd[u])]>>
    BY <2>3, LoadReturns, Zenon
  <2>4. CASE Reset
    <3>1. \A p \in PageIds : Lookup(p)' = Null
      BY <2>4, ResetKeeps, Zenon
    <3>2. UNCHANGED [r \in Readers |-> CallOf(rd[r])]
      BY <2>4, Zenon DEF Reset, CallOf
    <3>3. Flat!Forget
      BY <3>1, <3>2, Zenon DEF Flat!Forget
    <3> QED BY <3>3, Zenon DEF Flat!Next
  <2>5. CASE UNCHANGED vars
    BY <2>5, Zenon DEF vars, Lookup, P3, P2, P1, Child, CallOf
  <2> QED BY <2>1, <2>2, <2>3, <2>4, <2>5, Zenon DEF Next, ShardStep, Flat!Next
<1> QED BY <1>1, <1>2, MapInvariance, PTL DEF Spec, ImplementsFlatMap, Flat!Spec

-----------------------------------------------------------------------------
(* What the leaves hold *)

Pages(s) == Run(range[s].pages[1], range[s].pages[2])

\* The shard has page p in use.
Mine(w, p) == \E s \in Spans : range[s].shard = w /\ p \in Pages(s)

\* The leaf store of page p is still to come.
Pending(o, p) == p \in Run(o.cur, o.remaining) \/ \E s \in o.then : p \in Pages(s)

\* What the leaf of a page of s holds, by what the shard of s is doing.
LeafOK(s, p) ==
    LET w == range[s].shard
        o == op[w]
        v == Lookup(p)
    IN  IF o.pc \in Ensures /\ o.span = s THEN v = Null
        ELSE IF o.pc = "set" /\ Pending(o, p) THEN v # Null => range[v].shard = w
        ELSE IF o.pc = "clear" /\ o.span = s THEN v = IF p < o.cur THEN Null ELSE s
        ELSE v = s

\* SetSpan and ClearRange write pages of their own descriptor, and a descriptor
\* that is about to be deleted has no pages.
WriteOK(w, o) ==
    /\ o.pc = "set" => /\ range[o.span].shard = w /\ Run(o.cur, o.remaining) \subseteq Pages(o.span)
                       /\ \A s \in o.retired : Pages(s) = {}
    /\ o.pc = "clear" => LET q == range[o.span].pages
                         IN  q[1] <= o.cur /\ o.cur + o.remaining = q[1] + q[2]

Free(p) == \A s \in Spans : InUse(s) => p \notin Pages(s)

LeafInv ==
    /\ \A s, t \in Spans : s # t /\ InUse(s) /\ InUse(t) => Pages(s) \cap Pages(t) = {}
    /\ \A p \in Nat : Free(p) => Lookup(p) = Null
    /\ \A s \in Spans : InUse(s) => \A p \in Pages(s) : LeafOK(s, p)
    /\ \A w \in Shards : WriteOK(w, op[w])

LEMMA LookupType ==
    ASSUME TreeInv, NEW p \in Nat PROVE Lookup(p) \in Spans \cup {Null}
  BY Paths, Zenon DEF TreeInv

LEMMA PagesType ==
    ASSUME NEW s, NEW p \in Pages(s) PROVE p \in Nat
  BY Zenon DEF Pages, Run

\* Other shards and their pages are as they were.
LEMMA LeafElsewhere ==
    ASSUME TreeInv, OpInv, LeafInv, NEW w \in Shards, Apart(w), NEW u \in Shards \ {w},
           \A p \in Nat : Lookup(p)' = Lookup(p) \/ Mine(w, p)
    PROVE  /\ \A s \in Spans : range[s].shard = u => /\ range'[s] = range[s] /\ Pages(s)' = Pages(s)
           /\ \A s \in Spans : range'[s].shard = u => range[s].shard = u
           /\ \A s \in Spans : range[s].shard = u => \A p \in Pages(s) : LeafOK(s, p)'
           /\ WriteOK(u, op[u])'
<1>1. /\ op'[u] = op[u]
      /\ \A s \in Spans : range[s].shard = u \/ range'[s].shard = u => range'[s] = range[s]
  BY Zenon DEF Apart
<1>2. \A s \in Spans : range[s].shard = u => Pages(s)' = Pages(s)
  BY <1>1, Zenon DEF Pages
<1>3. PICK o : o = op[u]
  BY Zenon
<1>4. /\ o.pc = "set" => /\ o \in SetRec /\ o.then \subseteq Spans /\ o.retired \subseteq Spans
                         /\ o.span \in Spans
                         /\ \A s \in o.then \cup o.retired : range[s].shard = u
      /\ o.pc = "clear" => o.span \in Spans /\ range[o.span].shard = u
  <2>1. /\ o.pc = "set" => o \in SetRec /\ SetOK(u, o)
        /\ o.pc = "clear" => o \in ClearRec /\ ClearOK(u, o)
    BY <1>3, OpCases, Zenon DEF OpInv, ShardOK
  <2> QED BY <2>1, Zenon DEF SetRec, ClearRec, SetOK, ClearOK
<1>5. WriteOK(u, o)
  BY <1>3, Zenon DEF LeafInv
<1>6. WriteOK(u, o)'
  <2>1. ASSUME o.pc = "set"
        PROVE  /\ range'[o.span].shard = u /\ Run(o.cur, o.remaining) \subseteq Pages(o.span)'
               /\ \A s \in o.retired : Pages(s)' = {}
    <3>1. /\ range[o.span].shard = u /\ Run(o.cur, o.remaining) \subseteq Pages(o.span)
          /\ \A s \in o.retired : Pages(s) = {} /\ range[s].shard = u
          /\ o.span \in Spans /\ o.retired \subseteq Spans
      BY <2>1, <1>4, <1>5, Zenon DEF WriteOK
    <3> QED BY <3>1, <1>1, <1>2, ZenonT(60)
  <2>2. o.pc = "clear" => LET q == range'[o.span].pages
                          IN  q[1] <= o.cur /\ o.cur + o.remaining = q[1] + q[2]
    BY <1>1, <1>4, <1>5, Zenon DEF WriteOK
  <2> QED BY <2>1, <2>2, Zenon DEF WriteOK
<1>7. ASSUME NEW s \in Spans, range[s].shard = u, NEW p \in Pages(s) PROVE LeafOK(s, p)'
  <2>1. p \in Nat /\ InUse(s) /\ LeafOK(s, p)
    BY <1>7, PagesType, Zenon DEF LeafInv, InUse
  <2>2. ~Mine(w, p)
    <3>1. ASSUME NEW t \in Spans, range[t].shard = w, p \in Pages(t) PROVE FALSE
      <4>1. t # s /\ InUse(t)
        BY <1>7, <3>1, Zenon DEF InUse
      <4> QED BY <4>1, <1>7, <3>1, <2>1, Zenon DEF LeafInv
    <3> QED BY <3>1, Zenon DEF Mine
  <2>3. Lookup(p)' = Lookup(p)
    BY <2>1, <2>2, Zenon
  <2>4. o.pc = "set" => (Pending(o, p)' <=> Pending(o, p))
    BY <1>2, <1>4, Zenon DEF Pending
  <2>5. range'[s] = range[s]
    BY <1>1, <1>7, Zenon
  <2>6. Lookup(p) # Null /\ range[Lookup(p)].shard = u => range'[Lookup(p)].shard = u
    BY <2>1, <1>1, LookupType, Zenon
  <2>7. PICK v : v = Lookup(p)
    BY Zenon
  <2>8. IF o.pc \in Ensures /\ o.span = s THEN v = Null
        ELSE IF o.pc = "set" /\ Pending(o, p) THEN v # Null => range[v].shard = u
        ELSE IF o.pc = "clear" /\ o.span = s THEN v = IF p < o.cur THEN Null ELSE s
        ELSE v = s
    BY <2>1, <2>7, <1>3, <1>7, Zenon DEF LeafOK
  <2>9. IF o.pc \in Ensures /\ o.span = s THEN v = Null
        ELSE IF o.pc = "set" /\ Pending(o, p)' THEN v # Null => range'[v].shard = u
        ELSE IF o.pc = "clear" /\ o.span = s THEN v = IF p < o.cur THEN Null ELSE s
        ELSE v = s
    BY <2>4, <2>6, <2>7, <2>8, Zenon
  <2> QED BY <2>3, <2>5, <2>7, <2>9, <1>1, <1>3, <1>7, ZenonT(60) DEF LeafOK
<1> QED BY <1>1, <1>2, <1>3, <1>6, <1>7, Zenon

\* A step of shard w keeps what the leaves hold when it does for w's own pages:
\* pages it takes were free, pages it gives up have an empty leaf.
LEMMA LeafAssemble ==
    ASSUME TreeInv, OpInv, LeafInv, NEW w \in Shards, OpType', Apart(w),
           \A p \in Nat : Lookup(p)' = Lookup(p) \/ Mine(w, p),
           \A s, t \in Spans : s # t /\ range'[s].shard = w /\ range'[t].shard = w
                                  => Pages(s)' \cap Pages(t)' = {},
           \A s \in Spans : range'[s].shard = w => \A p \in Pages(s)' : Mine(w, p) \/ Free(p),
           \A p \in Nat : Mine(w, p) => Mine(w, p)' \/ Lookup(p)' = Null,
           \A s \in Spans : range'[s].shard = w => \A p \in Pages(s)' : LeafOK(s, p)',
           WriteOK(w, op[w])'
    PROVE  LeafInv'
<1>1. ASSUME NEW u \in Shards \ {w}
      PROVE  /\ \A s \in Spans : range[s].shard = u => /\ range'[s] = range[s] /\ Pages(s)' = Pages(s)
             /\ \A s \in Spans : range'[s].shard = u => range[s].shard = u
             /\ \A s \in Spans : range[s].shard = u => \A p \in Pages(s) : LeafOK(s, p)'
             /\ WriteOK(u, op[u])'
  BY LeafElsewhere, Zenon
<1>2. \A s \in Spans : (InUse(s)' <=> range'[s].shard \in Shards) /\ (InUse(s) <=> range[s].shard \in Shards)
  BY Zenon DEF InUse, OpInv, OpType
<1>3. \A s \in Spans : InUse(s)' /\ range'[s].shard # w =>
         InUse(s) /\ range[s].shard # w /\ range'[s] = range[s] /\ Pages(s)' = Pages(s)
  BY <1>1, <1>2, Zenon
<1>4. \A s, t \in Spans : s # t /\ InUse(s) /\ InUse(t) => Pages(s) \cap Pages(t) = {}
  BY Zenon DEF LeafInv
<1>5. ASSUME NEW s \in Spans, NEW t \in Spans, InUse(t)', range'[s].shard = w, range'[t].shard # w,
             NEW p, p \in Pages(s)', p \in Pages(t)'
      PROVE  FALSE
  <2>1. InUse(t) /\ range[t].shard # w /\ p \in Pages(t)
    BY <1>3, <1>5, Zenon
  <2>2. Mine(w, p)
    BY <1>5, <2>1, Zenon DEF Free
  <2>3. PICK x \in Spans : range[x].shard = w /\ p \in Pages(x)
    BY <2>2, Zenon DEF Mine
  <2>4. InUse(x) /\ x # t
    BY <2>1, <2>3, <1>2, Zenon
  <2> QED BY <2>1, <2>3, <2>4, <1>4, Zenon
<1>6. ASSUME NEW s \in Spans, NEW t \in Spans, s # t, InUse(s)', InUse(t)'
      PROVE  Pages(s)' \cap Pages(t)' = {}
  <2>1. CASE range'[s].shard = w /\ range'[t].shard = w
    BY <1>6, <2>1, Zenon
  <2>2. CASE range'[s].shard = w /\ range'[t].shard # w
    BY <1>5, <1>6, <2>2, Zenon
  <2>3. CASE range'[s].shard # w /\ range'[t].shard = w
    BY <1>5, <1>6, <2>3, Zenon
  <2>4. CASE range'[s].shard # w /\ range'[t].shard # w
    BY <1>3, <1>4, <1>6, <2>4, Zenon
  <2> QED BY <2>1, <2>2, <2>3, <2>4, Zenon
<1>7. ASSUME NEW p \in Nat, Free(p)' PROVE Lookup(p)' = Null
  <2>1. CASE Mine(w, p)
    <3>1. ~Mine(w, p)'
      <4>1. ASSUME NEW s \in Spans, range'[s].shard = w, p \in Pages(s)' PROVE FALSE
        <5>1. InUse(s)'
          BY <1>2, <4>1, Zenon
        <5> QED BY <1>7, <4>1, <5>1, Zenon DEF Free
      <4> QED BY <4>1, Zenon DEF Mine
    <3> QED BY <2>1, <3>1, Zenon
  <2>2. CASE ~Mine(w, p)
    <3>1. ASSUME NEW s \in Spans, InUse(s), p \in Pages(s) PROVE FALSE
      <4>1. range[s].shard \in Shards \ {w}
        BY <1>2, <2>2, <3>1, Zenon DEF Mine
      <4>2. range'[s] = range[s] /\ Pages(s)' = Pages(s)
        BY <1>1, <4>1, Zenon
      <4>3. InUse(s)'
        BY <1>2, <4>1, <4>2, Zenon
      <4> QED BY <1>7, <3>1, <4>2, <4>3, Zenon DEF Free
    <3>2. Free(p)
      BY <3>1, Zenon DEF Free
    <3> QED BY <2>2, <3>2, Zenon DEF LeafInv
  <2> QED BY <2>1, <2>2, Zenon
<1>8. ASSUME NEW s \in Spans, InUse(s)', NEW p \in Pages(s)' PROVE LeafOK(s, p)'
  <2>1. CASE range'[s].shard = w
    BY <1>8, <2>1, Zenon
  <2>2. CASE range'[s].shard # w
    <3>1. Pages(s)' = Pages(s) /\ range[s].shard \in Shards \ {w}
      BY <1>2, <1>3, <1>8, <2>2, Zenon
    <3>2. \A x \in Pages(s) : LeafOK(s, x)'
      BY <1>1, <3>1, Zenon
    <3>3. p \in Pages(s)
      BY <1>8, <3>1, Zenon
    <3> QED BY <3>2, <3>3, Zenon
  <2> QED BY <2>1, <2>2, Zenon
<1>9. \A u \in Shards : WriteOK(u, op[u])'
  BY <1>1, Zenon
<1> QED BY <1>6, <1>7, <1>8, <1>9, ZenonT(60) DEF LeafInv

\* While a shard is idle its pages are published.
LEMMA IdlePublished ==
    ASSUME LeafInv, NEW w \in Shards, op[w] = Idle, NEW s \in Spans, range[s].shard = w,
           NEW p \in Pages(s)
    PROVE  Lookup(p) = s
<1>1. LeafOK(s, p)
  BY Zenon DEF LeafInv, InUse
<1>2. op[w].pc \notin Ensures \cup {"set", "clear"}
  BY DEF Idle, Ensures
<1> QED BY <1>1, <1>2, Zenon DEF LeafOK

\* Steps after which shard w has the descriptors it had.
LEMMA LeafStays ==
    ASSUME TreeInv, OpInv, LeafInv, NEW w \in Shards, OpType', Apart(w), UNCHANGED range,
           \A p \in Nat : Lookup(p)' = Lookup(p) \/ Mine(w, p),
           \A s \in Spans : range[s].shard = w => \A p \in Pages(s) : LeafOK(s, p)',
           WriteOK(w, op[w])'
    PROVE  LeafInv'
<1>1. \A s \in Spans : Pages(s)' = Pages(s)
  BY Zenon DEF Pages
<1>2. \A p \in Nat : Mine(w, p)' <=> Mine(w, p)
  BY <1>1, Zenon DEF Mine
<1>3. \A s \in Spans : range[s].shard = w => \A p \in Pages(s) : Mine(w, p)
  BY Zenon DEF Mine
<1>4. \A s, t \in Spans : s # t /\ range'[s].shard = w /\ range'[t].shard = w
                             => Pages(s)' \cap Pages(t)' = {}
  BY <1>1, Zenon DEF LeafInv, InUse
<1>5. \A s \in Spans : range'[s].shard = w => \A p \in Pages(s)' : LeafOK(s, p)'
  BY <1>1, Zenon
<1>6. \A s \in Spans : range'[s].shard = w => \A p \in Pages(s)' : Mine(w, p) \/ Free(p)
  BY <1>1, <1>3, Zenon
<1> QED BY <1>2, <1>4, <1>5, <1>6, LeafAssemble, Zenon

\* A shard's own pages, when one of its descriptors goes and takes no leaf along.
LEMMA LeafDropped ==
    ASSUME TreeInv, OpInv, LeafInv, NEW w \in Shards, OpType', Apart(w), MapSame,
           op'[w] = Idle, NEW D, D \subseteq Spans,
           \A s \in D : range'[s].shard = Null /\ \A p \in Pages(s) : Lookup(p) = Null,
           \A s \in Spans \ D : range'[s] = range[s],
           \A s \in Spans \ D : range[s].shard = w => \A p \in Pages(s) : Lookup(p) = s
    PROVE  LeafInv'
<1>1. \A s \in Spans \ D : Pages(s)' = Pages(s)
  BY Zenon DEF Pages
<1>2. ASSUME NEW s \in Spans, range'[s].shard = w
      PROVE  s \notin D /\ range[s].shard = w /\ InUse(s) /\ Pages(s)' = Pages(s)
  <2>1. s \notin D
    BY <1>2, Zenon
  <2> QED BY <1>1, <1>2, <2>1, Zenon DEF InUse
<1>3. ASSUME NEW s \in Spans, NEW t \in Spans, s # t, range'[s].shard = w, range'[t].shard = w
      PROVE  Pages(s)' \cap Pages(t)' = {}
  <2>1. InUse(s) /\ InUse(t) /\ Pages(s)' = Pages(s) /\ Pages(t)' = Pages(t)
    BY <1>2, <1>3, Zenon
  <2> QED BY <1>3, <2>1, Zenon DEF LeafInv
<1>4. ASSUME NEW s \in Spans, range'[s].shard = w, NEW p \in Pages(s)' PROVE Mine(w, p) \/ Free(p)
  <2>1. p \in Pages(s) /\ range[s].shard = w
    BY <1>2, <1>4, Zenon
  <2> QED BY <2>1, Zenon DEF Mine
<1>5. ASSUME NEW p \in Nat, Mine(w, p) PROVE Mine(w, p)' \/ Lookup(p)' = Null
  <2>1. PICK s \in Spans : range[s].shard = w /\ p \in Pages(s)
    BY <1>5, Zenon DEF Mine
  <2>2. CASE s \in D
    BY <2>1, <2>2, Zenon DEF MapSame
  <2>3. CASE s \notin D
    <3>1. range'[s].shard = w /\ p \in Pages(s)'
      BY <1>1, <2>1, <2>3, Zenon
    <3> QED BY <3>1, Zenon DEF Mine
  <2> QED BY <2>2, <2>3, Zenon
<1>6. Idle.pc \notin Ensures \cup {"set", "clear"}
  BY DEF Idle, Ensures
<1>7. ASSUME NEW s \in Spans, range'[s].shard = w, NEW p \in Pages(s)' PROVE LeafOK(s, p)'
  <2>1. p \in Pages(s) /\ s \in Spans \ D /\ range[s].shard = w
    BY <1>2, <1>7, Zenon
  <2>2. p \in Nat /\ Lookup(p) = s
    BY <2>1, PagesType, Zenon
  <2>3. Lookup(p)' = s
    BY <2>2, Zenon DEF MapSame
  <2> QED BY <1>6, <1>7, <2>3, Zenon DEF LeafOK
<1>8. WriteOK(w, op[w])'
  BY <1>6, Zenon DEF WriteOK
<1> QED BY <1>3, <1>4, <1>5, <1>7, <1>8, LeafAssemble, Zenon DEF MapSame

-----------------------------------------------------------------------------
(* EnsureRange and the leaves *)

LEMMA AllocLeaves ==
    ASSUME TreeInv, OpInv, LeafInv, OpInv', MapSame, NEW w \in Shards, AllocSpan(w) PROVE LeafInv'
<1>1. PICK t \in Spans, q \in Requests :
         /\ ~InUse(t) /\ SetRange(t, w, q) /\ Goto(w, Ensuring(t, q))
         /\ \A s \in Spans : InUse(s) => PagesOf(q) \cap PagesOf(range[s].pages) = {}
  BY Zenon DEF AllocSpan
<1>2. op[w] = Idle
  BY OpCases, Zenon DEF AllocSpan, At, OpInv
<1>3. /\ op' = [op EXCEPT ![w] = Ensuring(t, q)]
      /\ range' = [range EXCEPT ![t] = [pages |-> q, shard |-> w]]
      /\ range[t].shard = Null
  BY <1>1, Zenon DEF Goto, SetRange, InUse
<1>4. /\ OpType' /\ Apart(w) /\ op'[w] = Ensuring(t, q) /\ range'[t].pages = q /\ range'[t].shard = w
      /\ \A s \in Spans \ {t} : range'[s] = range[s]
  <2>1. OpType'
    BY Zenon DEF OpInv
  <2>2. /\ op'[w] = Ensuring(t, q) /\ range'[t] = [pages |-> q, shard |-> w]
        /\ \A u \in Shards \ {w} : op'[u] = op[u]
        /\ \A s \in Spans \ {t} : range'[s] = range[s]
    BY <1>3, Zenon DEF OpInv, OpType
  <2>3. range'[t].pages = q /\ range'[t].shard = w
    BY <2>2
  <2>4. Apart(w)
    BY <1>3, <2>2, <2>3, Zenon DEF Apart
  <2> QED BY <2>1, <2>2, <2>3, <2>4, Zenon
<1>5. op'[w].pc = "ensure" /\ op'[w].span = t
  BY <1>4 DEF Ensuring
<1>6. \A s \in Spans \ {t} : Pages(s)' = Pages(s)
  BY <1>4, Zenon DEF Pages
<1>7. ASSUME NEW p \in Pages(t)' PROVE Free(p)
  <2>1. p \in PagesOf(q)
    <3>1. p \in Run(q[1], q[2]) /\ q[1] \in Nat /\ q[2] \in Nat
      BY <1>4, <1>7, Zenon DEF Pages
    <3> QED BY <3>1 DEF Run, PagesOf
  <2>2. ASSUME NEW s \in Spans, InUse(s), p \in Pages(s) PROVE FALSE
    <3>1. range[s].pages \in Nat \X Nat
      BY Zenon DEF OpInv, OpType
    <3>2. p \in PagesOf(range[s].pages)
      BY <2>2, <3>1 DEF Pages, Run, PagesOf
    <3> QED BY <1>1, <2>1, <2>2, <3>2, Zenon
  <2> QED BY <2>2, Zenon DEF Free
<1>8. ASSUME NEW s \in Spans, range'[s].shard = w, s # t
      PROVE  /\ range[s].shard = w /\ Pages(s)' = Pages(s)
             /\ \A p \in Pages(s) : p \in Nat /\ Lookup(p) = s /\ ~Free(p)
  <2>1. range[s].shard = w /\ Pages(s)' = Pages(s)
    BY <1>4, <1>6, <1>8, Zenon
  <2>2. \A p \in Pages(s) : ~Free(p)
    BY <2>1, Zenon DEF Free, InUse
  <2> QED BY <2>1, <2>2, <1>2, IdlePublished, PagesType, ZenonT(60)
<1>9. ASSUME NEW s \in Spans, range'[s].shard = w, NEW p \in Pages(s)' PROVE Mine(w, p) \/ Free(p)
  <2>1. CASE s = t
    BY <1>7, <1>9, <2>1, Zenon
  <2>2. CASE s # t
    <3>1. range[s].shard = w /\ p \in Pages(s)
      BY <1>8, <1>9, <2>2, Zenon
    <3> QED BY <3>1, Zenon DEF Mine
  <2> QED BY <2>1, <2>2, Zenon
<1>10. ASSUME NEW s \in Spans, NEW x \in Spans, s # x, range'[s].shard = w, range'[x].shard = w
       PROVE  Pages(s)' \cap Pages(x)' = {}
  <2>1. CASE s = t
    BY <2>1, <1>7, <1>8, <1>10, Zenon
  <2>2. CASE x = t
    BY <2>2, <1>7, <1>8, <1>10, Zenon
  <2>3. CASE s # t /\ x # t
    BY <2>3, <1>8, <1>10, Zenon DEF LeafInv, InUse
  <2> QED BY <2>1, <2>2, <2>3, Zenon
<1>11. \A p \in Nat : Mine(w, p) => Mine(w, p)'
  <2>1. ASSUME NEW p \in Nat, NEW s \in Spans, range[s].shard = w, p \in Pages(s) PROVE Mine(w, p)'
    <3>1. s # t
      BY <1>3, <2>1, Zenon
    <3> QED BY <1>4, <1>6, <2>1, <3>1, Zenon DEF Mine
  <2> QED BY <2>1, Zenon DEF Mine
<1>12. "ensure" \in Ensures
  BY DEF Ensures
<1>13. ASSUME NEW s \in Spans, range'[s].shard = w, NEW p \in Pages(s)' PROVE LeafOK(s, p)'
  <2>1. CASE s = t
    <3>1. p \in Nat /\ Lookup(p) = Null
      BY <2>1, <1>4, <1>7, <1>13 DEF LeafInv, Pages, Run
    <3>2. Lookup(p)' = Null
      BY <3>1, Zenon DEF MapSame
    <3> QED BY <2>1, <3>2, <1>4, <1>5, <1>12, ZenonT(60) DEF LeafOK
  <2>2. CASE s # t
    <3>1. p \in Nat /\ Lookup(p)' = s
      BY <2>2, <1>8, <1>13, ZenonT(60) DEF MapSame
    <3>2. op'[w].pc # "set" /\ op'[w].pc # "clear" /\ op'[w].span # s
      BY <1>5, <2>2
    <3> QED BY <3>1, <3>2, <1>13, Zenon DEF LeafOK
  <2> QED BY <2>1, <2>2, Zenon
<1>14. WriteOK(w, op[w])'
  BY <1>5 DEF WriteOK
<1> QED BY <1>4, <1>9, <1>10, <1>11, <1>13, <1>14, LeafAssemble, ZenonT(60) DEF MapSame

\* What the leaves of a shard in EnsureRange hold.
LEMMA EnsureOwn ==
    ASSUME OpInv, LeafInv, NEW w \in Shards, op[w] \in EnsureRec,
           NEW s \in Spans, range[s].shard = w, NEW p \in Pages(s)
    PROVE  Lookup(p) = IF s = op[w].span THEN Null ELSE s
<1>1. LeafOK(s, p)
  BY Zenon DEF LeafInv, InUse
<1>2. op[w].pc \in Ensures /\ op[w].pc # "set" /\ op[w].pc # "clear"
  BY DEF EnsureRec, Ensures
<1> QED BY <1>1, <1>2, Zenon DEF LeafOK

LEMMA OneMoves ==
    ASSUME OpInv, OpInv', NEW w \in Shards, NEW o, Goto(w, o), UNCHANGED range
    PROVE  OpType' /\ op'[w] = o /\ Apart(w)
<1>1. op'[w] = o /\ \A u \in Shards \ {w} : op'[u] = op[u]
  BY Zenon DEF OpInv, OpType, Goto
<1> QED BY <1>1, Zenon DEF OpInv, Apart

\* EnsureRange goes on.
LEMMA EnsureOnLeaves ==
    ASSUME TreeInv, OpInv, LeafInv, OpInv', MapSame, NEW w \in Shards, op[w] \in EnsureRec,
           NEW o, Goto(w, o), o.pc \in Ensures, o.span = op[w].span, UNCHANGED range
    PROVE  LeafInv'
<1>1. OpType' /\ op'[w] = o /\ Apart(w)
  BY OneMoves, Zenon
<1>2. o.pc # "set" /\ o.pc # "clear"
  BY DEF Ensures
<1>3. ASSUME NEW s \in Spans, range[s].shard = w, NEW p \in Pages(s) PROVE LeafOK(s, p)'
  <2>1. p \in Nat /\ Lookup(p) = IF s = op[w].span THEN Null ELSE s
    BY <1>3, EnsureOwn, PagesType, ZenonT(60)
  <2>2. Lookup(p)' = IF s = op[w].span THEN Null ELSE s
    BY <2>1, Zenon DEF MapSame
  <2> QED BY <2>2, <1>1, <1>2, <1>3, Zenon DEF LeafOK
<1>4. WriteOK(w, op[w])'
  BY <1>1, <1>2, Zenon DEF WriteOK
<1> QED BY <1>1, <1>3, <1>4, LeafStays, Zenon DEF MapSame

LEMMA EnsureRecs ==
    ASSUME NEW o \in EnsureRec, NEW pc \in Ensures
    PROVE  /\ [o EXCEPT !.pc = pc].pc = pc /\ [o EXCEPT !.pc = pc].span = o.span
           /\ Advanced(o).pc = "ensure" /\ Advanced(o).span = o.span
<1>1. [o EXCEPT !.pc = pc].pc = pc /\ [o EXCEPT !.pc = pc].span = o.span
  BY Zenon DEF EnsureRec
<1>2. PICK c, m : c = o.cur + StepOf(o) /\ m = o.remaining - StepOf(o)
  BY Zenon
<1>3. Advanced(o) = [o EXCEPT !.cur = c, !.remaining = m, !.pc = "ensure"]
  BY <1>2, Zenon DEF Advanced
<1>4. /\ [o EXCEPT !.cur = c, !.remaining = m, !.pc = "ensure"].pc = "ensure"
      /\ [o EXCEPT !.cur = c, !.remaining = m, !.pc = "ensure"].span = o.span
  BY Zenon DEF EnsureRec
<1> QED BY <1>1, <1>3, <1>4, Zenon

\* EnsureRange fails: no leaf of the mapping has been written.
LEMMA EnsureEndLeaves ==
    ASSUME TreeInv, OpInv, LeafInv, OpInv', MapSame, NEW w \in Shards, op[w] \in EnsureRec,
           EnsureFails(w)
    PROVE  LeafInv'
<1>1. PICK t \in Spans : t = op[w].span
  BY Zenon DEF EnsureRec
<1>2. /\ op' = [op EXCEPT ![w] = Idle]
      /\ range' = [range EXCEPT ![t] = [pages |-> <<0, 0>>, shard |-> Null]]
      /\ range[t].shard = w
  BY <1>1, Zenon DEF EnsureFails, SetRange, Goto, OpInv, ShardOK, EnsureOK
<1>3. /\ op'[w] = Idle /\ range'[t] = [pages |-> <<0, 0>>, shard |-> Null]
      /\ \A u \in Shards \ {w} : op'[u] = op[u]
      /\ \A s \in Spans \ {t} : range'[s] = range[s]
  BY <1>2, Zenon DEF OpInv, OpType
<1>4. range'[t].shard = Null
  BY <1>3
<1>5. OpType' /\ Apart(w)
  BY <1>2, <1>3, <1>4, Zenon DEF OpInv, Apart
<1>6. \A p \in Pages(t) : Lookup(p) = Null
  BY <1>1, <1>2, EnsureOwn, Zenon
<1>7. \A s \in Spans \ {t} : range[s].shard = w => \A p \in Pages(s) : Lookup(p) = s
  BY <1>1, EnsureOwn, Zenon
<1>8. PICK D : D = {t}
  BY Zenon
<1>9. /\ D \subseteq Spans
      /\ \A s \in D : range'[s].shard = Null /\ \A p \in Pages(s) : Lookup(p) = Null
      /\ \A s \in Spans \ D : range'[s] = range[s]
      /\ \A s \in Spans \ D : range[s].shard = w => \A p \in Pages(s) : Lookup(p) = s
  BY <1>3, <1>4, <1>6, <1>7, <1>8, Zenon
<1> QED BY <1>3, <1>5, <1>9, LeafDropped, Zenon

\* EnsureRange has prepared everything, and the leaf stores begin.
LEMMA EnsureSetLeaves ==
    ASSUME TreeInv, OpInv, LeafInv, OpInv', MapSame, NEW w \in Shards, op[w] \in EnsureRec,
           UNCHANGED range, Goto(w, Setting(op[w].span, range[op[w].span].pages, {}, {}))
    PROVE  LeafInv'
<1>1. PICK t \in Spans, q \in Nat \X Nat : t = op[w].span /\ q = range[t].pages
  BY Zenon DEF EnsureRec, OpInv, OpType
<1>2. range[t].shard = w /\ Pages(t) = Run(q[1], q[2])
  BY <1>1, Zenon DEF OpInv, ShardOK, EnsureOK, Pages
<1>3. PICK o \in SetRec : /\ o = Setting(t, q, {}, {}) /\ o.span = t /\ o.cur = q[1] /\ o.remaining = q[2]
                         /\ o.then = {} /\ o.retired = {}
  BY SettingRec
<1>4. OpType' /\ op'[w] = o /\ Apart(w)
  BY <1>1, <1>3, OneMoves, Zenon
<1>5. o.pc = "set" /\ o.pc \notin Ensures /\ o.pc # "clear"
  BY DEF SetRec, Ensures
<1>6. \A p : Pending(o, p)' <=> p \in Pages(t)
  BY <1>2, <1>3, Zenon DEF Pending
<1>7. ASSUME NEW s \in Spans, range[s].shard = w, NEW p \in Pages(s) PROVE LeafOK(s, p)'
  <2>1. p \in Nat /\ Lookup(p) = IF s = t THEN Null ELSE s
    BY <1>1, <1>7, EnsureOwn, PagesType, Zenon
  <2>2. Lookup(p)' = IF s = t THEN Null ELSE s
    BY <2>1, Zenon DEF MapSame
  <2>3. s # t => ~Pending(o, p)'
    BY <1>2, <1>6, <1>7, Zenon DEF LeafInv, InUse
  <2> QED BY <2>2, <2>3, <1>4, <1>5, <1>6, <1>7, Zenon DEF LeafOK
<1>8. WriteOK(w, op[w])'
  <2>1. Pages(t)' = Pages(t)
    BY Zenon DEF Pages
  <2> QED BY <2>1, <1>2, <1>3, <1>4, <1>5, Zenon DEF WriteOK
<1> QED BY <1>4, <1>7, <1>8, LeafStays, Zenon DEF MapSame

LEMMA EnsureLeaves ==
    ASSUME TreeInv, OpInv, LeafInv, OpInv', NEW w \in Shards,
           EnsureRange(w) \/ EnsureRoot(w) \/ EnsurePathLocked(w)
    PROVE  LeafInv'
<1>1. PICK o \in EnsureRec : o = op[w]
  BY OpCases, Zenon DEF EnsureRange, EnsureRoot, EnsurePathLocked, At, OpInv, Ensures
<1>2. \A pc \in Ensures : /\ [o EXCEPT !.pc = pc].pc = pc /\ [o EXCEPT !.pc = pc].span = o.span
                          /\ Advanced(o).pc = "ensure" /\ Advanced(o).span = o.span
  BY EnsureRecs, Zenon
<1>3. {"ensure", "lock", "path1", "path2", "path3"} \subseteq Ensures
  BY DEF Ensures
<1>4. MapSame
  <2>1. CASE EnsureRange(w)
    BY <2>1, TreeUnchanged, Zenon DEF EnsureRange
  <2>2. CASE EnsureRoot(w)
    <3>1. CASE root_ = Null
      BY <2>2, <3>1, RootPublished, Zenon DEF EnsureRoot, MapSame
    <3>2. CASE root_ # Null
      BY <2>2, <3>2, TreeUnchanged, Zenon DEF EnsureRoot, tree
    <3> QED BY <3>1, <3>2, Zenon
  <2>3. CASE EnsurePathLocked(w)
    BY <2>3, PathEffect, Zenon
  <2> QED BY <2>1, <2>2, <2>3, Zenon
<1>5. CASE EnsureFails(w)
  BY <1>1, <1>4, <1>5, EnsureEndLeaves, Zenon
<1>6. CASE UNCHANGED range /\ Goto(w, Setting(o.span, range[o.span].pages, {}, {}))
  BY <1>1, <1>4, <1>6, EnsureSetLeaves, Zenon
<1>7. CASE UNCHANGED range /\ Goto(w, Advanced(o))
  BY <1>1, <1>2, <1>3, <1>4, <1>7, EnsureOnLeaves, Zenon
<1>8. CASE UNCHANGED range /\ \E pc \in Ensures : Goto(w, [o EXCEPT !.pc = pc])
  BY <1>1, <1>2, <1>4, <1>8, EnsureOnLeaves, Zenon
<1>9. CASE EnsureRange(w)
  BY <1>1, <1>3, <1>5, <1>6, <1>7, <1>8, <1>9, ZenonT(60) DEF EnsureRange
<1>10. CASE EnsureRoot(w)
  BY <1>1, <1>3, <1>8, <1>10, Zenon DEF EnsureRoot
<1>11. CASE EnsurePathLocked(w)
  BY <1>1, <1>3, <1>5, <1>7, <1>8, <1>11, PathEffect, Zenon
<1> QED BY <1>9, <1>10, <1>11, Zenon

-----------------------------------------------------------------------------
(* SetSpan and the leaves *)

\* What the leaves of a shard in SetSpan hold.
LEMMA SetOwn ==
    ASSUME OpInv, LeafInv, NEW w \in Shards, NEW o \in SetRec, o = op[w],
           NEW s \in Spans, range[s].shard = w, NEW p \in Pages(s)
    PROVE  /\ p \in Nat
           /\ Pending(o, p) => (Lookup(p) # Null => range[Lookup(p)].shard = w)
           /\ ~Pending(o, p) => Lookup(p) = s
<1>1. LeafOK(s, p)
  BY Zenon DEF LeafInv, InUse
<1>2. o.pc = "set" /\ o.pc \notin Ensures /\ o.pc # "clear"
  BY DEF SetRec, Ensures
<1> QED BY <1>1, <1>2, PagesType, Zenon DEF LeafOK

\* The same, after a step.
LEMMA SetOwnNext ==
    ASSUME NEW w \in Shards, NEW o \in SetRec, op'[w] = o, NEW s \in Spans, range'[s].shard = w,
           NEW p \in Nat, Pending(o, p)' => (Lookup(p)' # Null => range'[Lookup(p)'].shard = w),
           ~Pending(o, p)' => Lookup(p)' = s
    PROVE  LeafOK(s, p)'
<1>1. o.pc = "set" /\ o.pc \notin Ensures /\ o.pc # "clear"
  BY DEF SetRec, Ensures
<1> QED BY <1>1, Zenon DEF LeafOK

SetWrites(w, o) == /\ range[o.span].shard = w /\ Run(o.cur, o.remaining) \subseteq Pages(o.span)
                   /\ \A s \in o.retired : Pages(s) = {}

LEMMA SetWriteOK ==
    ASSUME NEW o \in SetRec, NEW w \in Shards
    PROVE  (WriteOK(w, o) <=> SetWrites(w, o)) /\ (WriteOK(w, o)' <=> SetWrites(w, o)')
<1>1. o.pc = "set" /\ o.pc # "clear"
  BY DEF SetRec
<1> QED BY <1>1, Zenon DEF WriteOK, SetWrites

\* One leaf store.
LEMMA SetStoreLeaves ==
    ASSUME TreeInv, OpInv, LeafInv, OpInv', NEW w \in Shards, NEW o \in SetRec, o = op[w],
           o.remaining > 0, MapSet(o.cur, o.span), UNCHANGED range,
           NEW a \in SetRec, Goto(w, a), a.span = o.span, a.cur = o.cur + 1,
           a.remaining = o.remaining - 1, a.then = o.then, a.retired = o.retired
    PROVE  LeafInv'
<1>1. PICK c \in Nat, n \in Nat, t \in Spans : c = o.cur /\ n = o.remaining /\ t = o.span
  BY Zenon DEF SetRec
<1>2. OpType' /\ op'[w] = a /\ Apart(w)
  BY OneMoves, Zenon
<1>3. SetWrites(w, o)
  BY SetWriteOK, Zenon DEF LeafInv
<1>4. range[t].shard = w /\ Run(c, n) \subseteq Pages(t) /\ \A s \in o.retired : Pages(s) = {}
  BY <1>1, <1>3, ZenonT(60) DEF SetWrites
<1>5. Run(c, n) = Run(c + 1, n - 1) \cup {c}
  BY <1>1 DEF Run
<1>6. c \in Pages(t) /\ Mine(w, c)
  BY <1>4, <1>5, Zenon DEF Mine
<1>7. \A p \in Nat : Lookup(p)' = IF p = c THEN t ELSE Lookup(p)
  BY <1>1, Zenon DEF MapSet
<1>8. \A s \in Spans : Pages(s)' = Pages(s)
  BY Zenon DEF Pages
<1>9. ASSUME NEW p, p # c PROVE Pending(a, p)' <=> Pending(o, p)
  <2>1. o.then \subseteq Spans
    BY Zenon DEF SetRec
  <2>2. p \in Run(a.cur, a.remaining) <=> p \in Run(o.cur, o.remaining)
    BY <1>1, <1>5, <1>9, Zenon
  <2> QED BY <2>1, <2>2, <1>8, ZenonT(60) DEF Pending
<1>10. ASSUME NEW s \in Spans, range[s].shard = w, NEW p \in Pages(s) PROVE LeafOK(s, p)'
  <2>1. /\ p \in Nat
        /\ Pending(o, p) => (Lookup(p) # Null => range[Lookup(p)].shard = w)
        /\ ~Pending(o, p) => Lookup(p) = s
    BY <1>10, SetOwn
  <2>2. CASE p = c
    <3>1. s = t
      BY <2>2, <1>4, <1>6, <1>10, Zenon DEF LeafInv, InUse
    <3> QED BY <2>1, <2>2, <3>1, <1>2, <1>4, <1>7, SetOwnNext, ZenonT(60)
  <2>3. CASE p # c
    <3>1. (Pending(a, p)' <=> Pending(o, p)) /\ Lookup(p)' = Lookup(p)
      BY <2>1, <2>3, <1>7, <1>9, Zenon
    <3> QED BY <2>1, <3>1, <1>2, <1>10, SetOwnNext, ZenonT(60)
  <2> QED BY <2>2, <2>3, Zenon
<1>11. SetWrites(w, a)'
  <2>1. Run(a.cur, a.remaining) \subseteq Pages(t)
    BY <1>1, <1>4, <1>5, Zenon
  <2>2. a.retired \subseteq Spans
    BY Zenon DEF SetRec
  <2> QED BY <2>1, <2>2, <1>1, <1>4, <1>8 DEF SetWrites
<1>12. WriteOK(w, op[w])'
  BY <1>2, <1>11, SetWriteOK, Zenon
<1>13. \A p \in Nat : Lookup(p)' = Lookup(p) \/ Mine(w, p)
  BY <1>6, <1>7, Zenon
<1> QED BY <1>2, <1>10, <1>12, <1>13, LeafStays, ZenonT(60)

\* The next descriptor of a Split.
LEMMA SetNextLeaves ==
    ASSUME TreeInv, OpInv, LeafInv, OpInv', MapSame, NEW w \in Shards, NEW o \in SetRec, o = op[w],
           o.remaining = 0, UNCHANGED range, NEW x \in Spans, x \in o.then, range[x].shard = w,
           Goto(w, Setting(x, range[x].pages, o.then \ {x}, o.retired))
    PROVE  LeafInv'
<1>1. PICK q \in Nat \X Nat, N \in SUBSET Spans, R \in SUBSET Spans :
         q = range[x].pages /\ N = o.then \ {x} /\ R = o.retired
  <2>1. o.then \ {x} \in SUBSET Spans /\ o.retired \in SUBSET Spans /\ range[x].pages \in Nat \X Nat
    BY ZenonT(60) DEF SetRec, OpInv, OpType
  <2> QED BY <2>1, Zenon
<1>2. PICK a \in SetRec : /\ a = Setting(x, q, N, R) /\ a.span = x /\ a.cur = q[1] /\ a.remaining = q[2]
                         /\ a.then = N /\ a.retired = R
  BY SettingRec, SMTT(30)
<1>3. OpType' /\ op'[w] = a /\ Apart(w)
  BY <1>1, <1>2, OneMoves
<1>4. Pages(x) = Run(q[1], q[2]) /\ \A s \in Spans : Pages(s)' = Pages(s)
  BY <1>1, Zenon DEF Pages
<1>5. Run(o.cur, o.remaining) = {}
  BY DEF Run, SetRec
<1>6. ASSUME NEW p PROVE Pending(a, p)' <=> Pending(o, p)
  <2>1. Pending(a, p)' <=> p \in Pages(x) \/ \E s \in N : p \in Pages(s)
    BY <1>2, <1>4 DEF Pending
  <2>2. Pending(o, p) <=> \E s \in o.then : p \in Pages(s)
    BY <1>5, Zenon DEF Pending
  <2> QED BY <2>1, <2>2, <1>1, ZenonT(60)
<1>7. ASSUME NEW s \in Spans, range[s].shard = w, NEW p \in Pages(s) PROVE LeafOK(s, p)'
  <2>1. /\ p \in Nat
        /\ Pending(o, p) => (Lookup(p) # Null => range[Lookup(p)].shard = w)
        /\ ~Pending(o, p) => Lookup(p) = s
    BY <1>7, SetOwn
  <2>2. Lookup(p)' = Lookup(p)
    BY <2>1, Zenon DEF MapSame
  <2> QED BY <2>1, <2>2, <1>3, <1>6, <1>7, SetOwnNext, ZenonT(60)
<1>8. SetWrites(w, a)'
  <2>1. SetWrites(w, o)
    BY SetWriteOK, Zenon DEF LeafInv
  <2>2. \A s \in R : Pages(s) = {}
    BY <2>1, <1>1, Zenon DEF SetWrites
  <2>3. Run(a.cur, a.remaining) = Pages(x)' /\ range'[x].shard = w /\ \A s \in R : Pages(s)' = {}
    BY <2>2, <1>2, <1>4, Zenon
  <2> QED BY <2>3, <1>2, Zenon DEF SetWrites
<1>9. WriteOK(w, op[w])'
  BY <1>3, <1>8, SetWriteOK, ZenonT(60)
<1> QED BY <1>3, <1>7, <1>9, LeafStays, Zenon DEF MapSame

\* The end of SetSpan: nothing is pending, and what is deleted has no pages.
LEMMA SetEndLeaves ==
    ASSUME TreeInv, OpInv, LeafInv, OpInv', MapSame, NEW w \in Shards, NEW o \in SetRec, o = op[w],
           o.remaining = 0, o.then = {}, Goto(w, Idle),
           range' = [s \in Spans |-> IF s \in o.retired THEN Unused ELSE range[s]]
    PROVE  LeafInv'
<1>1. PICK D \in SUBSET Spans : D = o.retired
  BY Zenon DEF SetRec
<1>2. op'[w] = Idle /\ \A u \in Shards \ {w} : op'[u] = op[u]
  BY Zenon DEF OpInv, OpType, Goto
<1>3. \A s \in D : range[s].shard = w
  BY <1>1, Zenon DEF OpInv, ShardOK, SetOK
<1>4. \A s \in Spans : IF s \in D THEN range'[s] = Unused ELSE range'[s] = range[s]
  BY <1>1, ZenonT(60)
<1>5. Unused.shard = Null
  BY DEF Unused
<1>6. OpType' /\ Apart(w)
  BY <1>2, <1>3, <1>4, <1>5, ZenonT(60) DEF OpInv, Apart
<1>7. \A s \in D : range'[s].shard = Null /\ \A p \in Pages(s) : Lookup(p) = Null
  <2>1. SetWrites(w, o)
    BY SetWriteOK, Zenon DEF LeafInv
  <2>2. \A s \in D : Pages(s) = {}
    BY <2>1, <1>1, Zenon DEF SetWrites
  <2> QED BY <2>2, <1>4, <1>5, Zenon
<1>8. \A p : ~Pending(o, p)
  <2>1. Run(o.cur, o.remaining) = {}
    BY DEF Run, SetRec
  <2> QED BY <2>1, Zenon DEF Pending
<1>9. ASSUME NEW s \in Spans, range[s].shard = w, NEW p \in Pages(s) PROVE Lookup(p) = s
  BY <1>8, <1>9, SetOwn
<1>10. \A s \in Spans \ D : range'[s] = range[s]
  BY <1>4, Zenon
<1>11. \A s \in Spans \ D : range[s].shard = w => \A p \in Pages(s) : Lookup(p) = s
  BY <1>9, Zenon
<1> QED BY <1>2, <1>6, <1>7, <1>10, <1>11, LeafDropped, SMTT(30)

LEMMA SetLeaves ==
    ASSUME TreeInv, OpInv, LeafInv, OpInv', NEW w \in Shards, SetSpan(w) PROVE LeafInv'
<1>1. PICK o \in SetRec : o = op[w] /\ o.pc = "set"
  BY OpCases, Zenon DEF SetSpan, At, OpInv
<1>2. /\ SetOK(w, o) /\ o.cur \in Nat /\ o.remaining \in Nat /\ o.span \in Spans
      /\ o.then \subseteq Spans /\ o.retired \subseteq Spans
  BY <1>1, Zenon DEF OpInv, ShardOK, SetRec
<1>3. CASE UNCHANGED children /\ o.remaining = 0
  <2>1. MapSame
    BY <1>3, TreeUnchanged, ZenonT(60) DEF SetSpan, tree
  <2>2. CASE UNCHANGED range /\ \E x \in o.then : Goto(w, Setting(x, range[x].pages, o.then \ {x}, o.retired))
    <3>1. PICK x \in Spans : x \in o.then /\ Goto(w, Setting(x, range[x].pages, o.then \ {x}, o.retired))
      BY <2>2, <1>2, Zenon
    <3>2. range[x].shard = w
      BY <3>1, <1>2, ZenonT(60) DEF SetOK
    <3> QED BY <2>1, <2>2, <3>1, <3>2, <1>1, <1>3, SetNextLeaves
  <2>3. CASE /\ range' = [s \in Spans |-> IF s \in o.retired THEN Unused ELSE range[s]]
             /\ Goto(w, Idle) /\ o.then = {}
    BY <2>1, <2>3, <1>1, <1>3, SetEndLeaves, SMTT(30)
  <2>4. o.remaining # 0 \/ ~(o.remaining > 0)
    BY <1>2
  <2> QED BY <2>2, <2>3, <2>4, <1>1, <1>3, ZenonT(60) DEF SetSpan
<1>4. CASE o.remaining > 0
  <2>1. HasPath(o.cur) /\ o.remaining # 0
    BY <1>2, <1>4 DEF SetOK, Run
  <2>2. PICK c \in Nat, t \in Spans : c = o.cur /\ t = o.span
    BY <1>2, Zenon
  <2>3. /\ P3(c) # Null /\ root_' = root_ /\ in_use' = in_use /\ UNCHANGED range
        /\ children' = [children EXCEPT ![P3(c)][I3(c)] = t]
        /\ Goto(w, [o EXCEPT !.cur = @ + 1, !.remaining = @ - 1])
    BY <2>1, <2>2, <1>1, <1>4, ZenonT(60) DEF SetSpan, HasPath
  <2>4. MapSet(o.cur, o.span)
    BY <2>2, <2>3, StoreSets, ZenonT(60)
  <2>5. PICK d \in Nat, m \in Nat : d = o.cur + 1 /\ m = o.remaining - 1
    BY <1>2, <1>4
  <2> DEFINE b == [o EXCEPT !.cur = d, !.remaining = m]
  <2>6. Goto(w, b)
    BY <2>3, <2>5, Zenon
  <2>7. /\ b \in SetRec /\ b.span = o.span /\ b.cur = d /\ b.remaining = m /\ b.then = o.then
        /\ b.retired = o.retired
    BY Zenon DEF SetRec
  <2> HIDE DEF b
  <2>8. PICK a \in SetRec : /\ Goto(w, a) /\ a.span = o.span /\ a.cur = d /\ a.remaining = m
                           /\ a.then = o.then /\ a.retired = o.retired
    BY <2>6, <2>7, Zenon
  <2> QED BY <2>3, <2>4, <2>5, <2>8, <1>1, <1>4, SetStoreLeaves, SMTT(30)
<1>5. o.remaining = 0 => UNCHANGED children
  <2>1. o.remaining = 0 => ~(o.remaining > 0)
    OBVIOUS
  <2> QED BY <2>1, <1>1, Zenon DEF SetSpan
<1> QED BY <1>2, <1>3, <1>4, <1>5

-----------------------------------------------------------------------------
(* Splitting, coalescing and releasing *)

\* Shard w remaps its pages among the descriptors of C: what these have after
\* the step they had before, and all of it is pending.
Remaps(w, o, C) ==
    /\ \A x \in Spans \ C : range'[x] = range[x]
    /\ \A x \in C : range'[x].shard = w /\ \A p \in Pages(x)' : Pending(o, p)'
    /\ \A x, y \in C : x # y => Pages(x)' \cap Pages(y)' = {}
    /\ \A x \in C : \A p \in Pages(x)' : \E y \in C : range[y].shard = w /\ p \in Pages(y)
    /\ \A x \in C : \A p \in Pages(x) : range[x].shard = w => \E y \in C : p \in Pages(y)'
    /\ \A p \in Nat : Pending(o, p)' => \E y \in C : p \in Pages(y)'

LEMMA RemapLeaves ==
    ASSUME TreeInv, OpInv, LeafInv, OpInv', MapSame, NEW w \in Shards, op[w] = Idle, Apart(w),
           NEW o \in SetRec, op'[w] = o, SetWrites(w, o)',
           NEW C \in SUBSET Spans, Remaps(w, o, C)
    PROVE  LeafInv'
<1>1. \A x \in Spans \ C : range'[x] = range[x] /\ Pages(x)' = Pages(x)
  BY Zenon DEF Pages, Remaps
<1>2. \A x, y \in Spans : x # y /\ range[x].shard = w /\ range[y].shard = w => Pages(x) \cap Pages(y) = {}
  BY Zenon DEF LeafInv, InUse
<1>3. \A x \in Spans : range[x].shard = w => \A p \in Pages(x) : p \in Nat /\ Lookup(p) = x
  BY IdlePublished, PagesType, Zenon
<1>4. ASSUME NEW x \in C, NEW y \in Spans \ C, range[y].shard = w, NEW p, p \in Pages(x)', p \in Pages(y)
      PROVE  FALSE
  <2>1. PICK z \in C : range[z].shard = w /\ p \in Pages(z)
    BY <1>4, Zenon DEF Remaps
  <2>2. z # y /\ z \in Spans
    BY Zenon
  <2> QED BY <2>1, <2>2, <1>2, <1>4, Zenon
<1>5. ASSUME NEW x \in Spans, NEW y \in Spans, x # y, range'[x].shard = w, range'[y].shard = w
      PROVE  Pages(x)' \cap Pages(y)' = {}
  <2>1. CASE x \in C /\ y \in C
    BY <1>5, <2>1, Zenon DEF Remaps
  <2>2. CASE x \in C /\ y \notin C
    <3>1. range[y].shard = w /\ Pages(y)' = Pages(y)
      BY <1>1, <1>5, <2>2, Zenon
    <3>2. ASSUME NEW p, p \in Pages(x)', p \in Pages(y)' PROVE FALSE
      BY <1>4, <2>2, <3>1, <3>2, ZenonT(60)
    <3> QED BY <3>2, Zenon
  <2>3. CASE x \notin C /\ y \in C
    <3>1. range[x].shard = w /\ Pages(x)' = Pages(x)
      BY <1>1, <1>5, <2>3, Zenon
    <3>2. ASSUME NEW p, p \in Pages(x)', p \in Pages(y)' PROVE FALSE
      <4>1. p \in Pages(x) /\ x \in Spans \ C
        BY <2>3, <3>1, <3>2, Zenon
      <4> QED BY <1>4, <2>3, <3>1, <3>2, <4>1, ZenonT(60)
    <3> QED BY <3>2, Zenon
  <2>4. CASE x \notin C /\ y \notin C
    <3>1. range[x].shard = w /\ Pages(x)' = Pages(x) /\ range[y].shard = w /\ Pages(y)' = Pages(y)
      BY <1>1, <1>5, <2>4, Zenon
    <3> QED BY <1>2, <1>5, <3>1, Zenon
  <2> QED BY <2>1, <2>2, <2>3, <2>4, Zenon
<1>6. ASSUME NEW x \in Spans, range'[x].shard = w, NEW p \in Pages(x)' PROVE Mine(w, p)
  <2>1. CASE x \in C
    <3>1. PICK y \in C : range[y].shard = w /\ p \in Pages(y)
      BY <1>6, <2>1, Zenon DEF Remaps
    <3> QED BY <3>1, Zenon DEF Mine
  <2>2. CASE x \notin C
    <3>1. range[x].shard = w /\ p \in Pages(x)
      BY <1>1, <1>6, <2>2, ZenonT(60)
    <3> QED BY <3>1, Zenon DEF Mine
  <2> QED BY <2>1, <2>2, Zenon
<1>7. ASSUME NEW p \in Nat, Mine(w, p) PROVE Mine(w, p)'
  <2>1. PICK x \in Spans : range[x].shard = w /\ p \in Pages(x)
    BY <1>7, Zenon DEF Mine
  <2>2. CASE x \in C
    <3>1. PICK y \in C : p \in Pages(y)'
      BY <2>1, <2>2, Zenon DEF Remaps
    <3>2. range'[y].shard = w /\ y \in Spans
      BY Zenon DEF Remaps
    <3> QED BY <3>1, <3>2, Zenon DEF Mine
  <2>3. CASE x \notin C
    <3>1. range'[x].shard = w /\ p \in Pages(x)'
      BY <1>1, <2>1, <2>3, ZenonT(60)
    <3> QED BY <3>1, Zenon DEF Mine
  <2> QED BY <2>2, <2>3, Zenon
<1>8. ASSUME NEW x \in Spans, range'[x].shard = w, NEW p \in Pages(x)' PROVE LeafOK(x, p)'
  <2>1. PICK z \in Spans : range[z].shard = w /\ p \in Pages(z)
    BY <1>6, <1>8, Zenon DEF Mine
  <2>2. p \in Nat /\ Lookup(p)' = z
    BY <2>1, <1>3, ZenonT(60) DEF MapSame
  <2>3. CASE x \in C
    <3>1. Pending(o, p)' /\ range'[z].shard = w
      BY <1>1, <1>8, <2>1, <2>3, ZenonT(60) DEF Remaps
    <3> QED BY <1>8, <2>2, <3>1, SetOwnNext, SMTT(30)
  <2>4. CASE x \notin C
    <3>1. range[x].shard = w /\ p \in Pages(x)
      BY <1>1, <1>8, <2>4, ZenonT(60)
    <3>2. z = x
      BY <1>2, <2>1, <3>1, ZenonT(60)
    <3>3. ~Pending(o, p)'
      BY <1>4, <2>2, <2>4, <3>1, ZenonT(60) DEF Remaps
    <3> QED BY <1>8, <2>2, <3>2, <3>3, SetOwnNext, SMTT(30)
  <2> QED BY <2>3, <2>4, Zenon
<1>9. WriteOK(w, op[w])' /\ OpType'
  BY SetWriteOK, Zenon DEF OpInv
<1> QED BY <1>5, <1>6, <1>7, <1>8, <1>9, LeafAssemble, ZenonT(60) DEF MapSame

LEMMA SplitLeaves ==
    ASSUME TreeInv, OpInv, LeafInv, OpInv', MapSame, NEW w \in Shards, Split(w) PROVE LeafInv'
<1>1. op[w] = Idle
  BY OpCases, Zenon DEF Split, At, OpInv
<1>2. PICK s \in Spans, t \in Spans, a \in Nat, n \in Nat :
         /\ range[s] = [pages |-> <<a, n>>, shard |-> w] /\ range[t].shard = Null
         /\ \E k \in 1 .. n - 1 :
              /\ range' = [range EXCEPT ![t] = [pages |-> <<a, k>>, shard |-> w],
                                        ![s].pages = <<a + k, n - k>>]
              /\ Goto(w, Setting(t, <<a, k>>, {s}, {}))
  <2>1. PICK s \in Held(w), t \in Spans : \E k \in 1 .. range[s].pages[2] - 1 :
           /\ ~InUse(t)
           /\ range' = [range EXCEPT ![t] = [pages |-> <<range[s].pages[1], k>>, shard |-> w],
                                     ![s].pages = <<range[s].pages[1] + k, range[s].pages[2] - k>>]
           /\ Goto(w, Setting(t, <<range[s].pages[1], k>>, {s}, {}))
    BY Zenon DEF Split
  <2>2. /\ s \in Spans /\ range[s].shard = w
        /\ range[s] \in [pages : Nat \X Nat, shard : Shards \cup {Null}]
    BY Zenon DEF Held, OpInv, OpType
  <2>3. PICK a \in Nat, n \in Nat : range[s].pages = <<a, n>>
    BY <2>2
  <2>4. range[s].pages[1] = a /\ range[s].pages[2] = n
    BY <2>3
  <2>5. range[s] = [pages |-> <<a, n>>, shard |-> w]
    BY <2>2, <2>3, Zenon
  <2> QED BY <2>1, <2>2, <2>4, <2>5, ZenonT(60) DEF InUse
<1>3. PICK k \in 1 .. n - 1 :
         /\ range' = [range EXCEPT ![t] = [pages |-> <<a, k>>, shard |-> w],
                                   ![s].pages = <<a + k, n - k>>]
         /\ Goto(w, Setting(t, <<a, k>>, {s}, {}))
  BY <1>2, Zenon
<1>4. k \in Nat /\ a + k \in Nat /\ n - k \in Nat /\ <<a, k>> \in Nat \X Nat /\ <<a + k, n - k>> \in Nat \X Nat
  OBVIOUS
<1>5. range[s].shard = w /\ range[s].pages = <<a, n>> /\ s # t
  BY <1>2
<1>6. PICK x \in Nat \X Nat, y \in Nat \X Nat :
         /\ x = <<a, k>> /\ y = <<a + k, n - k>>
         /\ x[1] = a /\ x[2] = k /\ y[1] = a + k /\ y[2] = n - k
  BY <1>4
<1>7. /\ range'[t] = [pages |-> x, shard |-> w]
      /\ range'[s].pages = y /\ range'[s].shard = w
      /\ \A z \in Spans \ {s, t} : range'[z] = range[z]
  <2>1. range' = [range EXCEPT ![t] = [pages |-> x, shard |-> w], ![s].pages = y]
    BY <1>3, <1>6, ZenonT(60)
  <2> QED BY <2>1, <1>5, Zenon DEF OpInv, OpType
<1>8. range'[t].pages = x /\ range'[t].shard = w
  BY <1>7, SMTT(30)
<1>9. Pages(s) = Run(a, n) /\ Pages(t)' = Run(a, k) /\ Pages(s)' = Run(a + k, n - k)
  BY <1>5, <1>6, <1>7, <1>8, SMTT(30) DEF Pages
<1>10. Run(a, n) = Run(a, k) \cup Run(a + k, n - k) /\ Run(a, k) \cap Run(a + k, n - k) = {}
  BY <1>4 DEF Run
<1>11. PICK o \in SetRec : /\ Goto(w, o) /\ o.span = t /\ o.cur = a /\ o.remaining = k
                          /\ o.then = {s} /\ o.retired = {}
  <2>1. {s} \in SUBSET Spans /\ {} \in SUBSET Spans
    BY Zenon
  <2>2. PICK o \in SetRec : /\ o = Setting(t, x, {s}, {}) /\ o.span = t /\ o.cur = x[1] /\ o.remaining = x[2]
                           /\ o.then = {s} /\ o.retired = {}
    BY <2>1, SettingRec
  <2> QED BY <2>2, <1>3, <1>6, Zenon
<1>12. op'[w] = o /\ \A u \in Shards \ {w} : op'[u] = op[u]
  BY <1>11, Zenon DEF OpInv, OpType, Goto
<1>13. Apart(w)
  BY <1>2, <1>5, <1>7, <1>8, <1>12, Zenon DEF Apart
<1>14. \A p : Pending(o, p)' <=> p \in Pages(t)' \/ p \in Pages(s)'
  BY <1>9, <1>11, Zenon DEF Pending
<1>15. SetWrites(w, o)'
  BY <1>8, <1>9, <1>11, Zenon DEF SetWrites
<1>16. PICK C \in SUBSET Spans : C = {s, t}
  BY Zenon
<1>17. Remaps(w, o, C)
  <2>1. s \in C /\ t \in C /\ \A z \in C : z = s \/ z = t
    BY <1>16, Zenon
  <2>2. /\ \A z \in Spans \ C : range'[z] = range[z]
        /\ \A z \in C : range'[z].shard = w
    BY <2>1, <1>7, <1>8, Zenon
  <2>3. \A z \in C : \A p \in Pages(z)' : Pending(o, p)'
    BY <2>1, <1>14, Zenon
  <2>4. \A p \in Nat : Pending(o, p)' => \E y1 \in C : p \in Pages(y1)'
    BY <2>1, <1>14, Zenon
  <2>5. Pages(s)' \cap Pages(t)' = {} /\ Pages(t)' \cap Pages(s)' = {}
    BY <1>9, <1>10, ZenonT(60)
  <2>6. \A y1, y2 \in C : y1 # y2 => Pages(y1)' \cap Pages(y2)' = {}
    BY <2>1, <2>5, Zenon
  <2>7. \A p : p \in Pages(s)' \/ p \in Pages(t)' <=> p \in Pages(s)
    <3>1. Pages(s) = Pages(t)' \cup Pages(s)'
      BY <1>9, <1>10, Zenon
    <3> QED BY <3>1, Zenon
  <2>8. \A z \in C : \A p \in Pages(z)' : \E v \in C : range[v].shard = w /\ p \in Pages(v)
    BY <2>1, <2>7, <1>5, Zenon
  <2>9. \A z \in C : \A p \in Pages(z) : range[z].shard = w => \E v \in C : p \in Pages(v)'
    <3>1. \A z \in C : range[z].shard = w => z = s
      BY <2>1, <1>2, Zenon
    <3> QED BY <3>1, <2>1, <2>7, Zenon
  <2> QED BY <2>2, <2>3, <2>4, <2>6, <2>8, <2>9, ZenonT(60) DEF Remaps
<1> QED BY <1>1, <1>12, <1>13, <1>15, <1>17, RemapLeaves, ZenonT(60)

\* The pages of the union of two neighbours.
LEMMA UnionPages ==
    ASSUME NEW q \in Nat \X Nat, NEW r \in Nat \X Nat, Adjacent(q, r)
    PROVE  Run(Union(q, r)[1], Union(q, r)[2]) = Run(q[1], q[2]) \cup Run(r[1], r[2])
<1>1. PICK a \in Nat, n \in Nat, b \in Nat, m \in Nat :
         a = q[1] /\ n = q[2] /\ b = r[1] /\ m = r[2]
  OBVIOUS
<1>2. a + n = b \/ b + m = a
  BY <1>1, Zenon DEF Adjacent
<1>3. PICK c \in Nat : c = IF a < b THEN a ELSE b
  OBVIOUS
<1>4. Union(q, r)[1] = c /\ Union(q, r)[2] = n + m
  BY <1>1, <1>3 DEF Union
<1>5. Run(c, n + m) = Run(a, n) \cup Run(b, m)
  BY <1>2, <1>3 DEF Run
<1> QED BY <1>1, <1>4, <1>5, Zenon

LEMMA CoalesceLeaves ==
    ASSUME TreeInv, OpInv, LeafInv, OpInv', MapSame, NEW w \in Shards, Coalesce(w) PROVE LeafInv'
<1>1. op[w] = Idle
  BY OpCases, Zenon DEF Coalesce, At, OpInv
<1>2. PICK s \in Spans, t \in Spans, q \in Nat \X Nat, r \in Nat \X Nat, u \in Nat \X Nat :
         /\ range[s].shard = w /\ range[s].pages = q /\ range[t].shard = w /\ range[t].pages = r
         /\ u = Union(q, r) /\ Adjacent(q, r)
         /\ range' = [range EXCEPT ![t].pages = <<0, 0>>, ![s].pages = u]
         /\ Goto(w, Setting(s, u, {}, {t}))
  <2>1. PICK s \in Held(w), t \in Held(w) :
           /\ Adjacent(range[s].pages, range[t].pages)
           /\ range' = [range EXCEPT ![t].pages = <<0, 0>>,
                                     ![s].pages = Union(range[s].pages, range[t].pages)]
           /\ Goto(w, Setting(s, Union(range[s].pages, range[t].pages), {}, {t}))
    BY Zenon DEF Coalesce
  <2>2. /\ s \in Spans /\ range[s].shard = w /\ range[s].pages \in Nat \X Nat
        /\ t \in Spans /\ range[t].shard = w /\ range[t].pages \in Nat \X Nat
    BY Zenon DEF Held, OpInv, OpType
  <2>3. Union(range[s].pages, range[t].pages) \in Nat \X Nat
    BY <2>2 DEF Union
  <2> QED BY <2>1, <2>2, <2>3, Zenon
<1>3. /\ range'[s].pages = u /\ range'[s].shard = w
      /\ t # s => range'[t].pages = <<0, 0>>
      /\ range'[t].shard = w
      /\ \A x \in Spans \ {s, t} : range'[x] = range[x]
  <2>1. <<0, 0>> \in Nat \X Nat
    BY Zenon
  <2> QED BY <1>2, <2>1 DEF OpInv, OpType
<1>4. Pages(s)' = Pages(s) \cup Pages(t)
  <2>1. Pages(s) = Run(q[1], q[2]) /\ Pages(t) = Run(r[1], r[2]) /\ Pages(s)' = Run(u[1], u[2])
    BY <1>2, <1>3, Zenon DEF Pages
  <2>2. Run(Union(q, r)[1], Union(q, r)[2]) = Run(q[1], q[2]) \cup Run(r[1], r[2])
    BY <1>2, UnionPages
  <2> QED BY <2>1, <2>2, <1>2, Zenon
<1>5. Pages(t)' = {}
  <2>1. CASE s # t
    <3>1. range'[t].pages = <<0, 0>>
      BY <2>1, <1>3, Zenon
    <3> QED BY <3>1 DEF Pages, Run
  <2>2. CASE s = t
    <3>1. q = r /\ q[1] \in Nat /\ q[2] \in Nat /\ u = Union(q, q) /\ Adjacent(q, q)
      BY <2>2, <1>2, Zenon
    <3>2. u[2] = 0 /\ u[1] \in Nat
      BY <3>1 DEF Union, Adjacent
    <3>3. Pages(t)' = Run(u[1], u[2])
      BY <2>2, <1>3, Zenon DEF Pages
    <3> QED BY <3>2, <3>3 DEF Run
  <2> QED BY <2>1, <2>2, Zenon
<1>6. PICK T \in SUBSET Spans : T = {t}
  BY Zenon
<1>7. PICK o \in SetRec : /\ Goto(w, o) /\ o.span = s /\ o.cur = u[1] /\ o.remaining = u[2]
                         /\ o.then = {} /\ o.retired = T
  <2>1. {} \in SUBSET Spans
    BY Zenon
  <2>2. PICK o \in SetRec : /\ o = Setting(s, u, {}, T) /\ o.span = s /\ o.cur = u[1] /\ o.remaining = u[2]
                           /\ o.then = {} /\ o.retired = T
    BY <2>1, SettingRec
  <2>3. Setting(s, u, {}, T) = Setting(s, u, {}, {t})
    BY <1>6, Zenon
  <2>4. Goto(w, o)
    BY <2>2, <2>3, <1>2, Zenon
  <2> QED BY <2>2, <2>4
<1>8. op'[w] = o /\ \A v \in Shards \ {w} : op'[v] = op[v]
  BY <1>7, Zenon DEF OpInv, OpType, Goto
<1>9. Apart(w)
  BY <1>2, <1>3, <1>8, Zenon DEF Apart
<1>10. Pages(s)' = Run(u[1], u[2])
  BY <1>3, Zenon DEF Pages
<1>11. \A p : Pending(o, p)' <=> p \in Pages(s)'
  BY <1>7, <1>10, Zenon DEF Pending
<1>12. SetWrites(w, o)'
  BY <1>3, <1>5, <1>6, <1>7, <1>10, ZenonT(60) DEF SetWrites
<1>13. PICK C \in SUBSET Spans : C = {s, t}
  BY Zenon
<1>14. Remaps(w, o, C)
  <2>1. s \in C /\ t \in C /\ \A z \in C : z = s \/ z = t
    BY <1>13, Zenon
  <2>2. /\ \A z \in Spans \ C : range'[z] = range[z]
        /\ \A z \in C : range'[z].shard = w
    BY <2>1, <1>3, Zenon
  <2>3. \A z \in C : \A p \in Pages(z)' : Pending(o, p)' /\ p \in Pages(s)'
    BY <2>1, <1>5, <1>11, Zenon
  <2>4. \A p \in Nat : Pending(o, p)' => \E z \in C : p \in Pages(z)'
    BY <2>1, <1>11, Zenon
  <2>5. Pages(s)' \cap Pages(t)' = {} /\ Pages(t)' \cap Pages(s)' = {}
    BY <1>5, Zenon
  <2>6. \A y, z \in C : y # z => Pages(y)' \cap Pages(z)' = {}
    BY <2>1, <2>5, Zenon
  <2>7. ASSUME NEW z \in C, NEW p \in Pages(z)' PROVE \E v \in C : range[v].shard = w /\ p \in Pages(v)
    <3>1. p \in Pages(s) \/ p \in Pages(t)
      BY <2>3, <2>7, <1>4, Zenon
    <3> QED BY <2>1, <3>1, <1>2, ZenonT(60)
  <2>8. ASSUME NEW z \in C, NEW p \in Pages(z) PROVE \E v \in C : p \in Pages(v)'
    <3>1. p \in Pages(s)'
      BY <2>1, <2>8, <1>4, ZenonT(60)
    <3> QED BY <2>1, <3>1, Zenon
  <2> QED BY <2>2, <2>3, <2>4, <2>6, <2>7, <2>8, Zenon DEF Remaps
<1> QED BY <1>1, <1>8, <1>9, <1>12, <1>14, RemapLeaves, ZenonT(60)

\* What the leaves of a shard in ClearRange hold.
LEMMA ClearOwn ==
    ASSUME OpInv, LeafInv, NEW w \in Shards, NEW o \in ClearRec, o = op[w],
           NEW s \in Spans, range[s].shard = w, NEW p \in Pages(s)
    PROVE  /\ p \in Nat
           /\ Lookup(p) = IF s = o.span /\ p < o.cur THEN Null ELSE s
<1>1. LeafOK(s, p)
  BY Zenon DEF LeafInv, InUse
<1>2. o.pc = "clear" /\ o.pc \notin Ensures /\ o.pc # "set"
  BY DEF ClearRec, Ensures
<1> QED BY <1>1, <1>2, PagesType, ZenonT(60) DEF LeafOK

\* The same, after a step.
LEMMA ClearOwnNext ==
    ASSUME NEW w \in Shards, NEW o \in ClearRec, op'[w] = o, NEW s \in Spans, range'[s].shard = w,
           NEW p \in Nat, Lookup(p)' = IF s = o.span /\ p < o.cur THEN Null ELSE s
    PROVE  LeafOK(s, p)'
<1>1. o.pc = "clear" /\ o.pc \notin Ensures /\ o.pc # "set"
  BY DEF ClearRec, Ensures
<1> QED BY <1>1, ZenonT(60) DEF LeafOK

Clears(o) == LET q == range[o.span].pages
             IN  q[1] <= o.cur /\ o.cur + o.remaining = q[1] + q[2]

LEMMA ClearWriteOK ==
    ASSUME NEW o \in ClearRec, NEW w \in Shards
    PROVE  (WriteOK(w, o) <=> Clears(o)) /\ (WriteOK(w, o)' <=> Clears(o)')
<1>1. o.pc = "clear" /\ o.pc # "set"
  BY DEF ClearRec
<1> QED BY <1>1, Zenon DEF WriteOK, Clears

LEMMA ReleaseLeaves ==
    ASSUME TreeInv, OpInv, LeafInv, OpInv', MapSame, NEW w \in Shards, ReleaseSpan(w) PROVE LeafInv'
<1>1. op[w] = Idle /\ UNCHANGED range
  BY OpCases, Zenon DEF ReleaseSpan, At, OpInv
<1>2. PICK t \in Spans, q \in Nat \X Nat :
         range[t].shard = w /\ range[t].pages = q /\ Goto(w, Clearing(t, q))
  BY Zenon DEF ReleaseSpan, Held, OpInv, OpType
<1> DEFINE b == Clearing(t, q)
<1>3. b \in ClearRec /\ b.span = t /\ b.cur = q[1] /\ b.remaining = q[2]
  BY Zenon DEF Clearing, ClearRec
<1>4. Goto(w, b)
  BY <1>2, Zenon
<1> HIDE DEF b
<1>5. PICK o \in ClearRec : Goto(w, o) /\ o.span = t /\ o.cur = q[1] /\ o.remaining = q[2]
  BY <1>3, <1>4, Zenon
<1>6. OpType' /\ op'[w] = o /\ Apart(w)
  BY <1>1, <1>5, OneMoves, ZenonT(60)
<1>7. \A p \in Pages(t) : ~(p < q[1])
  <2>1. Pages(t) = Run(q[1], q[2])
    BY <1>2, Zenon DEF Pages
  <2> QED BY <2>1 DEF Run
<1>8. ASSUME NEW s \in Spans, range[s].shard = w, NEW p \in Pages(s) PROVE LeafOK(s, p)'
  <2>1. p \in Nat /\ Lookup(p)' = s /\ range'[s].shard = w
    BY <1>1, <1>8, IdlePublished, PagesType, ZenonT(60) DEF MapSame
  <2>2. ~(s = o.span /\ p < o.cur)
    BY <1>5, <1>7, <1>8, ZenonT(60)
  <2> QED BY <1>6, <2>1, <2>2, ClearOwnNext, ZenonT(60)
<1>9. Clears(o)'
  BY <1>1, <1>2, <1>5 DEF Clears
<1>10. WriteOK(w, op[w])'
  BY <1>6, <1>9, ClearWriteOK, ZenonT(60)
<1> QED BY <1>1, <1>6, <1>8, <1>10, LeafStays, ZenonT(60) DEF MapSame

\* One page of ClearRange; a page without a leaf maps to nothing already.
LEMMA ClearStoreLeaves ==
    ASSUME TreeInv, OpInv, LeafInv, OpInv', NEW w \in Shards, NEW o \in ClearRec, o = op[w],
           o.remaining > 0, UNCHANGED range,
           \A p \in Nat : Lookup(p)' = IF p = o.cur THEN Null ELSE Lookup(p),
           NEW a \in ClearRec, Goto(w, a), a.span = o.span, a.cur = o.cur + 1,
           a.remaining = o.remaining - 1
    PROVE  LeafInv'
<1>1. PICK c \in Nat, n \in Nat, t \in Spans : c = o.cur /\ n = o.remaining /\ t = o.span
  BY Zenon DEF ClearRec
<1>2. OpType' /\ op'[w] = a /\ Apart(w)
  BY OneMoves, Zenon
<1>3. Clears(o) /\ range[t].shard = w
  BY <1>1, ClearWriteOK, ZenonT(60) DEF LeafInv, OpInv, ShardOK, ClearOK
<1>4. PICK q \in Nat \X Nat : q = range[t].pages
  BY Zenon DEF OpInv, OpType
<1>5. q[1] <= c /\ c + n = q[1] + q[2]
  BY <1>1, <1>3, <1>4, ZenonT(60) DEF Clears
<1>6. c \in Pages(t) /\ Mine(w, c)
  <2>1. c \in Pages(t)
    <3>1. q[1] \in Nat /\ q[2] \in Nat /\ n > 0
      BY <1>1, <1>4
    <3>2. c < q[1] + q[2]
      BY <3>1, <1>5
    <3> QED BY <3>2, <1>4, <1>5, Zenon DEF Pages, Run
  <2> QED BY <2>1, <1>3, ZenonT(60) DEF Mine
<1>7. ASSUME NEW s \in Spans, range[s].shard = w, NEW p \in Pages(s) PROVE LeafOK(s, p)'
  <2>1. p \in Nat /\ Lookup(p) = IF s = t /\ p < c THEN Null ELSE s
    BY <1>1, <1>7, ClearOwn
  <2>2. p = c => s = t
    BY <1>3, <1>6, <1>7, ZenonT(60) DEF LeafInv, InUse
  <2>3. Lookup(p)' = IF p = c THEN Null ELSE Lookup(p)
    BY <2>1, <1>1, Zenon
  <2>4. p < c + 1 <=> p < c \/ p = c
    BY <2>1, SMTT(30)
  <2>5. Lookup(p)' = IF s = a.span /\ p < a.cur THEN Null ELSE s
    BY <2>1, <2>2, <2>3, <2>4, <1>1, SMTT(30)
  <2> QED BY <2>1, <2>5, <1>2, <1>7, ClearOwnNext, ZenonT(60)
<1>8. Clears(a)'
  <2>1. q[1] <= c + 1 /\ (c + 1) + (n - 1) = q[1] + q[2]
    BY <1>5
  <2> QED BY <2>1, <1>1, <1>4, ZenonT(60) DEF Clears
<1>9. WriteOK(w, op[w])'
  BY <1>2, <1>8, ClearWriteOK, Zenon
<1>10. \A p \in Nat : Lookup(p)' = Lookup(p) \/ Mine(w, p)
  BY <1>1, <1>6, Zenon
<1> QED BY <1>2, <1>7, <1>9, <1>10, LeafStays, ZenonT(60)

\* The end of ClearRange: every leaf of the descriptor that goes is empty.
LEMMA ClearEndLeaves ==
    ASSUME TreeInv, OpInv, LeafInv, OpInv', MapSame, NEW w \in Shards, NEW o \in ClearRec, o = op[w],
           o.remaining = 0, SetRange(o.span, Null, <<0, 0>>), Goto(w, Idle)
    PROVE  LeafInv'
<1>1. PICK t \in Spans, c \in Nat : t = o.span /\ c = o.cur
  BY Zenon DEF ClearRec
<1>2. op'[w] = Idle /\ \A u \in Shards \ {w} : op'[u] = op[u]
  BY Zenon DEF OpInv, OpType, Goto
<1>3. /\ range'[t] = [pages |-> <<0, 0>>, shard |-> Null]
      /\ \A s \in Spans \ {t} : range'[s] = range[s]
  BY <1>1, ZenonT(60) DEF OpInv, OpType, SetRange
<1>4. range'[t].shard = Null
  BY <1>3
<1>5. Clears(o) /\ range[t].shard = w
  BY <1>1, ClearWriteOK, ZenonT(60) DEF LeafInv, OpInv, ShardOK, ClearOK
<1>6. OpType' /\ Apart(w)
  BY <1>2, <1>3, <1>4, <1>5, ZenonT(60) DEF OpInv, Apart
<1>7. PICK q \in Nat \X Nat : q = range[t].pages
  BY ZenonT(60) DEF OpInv, OpType
<1>8. c = q[1] + q[2]
  BY <1>1, <1>5, <1>7, SMTT(30) DEF Clears
<1>9. \A p \in Pages(t) : p < c
  BY <1>7, <1>8, SMTT(30) DEF Pages, Run
<1>10. \A s \in Spans : range[s].shard = w =>
          \A p \in Pages(s) : Lookup(p) = IF s = t /\ p < c THEN Null ELSE s
  BY <1>1, ClearOwn
<1>11. PICK D : D = {t}
  BY Zenon
<1>12. /\ D \subseteq Spans
       /\ \A s \in D : range'[s].shard = Null /\ \A p \in Pages(s) : Lookup(p) = Null
       /\ \A s \in Spans \ D : range'[s] = range[s]
       /\ \A s \in Spans \ D : range[s].shard = w => \A p \in Pages(s) : Lookup(p) = s
  <2>1. \A p \in Pages(t) : Lookup(p) = Null
    BY <1>5, <1>9, <1>10, ZenonT(60)
  <2>2. \A s \in Spans : s # t /\ range[s].shard = w => \A p \in Pages(s) : Lookup(p) = s
    BY <1>10, Zenon
  <2>3. t \in D /\ \A s : s \in D <=> s = t
    BY <1>11, Zenon
  <2>4. \A s \in D : range'[s].shard = Null /\ \A p \in Pages(s) : Lookup(p) = Null
    BY <2>1, <2>3, <1>4, ZenonT(60)
  <2>5. \A s \in Spans \ D : range'[s] = range[s]
    BY <2>3, <1>3, ZenonT(60)
  <2>6. D \subseteq Spans
    <3>1. t \in Spans
      BY <1>1, Zenon
    <3> QED BY <1>11, <3>1
  <2>7. \A s \in Spans \ D : range[s].shard = w => \A p \in Pages(s) : Lookup(p) = s
    BY <2>2, <2>3, ZenonT(60)
  <2> QED BY <2>4, <2>5, <2>6, <2>7, ZenonT(60)
<1> QED BY <1>2, <1>6, <1>12, LeafDropped, ZenonT(60)

LEMMA ClearLeaves ==
    ASSUME TreeInv, OpInv, LeafInv, OpInv', NEW w \in Shards, ClearRange(w) PROVE LeafInv'
<1>1. PICK o \in ClearRec : o = op[w]
  BY OpCases, Zenon DEF ClearRange, At, OpInv
<1>2. o.cur \in Nat /\ o.remaining \in Nat
  BY Zenon DEF ClearRec
<1>3. CASE o.remaining = 0
  <2>1. ~(o.remaining > 0)
    BY <1>3
  <2>2. UNCHANGED tree /\ SetRange(o.span, Null, <<0, 0>>) /\ Goto(w, Idle)
    BY <2>1, <1>1, Zenon DEF ClearRange, tree
  <2>3. MapSame
    BY <2>2, TreeUnchanged, Zenon
  <2> QED BY <2>2, <2>3, <1>1, <1>3, ClearEndLeaves, ZenonT(60)
<1>4. CASE o.remaining > 0
  <2>1. o.remaining # 0
    BY <1>4
  <2>2. /\ root_' = root_ /\ in_use' = in_use /\ UNCHANGED range
        /\ children' = IF HasPath(o.cur) THEN [children EXCEPT ![P3(o.cur)][I3(o.cur)] = Null] ELSE children
        /\ Goto(w, [o EXCEPT !.cur = @ + 1, !.remaining = @ - 1])
    BY <2>1, <1>1, Zenon DEF ClearRange
  <2>3. \A p \in Nat : Lookup(p)' = IF p = o.cur THEN Null ELSE Lookup(p)
    <3>1. PICK c \in Nat : c = o.cur
      BY <1>2, Zenon
    <3>2. CASE HasPath(c)
      <4>1. P3(c) # Null /\ children' = [children EXCEPT ![P3(c)][I3(c)] = Null]
        BY <2>2, <3>1, <3>2, ZenonT(60) DEF HasPath
      <4>2. MapSet(c, Null)
        BY <4>1, <2>2, StoreSets, Zenon
      <4> QED BY <4>2, <3>1, Zenon DEF MapSet
    <3>3. CASE ~HasPath(c)
      <4>1. UNCHANGED tree
        BY <2>2, <3>1, <3>3, Zenon DEF tree
      <4>2. MapSame /\ Lookup(c) = Null
        BY <4>1, <3>3, TreeUnchanged, ZenonT(60) DEF HasPath, Lookup, Child
      <4> QED BY <4>2, <3>1, Zenon DEF MapSame
    <3> QED BY <3>2, <3>3, Zenon
  <2>4. PICK d \in Nat, m \in Nat : d = o.cur + 1 /\ m = o.remaining - 1
    BY <1>2, <1>4
  <2> DEFINE b == [o EXCEPT !.cur = d, !.remaining = m]
  <2>5. Goto(w, b)
    BY <2>2, <2>4, Zenon
  <2>6. b \in ClearRec /\ b.span = o.span /\ b.cur = d /\ b.remaining = m
    BY Zenon DEF ClearRec
  <2> HIDE DEF b
  <2>7. PICK a \in ClearRec : Goto(w, a) /\ a.span = o.span /\ a.cur = d /\ a.remaining = m
    BY <2>5, <2>6, Zenon
  <2> QED BY <2>2, <2>3, <2>4, <2>7, <1>1, <1>4, ClearStoreLeaves, SMTT(30)
<1> QED BY <1>2, <1>3, <1>4

-----------------------------------------------------------------------------
(* What the leaves hold, in every reachable state *)

LEMMA LeafShards ==
    ASSUME TreeInv, OpInv, LeafInv, NEW w \in Shards, ShardStep(w) PROVE LeafInv'
<1>1. OpInv'
  BY ShardKeeps, Zenon
<1>2. CASE AllocSpan(w) \/ Split(w) \/ Coalesce(w) \/ ReleaseSpan(w)
  <2>1. MapSame
    BY <1>2, TreeUnchanged, Zenon DEF AllocSpan, Split, Coalesce, ReleaseSpan
  <2>2. CASE AllocSpan(w)
    BY <2>1, <2>2, <1>1, AllocLeaves, ZenonT(60)
  <2>3. CASE Split(w)
    BY <2>1, <2>3, <1>1, SplitLeaves, ZenonT(60)
  <2>4. CASE Coalesce(w)
    BY <2>1, <2>4, <1>1, CoalesceLeaves, Zenon
  <2>5. CASE ReleaseSpan(w)
    BY <2>1, <2>5, <1>1, ReleaseLeaves, Zenon
  <2> QED BY <1>2, <2>2, <2>3, <2>4, <2>5, ZenonT(60)
<1>3. CASE EnsureRange(w) \/ EnsureRoot(w) \/ EnsurePathLocked(w)
  BY <1>1, <1>3, EnsureLeaves, ZenonT(60)
<1>4. CASE SetSpan(w)
  BY <1>1, <1>4, SetLeaves, ZenonT(60)
<1>5. CASE ClearRange(w)
  BY <1>1, <1>5, ClearLeaves, ZenonT(60)
<1> QED BY <1>2, <1>3, <1>4, <1>5, Zenon DEF ShardStep

LEMMA LeafQuiet ==
    ASSUME TreeInv, LeafInv, UNCHANGED <<tree, range, op>> PROVE LeafInv'
<1>1. \A p \in Nat : Lookup(p)' = Lookup(p)
  BY TreeUnchanged, Zenon DEF MapSame
<1>2. \A s : Pages(s)' = Pages(s) /\ (InUse(s)' <=> InUse(s))
  BY Zenon DEF Pages, InUse
<1>3. \A p : (Free(p)' <=> Free(p)) /\ \A o : Pending(o, p)' <=> Pending(o, p)
  BY <1>2, Zenon DEF Free, Pending
<1>4. \A w, o : WriteOK(w, o)' <=> WriteOK(w, o)
  BY <1>2, Zenon DEF WriteOK
<1>5. ASSUME NEW s, NEW p \in Nat PROVE LeafOK(s, p)' <=> LeafOK(s, p)
  <2>1. PICK o, v : o = op[range[s].shard] /\ v = Lookup(p)
    BY Zenon
  <2> QED BY <2>1, <1>1, <1>3, ZenonT(60) DEF LeafOK
<1>6. \A s \in Spans : \A p \in Pages(s) : p \in Nat
  BY PagesType, Zenon
<1>7. \A s \in Spans : InUse(s)' => \A p \in Pages(s)' : LeafOK(s, p)'
  BY <1>2, <1>5, <1>6, Zenon DEF LeafInv
<1>8. \A p \in Nat : Free(p)' => Lookup(p)' = Null
  BY <1>1, <1>3, Zenon DEF LeafInv
<1>9. \A w \in Shards : WriteOK(w, op[w])'
  BY <1>4, Zenon DEF LeafInv
<1>10. \A s, t \in Spans : s # t /\ InUse(s)' /\ InUse(t)' => Pages(s)' \cap Pages(t)' = {}
  BY <1>2, Zenon DEF LeafInv
<1> QED BY <1>7, <1>8, <1>9, <1>10, ZenonT(60) DEF LeafInv

LEMMA LeafReset ==
    ASSUME MapInv, Reset PROVE LeafInv'
<1>1. \A p \in Nat : Lookup(p)' = Null
  BY ResetKeeps, Zenon
<1>2. \A s \in Spans : ~InUse(s)'
  <2>1. Unused.shard = Null
    BY DEF Unused
  <2> QED BY <2>1, Zenon DEF Reset, InUse
<1>3. \A w \in Shards : op'[w] = Idle
  BY OpCases, ZenonT(60) DEF Reset, MapInv, OpInv, At
<1>4. Idle.pc \notin {"set", "clear"}
  BY DEF Idle
<1> QED BY <1>1, <1>2, <1>3, <1>4, ZenonT(60) DEF LeafInv, WriteOK

LEMMA LeafInit == Init => LeafInv
<1> SUFFICES ASSUME Init PROVE LeafInv
  BY Zenon
<1>1. \A p \in Nat : Lookup(p) = Null
  BY Zenon DEF Init, Lookup, P3, P2, P1, Child
<1>2. \A s \in Spans : ~InUse(s)
  <2>1. Unused.shard = Null
    BY DEF Unused
  <2> QED BY <2>1, Zenon DEF Init, InUse
<1>3. Idle.pc \notin {"set", "clear"}
  BY DEF Idle
<1> QED BY <1>1, <1>2, <1>3, ZenonT(60) DEF LeafInv, WriteOK, Init

LEMMA LeafStep == MapInv /\ LeafInv /\ [Next]_vars => LeafInv'
<1> SUFFICES ASSUME MapInv, LeafInv, [Next]_vars PROVE LeafInv'
  BY Zenon
<1>1. TreeInv /\ OpInv
  BY Zenon DEF MapInv
<1>2. ASSUME NEW w \in Shards, ShardStep(w) PROVE LeafInv'
  BY <1>1, <1>2, LeafShards, ZenonT(60)
<1>3. ASSUME NEW r \in Readers, GetSpan(r) \/ GetSpanLoad(r) PROVE LeafInv'
  <2>1. UNCHANGED <<tree, range, op>>
    BY <1>3, Zenon DEF GetSpan, GetSpanLoad, Follow, Look
  <2> QED BY <2>1, <1>1, LeafQuiet, ZenonT(60)
<1>4. CASE Reset
  BY <1>4, LeafReset, ZenonT(60)
<1>5. CASE UNCHANGED vars
  <2>1. UNCHANGED <<tree, range, op>>
    BY <1>5, Zenon DEF vars, tree
  <2> QED BY <2>1, <1>1, LeafQuiet, ZenonT(60)
<1> QED BY <1>2, <1>3, <1>4, <1>5, ZenonT(60) DEF Next, ShardStep

LEMMA LeafInvariance == Spec => [](MapInv /\ LeafInv)
<1>1. Init => MapInv /\ LeafInv
  BY MapInitInv, LeafInit, Zenon
<1>2. MapInv /\ LeafInv /\ [Next]_vars => (MapInv /\ LeafInv)'
  BY MapStep, LeafStep, Zenon
<1> QED BY <1>1, <1>2, PTL DEF Spec

LEMMA PagesAreThose ==
    ASSUME OpInv, NEW s \in Spans PROVE \A p : p \in PagesOf(range[s].pages) <=> p \in Pages(s)
<1>1. PICK q \in Nat \X Nat : q = range[s].pages
  BY Zenon DEF OpInv, OpType
<1>2. \A p : p \in PagesOf(q) <=> p \in Run(q[1], q[2])
  BY DEF PagesOf, Run
<1> QED BY <1>1, <1>2, ZenonT(60) DEF Pages

\* A finished mapping is found on each of its pages and a page without one maps
\* to nothing: what PageMap::SetSpan and ClearRange publish is exact, for any
\* number of shards that split, coalesce, release and fail around it.
THEOREM PublishedIsExact == Spec => []PublishedExact
<1>1. ASSUME MapInv, LeafInv PROVE PublishedExact
  <2>1. OpInv /\ OpType
    BY <1>1, ZenonT(60) DEF MapInv, OpInv
  <2>2. ASSUME NEW s \in Spans, Settled(s), NEW p \in PagesOf(range[s].pages) PROVE Lookup(p) = s
    <3>1. PICK w \in Shards : w = range[s].shard
      BY <2>1, <2>2, Zenon DEF OpType, Settled, InUse
    <3>2. op[w] = Idle
      BY <2>1, <2>2, <3>1, OpCases, ZenonT(60) DEF Settled, At
    <3>3. p \in Pages(s)
      BY <2>1, <2>2, PagesAreThose, ZenonT(60)
    <3> QED BY <1>1, <3>1, <3>2, <3>3, IdlePublished, ZenonT(60)
  <2>3. ASSUME NEW p \in PageIds, \A s \in Spans : InUse(s) => p \notin PagesOf(range[s].pages)
        PROVE  Lookup(p) = Null
    <3>1. p \in Nat /\ Free(p)
      BY <2>1, <2>3, PagesAreThose, Zenon DEF Free
    <3> QED BY <1>1, <3>1, Zenon DEF LeafInv
  <2> QED BY <2>2, <2>3, ZenonT(60) DEF PublishedExact
<1>2. MapInv /\ LeafInv => PublishedExact
  BY <1>1, ZenonT(60)
<1> QED BY <1>2, LeafInvariance, PTL

\* No leaf names a descriptor that is back in span_pool_: a reader that finds a
\* Span in the tree finds one that is in use.
THEOREM LeavesAreLive == Spec => []LeavesNameLive
<1>1. ASSUME MapInv, LeafInv, NEW p \in PageIds, Lookup(p) # Null PROVE InUse(Lookup(p))
  <2>1. TreeInv /\ OpInv /\ OpType /\ p \in Nat
    BY <1>1, Zenon DEF MapInv, OpInv
  <2>2. ~Free(p)
    BY <1>1, <2>1, Zenon DEF LeafInv
  <2>3. PICK s \in Spans : InUse(s) /\ p \in Pages(s)
    BY <2>2, Zenon DEF Free
  <2>4. PICK w \in Shards : w = range[s].shard
    BY <2>1, <2>3, Zenon DEF OpType, InUse
  <2>5. LeafOK(s, p)
    BY <1>1, <2>3, Zenon DEF LeafInv
  <2>6. Lookup(p) = s \/ range[Lookup(p)].shard = w
    BY <1>1, <2>4, <2>5, Zenon DEF LeafOK
  <2>7. w # Null
    BY Zenon
  <2> QED BY <2>3, <2>6, <2>7, Zenon DEF InUse
<1>2. MapInv /\ LeafInv => LeavesNameLive
  BY <1>1, Zenon DEF LeavesNameLive
<1> QED BY <1>2, LeafInvariance, PTL

-----------------------------------------------------------------------------
(* The nodes taken from the pool *)

\* Nodes whose cells count: those in use and the root, once it is published.
Linkers == in_use \cup ({root_} \ {Null})

\* Every node taken from the pool hangs in some cell.
ReachInv == \A n \in in_use : \E m \in Linkers, i \in Cells : children[m][i] = n

LEMMA ReachQuiet ==
    ASSUME ReachInv, UNCHANGED tree PROVE ReachInv'
  BY Zenon DEF ReachInv, Linkers, tree

LEMMA ReachRoot ==
    ASSUME TreeInv, ReachInv, NEW w \in Shards, EnsureRoot(w) PROVE ReachInv'
<1>1. CASE root_ # Null
  BY <1>1, ReachQuiet, Zenon DEF EnsureRoot, tree
<1>2. CASE root_ = Null
  <2>1. root_' = Root /\ in_use' = in_use /\ children' = [children EXCEPT ![Root] = NoCells]
    BY <1>2, Zenon DEF EnsureRoot
  <2>2. Linkers = in_use /\ in_use \subseteq Linkers'
    BY <1>2, <2>1, Zenon DEF Linkers
  <2>3. \A m \in in_use : children'[m] = children[m]
    BY <2>1, Zenon DEF TreeInv, TreeType
  <2>4. ASSUME NEW n \in in_use PROVE \E m \in Linkers', i \in Cells : children'[m][i] = n
    <3>1. PICK m \in in_use, i \in Cells : children[m][i] = n
      BY <2>2, Zenon DEF ReachInv
    <3>2. children'[m][i] = n /\ m \in Linkers'
      BY <3>1, <2>2, <2>3, Zenon
    <3> QED BY <3>2, Zenon
  <2> QED BY <2>1, <2>4, Zenon DEF ReachInv
<1> QED BY <1>1, <1>2, Zenon

LEMMA ReachHangs ==
    ASSUME TreeType, ReachInv, root_' = root_,
           NEW parent \in Linkers, NEW i \in Cells, Hangs(parent, i)
    PROVE  ReachInv'
<1>1. PICK n : n = NewNode
  BY Zenon
<1>2. n \in Nodes \ in_use /\ children[parent][i] = Null
  BY <1>1, NewNodeIsFree, Zenon DEF Hangs
<1>3. /\ in_use' = in_use \cup {n}
      /\ children' = [children EXCEPT ![parent] = [@ EXCEPT ![i] = n], ![n] = NoCells]
  BY <1>1, Zenon DEF Hangs
<1>4. Linkers \subseteq (Nodes \cup {Root}) \ {n} /\ Linkers \subseteq Linkers'
  BY <1>2, <1>3, ZenonT(60) DEF Linkers, TreeType
<1>5. children'[parent] = [children[parent] EXCEPT ![i] = n]
      /\ \A m \in Linkers \ {parent} : children'[m] = children[m]
  BY <1>3, <1>4, ZenonT(60) DEF TreeType
<1>6. children[parent] \in [Cells -> Nodes \cup Spans \cup {Null}]
  BY <1>4, Zenon DEF TreeType
<1>7. children'[parent][i] = n /\ \A j \in Cells \ {i} : children'[parent][j] = children[parent][j]
  BY <1>5, <1>6, ZenonT(60)
<1>8. ASSUME NEW k \in in_use PROVE \E m \in Linkers', j \in Cells : children'[m][j] = k
  <2>1. PICK m \in Linkers, j \in Cells : children[m][j] = k
    BY Zenon DEF ReachInv
  <2>2. k # Null
    BY Zenon DEF TreeType
  <2>3. ~ (m = parent /\ j = i)
    BY <2>1, <2>2, <1>2, ZenonT(60)
  <2>4. children'[m][j] = k
    BY <2>1, <2>3, <1>5, <1>7, ZenonT(60)
  <2> QED BY <2>4, <1>4, ZenonT(60)
<1>9. \E m \in Linkers', j \in Cells : children'[m][j] = n
  BY <1>4, <1>7, ZenonT(60)
<1> QED BY <1>3, <1>8, <1>9, ZenonT(60) DEF ReachInv

LEMMA ReachPath ==
    ASSUME TreeInv, OpInv, ReachInv, NEW w \in Shards, EnsurePathLocked(w) PROVE ReachInv'
<1>1. PICK lev \in Levels : Tree(lev)
  BY Zenon DEF TreeInv
<1>2. /\ op[w] \in EnsureRec /\ EnsureOK(w, op[w]) /\ op[w].cur \in Nat
      /\ op[w].pc \in {"path1", "path2", "path3"}
  BY OpCases, Zenon DEF EnsurePathLocked, At, OpInv, ShardOK, Ensures, EnsureRec
<1>3. PICK p \in Nat : p = op[w].cur
  BY <1>2, Zenon
<1>4. InRoot(p) /\ I0(p) \in Cells /\ I1(p) \in Cells /\ I2(p) \in Cells
  BY <1>2, <1>3, Indexes, ZenonT(60) DEF EnsureOK
<1>5. root_ = Root /\ root_' = root_ /\ TreeType
  BY <1>2, ZenonT(60) DEF EnsureOK, EnsurePathLocked, TreeInv
<1>6. /\ root_ \in Linkers
      /\ P1(p) # Null => P1(p) \in Linkers
      /\ P2(p) # Null => P2(p) \in Linkers
  BY <1>1, <1>5, Paths DEF Linkers
<1>7. CASE UNCHANGED <<children, in_use>>
  BY <1>5, <1>7, ReachQuiet, ZenonT(60) DEF tree
<1>8. CASE \E parent \in Linkers, i \in Cells : Hangs(parent, i)
  BY <1>5, <1>8, ReachHangs, ZenonT(60)
<1>9. CASE At(w, "path1")
  <2>1. UNCHANGED <<children, in_use>> \/ Hangs(root_, I0(p))
    BY <1>3, <1>9, Zenon DEF EnsurePathLocked, Link, Hangs, At
  <2> QED BY <2>1, <1>4, <1>6, <1>7, <1>8, ZenonT(60)
<1>10. CASE At(w, "path2")
  <2>1. UNCHANGED <<children, in_use>> \/ Hangs(P1(p), I1(p))
    BY <1>3, <1>10, ZenonT(60) DEF EnsurePathLocked, Link, Hangs, At
  <2>2. P1(p) # Null
    BY <1>2, <1>3, <1>10, ZenonT(60) DEF EnsureOK, At
  <2> QED BY <2>1, <2>2, <1>4, <1>6, <1>7, <1>8, ZenonT(60)
<1>11. CASE At(w, "path3")
  <2>1. UNCHANGED <<children, in_use>> \/ Hangs(P2(p), I2(p))
    BY <1>3, <1>11, ZenonT(60) DEF EnsurePathLocked, Link, Hangs, At
  <2>2. P2(p) # Null
    BY <1>2, <1>3, <1>11, ZenonT(60) DEF EnsureOK, At
  <2> QED BY <2>1, <2>2, <1>4, <1>6, <1>7, <1>8, ZenonT(60)
<1> QED BY <1>2, <1>9, <1>10, <1>11, ZenonT(60) DEF At

\* A leaf store overwrites no link.
LEMMA ReachStored ==
    ASSUME TreeInv, ReachInv, NEW c \in Nat, P3(c) # Null, NEW v \in Spans \cup {Null},
           root_' = root_, in_use' = in_use,
           children' = [children EXCEPT ![P3(c)][I3(c)] = v]
    PROVE  ReachInv'
<1>1. PICK lev \in Levels : Tree(lev)
  BY Zenon DEF TreeInv
<1>2. TreeType
  BY Zenon DEF TreeInv
<1>3. P3(c) \in Nodes /\ I3(c) \in Cells /\ Lookup(c) = children[P3(c)][I3(c)]
      /\ Lookup(c) \in Spans \cup {Null}
  BY <1>1, <1>2, Paths, Indexes, ZenonT(60) DEF TreeType
<1>4. \A m \in Nodes \cup {Root}, j \in Cells :
         children'[m][j] = IF m = P3(c) /\ j = I3(c) THEN v ELSE children[m][j]
  BY <1>2, <1>3, CellStored DEF TreeType
<1>5. Linkers' = Linkers /\ Linkers \subseteq Nodes \cup {Root}
  BY <1>2, Zenon DEF Linkers, TreeType
<1>6. ASSUME NEW n \in in_use PROVE \E m \in Linkers', i \in Cells : children'[m][i] = n
  <2>1. PICK m \in Linkers, i \in Cells : children[m][i] = n
    BY Zenon DEF ReachInv
  <2>2. n \notin Spans \cup {Null}
    BY <1>2, Zenon DEF TreeType
  <2>3. ~ (m = P3(c) /\ i = I3(c))
    BY <2>1, <2>2, <1>3, ZenonT(60)
  <2>4. children'[m][i] = n
    BY <2>1, <2>3, <1>4, <1>5, ZenonT(60)
  <2> QED BY <2>4, <1>5, Zenon
<1> QED BY <1>6, Zenon DEF ReachInv

LEMMA ReachSet ==
    ASSUME TreeInv, OpInv, ReachInv, NEW w \in Shards, SetSpan(w) PROVE ReachInv'
<1>1. op[w].span \in Spans /\ op[w].cur \in Nat
  BY OpCases, Zenon DEF SetSpan, At, OpInv, SetRec
<1>2. CASE UNCHANGED children
  BY <1>2, ReachQuiet, Zenon DEF SetSpan, tree
<1>3. CASE /\ HasPath(op[w].cur)
           /\ children' = [children EXCEPT ![P3(op[w].cur)][I3(op[w].cur)] = op[w].span]
  <2>1. PICK c \in Nat, v \in Spans : c = op[w].cur /\ v = op[w].span
    BY <1>1, Zenon
  <2>2. /\ P3(c) # Null /\ root_' = root_ /\ in_use' = in_use
        /\ children' = [children EXCEPT ![P3(c)][I3(c)] = v]
    BY <2>1, <1>3, Zenon DEF SetSpan, HasPath
  <2> QED BY <2>2, ReachStored, Zenon
<1> QED BY <1>2, <1>3, Zenon DEF SetSpan

LEMMA ReachClear ==
    ASSUME TreeInv, OpInv, ReachInv, NEW w \in Shards, ClearRange(w) PROVE ReachInv'
<1>1. op[w].cur \in Nat
  BY OpCases, Zenon DEF ClearRange, At, OpInv, ClearRec
<1>2. CASE UNCHANGED children
  BY <1>2, ReachQuiet, Zenon DEF ClearRange, tree
<1>3. CASE /\ HasPath(op[w].cur)
           /\ children' = [children EXCEPT ![P3(op[w].cur)][I3(op[w].cur)] = Null]
  <2>1. PICK c \in Nat : c = op[w].cur
    BY <1>1, Zenon
  <2>2. /\ P3(c) # Null /\ root_' = root_ /\ in_use' = in_use
        /\ children' = [children EXCEPT ![P3(c)][I3(c)] = Null]
    BY <2>1, <1>3, Zenon DEF ClearRange, HasPath
  <2> QED BY <2>2, ReachStored, Zenon
<1> QED BY <1>2, <1>3, Zenon DEF ClearRange

LEMMA ReachInit == Init => ReachInv
  BY Zenon DEF Init, ReachInv

LEMMA ReachStep == MapInv /\ ReachInv /\ [Next]_vars => ReachInv'
<1> SUFFICES ASSUME MapInv, ReachInv, [Next]_vars PROVE ReachInv'
  BY Zenon
<1>1. TreeInv /\ OpInv
  BY Zenon DEF MapInv
<1>2. ASSUME NEW w \in Shards, ShardStep(w) PROVE ReachInv'
  <2>1. CASE AllocSpan(w) \/ EnsureRange(w) \/ Split(w) \/ Coalesce(w) \/ ReleaseSpan(w)
    BY <2>1, ReachQuiet, Zenon DEF AllocSpan, EnsureRange, Split, Coalesce, ReleaseSpan
  <2> QED BY <1>1, <1>2, <2>1, ReachRoot, ReachPath, ReachSet, ReachClear, ZenonT(60) DEF ShardStep
<1>3. ASSUME NEW r \in Readers, GetSpan(r) \/ GetSpanLoad(r) PROVE ReachInv'
  <2>1. UNCHANGED tree
    BY <1>3, Zenon DEF GetSpan, GetSpanLoad, Follow, Look
  <2> QED BY <2>1, ReachQuiet, ZenonT(60)
<1>4. CASE Reset
  BY <1>4, Zenon DEF Reset, ReachInv
<1>5. CASE UNCHANGED vars
  BY <1>5, ReachQuiet, ZenonT(60) DEF vars, tree
<1> QED BY <1>2, <1>3, <1>4, <1>5, Zenon DEF Next, ShardStep

LEMMA LinksAreNodes == TreeInv /\ ReachInv => NodesConserved
<1> SUFFICES ASSUME TreeInv, ReachInv PROVE NodesConserved
  BY Zenon
<1>1. PICK lev \in Levels : Tree(lev)
  BY Zenon DEF TreeInv
<1>2. TreeType
  BY Zenon DEF TreeInv
<1>3. Links = {l \in Linkers \X Cells : children[l[1]][l[2]] \in Nodes}
  BY Zenon DEF Links, Linkers
<1>4. ASSUME NEW l \in Links
      PROVE  /\ l = <<l[1], l[2]>> /\ l[2] \in Cells /\ l[1] \in Inner(lev)
             /\ children[l[1]][l[2]] \in in_use
  <2>1. l \in Linkers \X Cells /\ children[l[1]][l[2]] \in Nodes
    BY <1>3, ZenonT(60)
  <2>2. PICK m \in Linkers, i \in Cells : l = <<m, i>>
    BY <2>1
  <2>3. l[1] = m /\ l[2] = i /\ children[m][i] \in Nodes
    BY <2>1, <2>2, ZenonT(60)
  <2>4. children[m][i] # Null /\ children[m][i] \notin Spans
    BY <2>3, Zenon
  <2>5. CASE m \in in_use
    <3>1. lev[m] # 3 /\ children[m][i] \in in_use
      BY <2>4, <2>5, <1>1, ZenonT(60) DEF Tree
    <3> QED BY <3>1, <2>2, <2>3, <2>5, ZenonT(60) DEF Inner
  <2>6. CASE m = root_ /\ root_ # Null
    <3>1. root_ = Root
      BY <2>6, <1>2 DEF TreeType
    <3>2. children[m][i] \in in_use
      BY <3>1, <2>4, <2>6, <1>1, ZenonT(60) DEF Tree
    <3> QED BY <3>2, <2>2, <2>3, <2>6, ZenonT(60) DEF Inner
  <2> QED BY <2>5, <2>6, ZenonT(60) DEF Linkers
<1>5. ASSUME NEW x \in Links, NEW y \in Links,
             children[x[1]][x[2]] = children[y[1]][y[2]]
      PROVE  x = y
  <2>1. children[x[1]][x[2]] = children[y[1]][y[2]] /\ children[x[1]][x[2]] # Null
    BY <1>5, <1>4, <1>2, ZenonT(60) DEF TreeType
  <2>2. /\ x[1] \in Inner(lev) /\ x[2] \in Cells
        /\ y[1] \in Inner(lev) /\ y[2] \in Cells
    BY <1>4, Zenon
  <2>3. \A m, n \in Inner(lev), i, j \in Cells :
           children[m][i] # Null /\ children[m][i] = children[n][j] => m = n /\ i = j
    BY <1>1, ZenonT(60) DEF Tree
  <2>4. x[1] = y[1] /\ x[2] = y[2]
    BY <2>1, <2>2, <2>3
  <2> QED BY <2>4, <1>4, ZenonT(60)
<1>6. ASSUME NEW n \in in_use PROVE \E l \in Links : children[l[1]][l[2]] = n
  <2>1. PICK m \in Linkers, i \in Cells : children[m][i] = n
    BY Zenon DEF ReachInv
  <2>2. n \in Nodes
    BY <1>2, ZenonT(60) DEF TreeType
  <2>3. PICK l : l = <<m, i>>
    BY Zenon
  <2>4. l \in Links /\ children[l[1]][l[2]] = n
    BY <2>1, <2>2, <2>3, <1>3, SMTT(30)
  <2> QED BY <2>4, Zenon
<1>7. {children[l[1]][l[2]] : l \in Links} = in_use
  BY <1>4, <1>6, ZenonT(60)
<1> QED BY <1>5, <1>7, ZenonT(60) DEF NodesConserved

\* The nodes TryNewRadixNode hands out and the links of the tree match one to
\* one, whichever shards grow the same path at once and wherever EnsureRange
\* runs out of memory: no node is linked twice and none is lost.
THEOREM NodesAreConserved == Spec => []NodesConserved
<1>1. Init => MapInv /\ ReachInv
  BY MapInitInv, ReachInit, Zenon
<1>2. MapInv /\ ReachInv /\ [Next]_vars => (MapInv /\ ReachInv)'
  BY MapStep, ReachStep, Zenon
<1>3. MapInv /\ ReachInv => NodesConserved
  BY LinksAreNodes, Zenon DEF MapInv
<1> QED BY <1>1, <1>2, <1>3, PTL DEF Spec
=============================================================================
