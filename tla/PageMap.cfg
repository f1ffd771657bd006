CONSTANTS
    Shards = {w1, w2}
    Readers = {r1}
    RootSize = 1
    NodeSize = 2
    Nodes = {n1, n2, n3, n4, n5, n6}
    Root = Root
    Spans = {s1, s2}
    Null = Null
    PageIds <- MCPageIds
    LookupIds = {4, 8}
    Requests <- MCRequests
SYMMETRY Symmetry
SPECIFICATION Spec
INVARIANTS PathPrepared NodesConserved PublishedExact LeavesNameLive
PROPERTY ImplementsFlatMap
