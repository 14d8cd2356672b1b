------------------------------ MODULE MCEdgeIter ------------------------------
(****************************************************************************)
(* Small instances of EdgeIter for TLC.                                     *)
(****************************************************************************)
EXTENDS EdgeIter

CONSTANTS EdgeNums,   \* the numbers of edges a vertex chunk may have
          MaxEdges    \* the most that an adjacency list has

\* The edge tables of one vertex chunk.
SmallTables(vc) ==
    UNION {[1 .. n -> {v \in VertexIds : VertexChunkOf(v) = vc}] : n \in EdgeNums}

SmallNullRows == {<<0, 0>>, <<1, 1>>, <<1, 2>>}

SmallPayloads ==
    {a \in [VertexChunks -> UNION {SmallTables(vc) : vc \in VertexChunks}] :
        /\ Aligned(a)
        /\ MapThenSumSet(LAMBDA vc : Len(a[vc]), VertexChunks) <= MaxEdges}

\* The whole list, and a part from its middle.
SomeRanges == {<<0, 3>>, <<1, 2>>}

\* What the next call depends on: call is only there for the property Scans, which
\* TLC checks on every step, also on one to a state whose view it has seen.
Members == <<adj, adj_list_type, range, it>>

WholeRange == {<<0, VertexChunkNum>>}
==============================================================================
