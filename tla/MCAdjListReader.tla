--------------------------- MODULE MCAdjListReader ---------------------------
(****************************************************************************)
(* Small instances of AdjListReader for TLC: every aligned adjacency list   *)
(* with at most MaxEdges edges, MaxEdgesOfChunk of them in a vertex chunk.  *)
(****************************************************************************)
EXTENDS AdjListReader, FiniteSetsExt

CONSTANTS MaxEdges, MaxEdgesOfChunk

\* The edge tables of one vertex chunk.
SmallTables(vc) ==
    UNION {[1 .. n -> {v \in VertexIds : VertexChunkOf(v) = vc}] :
              n \in 0 .. MaxEdgesOfChunk}

SmallPayloads ==
    {a \in [VertexChunks -> UNION {SmallTables(vc) : vc \in VertexChunks}] :
        /\ Aligned(a)
        /\ MapThenSumSet(LAMBDA vc : Len(a[vc]), VertexChunks) <= MaxEdges}
==============================================================================
