---------------------------- MODULE AdjListLayout ----------------------------
(****************************************************************************)
(* The on-disk layout of one adjacency list of one edge type.               *)
(*                                                                          *)
(* Vertex ids are cut into vertex chunks of VertexChunkSize ids.  The edges *)
(* whose aligned endpoint (the source for the *_by_source types, the        *)
(* destination for the *_by_dest types) lies in a vertex chunk form one     *)
(* logical table, which is cut into edge chunks of ChunkSize rows, one file *)
(* each.  Beside the edge chunks the layout has, per adjacency list, a file *)
(* with the number of vertices, and per vertex chunk a file with its number *)
(* of edges and, for the ordered types, an offset chunk.                    *)
(*                                                                          *)
(* An adjacency list is represented by adj, which maps a vertex chunk to    *)
(* the sequence of the aligned endpoints of its edges, in storage order.    *)
(* Rows are numbered from 0, as in the code: row i is adj[vc][i + 1].       *)
(****************************************************************************)
EXTENDS Integers, Sequences, FiniteSets

CONSTANTS VertexNum,         \* contents of the vertex count file
          VertexChunkSize,   \* EdgeInfo: src_chunk_size or dst_chunk_size
          ChunkSize          \* EdgeInfo: chunk_size, the rows of an edge chunk

ASSUME LayoutAssumption ==
    /\ VertexNum \in Nat
    /\ VertexChunkSize \in Nat \ {0}
    /\ ChunkSize \in Nat \ {0}

\* The number of chunks of the given size that n items fill.
ChunkNum(n, size) == (n + size - 1) \div size

VertexChunkNum == ChunkNum(VertexNum, VertexChunkSize)

VertexChunks == 0 .. VertexChunkNum - 1

VertexIds == 0 .. VertexNum - 1

VertexChunkOf(v) == v \div VertexChunkSize

\* The contents of the edge count file of a vertex chunk.
EdgeNum(adj, vc) == Len(adj[vc])

FullChunkNum(adj, vc) == EdgeNum(adj, vc) \div ChunkSize   \* fault model: not rounded up
EdgeChunkNum(adj, vc) == ChunkNum(EdgeNum(adj, vc), ChunkSize)

\* Rows of the edge chunk file <<vc, ec>>: all full but possibly the last.
RowsOfChunk(adj, chunk) ==
    LET rest == EdgeNum(adj, chunk[1]) - chunk[2] * ChunkSize
    IN  IF rest < ChunkSize THEN rest ELSE ChunkSize

\* The entry of the offset chunk for v: the row of the first edge of v.
FirstRow(adj, v) ==
    LET edges == adj[VertexChunkOf(v)]
    IN  Cardinality({i \in 1 .. Len(edges) : edges[i] < v})

\* The entry that follows: the row after the last edge of v.
EndRow(adj, v) ==
    LET edges == adj[VertexChunkOf(v)]
    IN  Cardinality({i \in 1 .. Len(edges) : edges[i] <= v})

AdjLists == [VertexChunks -> Seq(VertexIds)]

\* Every edge is in the vertex chunk of its aligned endpoint.
Aligned(adj) ==
    \A vc \in VertexChunks : \A i \in 1 .. Len(adj[vc]) :
        VertexChunkOf(adj[vc][i]) = vc

\* The order promised by the ordered types.
Ordered(adj) ==
    \A vc \in VertexChunks : \A i, j \in 1 .. Len(adj[vc]) :
        i <= j => adj[vc][i] <= adj[vc][j]
==============================================================================
