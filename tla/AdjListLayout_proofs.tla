----------------------- MODULE AdjListLayout_proofs -----------------------
(****************************************************************************)
(* Facts about the layout arithmetic that the proofs about the readers and  *)
(* writers rest on: integer division, numbers of chunks and entries of the  *)
(* offset chunks.                                                           *)
(****************************************************************************)
EXTENDS AdjListLayout, BasicFacts

\* (n + size - 1) / size chunks hold n rows, and chunk i exists if row i * size does.
LEMMA ChunkNumType ==
    ASSUME NEW n \in Nat, NEW size \in Nat \ {0}
    PROVE  /\ ChunkNum(n, size) \in Nat
           /\ n <= ChunkNum(n, size) * size
           /\ \A i \in Nat : i < ChunkNum(n, size) <=> i * size < n
BY SMT DEF ChunkNum

\* The arithmetic of vertex chunks.
LEMMA VertexChunkType ==
    /\ VertexChunkNum \in Nat
    /\ VertexChunks = {vc \in Nat : vc < VertexChunkNum}
    /\ \A v \in Nat : VertexChunkOf(v) \in Nat
<1>1. VertexChunkNum \in Nat
  BY LayoutAssumption, ChunkNumType DEF VertexChunkNum
<1>2. VertexChunks = {vc \in Nat : vc < VertexChunkNum}
  BY <1>1 DEF VertexChunks
<1>3. \A v \in Nat : VertexChunkOf(v) \in Nat
  BY LayoutAssumption, DivType DEF VertexChunkOf
<1>. QED BY <1>1, <1>2, <1>3

\* The numbers of edges and of edge chunks of a vertex chunk.
LEMMA EdgeChunkType ==
    ASSUME NEW s \in AdjLists, NEW vc \in VertexChunks
    PROVE  /\ EdgeNum(s, vc) \in Nat
           /\ EdgeChunkNum(s, vc) \in Nat
           /\ EdgeNum(s, vc) <= EdgeChunkNum(s, vc) * ChunkSize
           /\ \A ec \in Nat : ec < EdgeChunkNum(s, vc) <=> ec * ChunkSize < EdgeNum(s, vc)
<1>1. EdgeNum(s, vc) \in Nat
  BY DEF AdjLists, EdgeNum
<1>. QED BY <1>1, LayoutAssumption, ChunkNumType DEF EdgeChunkNum

\* The offset of a vertex is a row number of its chunk or the row after the last.
LEMMA FirstRowType ==
    ASSUME NEW s \in AdjLists, NEW v \in Nat, VertexChunkOf(v) \in VertexChunks
    PROVE  /\ FirstRow(s, v) \in Nat
           /\ FirstRow(s, v) <= EdgeNum(s, VertexChunkOf(v))
<1>. DEFINE edges == s[VertexChunkOf(v)]
            smaller == {i \in 1 .. Len(edges) : edges[i] < v}
<1>1. Len(edges) \in Nat
  BY DEF AdjLists
<1>2. smaller \in SUBSET (1 .. Len(edges))
  OBVIOUS
<1>3. Cardinality(smaller) \in Nat /\ Cardinality(smaller) <= Len(edges)
  <2>. HIDE DEF smaller
  <2>. QED BY <1>1, <1>2, SubsetOfInterval
<1>. QED BY <1>3 DEF FirstRow, EdgeNum

\* In an ordered list the edges of smaller vertices come first, then those of the vertex:
\* the two entries of the offset chunk delimit its edges.
LEMMA OffsetsDelimit ==
    ASSUME NEW s \in AdjLists, Ordered(s), NEW v \in Nat, VertexChunkOf(v) \in VertexChunks
    PROVE  LET edges == s[VertexChunkOf(v)]
           IN  /\ EndRow(s, v) \in Nat
               /\ EndRow(s, v) <= Len(edges)
               /\ \A i \in 1 .. Len(edges) :
                     /\ edges[i] < v <=> i <= FirstRow(s, v)
                     /\ edges[i] <= v <=> i <= EndRow(s, v)
<1>. DEFINE edges == s[VertexChunkOf(v)]
            n == Len(edges)
            smaller == {i \in 1 .. n : edges[i] < v}
            upto == {i \in 1 .. n : edges[i] <= v}
<1>1. /\ n \in Nat
      /\ \A i \in 1 .. n : edges[i] \in Nat
      /\ \A i, j \in 1 .. n : i <= j => edges[i] <= edges[j]
  BY LayoutAssumption DEF AdjLists, Ordered, VertexIds
<1>. HIDE DEF edges, n
<1>2. /\ Cardinality(smaller) \in Nat
      /\ \A i \in 1 .. n : i \in smaller <=> i <= Cardinality(smaller)
  <2>1. smaller \in SUBSET (1 .. n)
    OBVIOUS
  <2>2. \A i \in smaller : \A j \in 1 .. i : j \in smaller
    BY <1>1
  <2>. HIDE DEF smaller
  <2>. QED BY <1>1, <2>1, <2>2, LeadingRows
<1>3. /\ Cardinality(upto) \in Nat
      /\ \A i \in 1 .. n : i \in upto <=> i <= Cardinality(upto)
  <2>1. upto \in SUBSET (1 .. n)
    OBVIOUS
  <2>2. \A i \in upto : \A j \in 1 .. i : j \in upto
    BY <1>1
  <2>. HIDE DEF upto
  <2>. QED BY <1>1, <2>1, <2>2, LeadingRows
<1>4. Cardinality(upto) <= n
  <2>1. upto \in SUBSET (1 .. n)
    OBVIOUS
  <2>. HIDE DEF upto
  <2>. QED BY <1>1, <2>1, SubsetOfInterval
<1>5. FirstRow(s, v) = Cardinality(smaller) /\ EndRow(s, v) = Cardinality(upto)
  BY DEF FirstRow, EndRow, edges, n
<1>. HIDE DEF smaller, upto
<1>6. \A i \in 1 .. n : /\ edges[i] < v <=> i \in smaller
                        /\ edges[i] <= v <=> i \in upto
  BY DEF smaller, upto
<1>. QED BY <1>2, <1>3, <1>4, <1>5, <1>6 DEF edges, n
==============================================================================
