------------------------- MODULE EdgesBuilder_proofs -------------------------
(****************************************************************************)
(* Proofs about EdgesBuilder: the types, and that whatever a first Dump     *)
(* leaves in the directory, at every moment, is described by the counts and *)
(* the offsets that it has written before; and that the first Dump which    *)
(* returns OK has published its edges, whatever earlier dumps left in the   *)
(* directory.                                                               *)
(****************************************************************************)
EXTENDS EdgesBuilder, AdjListLayout_proofs

------------------------------------------------------------------------------
(* The inductive invariant.                                                 *)

Marks == {Missing, Torn}

ChunkRows == {rows \in Rows : Len(rows) \in 1 .. ChunkSize}

MemoryTyped ==
    /\ adj_list_type \in AdjListTypes
    /\ edges \in [DOMAIN edges -> Rows] /\ DOMAIN edges \subseteq Buckets
    /\ is_saved \in BOOLEAN
    /\ added \subseteq Edges /\ dumping \subseteq Edges
    /\ dumps \in 0 .. MaxDumps /\ uses \in Nat /\ saves \in Nat
    /\ result \in {"none", "OK", "error", "crash"}

DirectoryTyped ==
    /\ vertex_count \in Nat \cup Marks
    /\ edge_count \in [VertexChunks -> Nat \cup Marks]
    /\ offset_chunk \in [Buckets -> OffsetChunks \cup Marks]
    /\ adj_chunk \in [FileChunks -> ChunkRows \cup Marks]
    /\ prop_chunk \in [FileChunks -> ChunkRows \cup Marks]

Counting == {"offset", "vertex_count", "edge_count"}
Writing == {"table", "adj_chunk", "prop_chunk"}

\* Where Dump stands in its loops.
InLoops ==
    /\ pc \in {"idle"} \cup Counting \cup Writing
    /\ todo \subseteq DOMAIN edges
    /\ chunk \in Nat \X Nat
    /\ pc = "idle" => todo = {}
    /\ pc # "idle" => VertexChunks \subseteq DOMAIN edges /\ dumping = added
    /\ pc = "edge_count" => chunk[1] \in VertexChunks
    /\ pc \in {"adj_chunk", "prop_chunk"} => chunk[1] \in todo
    /\ pc = "prop_chunk" => RowsLeft
    /\ dumps = 0 => pc = "idle"

\* The edges in memory were added, and to the table of their vertex chunk.
EdgesHeld ==
    \A vc \in DOMAIN edges : \A i \in 1 .. Len(edges[vc]) :
        edges[vc][i] \in added /\ ChunkOfEdge(edges[vc][i]) = vc

\* The entries of a vertex chunk that select row i select it for the endpoint of e.
Selects(offsets, vc, i, e) ==
    \A k \in 0 .. VertexChunkSize - 1 :
        Endpoint(e) = vc * VertexChunkSize + k <=> offsets[k] <= i /\ i < offsets[k + 1]

OffsetsFit(vc) ==
    /\ offset_chunk[vc] \in OffsetChunks
    /\ \A i \in 1 .. Len(edges[vc]) : Selects(offset_chunk[vc], vc, i - 1, edges[vc][i])

\* The tables that are still to be written fit the offsets and counts that are written.
CountsAhead ==
    /\ IsOrdered =>
          /\ pc = "offset" => \A vc \in DOMAIN edges \ todo : OffsetsFit(vc)
          /\ pc \in {"vertex_count", "edge_count"} => \A vc \in DOMAIN edges : OffsetsFit(vc)
          /\ pc \in Writing => \A vc \in todo : OffsetsFit(vc)
    /\ pc = "edge_count" =>
          \A vc \in VertexChunks : vc < chunk[1] => edge_count[vc] = Len(edges[vc])
    /\ pc \in Writing => \A vc \in todo \cap VertexChunks : edge_count[vc] = Len(edges[vc])

Unwritten(vc, ec) == adj_chunk[<<vc, ec>>] = Missing /\ prop_chunk[<<vc, ec>>] = Missing

\* What the first Dump has not come to yet is not there.
NotYet ==
    dumps <= 1 => \A c \in FileChunks :
        /\ dumps = 0 \/ pc \in Counting => Unwritten(c[1], c[2])
        /\ pc = "table" /\ c[1] \in todo => Unwritten(c[1], c[2])
        /\ pc \in {"adj_chunk", "prop_chunk"} /\ c[1] \in todo \ {chunk[1]} => Unwritten(c[1], c[2])
        /\ pc \in {"adj_chunk", "prop_chunk"} /\ c[1] = chunk[1] /\ c[2] >= chunk[2] =>
              prop_chunk[c] = Missing
        /\ pc = "prop_chunk" /\ c = chunk => adj_chunk[c] = Slice(edges[c[1]], c[2])

RowDescribed(vc, i, e) ==
    /\ e \in dumping /\ ChunkOfEdge(e) = vc
    /\ i < edge_count[vc]
    /\ IsOrdered => Selects(offset_chunk[vc], vc, i, e)

ChunkDescribed(vc, ec) ==
    /\ adj_chunk[<<vc, ec>>] \notin Marks =>
          /\ edge_count[vc] \in Nat
          /\ IsOrdered => offset_chunk[vc] \in OffsetChunks
          /\ \A j \in 1 .. Len(adj_chunk[<<vc, ec>>]) :
                RowDescribed(vc, ec * ChunkSize + j - 1, adj_chunk[<<vc, ec>>][j])
    /\ prop_chunk[<<vc, ec>>] \notin Marks => prop_chunk[<<vc, ec>>] = adj_chunk[<<vc, ec>>]

Described ==
    dumps <= 1 => \A vc \in VertexChunks, ec \in EdgeChunks : ChunkDescribed(vc, ec)

Inv ==
    MemoryTyped /\ DirectoryTyped /\ InLoops /\ EdgesHeld /\ CountsAhead /\ NotYet /\ Described


------------------------------------------------------------------------------
(* Arithmetic of rows.                                                      *)

\* Row j of edge chunk ec is row ec * ChunkSize + j - 1 of the table.
LEMMA RowNumber ==
    ASSUME NEW ec \in Nat, NEW j \in 1 .. ChunkSize
    PROVE  /\ ec * ChunkSize + j - 1 \in Nat
           /\ (ec * ChunkSize + j - 1) \div ChunkSize = ec
           /\ (ec * ChunkSize + j - 1) % ChunkSize = j - 1
<1>. DEFINE n == ec * ChunkSize + j - 1
            q == n \div ChunkSize
<1>0. ChunkSize \in Nat \ {0}
  BY LayoutAssumption
<1>1. ec * ChunkSize \in Nat /\ n \in Nat
  BY <1>0
<1>2. q \in Nat /\ q * ChunkSize <= n /\ n < q * ChunkSize + ChunkSize
  <2>. HIDE DEF n
  <2>. QED BY <1>0, <1>1, DivType
<1>3. ~(q < ec)
  <2>. SUFFICES ASSUME q < ec PROVE FALSE
    OBVIOUS
  <2>. HIDE DEF q
  <2>1. (q + 1) * ChunkSize <= ec * ChunkSize
    BY <1>0, <1>2
  <2>2. (q + 1) * ChunkSize = q * ChunkSize + ChunkSize
    BY <1>0, <1>2
  <2>. QED BY <2>1, <2>2, <1>0, <1>1, <1>2
<1>4. ~(ec < q)
  <2>. SUFFICES ASSUME ec < q PROVE FALSE
    OBVIOUS
  <2>. HIDE DEF q
  <2>1. (ec + 1) * ChunkSize <= q * ChunkSize
    BY <1>0, <1>2
  <2>2. (ec + 1) * ChunkSize = ec * ChunkSize + ChunkSize
    BY <1>0
  <2>3. q * ChunkSize \in Nat
    BY <1>0, <1>2
  <2>. QED BY <2>1, <2>2, <2>3, <1>0, <1>1, <1>2
<1>5. q = ec
  <2>. HIDE DEF q
  <2>. QED BY <1>2, <1>3, <1>4
<1>6. n % ChunkSize = n - q * ChunkSize
  <2>. HIDE DEF n
  <2>. QED BY <1>0, <1>1
<1>7. n % ChunkSize = j - 1
  <2>1. n % ChunkSize = n - ec * ChunkSize
    <3>. HIDE DEF n, q
    <3>. QED BY <1>5, <1>6
  <2>2. n - ec * ChunkSize = j - 1
    BY <1>0, <1>1
  <2>. HIDE DEF n
  <2>. QED BY <2>1, <2>2
<1>. QED BY <1>1, <1>5, <1>7

\* A slice of a table that has rows left is a chunk of those rows.
LEMMA SliceRows ==
    ASSUME NEW q \in Rows, NEW ec \in Nat, ec * ChunkSize < Len(q)
    PROVE  /\ Slice(q, ec) \in ChunkRows
           /\ \A j \in 1 .. Len(Slice(q, ec)) :
                 /\ ec * ChunkSize + j \in 1 .. Len(q)
                 /\ Slice(q, ec)[j] = q[ec * ChunkSize + j]
<1>0. ChunkSize \in Nat \ {0} /\ q \in Seq(Edges) /\ Len(q) \in Nat
  BY LayoutAssumption DEF Rows
<1>. DEFINE first == ec * ChunkSize
            last == IF (ec + 1) * ChunkSize < Len(q) THEN (ec + 1) * ChunkSize ELSE Len(q)
<1>1. first \in Nat /\ (ec + 1) * ChunkSize = first + ChunkSize
  BY <1>0
<1>2. last \in Nat /\ first < last /\ last <= Len(q) /\ last <= first + ChunkSize
  BY <1>0, <1>1
<1>3. Slice(q, ec) = SubSeq(q, first + 1, last)
  BY DEF Slice
<1>. HIDE DEF first, last
<1>4. /\ SubSeq(q, first + 1, last) \in Seq(Edges)
      /\ Len(SubSeq(q, first + 1, last)) = last - first
      /\ \A j \in 1 .. last - first : SubSeq(q, first + 1, last)[j] = q[first + j]
  BY <1>0, <1>1, <1>2
<1>. QED BY <1>0, <1>1, <1>2, <1>3, <1>4 DEF ChunkRows, Rows, first

------------------------------------------------------------------------------
(* Sorted tables and their offsets.                                         *)

\* Sorting keeps the rows of a table and puts them in order.
LEMMA SortedRows ==
    ASSUME NEW q \in Rows, NEW r \in SortedVersions(q)
    PROVE  /\ r \in Rows /\ Len(r) = Len(q)
           /\ \A i \in 1 .. Len(r) : \E j \in 1 .. Len(q) : r[i] = q[j]
           /\ \A i, j \in 1 .. Len(r) : i < j => Endpoint(r[i]) <= Endpoint(r[j])
<1>1. /\ r \in [1 .. Len(q) -> {q[i] : i \in 1 .. Len(q)}]
      /\ \A i, j \in 1 .. Len(q) : i < j => Endpoint(r[i]) <= Endpoint(r[j])
  BY DEF SortedVersions
<1>2. Len(q) \in Nat /\ \A i \in 1 .. Len(q) : q[i] \in Edges
  BY DEF Rows
<1>3. r \in [1 .. Len(q) -> Edges]
  BY <1>1, <1>2
<1>4. r \in Seq(Edges) /\ Len(r) = Len(q)
  BY <1>2, <1>3
<1>. QED BY <1>1, <1>4 DEF Rows

\* The number of leading rows whose endpoint is less than v, as getOffsetTable counts it.
LeadingBelow(rows, v) ==
    {i \in 1 .. Len(rows) : \A j \in 1 .. i : Endpoint(rows[j]) <= v - 1}

\* Their number is a length, and they are those rows and no others.
LEMMA LeadingBelowType ==
    ASSUME NEW rows \in Rows, NEW v \in Int
    PROVE  /\ Cardinality(LeadingBelow(rows, v)) \in Nat
           /\ \A i \in 1 .. Len(rows) :
                 i \in LeadingBelow(rows, v) <=> i <= Cardinality(LeadingBelow(rows, v))
<1>1. Len(rows) \in Nat
  BY DEF Rows
<1>2. LeadingBelow(rows, v) \in SUBSET (1 .. Len(rows))
  BY DEF LeadingBelow
<1>3. \A i \in LeadingBelow(rows, v) : \A j \in 1 .. i : j \in LeadingBelow(rows, v)
  BY <1>1 DEF LeadingBelow
<1>. QED BY <1>1, <1>2, <1>3, LeadingRows

\* In a sorted table those rows are all that have such an endpoint.
LEMMA LeadingBelowSorted ==
    ASSUME NEW rows \in Rows, NEW v \in Int, NEW i \in 1 .. Len(rows),
           \A k, l \in 1 .. Len(rows) : k < l => Endpoint(rows[k]) <= Endpoint(rows[l])
    PROVE  i \in LeadingBelow(rows, v) <=> Endpoint(rows[i]) < v
<1>1. Len(rows) \in Nat /\ \A k \in 1 .. Len(rows) : Endpoint(rows[k]) \in Nat
  BY BuilderAssumption DEF Rows, Endpoint
<1>2. ASSUME Endpoint(rows[i]) < v, NEW j \in 1 .. i
      PROVE  Endpoint(rows[j]) <= v - 1
  <2>1. j \in 1 .. Len(rows) /\ (j < i \/ j = i)
    BY <1>1
  <2>2. Endpoint(rows[j]) <= Endpoint(rows[i])
    BY <1>1, <2>1
  <2>. QED BY <1>1, <1>2, <2>1, <2>2
<1>3. i \in 1 .. i
  BY <1>1
<1>. QED BY <1>1, <1>2, <1>3 DEF LeadingBelow

\* An offset chunk begins with 0 and counts the leading rows below each next vertex.
LEMMA OffsetEntries ==
    ASSUME NEW vc \in Nat, NEW rows \in Rows
    PROVE  /\ OffsetTable(vc, rows) \in OffsetChunks
           /\ OffsetTable(vc, rows)[0] = 0
           /\ \A k \in 1 .. VertexChunkSize :
                 OffsetTable(vc, rows)[k]
                     = Cardinality(LeadingBelow(rows, vc * VertexChunkSize + k))
<1>0. VertexChunkSize \in Nat \ {0} /\ vc * VertexChunkSize \in Nat
  BY LayoutAssumption
<1>1. \A k \in 1 .. VertexChunkSize :
         OffsetTable(vc, rows)[k] = Cardinality(LeadingBelow(rows, vc * VertexChunkSize + k))
  BY <1>0 DEF OffsetTable, LeadingBelow
<1>2. OffsetTable(vc, rows)[0] = 0
  BY <1>0 DEF OffsetTable
<1>3. \A k \in 0 .. VertexChunkSize : OffsetTable(vc, rows)[k] \in Nat
  <2>. SUFFICES ASSUME NEW k \in 1 .. VertexChunkSize
                PROVE  OffsetTable(vc, rows)[k] \in Nat
    BY <1>0, <1>2
  <2>1. vc * VertexChunkSize + k \in Int
    BY <1>0
  <2>. QED BY <1>1, <2>1, LeadingBelowType
<1>4. OffsetTable(vc, rows) = [k \in 0 .. VertexChunkSize |-> OffsetTable(vc, rows)[k]]
  BY DEF OffsetTable
<1>. QED BY <1>1, <1>2, <1>3, <1>4 DEF OffsetChunks

\* The offsets of a sorted table of a vertex chunk select every row for its endpoint.
LEMMA OffsetsSelectRows ==
    ASSUME NEW vc \in Nat, NEW rows \in Rows,
           \A k, l \in 1 .. Len(rows) : k < l => Endpoint(rows[k]) <= Endpoint(rows[l]),
           NEW i \in 1 .. Len(rows), ChunkOfEdge(rows[i]) = vc
    PROVE  Selects(OffsetTable(vc, rows), vc, i - 1, rows[i])
<1>. DEFINE base == vc * VertexChunkSize
            v == Endpoint(rows[i])
            offsets == OffsetTable(vc, rows)
<1>0. /\ VertexChunkSize \in Nat \ {0} /\ base \in Nat
      /\ Len(rows) \in Nat /\ v \in Nat
  BY LayoutAssumption, BuilderAssumption DEF Rows, Endpoint
<1>1. base <= v
  <2>1. v \div VertexChunkSize = vc
    BY DEF ChunkOfEdge, VertexChunkOf
  <2>. HIDE DEF v
  <2>. QED BY <1>0, <2>1, DivType
<1>2. ASSUME NEW k \in 1 .. VertexChunkSize
      PROVE  offsets[k] \in Nat /\ (i <= offsets[k] <=> v < base + k)
  <2>1. base + k \in Int
    BY <1>0
  <2>2. offsets[k] = Cardinality(LeadingBelow(rows, base + k))
    BY OffsetEntries
  <2>. HIDE DEF offsets, v, base
  <2>3. i \in LeadingBelow(rows, base + k) <=> v < base + k
    BY <2>1, LeadingBelowSorted DEF v
  <2>. QED BY <2>1, <2>2, <2>3, LeadingBelowType
<1>3. offsets[0] = 0
  BY OffsetEntries
<1>. HIDE DEF offsets, v, base
<1>4. ASSUME NEW k \in 0 .. VertexChunkSize - 1
      PROVE  v = base + k <=> offsets[k] <= i - 1 /\ i - 1 < offsets[k + 1]
  <2>1. k + 1 \in 1 .. VertexChunkSize
    BY <1>0
  <2>2. offsets[k + 1] \in Nat /\ (i - 1 < offsets[k + 1] <=> v < base + (k + 1))
    BY <1>0, <1>2, <2>1
  <2>3. offsets[k] <= i - 1 <=> base + k <= v
    <3>1. CASE k = 0
      BY <1>0, <1>1, <1>3, <3>1
    <3>2. CASE k \in 1 .. VertexChunkSize
      BY <1>0, <1>2, <3>2
    <3>. QED BY <1>0, <3>1, <3>2
  <2>. QED BY <1>0, <2>2, <2>3
<1>. QED BY <1>4 DEF Selects, v, base, offsets

------------------------------------------------------------------------------
(* The invariant holds initially.                                           *)

\* The vertex chunks of edges and vertices are numbers.
LEMMA BucketsType ==
    /\ VertexChunks \subseteq Buckets /\ Buckets \subseteq Nat
    /\ \A e \in Edges : ChunkOfEdge(e) \in Buckets /\ Endpoint(e) \in Nat
<1>1. \A e \in Edges : Endpoint(e) \in Nat /\ ChunkOfEdge(e) \in Nat
  BY VertexChunkType, BuilderAssumption DEF ChunkOfEdge, Endpoint
<1>. QED BY <1>1, VertexChunkType DEF Buckets

\* The edge chunks are numbers.
LEMMA EdgeChunksType == EdgeChunks \subseteq Nat
BY LayoutAssumption, BuilderAssumption, ChunkNumType DEF EdgeChunks

\* The invariant holds for a new builder and an empty directory.
LEMMA InitCorrect == Init => Inv
<1>. SUFFICES ASSUME Init PROVE Inv
  OBVIOUS
<1>. USE DEF Init, NoEdges, NoChunk
<1>1. MemoryTyped
  <2>1. DOMAIN edges = {} /\ edges \in [DOMAIN edges -> Rows]
    OBVIOUS
  <2>2. adj_list_type \in AdjListTypes /\ dumps \in 0 .. MaxDumps
    BY BuilderAssumption
  <2>. QED BY <2>1, <2>2 DEF MemoryTyped
<1>2. DirectoryTyped
  BY DEF DirectoryTyped, Marks
<1>3. InLoops
  BY DEF InLoops, Counting, Writing
<1>4. EdgesHeld
  BY DEF EdgesHeld
<1>5. CountsAhead
  BY DEF CountsAhead, Writing
<1>6. NotYet
  BY DEF NotYet, Unwritten, FileChunks
<1>7. Described
  BY BucketsType DEF Described, ChunkDescribed, FileChunks, Marks
<1>. QED BY <1>1, <1>2, <1>3, <1>4, <1>5, <1>6, <1>7 DEF Inv

------------------------------------------------------------------------------
(* Steps that leave the directory as it is.                                 *)

\* What the directory holds is described after a step that changes none of it.
LEMMA DirectoryKept ==
    ASSUME Inv, UNCHANGED <<adj_list_type, directory, dumping, dumps>>
    PROVE  DirectoryTyped' /\ Described'
<1>1. DirectoryTyped'
  BY DEF Inv, DirectoryTyped, directory, Marks
<1>2. \A vc, ec : ChunkDescribed(vc, ec) => ChunkDescribed(vc, ec)'
  BY DEF directory, ChunkDescribed, RowDescribed, Selects, IsOrdered
<1>3. Described'
  BY <1>2 DEF Inv, Described
<1>. QED BY <1>1, <1>3

\* Behind such a step nothing is expected of a Dump that does not run.
LEMMA IdleKept ==
    ASSUME Inv, pc' = "idle", UNCHANGED dumps,
           dumps = 0 => UNCHANGED directory
    PROVE  CountsAhead' /\ NotYet'
<1>1. CountsAhead'
  BY DEF CountsAhead, Writing
<1>2. NotYet'
  BY DEF Inv, NotYet, Counting, Unwritten, directory
<1>. QED BY <1>1, <1>2

\* AddEdge keeps it: the edge goes to the table of its own vertex chunk.
LEMMA AddEdgeCorrect ==
    ASSUME Inv, NEW e \in Edges, NEW level \in ValidateLevels, AddEdge(e, level)
    PROVE  Inv'
<1>. DEFINE c == ChunkOfEdge(e)
<1>0. /\ c \in Buckets /\ Bucket(c) \in Rows
      /\ \A i \in 1 .. Len(Bucket(c)) : Bucket(c)[i] \in added /\ ChunkOfEdge(Bucket(c)[i]) = c
  BY BucketsType DEF Inv, MemoryTyped, EdgesHeld, Bucket, Rows
<1>. DEFINE longer == Append(Bucket(c), e)
<1>1. /\ longer \in Rows
      /\ \A i \in 1 .. Len(longer) : longer[i] \in added \cup {e} /\ ChunkOfEdge(longer[i]) = c
  BY <1>0 DEF Rows
<1>. HIDE DEF c, longer
<1>2. edges' = [vc \in DOMAIN edges \cup {c} |-> IF vc = c THEN longer ELSE edges[vc]]
  BY DEF AddEdge, c, longer
<1>3. MemoryTyped'
  <2>1. edges' \in [DOMAIN edges' -> Rows] /\ DOMAIN edges' \subseteq Buckets
    BY <1>0, <1>1, <1>2 DEF Inv, MemoryTyped
  <2>. QED BY <2>1 DEF Inv, MemoryTyped, AddEdge
<1>4. DirectoryTyped' /\ Described'
  BY DirectoryKept DEF AddEdge
<1>5. InLoops'
  BY <1>2 DEF Inv, InLoops, AddEdge
<1>6. EdgesHeld'
  BY <1>1, <1>2 DEF Inv, EdgesHeld, AddEdge
<1>7. CountsAhead' /\ NotYet'
  BY IdleKept DEF AddEdge
<1>. QED BY <1>3, <1>4, <1>5, <1>6, <1>7 DEF Inv

\* Clear keeps it: it empties the builder and touches no file.
LEMMA ClearCorrect ==
    ASSUME Inv, Clear
    PROVE  Inv'
<1>. USE DEF Clear, NoEdges
<1>1. DOMAIN edges' = {} /\ edges' \in [DOMAIN edges' -> Rows]
  OBVIOUS
<1>2. MemoryTyped'
  BY <1>1 DEF Inv, MemoryTyped
<1>3. DirectoryTyped' /\ Described'
  BY DirectoryKept
<1>4. InLoops'
  BY DEF Inv, InLoops
<1>5. EdgesHeld'
  BY <1>1 DEF EdgesHeld
<1>6. CountsAhead' /\ NotYet'
  BY IdleKept
<1>. QED BY <1>2, <1>3, <1>4, <1>5, <1>6 DEF Inv

\* A file that does not exist needs no description.
LEMMA UnwrittenDescribed ==
    ASSUME NEW vc, NEW ec, Unwritten(vc, ec)
    PROVE  ChunkDescribed(vc, ec)
BY DEF Unwritten, ChunkDescribed, Marks

\* The call of Dump keeps it: every vertex chunk of the vertices gets a table.
LEMMA DumpStartCorrect ==
    ASSUME Inv, DumpStart
    PROVE  Inv'
<1>1. /\ edges' \in [DOMAIN edges' -> Rows]
      /\ DOMAIN edges' = DOMAIN edges \cup VertexChunks
      /\ DOMAIN edges' \subseteq Buckets
  BY BucketsType DEF Inv, MemoryTyped, DumpStart, Bucket, Rows
<1>2. MemoryTyped'
  <2>1. dumps' \in 0 .. MaxDumps /\ uses' \in Nat
    BY BuilderAssumption DEF Inv, MemoryTyped, DumpStart
  <2>. QED BY <1>1, <2>1 DEF Inv, MemoryTyped, DumpStart
<1>3. DirectoryTyped'
  BY DEF Inv, DirectoryTyped, DumpStart, directory, Marks
<1>4. InLoops'
  <2>1. dumps' # 0
    BY DEF Inv, MemoryTyped, DumpStart
  <2>2. todo' \subseteq DOMAIN edges'
    BY DEF DumpStart
  <2>. QED BY <1>1, <2>1, <2>2 DEF Inv, InLoops, DumpStart, Counting
<1>5. EdgesHeld'
  BY DEF Inv, EdgesHeld, DumpStart, Bucket
<1>6. CountsAhead'
  BY DEF CountsAhead, DumpStart, IsOrdered, Writing
<1>7. dumps' <= 1 => \A c \in FileChunks : Unwritten(c[1], c[2])'
  <2>1. dumps' <= 1 => dumps = 0
    BY BuilderAssumption DEF Inv, MemoryTyped, DumpStart
  <2>2. \A c : Unwritten(c[1], c[2]) => Unwritten(c[1], c[2])'
    BY DEF Unwritten, DumpStart, directory
  <2>. QED BY <2>1, <2>2 DEF Inv, NotYet
<1>8. NotYet'
  BY <1>7 DEF NotYet, DumpStart, Counting
<1>9. Described'
  <2>. SUFFICES ASSUME dumps' <= 1, NEW vc \in VertexChunks, NEW ec \in EdgeChunks
                PROVE  ChunkDescribed(vc, ec)'
    BY DEF Described
  <2>0. <<vc, ec>> \in FileChunks /\ <<vc, ec>>[1] = vc /\ <<vc, ec>>[2] = ec
    BY BucketsType DEF FileChunks
  <2>1. Unwritten(vc, ec)'
    BY <1>7, <2>0
  <2>. QED BY <2>1 DEF Unwritten, ChunkDescribed, Marks
<1>. QED BY <1>2, <1>3, <1>4, <1>5, <1>6, <1>8, <1>9 DEF Inv

------------------------------------------------------------------------------
(* Writing offsets and counts.                                              *)

\* While the first Dump counts there are no chunks: what it writes concerns none.
LEMMA CountingKept ==
    ASSUME Inv, pc \in Counting, UNCHANGED <<adj_chunk, prop_chunk, dumps>>,
           pc' \in {"idle", "table"} \cup Counting
    PROVE  NotYet' /\ Described'
<1>1. \A c : Unwritten(c[1], c[2]) => Unwritten(c[1], c[2])'
  BY DEF Unwritten
<1>2. dumps <= 1 => \A c \in FileChunks : Unwritten(c[1], c[2])'
  BY <1>1 DEF Inv, NotYet
<1>3. NotYet'
  BY <1>2 DEF NotYet, Counting
<1>4. ASSUME dumps' <= 1, NEW vc \in VertexChunks, NEW ec \in EdgeChunks
      PROVE  ChunkDescribed(vc, ec)'
  <2>1. <<vc, ec>> \in FileChunks /\ <<vc, ec>>[1] = vc /\ <<vc, ec>>[2] = ec
    BY BucketsType DEF FileChunks
  <2>2. Unwritten(vc, ec)'
    BY <1>2, <1>4, <2>1
  <2>. QED BY <2>2 DEF Unwritten, ChunkDescribed, Marks
<1>. QED BY <1>3, <1>4 DEF Described

\* The loop over the offset chunks keeps it: the offsets are those of the sorted table.
LEMMA WriteOffsetChunkCorrect ==
    ASSUME Inv, WriteOffsetChunk
    PROVE  Inv'
<1>. DEFINE Writes(vc, sorted) ==
         /\ edges' = [edges EXCEPT ![vc] = sorted]
         /\ offset_chunk' = [offset_chunk EXCEPT ![vc] = OffsetTable(vc, sorted)]
         /\ todo' = todo \ {vc}
         /\ pc' = IF todo' = {} THEN "vertex_count" ELSE "offset"
<1>0. PICK vc \in todo : \E sorted \in SortedVersions(edges[vc]) : Writes(vc, sorted)
  BY DEF WriteOffsetChunk
<1>1. PICK sorted \in SortedVersions(edges[vc]) : Writes(vc, sorted)
  BY <1>0
<1>2. /\ pc = "offset" /\ IsOrdered' = IsOrdered
      /\ UNCHANGED <<adj_list_type, is_saved, chunk, vertex_count, edge_count, adj_chunk,
                     prop_chunk, history>>
  BY DEF WriteOffsetChunk, IsOrdered
<1>3. vc \in DOMAIN edges /\ vc \in Buckets /\ vc \in Nat /\ edges[vc] \in Rows
  BY BucketsType DEF Inv, InLoops, MemoryTyped
<1>4. /\ sorted \in Rows
      /\ \A i \in 1 .. Len(sorted) : sorted[i] \in added /\ ChunkOfEdge(sorted[i]) = vc
  BY <1>3, SortedRows DEF Inv, EdgesHeld
<1>5. MemoryTyped'
  BY <1>1, <1>2, <1>4 DEF Inv, MemoryTyped, history
<1>6. DirectoryTyped'
  <2>1. OffsetTable(vc, sorted) \in OffsetChunks
    BY <1>3, <1>4, OffsetEntries
  <2>. QED BY <1>1, <1>2, <2>1 DEF Inv, DirectoryTyped, Marks
<1>7. InLoops'
  BY <1>1, <1>2 DEF Inv, InLoops, Counting, history
<1>8. EdgesHeld'
  BY <1>1, <1>2, <1>3, <1>4 DEF Inv, EdgesHeld, history
<1>9. CountsAhead'
  <2>1. OffsetsFit(vc)'
    <3>1. edges'[vc] = sorted /\ offset_chunk'[vc] = OffsetTable(vc, sorted)
      BY <1>1, <1>3 DEF Inv, DirectoryTyped
    <3>2. OffsetTable(vc, sorted) \in OffsetChunks
      BY <1>3, <1>4, OffsetEntries
    <3>3. \A i \in 1 .. Len(sorted) : Selects(OffsetTable(vc, sorted), vc, i - 1, sorted[i])
      BY <1>3, <1>4, SortedRows, OffsetsSelectRows
    <3>. QED BY <3>1, <3>2, <3>3 DEF OffsetsFit
  <2>2. ASSUME NEW u \in DOMAIN edges, u # vc, OffsetsFit(u)
        PROVE  OffsetsFit(u)'
    <3>1. edges'[u] = edges[u] /\ offset_chunk'[u] = offset_chunk[u]
      BY <1>1, <2>2 DEF Inv, DirectoryTyped, MemoryTyped
    <3>. QED BY <2>2, <3>1 DEF OffsetsFit
  <2>3. DOMAIN edges' = DOMAIN edges
    BY <1>1
  <2>4. IsOrdered => \A u \in DOMAIN edges' \ todo' : OffsetsFit(u)'
    BY <1>1, <1>2, <2>1, <2>2, <2>3 DEF Inv, CountsAhead
  <2>. QED BY <1>1, <1>2, <2>4 DEF CountsAhead, Writing
<1>10. NotYet' /\ Described'
  BY <1>1, <1>2, CountingKept DEF Counting, history
<1>. QED BY <1>5, <1>6, <1>7, <1>8, <1>9, <1>10 DEF Inv

\* A step that keeps edges, offsets and the order keeps what the offsets say.
LEMMA OffsetsKept ==
    ASSUME UNCHANGED <<edges, offset_chunk>>
    PROVE  \A vc : OffsetsFit(vc) => OffsetsFit(vc)'
BY DEF OffsetsFit, Selects

\* The loop over the counts, from a vertex chunk on before which all are written.
LEMMA EdgeCountsFromCorrect ==
    ASSUME Inv, pc \in {"vertex_count", "edge_count"}, NEW n \in Nat, EdgeCountsFrom(n),
           UNCHANGED <<memory, offset_chunk, history>>,
           \A vc \in VertexChunks : vc < n => edge_count'[vc] = Len(edges[vc]),
           \A vc \in VertexChunks : n <= vc => n \in VertexChunks
    PROVE  InLoops' /\ CountsAhead'
<1>0. /\ IsOrdered' = IsOrdered /\ dumps # 0
      /\ VertexChunks \subseteq Nat
      /\ IsOrdered => \A vc \in DOMAIN edges : OffsetsFit(vc)'
  BY OffsetsKept, VertexChunkType
     DEF Inv, InLoops, CountsAhead, memory, IsOrdered
<1>1. CASE n \in VertexChunks
  <2>1. pc' = "edge_count" /\ chunk' = <<n, 0>> /\ todo' = todo
    BY <1>1 DEF EdgeCountsFrom
  <2>2. InLoops'
    BY <1>0, <1>1, <2>1 DEF Inv, InLoops, Counting, memory, history
  <2>3. CountsAhead'
    BY <1>0, <2>1 DEF CountsAhead, Writing, memory
  <2>. QED BY <2>2, <2>3
<1>2. CASE n \notin VertexChunks
  <2>1. pc' = "table" /\ todo' = DOMAIN edges /\ chunk' = NoChunk
    BY <1>2 DEF EdgeCountsFrom
  <2>2. InLoops'
    BY <1>0, <2>1 DEF Inv, InLoops, Writing, memory, history, NoChunk
  <2>3. \A vc \in VertexChunks : edge_count'[vc] = Len(edges[vc])
    BY <1>0, <1>2
  <2>4. CountsAhead'
    BY <1>0, <2>1, <2>3 DEF CountsAhead, memory
  <2>. QED BY <2>2, <2>4
<1>. QED BY <1>1, <1>2

\* Writing the number of vertices keeps it.
LEMMA WriteVerticesNumCorrect ==
    ASSUME Inv, WriteVerticesNum
    PROVE  Inv'
<1>. USE DEF WriteVerticesNum
<1>1. MemoryTyped' /\ EdgesHeld'
  BY DEF Inv, MemoryTyped, EdgesHeld, memory, history
<1>2. DirectoryTyped'
  BY LayoutAssumption DEF Inv, DirectoryTyped, Marks
<1>3. /\ \A vc \in VertexChunks : ~(vc < 0)
      /\ \A vc \in VertexChunks : 0 <= vc => 0 \in VertexChunks
  BY VertexChunkType
<1>4. InLoops' /\ CountsAhead'
  BY <1>3, EdgeCountsFromCorrect
<1>5. NotYet' /\ Described'
  BY CountingKept DEF EdgeCountsFrom, Counting, history
<1>. QED BY <1>1, <1>2, <1>4, <1>5 DEF Inv

\* The vertex chunks before the next one.
LEMMA NextNumber ==
    ASSUME NEW n \in Nat
    PROVE  \A k \in Nat : k < n + 1 => k < n \/ k = n
OBVIOUS

\* The loop reaches every vertex chunk.
LEMMA VertexChunkGaps ==
    ASSUME NEW n \in Nat
    PROVE  \A vc \in VertexChunks : n + 1 <= vc => n + 1 \in VertexChunks
BY VertexChunkType

\* Writing a count of edges keeps it: the count is the length of the table.
LEMMA WriteEdgesNumCorrect ==
    ASSUME Inv, WriteEdgesNum
    PROVE  Inv'
<1>. USE DEF WriteEdgesNum
<1>0. /\ chunk[1] \in VertexChunks /\ chunk[1] \in Nat
      /\ chunk[1] \in DOMAIN edges /\ edges[chunk[1]] \in Rows
  BY VertexChunkType DEF Inv, InLoops, MemoryTyped
<1>1. MemoryTyped' /\ EdgesHeld'
  BY DEF Inv, MemoryTyped, EdgesHeld, memory, history
<1>2. DirectoryTyped'
  <2>1. Len(edges[chunk[1]]) \in Nat
    BY <1>0 DEF Rows
  <2>. QED BY <2>1 DEF Inv, DirectoryTyped, Marks
<1>3. \A vc \in VertexChunks : vc < chunk[1] + 1 => edge_count'[vc] = Len(edges[vc])
  <2>1. edge_count'[chunk[1]] = Len(edges[chunk[1]])
    BY <1>0 DEF Inv, DirectoryTyped
  <2>2. \A vc \in VertexChunks : vc # chunk[1] => edge_count'[vc] = edge_count[vc]
    BY DEF Inv, DirectoryTyped
  <2>3. \A vc \in VertexChunks : vc < chunk[1] => edge_count[vc] = Len(edges[vc])
    BY DEF Inv, CountsAhead
  <2>4. \A vc \in VertexChunks : vc < chunk[1] + 1 => vc < chunk[1] \/ vc = chunk[1]
    BY <1>0, NextNumber, VertexChunkType
  <2>. QED BY <1>0, <2>1, <2>2, <2>3, <2>4
<1>4. \A vc \in VertexChunks : chunk[1] + 1 <= vc => chunk[1] + 1 \in VertexChunks
  BY <1>0, VertexChunkGaps
<1>5. InLoops' /\ CountsAhead'
  BY <1>0, <1>3, <1>4, EdgeCountsFromCorrect
<1>6. NotYet' /\ Described'
  BY CountingKept DEF EdgeCountsFrom, Counting, history
<1>. QED BY <1>1, <1>2, <1>5, <1>6 DEF Inv

------------------------------------------------------------------------------
(* Writing the edge chunks.                                                 *)

\* A file <<vc, ec>> that may exist.
LEMMA FileChunkType ==
    /\ \A c \in FileChunks : c = <<c[1], c[2]>> /\ c[1] \in Nat /\ c[2] \in Nat
    /\ \A vc \in VertexChunks, ec \in EdgeChunks : <<vc, ec>> \in FileChunks
<1>1. ASSUME NEW c \in FileChunks
      PROVE  c = <<c[1], c[2]>> /\ c[1] \in Nat /\ c[2] \in Nat
  <2>1. Buckets \subseteq Nat /\ EdgeChunks \subseteq Nat
    BY BucketsType, EdgeChunksType
  <2>2. c \in Nat \X Nat
    BY <2>1 DEF FileChunks
  <2>. QED BY <2>2
<1>2. \A vc \in VertexChunks, ec \in EdgeChunks : <<vc, ec>> \in FileChunks
  BY BucketsType DEF FileChunks
<1>. QED BY <1>1, <1>2

\* Taking the next table keeps it: of that table no file is written in a first Dump.
LEMMA EnterTableCorrect ==
    ASSUME Inv, EnterTable
    PROVE  Inv'
<1>. USE DEF EnterTable
<1>1. MemoryTyped' /\ EdgesHeld'
  BY DEF Inv, MemoryTyped, EdgesHeld, memory, history
<1>2. DirectoryTyped' /\ Described'
  BY DirectoryKept DEF memory, history
<1>3. PICK vc \in todo : chunk' = <<vc, 0>>
  OBVIOUS
<1>4. vc \in Nat /\ chunk'[1] = vc /\ chunk'[2] = 0
  BY <1>3, BucketsType DEF Inv, InLoops, MemoryTyped
<1>5. InLoops'
  BY <1>3, <1>4 DEF Inv, InLoops, Writing, memory, history
<1>6. CountsAhead'
  <2>1. /\ IsOrdered => \A u \in todo : OffsetsFit(u)'
        /\ \A u \in todo \cap VertexChunks : edge_count[u] = Len(edges[u])
        /\ IsOrdered' = IsOrdered
    BY OffsetsKept DEF Inv, CountsAhead, Writing, memory, directory, IsOrdered
  <2>. QED BY <2>1 DEF CountsAhead, memory, directory
<1>7. NotYet'
  <2>1. \A c : Unwritten(c[1], c[2]) => Unwritten(c[1], c[2])'
    BY DEF Unwritten, directory
  <2>2. dumps # 0
    BY DEF Inv, InLoops
  <2>3. dumps <= 1 => \A c \in FileChunks : c[1] \in todo => Unwritten(c[1], c[2])
    BY DEF Inv, NotYet
  <2>4. \A c \in FileChunks : Unwritten(c[1], c[2]) => prop_chunk[c] = Missing
    BY FileChunkType DEF Unwritten
  <2>. QED BY <1>3, <1>4, <2>1, <2>2, <2>3, <2>4
           DEF NotYet, Counting, memory, history, directory
<1>. QED BY <1>1, <1>2, <1>5, <1>6, <1>7 DEF Inv

\* What the loops know of the table that they write.
LEMMA CurrentTable ==
    ASSUME Inv, pc \in {"adj_chunk", "prop_chunk"}
    PROVE  /\ chunk = <<chunk[1], chunk[2]>> /\ chunk[2] \in Nat
           /\ chunk[1] \in todo /\ chunk[1] \in DOMAIN edges /\ chunk[1] \in Nat
           /\ edges[chunk[1]] \in Rows
           /\ dumps # 0
           /\ RowsLeft => Slice(edges[chunk[1]], chunk[2]) \in ChunkRows
<1>1. /\ chunk = <<chunk[1], chunk[2]>> /\ chunk[2] \in Nat
      /\ chunk[1] \in todo /\ chunk[1] \in DOMAIN edges /\ chunk[1] \in Nat
      /\ edges[chunk[1]] \in Rows
      /\ dumps # 0
  BY BucketsType DEF Inv, InLoops, MemoryTyped
<1>2. RowsLeft => Slice(edges[chunk[1]], chunk[2]) \in ChunkRows
  BY <1>1, SliceRows DEF RowsLeft
<1>. QED BY <1>1, <1>2

\* The rows of the edge chunk that is written next are described already.
LEMMA SliceDescribed ==
    ASSUME Inv, pc \in {"adj_chunk", "prop_chunk"}, RowsLeft,
           chunk[1] \in VertexChunks,
           NEW j \in 1 .. Len(Slice(edges[chunk[1]], chunk[2]))
    PROVE  /\ edge_count[chunk[1]] \in Nat
           /\ IsOrdered => offset_chunk[chunk[1]] \in OffsetChunks
           /\ RowDescribed(chunk[1], chunk[2] * ChunkSize + j - 1,
                           Slice(edges[chunk[1]], chunk[2])[j])
<1>. DEFINE vc == chunk[1]
            rows == edges[vc]
            slice == Slice(rows, chunk[2])
            n == chunk[2] * ChunkSize + j
<1>0. chunk[2] \in Nat /\ vc \in todo /\ vc \in DOMAIN edges /\ rows \in Rows
  BY CurrentTable
<1>1. n \in 1 .. Len(rows) /\ slice[j] = rows[n] /\ Len(rows) \in Nat
  BY <1>0, SliceRows DEF RowsLeft, Rows
<1>2. edge_count[vc] = Len(rows)
  BY <1>0 DEF Inv, CountsAhead, Writing
<1>3. IsOrdered => OffsetsFit(vc)
  BY <1>0 DEF Inv, CountsAhead, Writing
<1>4. rows[n] \in dumping /\ ChunkOfEdge(rows[n]) = vc
  BY <1>0, <1>1 DEF Inv, EdgesHeld, InLoops
<1>5. IsOrdered => offset_chunk[vc] \in OffsetChunks /\ Selects(offset_chunk[vc], vc, n - 1, rows[n])
  BY <1>1, <1>3 DEF OffsetsFit
<1>. HIDE DEF vc, rows, slice, n
<1>6. RowDescribed(vc, n - 1, slice[j])
  BY <1>1, <1>2, <1>4, <1>5 DEF RowDescribed
<1>7. edge_count[vc] \in Nat
  BY <1>1, <1>2
<1>8. IsOrdered => offset_chunk[vc] \in OffsetChunks
  BY <1>5
<1>9. n - 1 = chunk[2] * ChunkSize + j - 1
  BY <1>0, LayoutAssumption DEF n
<1>10. RowDescribed(vc, chunk[2] * ChunkSize + j - 1, slice[j])
  BY <1>6, <1>9
<1>. QED BY <1>7, <1>8, <1>10 DEF vc, rows, slice

\* Writing an adjacency list chunk keeps it: its rows are counted and under offsets already.
LEMMA WriteAdjListChunkCorrect ==
    ASSUME Inv, WriteAdjListChunk
    PROVE  Inv'
<1>. USE DEF WriteAdjListChunk
<1>. DEFINE slice == Slice(edges[chunk[1]], chunk[2])
<1>0. /\ chunk = <<chunk[1], chunk[2]>> /\ chunk[1] \in todo /\ dumps # 0
      /\ slice \in ChunkRows
  BY CurrentTable
<1>. HIDE DEF slice
<1>1. /\ adj_chunk' = [adj_chunk EXCEPT ![chunk] = slice]
      /\ pc = "adj_chunk" /\ RowsLeft /\ pc' = "prop_chunk"
      /\ UNCHANGED <<adj_list_type, edges, is_saved, todo, chunk, vertex_count, edge_count,
                     offset_chunk, prop_chunk, added, dumping, dumps, uses, saves, result>>
  BY DEF slice, memory, history
<1>2. MemoryTyped' /\ EdgesHeld'
  BY <1>1 DEF Inv, MemoryTyped, EdgesHeld
<1>3. DirectoryTyped'
  BY <1>0, <1>1 DEF Inv, DirectoryTyped, Marks
<1>4. InLoops'
  BY <1>1 DEF Inv, InLoops, RowsLeft, Writing
<1>5. CountsAhead'
  <2>1. /\ IsOrdered => \A u \in todo : OffsetsFit(u)'
        /\ \A u \in todo \cap VertexChunks : edge_count[u] = Len(edges[u])
        /\ IsOrdered' = IsOrdered
    BY <1>1, OffsetsKept DEF Inv, CountsAhead, Writing, IsOrdered
  <2>. QED BY <1>1, <2>1 DEF CountsAhead
<1>6. \A c \in FileChunks : adj_chunk'[c] = IF c = chunk THEN slice ELSE adj_chunk[c]
  BY <1>1 DEF Inv, DirectoryTyped
<1>7. NotYet'
  <2>. SUFFICES ASSUME dumps <= 1, NEW c \in FileChunks
                PROVE  /\ c[1] \in todo \ {chunk[1]} => Unwritten(c[1], c[2])'
                       /\ c[1] = chunk[1] /\ c[2] >= chunk[2] => prop_chunk[c] = Missing
                       /\ c = chunk => adj_chunk'[c] = slice
    BY <1>0, <1>1 DEF NotYet, Counting, slice
  <2>1. /\ c[1] \in todo \ {chunk[1]} => Unwritten(c[1], c[2])
        /\ c[1] = chunk[1] /\ c[2] >= chunk[2] => prop_chunk[c] = Missing
    BY <1>1 DEF Inv, NotYet
  <2>2. c[1] # chunk[1] => c # chunk
    OBVIOUS
  <2>3. c[1] # chunk[1] => adj_chunk'[c] = adj_chunk[c]
    BY <1>6, <2>2
  <2>4. c = <<c[1], c[2]>>
    BY FileChunkType
  <2>. QED BY <1>1, <1>6, <2>1, <2>3, <2>4 DEF Unwritten
<1>8. Described'
  <2>. SUFFICES ASSUME dumps <= 1, NEW vc \in VertexChunks, NEW ec \in EdgeChunks
                PROVE  ChunkDescribed(vc, ec)'
    BY <1>1 DEF Described
  <2>0. <<vc, ec>> \in FileChunks /\ <<vc, ec>>[1] = vc /\ <<vc, ec>>[2] = ec /\ ec \in Nat
    BY FileChunkType
  <2>1. CASE <<vc, ec>> = chunk
    <3>1. vc = chunk[1] /\ ec = chunk[2]
      BY <2>0, <2>1
    <3>2. adj_chunk'[<<vc, ec>>] = slice
      BY <1>6, <2>0, <2>1
    <3>3. prop_chunk[<<vc, ec>>] = Missing
      BY <1>1, <2>0, <3>1 DEF Inv, NotYet
    <3>4. \A j \in 1 .. Len(slice) :
             /\ edge_count[vc] \in Nat
             /\ IsOrdered => offset_chunk[vc] \in OffsetChunks
             /\ RowDescribed(vc, ec * ChunkSize + j - 1, slice[j])
      BY <1>1, <3>1, SliceDescribed DEF slice
    <3>5. 1 \in 1 .. Len(slice)
      BY <1>0, LayoutAssumption DEF ChunkRows
    <3>. QED BY <1>1, <3>2, <3>3, <3>4, <3>5
             DEF ChunkDescribed, RowDescribed, Selects, IsOrdered, Marks
  <2>2. CASE <<vc, ec>> # chunk
    <3>1. adj_chunk'[<<vc, ec>>] = adj_chunk[<<vc, ec>>]
      BY <1>6, <2>0, <2>2
    <3>2. ChunkDescribed(vc, ec)
      BY DEF Inv, Described
    <3>. QED BY <1>1, <3>1, <3>2 DEF ChunkDescribed, RowDescribed, Selects, IsOrdered
  <2>. QED BY <2>1, <2>2
<1>. QED BY <1>2, <1>3, <1>4, <1>5, <1>7, <1>8 DEF Inv

\* Writing a property chunk keeps it: it has the rows of the adjacency list chunk before it.
LEMMA WritePropertyChunkCorrect ==
    ASSUME Inv, WritePropertyChunk
    PROVE  Inv'
<1>. USE DEF WritePropertyChunk
<1>. DEFINE slice == Slice(edges[chunk[1]], chunk[2])
<1>0. /\ chunk = <<chunk[1], chunk[2]>> /\ chunk[1] \in todo /\ dumps # 0
      /\ chunk[1] \in Nat /\ chunk[2] \in Nat
      /\ slice \in ChunkRows
  BY CurrentTable DEF Inv, InLoops
<1>. HIDE DEF slice
<1>1. /\ prop_chunk' = [prop_chunk EXCEPT ![chunk] = slice]
      /\ pc = "prop_chunk" /\ pc' = "adj_chunk"
      /\ chunk' = <<chunk[1], chunk[2] + 1>>
      /\ UNCHANGED <<adj_list_type, edges, is_saved, todo, vertex_count, edge_count,
                     offset_chunk, adj_chunk, added, dumping, dumps, uses, saves, result>>
  BY DEF slice, memory, history
<1>2. MemoryTyped' /\ EdgesHeld'
  BY <1>1 DEF Inv, MemoryTyped, EdgesHeld
<1>3. DirectoryTyped'
  BY <1>0, <1>1 DEF Inv, DirectoryTyped, Marks
<1>4. InLoops'
  BY <1>0, <1>1 DEF Inv, InLoops, Writing
<1>5. CountsAhead'
  <2>1. /\ IsOrdered => \A u \in todo : OffsetsFit(u)'
        /\ \A u \in todo \cap VertexChunks : edge_count[u] = Len(edges[u])
        /\ IsOrdered' = IsOrdered
    BY <1>1, OffsetsKept DEF Inv, CountsAhead, Writing, IsOrdered
  <2>. QED BY <1>1, <2>1 DEF CountsAhead
<1>6. \A c \in FileChunks : prop_chunk'[c] = IF c = chunk THEN slice ELSE prop_chunk[c]
  BY <1>1 DEF Inv, DirectoryTyped
<1>7. NotYet'
  <2>. SUFFICES ASSUME dumps <= 1, NEW c \in FileChunks
                PROVE  /\ c[1] \in todo \ {chunk[1]} => Unwritten(c[1], c[2])'
                       /\ c[1] = chunk[1] /\ c[2] >= chunk[2] + 1 => prop_chunk'[c] = Missing
    BY <1>0, <1>1 DEF NotYet, Counting
  <2>1. /\ c[1] \in todo \ {chunk[1]} => Unwritten(c[1], c[2])
        /\ c[1] = chunk[1] /\ c[2] >= chunk[2] => prop_chunk[c] = Missing
    BY <1>1 DEF Inv, NotYet
  <2>2. c = <<c[1], c[2]>> /\ c[2] \in Nat
    BY FileChunkType
  <2>3. c[1] # chunk[1] => prop_chunk'[c] = prop_chunk[c]
    BY <1>6
  <2>4. c[2] >= chunk[2] + 1 => c # chunk /\ c[2] >= chunk[2]
    BY <1>0, <2>2
  <2>. QED BY <1>1, <1>6, <2>1, <2>2, <2>3, <2>4 DEF Unwritten
<1>8. Described'
  <2>. SUFFICES ASSUME dumps <= 1, NEW vc \in VertexChunks, NEW ec \in EdgeChunks
                PROVE  ChunkDescribed(vc, ec)'
    BY <1>1 DEF Described
  <2>0. <<vc, ec>> \in FileChunks
    BY FileChunkType
  <2>1. ChunkDescribed(vc, ec)
    BY DEF Inv, Described
  <2>2. \/ prop_chunk'[<<vc, ec>>] = prop_chunk[<<vc, ec>>]
        \/ prop_chunk'[<<vc, ec>>] = adj_chunk[<<vc, ec>>]
    BY <1>1, <1>6, <2>0 DEF Inv, NotYet, slice
  <2>. QED BY <1>1, <2>1, <2>2 DEF ChunkDescribed, RowDescribed, Selects, IsOrdered
<1>. QED BY <1>2, <1>3, <1>4, <1>5, <1>7, <1>8 DEF Inv

\* Dropping a written table keeps it: the tables still to write are untouched.
LEMMA LeaveTableCorrect ==
    ASSUME Inv, LeaveTable
    PROVE  Inv'
<1>. USE DEF LeaveTable
<1>0. chunk[1] \in todo /\ chunk[1] \in DOMAIN edges /\ dumps # 0
  BY CurrentTable
<1>1. /\ DOMAIN edges' = DOMAIN edges
      /\ \A vc \in DOMAIN edges : edges'[vc] = IF vc = chunk[1] THEN <<>> ELSE edges[vc]
      /\ <<>> \in Rows /\ Len(<<>>) = 0
  BY DEF Rows
<1>2. MemoryTyped'
  <2>1. edges' \in [DOMAIN edges' -> Rows]
    BY <1>1 DEF Inv, MemoryTyped
  <2>. QED BY <1>1, <2>1 DEF Inv, MemoryTyped, history
<1>3. DirectoryTyped' /\ Described'
  BY DirectoryKept DEF history
<1>4. InLoops'
  BY <1>1 DEF Inv, InLoops, Writing, history, NoChunk
<1>5. EdgesHeld'
  BY <1>1 DEF Inv, EdgesHeld, history
<1>6. CountsAhead'
  <2>1. /\ IsOrdered => \A u \in todo : OffsetsFit(u)
        /\ \A u \in todo \cap VertexChunks : edge_count[u] = Len(edges[u])
        /\ IsOrdered' = IsOrdered
    BY DEF Inv, CountsAhead, Writing, IsOrdered
  <2>2. \A u \in todo' : u \in todo /\ edges'[u] = edges[u]
    BY <1>1 DEF Inv, InLoops
  <2>3. IsOrdered => \A u \in todo' : OffsetsFit(u)'
    BY <2>1, <2>2 DEF OffsetsFit, Selects, directory
  <2>4. \A u \in todo' \cap VertexChunks : edge_count'[u] = Len(edges'[u])
    BY <2>1, <2>2 DEF directory
  <2>. QED BY <2>1, <2>3, <2>4 DEF CountsAhead
<1>7. NotYet'
  <2>1. \A c : Unwritten(c[1], c[2]) => Unwritten(c[1], c[2])'
    BY DEF Unwritten, directory
  <2>2. dumps <= 1 => \A c \in FileChunks : c[1] \in todo \ {chunk[1]} => Unwritten(c[1], c[2])
    BY DEF Inv, NotYet
  <2>. QED BY <1>0, <2>1, <2>2 DEF NotYet, Counting, history
<1>. QED BY <1>2, <1>3, <1>4, <1>5, <1>6, <1>7 DEF Inv

\* The return of Dump keeps it.
LEMMA DumpReturnsCorrect ==
    ASSUME Inv, DumpReturns
    PROVE  Inv'
<1>. USE DEF DumpReturns
<1>1. MemoryTyped' /\ EdgesHeld'
  BY DEF Inv, MemoryTyped, EdgesHeld
<1>2. DirectoryTyped' /\ Described'
  BY DirectoryKept
<1>3. InLoops'
  BY DEF Inv, InLoops
<1>4. CountsAhead' /\ NotYet'
  BY IdleKept
<1>. QED BY <1>1, <1>2, <1>3, <1>4 DEF Inv

------------------------------------------------------------------------------
(* Failures.                                                                *)

\* Whatever file the write tears, what can be read is described.
LEMMA TornWriteCorrect ==
    ASSUME Inv, pc # "idle", TornWrite, pc' = "idle",
           UNCHANGED <<adj_list_type, dumping, dumps>>
    PROVE  DirectoryTyped' /\ Described'
<1>0. dumps # 0 /\ Torn \in Marks /\ Missing \in Marks
  BY DEF Inv, InLoops, Marks
<1>1. CASE UNCHANGED directory
  BY <1>1, DirectoryKept
<1>2. CASE /\ pc = "offset"
           /\ \E vc \in todo : offset_chunk' = [offset_chunk EXCEPT ![vc] = Torn]
           /\ UNCHANGED <<vertex_count, edge_count, adj_chunk, prop_chunk>>
  <2>1. DirectoryTyped'
    BY <1>2 DEF Inv, DirectoryTyped, Marks
  <2>. QED BY <1>2, <2>1, CountingKept DEF Counting
<1>3. CASE /\ pc = "vertex_count" /\ vertex_count' = Torn
           /\ UNCHANGED <<edge_count, offset_chunk, adj_chunk, prop_chunk>>
  <2>1. DirectoryTyped'
    BY <1>3 DEF Inv, DirectoryTyped, Marks
  <2>. QED BY <1>3, <2>1, CountingKept DEF Counting
<1>4. CASE /\ pc = "edge_count" /\ edge_count' = [edge_count EXCEPT ![chunk[1]] = Torn]
           /\ UNCHANGED <<vertex_count, offset_chunk, adj_chunk, prop_chunk>>
  <2>1. DirectoryTyped'
    BY <1>4 DEF Inv, DirectoryTyped, Marks
  <2>. QED BY <1>4, <2>1, CountingKept DEF Counting
<1>5. CASE /\ pc = "adj_chunk" /\ adj_chunk' = [adj_chunk EXCEPT ![chunk] = Torn]
           /\ UNCHANGED <<vertex_count, edge_count, offset_chunk, prop_chunk>>
  <2>1. DirectoryTyped'
    BY <1>5 DEF Inv, DirectoryTyped, Marks
  <2>2. ASSUME dumps <= 1, NEW vc \in VertexChunks, NEW ec \in EdgeChunks
        PROVE  ChunkDescribed(vc, ec)'
    <3>0. <<vc, ec>> \in FileChunks /\ <<vc, ec>>[1] = vc /\ <<vc, ec>>[2] = ec /\ ec \in Nat
      BY FileChunkType
    <3>1. CASE <<vc, ec>> = chunk
      <4>1. adj_chunk'[<<vc, ec>>] = Torn
        BY <1>5, <3>0, <3>1 DEF Inv, DirectoryTyped
      <4>2. vc = chunk[1] /\ ec = chunk[2]
        BY <3>0, <3>1
      <4>3. prop_chunk'[<<vc, ec>>] = Missing
        BY <1>5, <2>2, <3>0, <4>2 DEF Inv, NotYet
      <4>. QED BY <1>0, <4>1, <4>3 DEF ChunkDescribed, Marks
    <3>2. CASE <<vc, ec>> # chunk
      <4>1. adj_chunk'[<<vc, ec>>] = adj_chunk[<<vc, ec>>]
        BY <1>5, <3>0, <3>2 DEF Inv, DirectoryTyped
      <4>2. ChunkDescribed(vc, ec)
        BY <2>2 DEF Inv, Described
      <4>. QED BY <1>5, <4>1, <4>2, SMTT(30) DEF ChunkDescribed, RowDescribed, Selects, IsOrdered
    <3>. QED BY <3>1, <3>2
  <2>. QED BY <2>1, <2>2 DEF Described
<1>6. CASE /\ pc = "prop_chunk" /\ prop_chunk' = [prop_chunk EXCEPT ![chunk] = Torn]
           /\ UNCHANGED <<vertex_count, edge_count, offset_chunk, adj_chunk>>
  <2>1. DirectoryTyped'
    BY <1>6 DEF Inv, DirectoryTyped, Marks
  <2>2. ASSUME dumps <= 1, NEW vc \in VertexChunks, NEW ec \in EdgeChunks
        PROVE  ChunkDescribed(vc, ec)'
    <3>1. prop_chunk'[<<vc, ec>>] \in {Torn, prop_chunk[<<vc, ec>>]}
      BY <1>6, FileChunkType DEF Inv, DirectoryTyped
    <3>2. ChunkDescribed(vc, ec)
      BY <2>2 DEF Inv, Described
    <3>. QED BY <1>0, <1>6, <3>1, <3>2 DEF ChunkDescribed, RowDescribed, Selects, IsOrdered, Marks
  <2>. QED BY <2>1, <2>2 DEF Described
<1>. QED BY <1>1, <1>2, <1>3, <1>4, <1>5, <1>6 DEF TornWrite

\* A failed write keeps it, whether or not the file is torn.
LEMMA WriteFailsCorrect ==
    ASSUME Inv, WriteFails
    PROVE  Inv'
<1>. USE DEF WriteFails
<1>0. pc # "idle" /\ dumps # 0
  BY DEF Inv, InLoops
<1>1. MemoryTyped' /\ EdgesHeld'
  BY DEF Inv, MemoryTyped, EdgesHeld, memory
<1>2. DirectoryTyped' /\ Described'
  BY <1>0, TornWriteCorrect DEF memory
<1>3. InLoops'
  BY <1>0 DEF Inv, InLoops, NoChunk
<1>4. CountsAhead' /\ NotYet'
  BY <1>0, IdleKept
<1>. QED BY <1>1, <1>2, <1>3, <1>4 DEF Inv

\* A crash keeps it: the builder is gone, and at most one file is torn.
LEMMA CrashCorrect ==
    ASSUME Inv, Crash
    PROVE  Inv'
<1>. USE DEF Crash
<1>0. pc # "idle" /\ dumps # 0
  BY DEF Inv, InLoops
<1>1. DOMAIN edges' = {} /\ edges' \in [DOMAIN edges' -> Rows]
  BY DEF NoEdges
<1>2. MemoryTyped' /\ EdgesHeld'
  BY <1>1 DEF Inv, MemoryTyped, EdgesHeld
<1>3. DirectoryTyped' /\ Described'
  BY <1>0, TornWriteCorrect
<1>4. InLoops'
  BY <1>0 DEF InLoops, NoChunk
<1>5. CountsAhead' /\ NotYet'
  BY <1>0, IdleKept
<1>. QED BY <1>2, <1>3, <1>4, <1>5 DEF Inv

------------------------------------------------------------------------------
(* The theorems.                                                            *)

\* Every step of the specification keeps the invariant.
LEMMA NextCorrect == Inv /\ [Next]_vars => Inv'
<1>. SUFFICES ASSUME Inv, [Next]_vars PROVE Inv'
  OBVIOUS
<1>1. CASE \E e \in Edges, level \in ValidateLevels : AddEdge(e, level)
  BY <1>1, AddEdgeCorrect
<1>2. CASE Clear
  BY <1>2, ClearCorrect
<1>3. CASE DumpStart
  BY <1>3, DumpStartCorrect
<1>4. CASE DumpStep
  BY <1>4, WriteOffsetChunkCorrect, WriteVerticesNumCorrect, WriteEdgesNumCorrect,
     EnterTableCorrect, WriteAdjListChunkCorrect, WritePropertyChunkCorrect,
     LeaveTableCorrect, DumpReturnsCorrect DEF DumpStep
<1>5. CASE WriteFails
  BY <1>5, WriteFailsCorrect
<1>6. CASE Crash
  BY <1>6, CrashCorrect
<1>7. CASE UNCHANGED vars
  <2>. USE <1>7 DEF vars, memory, history, directory
  <2>1. MemoryTyped' /\ EdgesHeld' /\ InLoops'
    BY DEF Inv, MemoryTyped, EdgesHeld, InLoops, RowsLeft
  <2>2. DirectoryTyped' /\ Described'
    BY DirectoryKept
  <2>3. CountsAhead'
    BY DEF Inv, CountsAhead, OffsetsFit, Selects, IsOrdered
  <2>4. NotYet'
    BY DEF Inv, NotYet, Unwritten
  <2>. QED BY <2>1, <2>2, <2>3, <2>4 DEF Inv
<1>. QED BY <1>1, <1>2, <1>3, <1>4, <1>5, <1>6, <1>7 DEF Next

\* The row that a reader of the directory finds is the one that its chunk describes.
LEMMA DescribedImplies == Inv => TypeOK /\ ReadableIsDescribed
<1>. SUFFICES ASSUME Inv PROVE TypeOK /\ ReadableIsDescribed
  OBVIOUS
<1>0. Nat \cap Marks = {} /\ OffsetChunks \cap Marks = {}
  BY BuilderAssumption DEF Marks
<1>1. TypeOK
  <2>1. /\ adj_list_type \in AdjListTypes /\ is_saved \in BOOLEAN
        /\ DOMAIN edges \subseteq Buckets /\ \A vc \in DOMAIN edges : edges[vc] \in Rows
        /\ added \subseteq Edges /\ dumping \subseteq Edges
        /\ dumps \in 0 .. MaxDumps /\ uses \in Nat /\ saves \in Nat
        /\ result \in {"none", "OK", "error", "crash"}
    BY DEF Inv, MemoryTyped
  <2>2. /\ pc \in {"idle", "offset", "vertex_count", "edge_count", "table", "adj_chunk",
                   "prop_chunk"}
        /\ todo \subseteq Buckets /\ chunk \in Nat \X Nat
    BY <2>1 DEF Inv, InLoops, Counting, Writing
  <2>3. /\ Intact(vertex_count) => vertex_count \in Nat
        /\ \A vc \in VertexChunks : Intact(edge_count[vc]) => edge_count[vc] \in Nat
        /\ \A vc \in Buckets : Intact(offset_chunk[vc]) => offset_chunk[vc] \in OffsetChunks
    BY DEF Inv, DirectoryTyped, Intact, Marks
  <2>4. \A c \in FileChunks, file \in {adj_chunk, prop_chunk} :
           Intact(file[c]) => file[c] \in Rows /\ Len(file[c]) \in 1 .. ChunkSize
    BY DEF Inv, DirectoryTyped, Intact, Marks, ChunkRows
  <2>. QED BY <2>1, <2>2, <2>3, <2>4 DEF TypeOK
<1>2. ReadableIsDescribed
  <2>. SUFFICES ASSUME dumps <= 1, NEW vc \in VertexChunks, NEW ec \in EdgeChunks
       PROVE  /\ Intact(adj_chunk[<<vc, ec>>]) =>
                    /\ Intact(edge_count[vc])
                    /\ \A j \in 1 .. Len(adj_chunk[<<vc, ec>>]) :
                          /\ adj_chunk[<<vc, ec>>][j] \in dumping
                          /\ ChunkOfEdge(adj_chunk[<<vc, ec>>][j]) = vc
                          /\ ec * ChunkSize + j <= edge_count[vc]
                          /\ IsOrdered => /\ Intact(offset_chunk[vc])
                                         /\ OffsetsSelect(vc, ec * ChunkSize + j - 1)
              /\ Intact(prop_chunk[<<vc, ec>>]) => prop_chunk[<<vc, ec>>] = adj_chunk[<<vc, ec>>]
    BY DEF ReadableIsDescribed
  <2>0. ChunkDescribed(vc, ec) /\ <<vc, ec>> \in FileChunks /\ ec \in Nat
    BY FileChunkType, EdgeChunksType DEF Inv, Described
  <2>1. Intact(prop_chunk[<<vc, ec>>]) => prop_chunk[<<vc, ec>>] = adj_chunk[<<vc, ec>>]
    BY <2>0 DEF ChunkDescribed, Intact, Marks
  <2>2. ASSUME Intact(adj_chunk[<<vc, ec>>])
        PROVE  edge_count[vc] \in Nat /\ Intact(edge_count[vc])
    BY <1>0, <2>0, <2>2 DEF ChunkDescribed, Intact, Marks
  <2>3. ASSUME Intact(adj_chunk[<<vc, ec>>]), NEW j \in 1 .. Len(adj_chunk[<<vc, ec>>])
        PROVE  /\ adj_chunk[<<vc, ec>>][j] \in dumping
               /\ ChunkOfEdge(adj_chunk[<<vc, ec>>][j]) = vc
               /\ ec * ChunkSize + j <= edge_count[vc]
               /\ IsOrdered => /\ Intact(offset_chunk[vc])
                              /\ OffsetsSelect(vc, ec * ChunkSize + j - 1)
    <3>. DEFINE i == ec * ChunkSize + j - 1
                e == adj_chunk[<<vc, ec>>][j]
    <3>1. Len(adj_chunk[<<vc, ec>>]) \in 1 .. ChunkSize
      BY <2>0, <2>3 DEF Inv, DirectoryTyped, ChunkRows, Intact, Marks
    <3>2. j \in 1 .. ChunkSize /\ ChunkSize \in Nat /\ ec * ChunkSize \in Nat
      BY <2>0, <3>1, LayoutAssumption
    <3>3. i \div ChunkSize = ec /\ i % ChunkSize = j - 1 /\ i \in Nat
      BY <2>0, <3>2, RowNumber
    <3>4. RowDescribed(vc, i, e)
      BY <2>0, <2>3 DEF ChunkDescribed, Intact, Marks
    <3>5. StoredRow(vc, i) = e
      <4>1. (i % ChunkSize) + 1 = j
        BY <3>2, <3>3
      <4>. HIDE DEF i
      <4>. QED BY <3>3, <4>1 DEF StoredRow
    <3>6. i < edge_count[vc] => ec * ChunkSize + j <= edge_count[vc]
      BY <2>2, <2>3, <3>2
    <3>7. IsOrdered => Intact(offset_chunk[vc])
      BY <1>0, <2>0, <2>3 DEF ChunkDescribed, Intact, Marks
    <3>. HIDE DEF i, e
    <3>8. IsOrdered => OffsetsSelect(vc, i)
      BY <3>4, <3>5 DEF RowDescribed, Selects, OffsetsSelect
    <3>9. e \in dumping /\ ChunkOfEdge(e) = vc /\ i < edge_count[vc]
      BY <3>4 DEF RowDescribed
    <3>. QED BY <3>6, <3>7, <3>8, <3>9 DEF i, e
  <2>. QED BY <2>1, <2>2, <2>3
<1>. QED BY <1>1, <1>2

\* Every variable of the builder and every file of the directory has its type.
THEOREM TypeCorrect == Spec => []TypeOK
<1>1. Init => Inv
  BY InitCorrect
<1>2. Inv /\ [Next]_vars => Inv'
  BY NextCorrect
<1>3. Inv => TypeOK
  BY DescribedImplies
<1>. QED BY <1>1, <1>2, <1>3, PTL DEF Spec

\* At every moment of the first Dump, and after it failed, crashed or returned: what can be
\* read are added edges, within the counts and under the offsets that can be read.
THEOREM ReadableCorrect == Spec => []ReadableIsDescribed
<1>1. Init => Inv
  BY InitCorrect
<1>2. Inv /\ [Next]_vars => Inv'
  BY NextCorrect
<1>3. Inv => ReadableIsDescribed
  BY DescribedImplies
<1>. QED BY <1>1, <1>2, <1>3, PTL DEF Spec

------------------------------------------------------------------------------
(* What a Dump has published: the inductive invariant, beside Inv.          *)

InChunk(vc, stored) == {e \in stored : ChunkOfEdge(e) = vc}

\* rows has the edges of a vertex chunk, each once.
IsTable(rows, vc, stored) ==
    /\ rows \in Rows
    /\ \A i, j \in 1 .. Len(rows) : rows[i] = rows[j] => i = j
    /\ {rows[i] : i \in 1 .. Len(rows)} = InChunk(vc, stored)

\* The first n edge chunks of a table are in their files.
StoredUpTo(vc, rows, n) ==
    \A ec \in Nat : ec < n /\ ec * ChunkSize < Len(rows) =>
        /\ adj_chunk[<<vc, ec>>] = Slice(rows, ec)
        /\ prop_chunk[<<vc, ec>>] = Slice(rows, ec)

\* The files of a vertex chunk hold a table of what is dumped.
IsStored(vc, rows) ==
    /\ IsTable(rows, vc, dumping)
    /\ edge_count[vc] = Len(rows)
    /\ \A n \in Nat : StoredUpTo(vc, rows, n)
    /\ IsOrdered =>
          /\ offset_chunk[vc] \in OffsetChunks
          /\ \A i \in 1 .. Len(rows) : Selects(offset_chunk[vc], vc, i - 1, rows[i])

HasTable(vc) == \E rows \in Rows : IsStored(vc, rows)

Bounded ==
    /\ IsFiniteSet(added) /\ Cardinality(added) <= MaxEdges
    /\ pc # "idle" => uses # 0
    /\ pc \in {"edge_count"} \cup Writing => vertex_count = VertexNum

\* Until the first Dump begins to write tables, the builder has every edge it was given.
Whole ==
    /\ uses = 0 => \A vc \in Buckets : IsTable(Bucket(vc), vc, added)
    /\ uses = 1 /\ pc \in Counting => \A vc \in DOMAIN edges : IsTable(edges[vc], vc, added)
    /\ uses = 1 /\ pc \in Writing => \A vc \in todo : IsTable(edges[vc], vc, added)

\* A table that has left the builder is in the files, and so is the part of the current one.
Progress ==
    uses = 1 /\ pc \in Writing =>
        /\ \A vc \in VertexChunks \ todo : HasTable(vc)
        /\ pc \in {"adj_chunk", "prop_chunk"} =>
              StoredUpTo(chunk[1], edges[chunk[1]], chunk[2])
        /\ pc = "prop_chunk" => adj_chunk[chunk] = Slice(edges[chunk[1]], chunk[2])

Done ==
    pc = "idle" /\ result = "OK" /\ uses = 1 =>
        vertex_count = VertexNum /\ \A vc \in VertexChunks : HasTable(vc)

PublishInv == Bounded /\ Whole /\ Progress /\ Done

------------------------------------------------------------------------------
(* Tables.                                                                  *)

\* The length of a table is the number of its edges.
LEMMA TableLength ==
    ASSUME NEW rows, NEW vc, NEW stored, IsTable(rows, vc, stored)
    PROVE  /\ Len(rows) \in Nat
           /\ IsFiniteSet(InChunk(vc, stored))
           /\ Cardinality(InChunk(vc, stored)) = Len(rows)
<1>. DEFINE n == Len(rows)
            S == InChunk(vc, stored)
            f == [i \in 1 .. n |-> rows[i]]
<1>0. n \in Nat /\ S = {rows[i] : i \in 1 .. n}
  BY DEF IsTable, Rows
<1>1. IsFiniteSet(1 .. n) /\ Cardinality(1 .. n) = n
  <2>. HIDE DEF n
  <2>1. n \in Int /\ 1 \in Int
    BY <1>0
  <2>2. Cardinality(1 .. n) = IF 1 > n THEN 0 ELSE n - 1 + 1
    BY <2>1, FS_Interval
  <2>. QED BY <1>0, <2>1, <2>2, FS_Interval
<1>2. f \in Bijection(1 .. n, S)
  <2>1. \A i, j \in 1 .. n : rows[i] = rows[j] => i = j
    BY DEF IsTable
  <2>. HIDE DEF n, S
  <2>2. f \in [1 .. n -> S] /\ DOMAIN f = 1 .. n
    BY <1>0
  <2>3. IsInjective(f)
    BY <2>1, <2>2 DEF IsInjective
  <2>4. \A t \in S : \E i \in 1 .. n : f[i] = t
    BY <1>0
  <2>. QED BY <2>2, <2>3, <2>4 DEF Bijection, Injection, Surjection
<1>3. ExistsBijection(1 .. n, S)
  BY <1>2 DEF ExistsBijection
<1>. HIDE DEF n, S
<1>4. IsFiniteSet(S) /\ Cardinality(S) = Cardinality(1 .. n)
  BY <1>1, <1>3, FS_Bijection
<1>. QED BY <1>0, <1>1, <1>4 DEF n, S

\* Sorting makes a table of the same edges: it drops none, so it repeats none.
LEMMA SortedTable ==
    ASSUME NEW rows, NEW vc, NEW stored, IsTable(rows, vc, stored),
           NEW sorted \in SortedVersions(rows)
    PROVE  IsTable(sorted, vc, stored)
<1>. DEFINE n == Len(rows)
            S == InChunk(vc, stored)
<1>0. n \in Nat /\ S = {rows[i] : i \in 1 .. n} /\ rows \in Rows
  BY DEF IsTable, Rows
<1>1. sorted \in Rows /\ Len(sorted) = n
  BY <1>0, SortedRows
<1>2. /\ sorted \in [1 .. n -> S]
      /\ \A i \in 1 .. n : \E j \in 1 .. n : sorted[j] = rows[i]
  BY <1>0 DEF SortedVersions
<1>3. sorted \in Surjection(1 .. n, S)
  <2>. HIDE DEF n, S
  <2>. QED BY <1>0, <1>2 DEF Surjection
<1>4. IsFiniteSet(1 .. n) /\ Cardinality(1 .. n) = n
  <2>. HIDE DEF n
  <2>1. n \in Int /\ 1 \in Int
    BY <1>0
  <2>2. Cardinality(1 .. n) = IF 1 > n THEN 0 ELSE n - 1 + 1
    BY <2>1, FS_Interval
  <2>. QED BY <1>0, <2>1, <2>2, FS_Interval
<1>5. Cardinality(1 .. n) = Cardinality(S)
  BY <1>4, TableLength
<1>. HIDE DEF n, S
<1>6. sorted \in Injection(1 .. n, S)
  BY <1>3, <1>4, <1>5, FS_SurjSameCardinalityImpliesInj
<1>7. \A i, j \in 1 .. n : sorted[i] = sorted[j] => i = j
  BY <1>2, <1>6 DEF Injection, IsInjective
<1>8. {sorted[i] : i \in 1 .. n} = S
  BY <1>2, <1>3 DEF Surjection
<1>. QED BY <1>1, <1>7, <1>8 DEF IsTable, S

\* A row more, of an edge that was not there.
LEMMA LongerTable ==
    ASSUME NEW rows, NEW vc, NEW stored \in SUBSET Edges, IsTable(rows, vc, stored),
           NEW e \in Edges \ stored, ChunkOfEdge(e) = vc
    PROVE  IsTable(Append(rows, e), vc, stored \cup {e})
<1>. DEFINE n == Len(rows)
            longer == Append(rows, e)
<1>0. n \in Nat /\ rows \in Seq(Edges)
  BY DEF IsTable, Rows
<1>1. /\ longer \in Rows /\ Len(longer) = n + 1
      /\ \A i \in 1 .. n : longer[i] = rows[i]
      /\ longer[n + 1] = e
  BY <1>0 DEF Rows
<1>2. 1 .. n + 1 = (1 .. n) \cup {n + 1}
  BY <1>0
<1>3. /\ \A i, j \in 1 .. n : rows[i] = rows[j] => i = j
      /\ {rows[i] : i \in 1 .. n} = InChunk(vc, stored)
      /\ \A i \in 1 .. n : rows[i] # e
  BY DEF IsTable, InChunk
<1>. HIDE DEF longer, n
<1>4. \A i, j \in 1 .. n + 1 : longer[i] = longer[j] => i = j
  BY <1>1, <1>2, <1>3
<1>5. {longer[i] : i \in 1 .. n + 1} = InChunk(vc, stored) \cup {e}
  BY <1>1, <1>2, <1>3
<1>6. InChunk(vc, stored) \cup {e} = InChunk(vc, stored \cup {e})
  BY DEF InChunk
<1>. QED BY <1>1, <1>4, <1>5, <1>6 DEF IsTable, longer

\* The bound on the edges bounds the edge chunks.
LEMMA TableChunks ==
    ASSUME NEW rows, NEW vc, IsTable(rows, vc, added), Bounded,
           NEW ec \in Nat, ec * ChunkSize < Len(rows)
    PROVE  ec \in EdgeChunks
<1>1. Len(rows) \in Nat /\ Len(rows) = Cardinality(InChunk(vc, added))
  BY TableLength
<1>2. InChunk(vc, added) \in SUBSET added
  BY DEF InChunk
<1>3. Cardinality(InChunk(vc, added)) <= Cardinality(added) /\ Cardinality(added) \in Nat
  BY <1>2, FS_Subset, FS_CardinalityType DEF Bounded
<1>4. ec * ChunkSize \in Nat
  BY LayoutAssumption
<1>5. ec * ChunkSize < MaxEdges
  BY <1>1, <1>3, <1>4, BuilderAssumption DEF Bounded
<1>6. ChunkNum(MaxEdges, ChunkSize) \in Nat /\ ec < ChunkNum(MaxEdges, ChunkSize)
  BY <1>5, BuilderAssumption, LayoutAssumption, ChunkNumType
<1>. QED BY <1>6 DEF EdgeChunks

------------------------------------------------------------------------------
(* What the files of a table show a reader.                                 *)

\* An edge chunk is full unless it is the last.
LEMMA SliceLength ==
    ASSUME NEW rows \in Rows, NEW ec \in Nat, ec * ChunkSize < Len(rows)
    PROVE  Len(Slice(rows, ec)) = IF (ec + 1) * ChunkSize < Len(rows)
                                    THEN ChunkSize ELSE Len(rows) - ec * ChunkSize
<1>0. ChunkSize \in Nat \ {0} /\ rows \in Seq(Edges) /\ Len(rows) \in Nat
  BY LayoutAssumption DEF Rows
<1>. DEFINE first == ec * ChunkSize
            end == (ec + 1) * ChunkSize
            last == IF end < Len(rows) THEN end ELSE Len(rows)
<1>1. first \in Nat /\ end = first + ChunkSize
  BY <1>0
<1>. HIDE DEF end
<1>2. last \in Nat /\ first < last /\ last <= Len(rows)
  BY <1>0, <1>1
<1>3. last - first = IF end < Len(rows) THEN ChunkSize ELSE Len(rows) - first
  <2>. HIDE DEF first
  <2>1. CASE end < Len(rows)
    BY <1>0, <1>1, <2>1
  <2>2. CASE ~(end < Len(rows))
    BY <1>0, <1>1, <2>2
  <2>. QED BY <2>1, <2>2
<1>4. Slice(rows, ec) = SubSeq(rows, first + 1, last)
  BY DEF Slice, end
<1>. HIDE DEF last
<1>5. Len(SubSeq(rows, first + 1, last)) = last - first
  <2>. HIDE DEF first
  <2>. QED BY <1>0, <1>1, <1>2
<1>. QED BY <1>3, <1>4, <1>5 DEF end

\* A reader finds row i of the table in row i of the files.
LEMMA RowStored ==
    ASSUME NEW vc, NEW rows, IsStored(vc, rows), NEW i \in 0 .. Len(rows) - 1
    PROVE  StoredRow(vc, i) = rows[i + 1]
<1>. DEFINE ec == i \div ChunkSize
            j == i % ChunkSize
<1>0. ChunkSize \in Nat \ {0} /\ rows \in Rows /\ Len(rows) \in Nat /\ i \in Nat
  BY LayoutAssumption DEF IsStored, IsTable, Rows
<1>1. ec \in Nat /\ ec * ChunkSize <= i /\ i < ec * ChunkSize + ChunkSize
  BY <1>0, DivType
<1>2. j = i - ec * ChunkSize
  BY <1>0
<1>. HIDE DEF ec, j
<1>3. ec * ChunkSize \in Nat /\ ec * ChunkSize < Len(rows)
  BY <1>0, <1>1
<1>4. adj_chunk[<<vc, ec>>] = Slice(rows, ec)
  <2>1. StoredUpTo(vc, rows, ec + 1)
    BY <1>1 DEF IsStored
  <2>2. ec < ec + 1
    BY <1>1
  <2>. QED BY <1>1, <1>3, <2>1, <2>2 DEF StoredUpTo
<1>5. \/ Len(Slice(rows, ec)) = ChunkSize
      \/ Len(Slice(rows, ec)) = Len(rows) - ec * ChunkSize
  BY <1>0, <1>1, <1>3, SliceLength
<1>6. j + 1 \in 1 .. Len(Slice(rows, ec))
  <2>1. j \in Nat /\ j < ChunkSize /\ j < Len(rows) - ec * ChunkSize
    BY <1>0, <1>1, <1>2, <1>3
  <2>2. CASE Len(Slice(rows, ec)) = ChunkSize
    BY <1>0, <2>1, <2>2
  <2>3. CASE Len(Slice(rows, ec)) = Len(rows) - ec * ChunkSize
    BY <1>0, <1>3, <2>1, <2>3
  <2>. QED BY <1>5, <2>2, <2>3
<1>7. Slice(rows, ec)[j + 1] = rows[ec * ChunkSize + (j + 1)]
  BY <1>0, <1>1, <1>3, <1>6, SliceRows
<1>8. ec * ChunkSize + (j + 1) = i + 1
  BY <1>0, <1>2, <1>3
<1>. QED BY <1>4, <1>7, <1>8 DEF StoredRow, ec, j

\* A reader finds the vertex chunk of a stored table complete.
LEMMA StoredIsPublished ==
    ASSUME NEW vc, NEW rows, IsStored(vc, rows)
    PROVE  ChunkPublished(vc, InChunk(vc, dumping))
<1>. DEFINE S == InChunk(vc, dumping)
            count == Cardinality(S)
<1>0. /\ rows \in Rows /\ Len(rows) \in Nat /\ ChunkSize \in Nat \ {0}
      /\ Len(rows) = count
      /\ {rows[i] : i \in 1 .. Len(rows)} = S
  BY TableLength, LayoutAssumption DEF IsStored, IsTable
<1>. HIDE DEF S, count
<1>1. edge_count[vc] = count
  BY <1>0 DEF IsStored
<1>2. ASSUME NEW ec \in 0 .. ChunkNum(count, ChunkSize) - 1
      PROVE  /\ Intact(adj_chunk[<<vc, ec>>])
             /\ Len(adj_chunk[<<vc, ec>>]) =
                   IF (ec + 1) * ChunkSize < count THEN ChunkSize ELSE count - ec * ChunkSize
             /\ prop_chunk[<<vc, ec>>] = adj_chunk[<<vc, ec>>]
  <2>0. /\ ChunkNum(count, ChunkSize) \in Nat
        /\ \A k \in Nat : k < ChunkNum(count, ChunkSize) <=> k * ChunkSize < count
    BY <1>0, ChunkNumType
  <2>1. ec \in Nat /\ ec * ChunkSize < Len(rows)
    BY <1>0, <2>0
  <2>2. StoredUpTo(vc, rows, ec + 1) /\ ec < ec + 1
    BY <2>1 DEF IsStored
  <2>3. adj_chunk[<<vc, ec>>] = Slice(rows, ec) /\ prop_chunk[<<vc, ec>>] = Slice(rows, ec)
    BY <2>1, <2>2 DEF StoredUpTo
  <2>4. Slice(rows, ec) \in Rows
    BY <1>0, <2>1, SliceRows DEF ChunkRows
  <2>5. Intact(Slice(rows, ec))
    BY <2>4, BuilderAssumption DEF Intact
  <2>. QED BY <1>0, <2>1, <2>3, <2>5, SliceLength
<1>3. {StoredRow(vc, i) : i \in 0 .. count - 1} = S
  <2>1. \A i \in 0 .. count - 1 : StoredRow(vc, i) = rows[i + 1] /\ i + 1 \in 1 .. Len(rows)
    BY <1>0, RowStored
  <2>2. \A i \in 1 .. Len(rows) : i - 1 \in 0 .. count - 1 /\ (i - 1) + 1 = i
    BY <1>0
  <2>. QED BY <1>0, <2>1, <2>2
<1>4. IsOrdered =>
         /\ Intact(offset_chunk[vc])
         /\ \A i \in 0 .. count - 1 : OffsetsSelect(vc, i)
  <2>. SUFFICES ASSUME IsOrdered
                PROVE  /\ Intact(offset_chunk[vc])
                       /\ \A i \in 0 .. count - 1 : OffsetsSelect(vc, i)
    OBVIOUS
  <2>1. Intact(offset_chunk[vc])
    BY BuilderAssumption DEF IsStored, Intact
  <2>2. ASSUME NEW i \in 0 .. count - 1
        PROVE  OffsetsSelect(vc, i)
    <3>1. i + 1 \in 1 .. Len(rows) /\ (i + 1) - 1 = i
      BY <1>0
    <3>2. Selects(offset_chunk[vc], vc, i, rows[i + 1])
      BY <3>1 DEF IsStored
    <3>3. StoredRow(vc, i) = rows[i + 1]
      BY <1>0, RowStored
    <3>. QED BY <3>2, <3>3 DEF Selects, OffsetsSelect
  <2>. QED BY <2>1, <2>2
<1>. QED BY <1>1, <1>2, <1>3, <1>4 DEF ChunkPublished, S, count

\* So is a dump of which every table is stored.
LEMMA DonePublishes == PublishInv => DumpPublishes
<1>. SUFFICES ASSUME PublishInv, pc = "idle", result = "OK", uses = 1
              PROVE  Published(dumping)
  BY DEF DumpPublishes
<1>1. vertex_count = VertexNum /\ \A vc \in VertexChunks : HasTable(vc)
  BY DEF PublishInv, Done
<1>2. \A vc \in VertexChunks : ChunkPublished(vc, InChunk(vc, dumping))
  BY <1>1, StoredIsPublished DEF HasTable
<1>. QED BY <1>1, <1>2 DEF Published, InChunk

------------------------------------------------------------------------------
(* The invariant holds initially and is kept by the client's calls.         *)

\* A table stays stored if its files and what is dumped do.
LEMMA TableKept ==
    ASSUME NEW vc, NEW rows, IsStored(vc, rows),
           UNCHANGED <<adj_list_type, dumping>>,
           edge_count'[vc] = edge_count[vc], offset_chunk'[vc] = offset_chunk[vc],
           \A ec \in Nat : ec * ChunkSize < Len(rows) =>
               /\ adj_chunk'[<<vc, ec>>] = adj_chunk[<<vc, ec>>]
               /\ prop_chunk'[<<vc, ec>>] = prop_chunk[<<vc, ec>>]
    PROVE  IsStored(vc, rows)'
<1>1. \A n \in Nat : StoredUpTo(vc, rows, n)'
  BY DEF IsStored, StoredUpTo
<1>2. IsTable(rows, vc, dumping)'
  BY DEF IsStored, IsTable, InChunk
<1>3. IsOrdered' = IsOrdered
  BY DEF IsOrdered
<1>. QED BY <1>1, <1>2, <1>3 DEF IsStored, Selects

\* A step that changes no file keeps every stored table.
LEMMA TablesKept ==
    ASSUME UNCHANGED <<adj_list_type, directory, dumping>>
    PROVE  \A vc : HasTable(vc) => HasTable(vc)'
<1>. SUFFICES ASSUME NEW vc, NEW rows \in Rows, IsStored(vc, rows)
              PROVE  IsStored(vc, rows)'
  BY DEF HasTable
<1>. QED BY TableKept DEF directory

\* No edge is in a table that is empty.
LEMMA EmptyTable ==
    ASSUME NEW vc
    PROVE  IsTable(<<>>, vc, {})
<1>1. <<>> \in Rows /\ Len(<<>>) = 0 /\ 1 .. 0 = {}
  BY DEF Rows
<1>2. {(<<>>)[i] : i \in 1 .. Len(<<>>)} = {} /\ InChunk(vc, {}) = {}
  BY <1>1 DEF InChunk
<1>. QED BY <1>1, <1>2 DEF IsTable

\* A builder that is empty has all of no edges.
LEMMA EmptyWhole ==
    ASSUME pc' = "idle", uses' = 0, added' = {}, edges' = NoEdges
    PROVE  Bounded' /\ Whole' /\ Progress' /\ Done'
<1>1. Bounded'
  BY FS_EmptySet, BuilderAssumption DEF Bounded, Writing
<1>2. \A vc : Bucket(vc)' = <<>>
  BY DEF Bucket, NoEdges
<1>3. \A vc : IsTable(Bucket(vc), vc, added)'
  BY <1>2, EmptyTable DEF IsTable, InChunk
<1>4. Whole'
  BY <1>3 DEF Whole, Counting, Writing
<1>. QED BY <1>1, <1>4 DEF Progress, Done, Writing

\* The invariant holds for a new builder.
LEMMA PublishInit == Init => PublishInv
<1>. SUFFICES ASSUME Init PROVE PublishInv
  OBVIOUS
<1>1. /\ pc = "idle" /\ uses = 0 /\ added = {} /\ edges = NoEdges /\ result = "none"
  BY DEF Init
<1>2. Bounded
  BY <1>1, FS_EmptySet, BuilderAssumption DEF Bounded, Writing
<1>3. \A vc : Bucket(vc) = <<>>
  BY <1>1 DEF Bucket, NoEdges
<1>4. Whole
  BY <1>1, <1>3, EmptyTable DEF Whole, Counting, Writing
<1>. QED BY <1>1, <1>2, <1>4 DEF PublishInv, Progress, Done, Writing

\* AddEdge keeps it: the table of the edge grows by that edge.
LEMMA PublishAddEdge ==
    ASSUME Inv, PublishInv, NEW e \in Edges, NEW level \in ValidateLevels, AddEdge(e, level)
    PROVE  PublishInv'
<1>. DEFINE c == ChunkOfEdge(e)
<1>0. /\ pc = "idle" /\ pc' = "idle" /\ e \notin added /\ Cardinality(added) < MaxEdges
      /\ added' = added \cup {e} /\ added \subseteq Edges
      /\ edges' = [vc \in DOMAIN edges \cup {c} |->
                     IF vc = c THEN Append(Bucket(vc), e) ELSE edges[vc]]
      /\ UNCHANGED <<adj_list_type, directory, dumping, uses, result>>
  BY DEF AddEdge, Inv, MemoryTyped
<1>1. Bounded'
  <2>1. IsFiniteSet(added) /\ Cardinality(added) \in Nat
    BY FS_CardinalityType DEF PublishInv, Bounded
  <2>2. IsFiniteSet(added') /\ Cardinality(added') = Cardinality(added) + 1
    BY <1>0, <2>1, FS_AddElement
  <2>3. Cardinality(added') <= MaxEdges
    BY <1>0, <2>1, <2>2, BuilderAssumption
  <2>. QED BY <1>0, <2>2, <2>3 DEF Bounded, Writing
<1>2. Whole'
  <2>. SUFFICES ASSUME uses = 0, NEW vc \in Buckets
                PROVE  IsTable(Bucket(vc), vc, added)'
    BY <1>0 DEF Whole, Counting, Writing
  <2>1. IsTable(Bucket(vc), vc, added)
    BY DEF PublishInv, Whole
  <2>2. CASE vc = c
    <3>1. Bucket(vc)' = Append(Bucket(vc), e)
      BY <1>0, <2>2 DEF Bucket
    <3>2. IsTable(Append(Bucket(vc), e), vc, added \cup {e})
      BY <1>0, <2>1, <2>2, LongerTable
    <3>. QED BY <1>0, <3>1, <3>2 DEF IsTable, InChunk
  <2>3. CASE vc # c
    <3>1. Bucket(vc)' = Bucket(vc)
      BY <1>0, <2>3 DEF Bucket
    <3>2. InChunk(vc, added \cup {e}) = InChunk(vc, added)
      BY <2>3 DEF InChunk
    <3>. QED BY <1>0, <2>1, <3>1, <3>2 DEF IsTable, InChunk
  <2>. QED BY <2>2, <2>3
<1>3. Progress'
  BY <1>0 DEF Progress, Writing
<1>4. Done'
  BY <1>0, TablesKept DEF PublishInv, Done, directory
<1>. QED BY <1>1, <1>2, <1>3, <1>4 DEF PublishInv

\* The call of Dump keeps it: it adds empty tables only.
LEMMA PublishDumpStart ==
    ASSUME Inv, PublishInv, DumpStart
    PROVE  PublishInv'
<1>0. /\ pc' \in {"offset", "vertex_count"} /\ uses \in Nat /\ uses' = uses + 1
      /\ edges' = [vc \in DOMAIN edges \cup VertexChunks |-> Bucket(vc)]
      /\ DOMAIN edges \cup VertexChunks \subseteq Buckets
      /\ added' = added
  BY BucketsType DEF DumpStart, Inv, MemoryTyped
<1>1. Bounded'
  BY <1>0 DEF PublishInv, Bounded, Writing
<1>2. Whole'
  <2>. SUFFICES ASSUME uses' = 1, NEW vc \in DOMAIN edges \cup VertexChunks
                PROVE  IsTable(edges[vc], vc, added)'
    BY <1>0 DEF Whole, Writing
  <2>1. IsTable(Bucket(vc), vc, added)
    BY <1>0 DEF PublishInv, Whole
  <2>. QED BY <1>0, <2>1 DEF IsTable, InChunk
<1>. QED BY <1>0, <1>1, <1>2 DEF PublishInv, Progress, Done, Writing

------------------------------------------------------------------------------
(* Writing offsets and counts.                                              *)

\* Sorting a table for its offsets keeps it.
LEMMA PublishWriteOffsetChunk ==
    ASSUME Inv, PublishInv, WriteOffsetChunk
    PROVE  PublishInv'
<1>0. /\ pc = "offset" /\ pc' \in {"offset", "vertex_count"}
      /\ UNCHANGED <<added, uses, vertex_count>>
  BY DEF WriteOffsetChunk, history
<1>1. PICK vc \in todo : \E sorted \in SortedVersions(edges[vc]) :
         edges' = [edges EXCEPT ![vc] = sorted]
  BY DEF WriteOffsetChunk
<1>2. PICK sorted \in SortedVersions(edges[vc]) : edges' = [edges EXCEPT ![vc] = sorted]
  BY <1>1
<1>3. Bounded'
  BY <1>0 DEF PublishInv, Bounded, Writing
<1>4. Whole'
  <2>. SUFFICES ASSUME uses = 1, NEW u \in DOMAIN edges
                PROVE  IsTable(edges[u], u, added)'
    <3>1. uses' # 0
      BY <1>0 DEF PublishInv, Bounded
    <3>. QED BY <1>0, <1>2, <3>1 DEF Whole, Writing
  <2>1. IsTable(edges[u], u, added)
    BY <1>0 DEF PublishInv, Whole, Counting
  <2>2. CASE u = vc
    <3>1. IsTable(sorted, u, added)
      BY <2>1, <2>2, SortedTable
    <3>2. edges'[u] = sorted
      BY <1>2, <2>2
    <3>. QED BY <1>0, <3>1, <3>2 DEF IsTable, InChunk
  <2>3. CASE u # vc
    <3>1. edges'[u] = edges[u]
      BY <1>2, <2>3
    <3>. QED BY <1>0, <2>1, <3>1 DEF IsTable, InChunk
  <2>. QED BY <2>2, <2>3
<1>. QED BY <1>0, <1>3, <1>4 DEF PublishInv, Progress, Done, Writing

\* The loops over the tables begin with every table in memory.
LEMMA PublishCounts ==
    ASSUME Inv, PublishInv, pc \in {"vertex_count", "edge_count"},
           vertex_count' = VertexNum, UNCHANGED <<memory, history>>,
           NEW n, EdgeCountsFrom(n)
    PROVE  PublishInv'
<1>0. /\ pc' \in {"edge_count", "table"}
      /\ pc' = "table" => todo' = DOMAIN edges
      /\ UNCHANGED <<edges, added, uses>>
      /\ VertexChunks \subseteq DOMAIN edges /\ uses # 0
  BY DEF EdgeCountsFrom, memory, history, Inv, InLoops, PublishInv, Bounded
<1>1. Bounded'
  BY <1>0 DEF PublishInv, Bounded
<1>2. Whole'
  <2>1. uses = 1 => \A vc \in DOMAIN edges : IsTable(edges[vc], vc, added)'
    BY <1>0 DEF PublishInv, Whole, Counting, IsTable, InChunk
  <2>. QED BY <1>0, <2>1 DEF Whole, Writing, Counting
<1>3. Progress'
  BY <1>0 DEF Progress, Writing
<1>. QED BY <1>0, <1>1, <1>2, <1>3 DEF PublishInv, Done

\* Writing the number of vertices keeps it.
LEMMA PublishWriteVerticesNum ==
    ASSUME Inv, PublishInv, WriteVerticesNum
    PROVE  PublishInv'
BY PublishCounts DEF WriteVerticesNum

\* Writing a count of edges keeps it.
LEMMA PublishWriteEdgesNum ==
    ASSUME Inv, PublishInv, WriteEdgesNum
    PROVE  PublishInv'
<1>1. vertex_count' = VertexNum
  BY DEF WriteEdgesNum, PublishInv, Bounded
<1>. QED BY <1>1, PublishCounts DEF WriteEdgesNum

------------------------------------------------------------------------------
(* Writing the edge chunks.                                                 *)

\* Taking the next table keeps it: none of its chunks is expected yet.
LEMMA PublishEnterTable ==
    ASSUME Inv, PublishInv, EnterTable
    PROVE  PublishInv'
<1>. USE DEF EnterTable
<1>0. /\ pc = "table" /\ pc' = "adj_chunk"
      /\ UNCHANGED <<adj_list_type, edges, todo, directory, added, dumping, uses, result,
                     vertex_count>>
  BY DEF memory, history, directory
<1>1. PICK vc \in todo : chunk' = <<vc, 0>>
  OBVIOUS
<1>2. Bounded'
  BY <1>0 DEF PublishInv, Bounded, Writing
<1>3. Whole'
  <2>1. uses = 1 => \A u \in todo : IsTable(edges[u], u, added)'
    BY <1>0 DEF PublishInv, Whole, Writing, IsTable, InChunk
  <2>2. uses' # 0
    BY <1>0 DEF PublishInv, Bounded
  <2>. QED BY <1>0, <2>1, <2>2 DEF Whole, Counting
<1>4. Progress'
  <2>1. uses = 1 => \A u \in VertexChunks \ todo : HasTable(u)'
    BY <1>0, TablesKept DEF PublishInv, Progress, Writing
  <2>2. StoredUpTo(chunk[1], edges[chunk[1]], chunk[2])'
    BY <1>1 DEF StoredUpTo
  <2>. QED BY <1>0, <2>1, <2>2 DEF Progress
<1>. QED BY <1>0, <1>2, <1>3, <1>4 DEF PublishInv, Done

\* While a table of the first Dump is written, the file that is written next is one of the
\* directory.
LEMMA CurrentFile ==
    ASSUME Inv, PublishInv, uses = 1, pc \in {"adj_chunk", "prop_chunk"}, RowsLeft
    PROVE  chunk \in FileChunks
<1>1. /\ chunk = <<chunk[1], chunk[2]>> /\ chunk[2] \in Nat
      /\ chunk[1] \in todo /\ chunk[1] \in Buckets
  BY CurrentTable DEF Inv, MemoryTyped
<1>2. IsTable(edges[chunk[1]], chunk[1], added)
  BY <1>1 DEF PublishInv, Whole, Writing
<1>3. chunk[2] \in EdgeChunks
  BY <1>1, <1>2, TableChunks DEF PublishInv, RowsLeft
<1>. QED BY <1>1, <1>3 DEF FileChunks

\* Writing a chunk of one table keeps the stored tables of the others.
LEMMA OtherTablesKept ==
    ASSUME Inv, PublishInv, pc # "idle",
           UNCHANGED <<adj_list_type, dumping, edge_count, offset_chunk>>,
           \A c \in FileChunks : c # chunk =>
               adj_chunk'[c] = adj_chunk[c] /\ prop_chunk'[c] = prop_chunk[c],
           NEW vc \in VertexChunks, vc # chunk[1], HasTable(vc)
    PROVE  HasTable(vc)'
<1>1. PICK rows \in Rows : IsStored(vc, rows)
  BY DEF HasTable
<1>2. IsTable(rows, vc, added)
  BY <1>1 DEF IsStored, Inv, InLoops
<1>3. ASSUME NEW ec \in Nat, ec * ChunkSize < Len(rows)
      PROVE  /\ adj_chunk'[<<vc, ec>>] = adj_chunk[<<vc, ec>>]
             /\ prop_chunk'[<<vc, ec>>] = prop_chunk[<<vc, ec>>]
  <2>1. ec \in EdgeChunks
    BY <1>2, <1>3, TableChunks DEF PublishInv
  <2>2. <<vc, ec>> \in FileChunks /\ <<vc, ec>> # chunk
    BY <2>1, FileChunkType
  <2>. QED BY <2>2
<1>4. IsStored(vc, rows)'
  BY <1>1, <1>3, TableKept
<1>. QED BY <1>4 DEF HasTable

\* And it keeps the chunks of its own table that are written before.
LEMMA EarlierChunksKept ==
    ASSUME Inv, PublishInv, uses = 1, pc \in {"adj_chunk", "prop_chunk"},
           \A c \in FileChunks : c # chunk =>
               adj_chunk'[c] = adj_chunk[c] /\ prop_chunk'[c] = prop_chunk[c],
           NEW ec \in Nat, ec < chunk[2], ec * ChunkSize < Len(edges[chunk[1]])
    PROVE  /\ adj_chunk'[<<chunk[1], ec>>] = Slice(edges[chunk[1]], ec)
           /\ prop_chunk'[<<chunk[1], ec>>] = Slice(edges[chunk[1]], ec)
<1>1. /\ chunk = <<chunk[1], chunk[2]>> /\ chunk[2] \in Nat
      /\ chunk[1] \in todo /\ chunk[1] \in Buckets
  BY CurrentTable DEF Inv, MemoryTyped
<1>2. IsTable(edges[chunk[1]], chunk[1], added)
  BY <1>1 DEF PublishInv, Whole, Writing
<1>3. ec \in EdgeChunks
  BY <1>2, TableChunks DEF PublishInv
<1>4. <<chunk[1], ec>> \in FileChunks
  BY <1>1, <1>3 DEF FileChunks
<1>5. <<chunk[1], ec>> # chunk
  <2>1. ec # chunk[2]
    BY <1>1
  <2>. QED BY <2>1
<1>6. StoredUpTo(chunk[1], edges[chunk[1]], chunk[2])
  BY DEF PublishInv, Progress, Writing
<1>. QED BY <1>4, <1>5, <1>6 DEF StoredUpTo

\* Writing an adjacency list chunk keeps it: stored tables are in other files.
LEMMA PublishWriteAdjListChunk ==
    ASSUME Inv, PublishInv, WriteAdjListChunk
    PROVE  PublishInv'
<1>. USE DEF WriteAdjListChunk
<1>. DEFINE slice == Slice(edges[chunk[1]], chunk[2])
<1>0. /\ pc = "adj_chunk" /\ pc' = "prop_chunk" /\ RowsLeft
      /\ adj_chunk' = [adj_chunk EXCEPT ![chunk] = slice]
      /\ UNCHANGED <<adj_list_type, edges, todo, chunk, vertex_count, edge_count,
                     offset_chunk, prop_chunk, added, dumping, uses, result>>
  BY DEF memory, history
<1>. HIDE DEF slice
<1>1. \A c \in FileChunks : adj_chunk'[c] = IF c = chunk THEN slice ELSE adj_chunk[c]
  BY <1>0 DEF Inv, DirectoryTyped
<1>2. Bounded'
  BY <1>0 DEF PublishInv, Bounded, Writing
<1>3. Whole'
  <2>1. uses = 1 => \A u \in todo : IsTable(edges[u], u, added)'
    BY <1>0 DEF PublishInv, Whole, Writing, IsTable, InChunk
  <2>2. uses' # 0
    BY <1>0 DEF PublishInv, Bounded
  <2>. QED BY <1>0, <2>1, <2>2 DEF Whole, Counting
<1>4. Progress'
  <2>. SUFFICES ASSUME uses = 1
                PROVE  /\ \A vc \in VertexChunks \ todo : HasTable(vc)'
                       /\ StoredUpTo(chunk[1], edges[chunk[1]], chunk[2])'
                       /\ adj_chunk'[chunk] = slice
    BY <1>0 DEF Progress, slice
  <2>1. \A vc \in VertexChunks \ todo : HasTable(vc)'
    <3>1. chunk[1] \in todo
      BY <1>0, CurrentTable
    <3>2. \A vc \in VertexChunks \ todo : HasTable(vc)
      BY <1>0 DEF PublishInv, Progress, Writing
    <3>. QED BY <1>0, <1>1, <3>1, <3>2, OtherTablesKept
  <2>2. StoredUpTo(chunk[1], edges[chunk[1]], chunk[2])'
    BY <1>0, <1>1, EarlierChunksKept DEF StoredUpTo
  <2>3. chunk \in FileChunks
    BY <1>0, CurrentFile
  <2>. QED BY <1>1, <2>1, <2>2, <2>3
<1>. QED BY <1>0, <1>2, <1>3, <1>4 DEF PublishInv, Done

\* Writing a property chunk keeps it, and completes one chunk of the table.
LEMMA PublishWritePropertyChunk ==
    ASSUME Inv, PublishInv, WritePropertyChunk
    PROVE  PublishInv'
<1>. USE DEF WritePropertyChunk
<1>. DEFINE slice == Slice(edges[chunk[1]], chunk[2])
<1>0. /\ pc = "prop_chunk" /\ pc' = "adj_chunk"
      /\ prop_chunk' = [prop_chunk EXCEPT ![chunk] = slice]
      /\ chunk' = <<chunk[1], chunk[2] + 1>>
      /\ UNCHANGED <<adj_list_type, edges, todo, vertex_count, edge_count,
                     offset_chunk, adj_chunk, added, dumping, uses, result>>
  BY DEF memory, history
<1>. HIDE DEF slice
<1>1. \A c \in FileChunks : prop_chunk'[c] = IF c = chunk THEN slice ELSE prop_chunk[c]
  BY <1>0 DEF Inv, DirectoryTyped
<1>2. Bounded'
  BY <1>0 DEF PublishInv, Bounded, Writing
<1>3. Whole'
  <2>1. uses = 1 => \A u \in todo : IsTable(edges[u], u, added)'
    BY <1>0 DEF PublishInv, Whole, Writing, IsTable, InChunk
  <2>2. uses' # 0
    BY <1>0 DEF PublishInv, Bounded
  <2>. QED BY <1>0, <2>1, <2>2 DEF Whole, Counting
<1>4. Progress'
  <2>0. /\ chunk = <<chunk[1], chunk[2]>> /\ chunk[2] \in Nat /\ chunk[1] \in todo
        /\ chunk'[1] = chunk[1] /\ chunk'[2] = chunk[2] + 1
    BY <1>0, CurrentTable
  <2>. SUFFICES ASSUME uses = 1
                PROVE  /\ \A vc \in VertexChunks \ todo : HasTable(vc)'
                       /\ StoredUpTo(chunk[1], edges[chunk[1]], chunk[2])'
    BY <1>0 DEF Progress
  <2>1. \A vc \in VertexChunks \ todo : HasTable(vc)'
    <3>1. \A vc \in VertexChunks \ todo : HasTable(vc)
      BY <1>0 DEF PublishInv, Progress, Writing
    <3>. QED BY <1>0, <1>1, <2>0, <3>1, OtherTablesKept
  <2>2. ASSUME NEW ec \in Nat, ec < chunk[2] + 1, ec * ChunkSize < Len(edges[chunk[1]])
        PROVE  /\ adj_chunk'[<<chunk[1], ec>>] = Slice(edges[chunk[1]], ec)
               /\ prop_chunk'[<<chunk[1], ec>>] = Slice(edges[chunk[1]], ec)
    <3>1. CASE ec < chunk[2]
      BY <1>0, <1>1, <2>2, <3>1, EarlierChunksKept
    <3>2. CASE ec = chunk[2]
      <4>1. chunk \in FileChunks
        BY <1>0, CurrentFile DEF Inv, InLoops
      <4>2. adj_chunk[chunk] = slice
        BY <1>0 DEF PublishInv, Progress, Writing, slice
      <4>. QED BY <1>0, <1>1, <2>0, <3>2, <4>1, <4>2 DEF slice
    <3>. QED BY <2>0, <2>2, <3>1, <3>2
  <2>3. StoredUpTo(chunk[1], edges[chunk[1]], chunk[2])'
    BY <1>0, <2>0, <2>2 DEF StoredUpTo
  <2>. QED BY <2>1, <2>3
<1>. QED BY <1>0, <1>2, <1>3, <1>4 DEF PublishInv, Done

\* Leaving a table keeps it: all of its chunks are in their files.
LEMMA PublishLeaveTable ==
    ASSUME Inv, PublishInv, LeaveTable
    PROVE  PublishInv'
<1>. USE DEF LeaveTable
<1>. DEFINE vc == chunk[1]
            rows == edges[vc]
<1>0. /\ pc = "adj_chunk" /\ pc' = "table" /\ ~RowsLeft
      /\ edges' = [edges EXCEPT ![vc] = <<>>] /\ todo' = todo \ {vc}
      /\ UNCHANGED <<adj_list_type, directory, vertex_count, added, dumping, uses, result>>
      /\ dumping = added
  BY DEF directory, history, Inv, InLoops
<1>1. /\ vc \in todo /\ todo \subseteq DOMAIN edges /\ rows \in Rows
      /\ Len(rows) \in Nat /\ chunk[2] \in Nat
  BY <1>0, CurrentTable DEF Inv, InLoops, Rows
<1>2. Bounded'
  BY <1>0 DEF PublishInv, Bounded, Writing
<1>3. Whole'
  <2>1. ASSUME uses = 1, NEW u \in todo'
        PROVE  IsTable(edges[u], u, added)'
    <3>1. edges'[u] = edges[u] /\ IsTable(edges[u], u, added)
      BY <1>0, <1>1, <2>1 DEF PublishInv, Whole, Writing
    <3>. QED BY <1>0, <3>1 DEF IsTable, InChunk
  <2>2. uses' # 0
    BY <1>0 DEF PublishInv, Bounded
  <2>. QED BY <1>0, <2>1, <2>2 DEF Whole, Counting
<1>4. ASSUME uses = 1, vc \in VertexChunks
      PROVE  HasTable(vc)
  <2>1. IsTable(rows, vc, dumping)
    BY <1>0, <1>1, <1>4 DEF PublishInv, Whole, Writing
  <2>2. edge_count[vc] = Len(rows)
    BY <1>0, <1>1, <1>4 DEF Inv, CountsAhead, Writing
  <2>3. IsOrdered => OffsetsFit(vc)
    BY <1>0, <1>1 DEF Inv, CountsAhead, Writing
  <2>4. StoredUpTo(vc, rows, chunk[2])
    BY <1>0, <1>4 DEF PublishInv, Progress, Writing
  <2>5. ASSUME NEW ec \in Nat, ec * ChunkSize < Len(rows)
        PROVE  ec < chunk[2]
    <3>1. Len(rows) <= chunk[2] * ChunkSize
      BY <1>0, <1>1, LayoutAssumption DEF RowsLeft
    <3>. SUFFICES ASSUME chunk[2] <= ec PROVE FALSE
      BY <1>1
    <3>2. chunk[2] * ChunkSize <= ec * ChunkSize
      BY <1>1, LayoutAssumption
    <3>3. ec * ChunkSize \in Nat /\ chunk[2] * ChunkSize \in Nat
      BY <1>1, LayoutAssumption
    <3>. HIDE DEF rows
    <3>. QED BY <1>1, <2>5, <3>1, <3>2, <3>3
  <2>6. \A n \in Nat : StoredUpTo(vc, rows, n)
    BY <2>4, <2>5 DEF StoredUpTo
  <2>. QED BY <1>1, <2>1, <2>2, <2>3, <2>6 DEF HasTable, IsStored, OffsetsFit
<1>5. Progress'
  <2>. SUFFICES ASSUME uses = 1, NEW u \in VertexChunks \ todo'
                PROVE  HasTable(u)'
    BY <1>0 DEF Progress
  <2>1. HasTable(u)
    <3>1. CASE u = vc
      BY <1>4, <3>1
    <3>2. CASE u # vc
      BY <1>0, <3>2 DEF PublishInv, Progress, Writing
    <3>. QED BY <3>1, <3>2
  <2>. QED BY <1>0, <2>1, TablesKept
<1>. QED BY <1>0, <1>2, <1>3, <1>5 DEF PublishInv, Done

------------------------------------------------------------------------------
(* Returning, failing, crashing.                                            *)

\* The return of Dump keeps it: no table is left in the builder.
LEMMA PublishDumpReturns ==
    ASSUME Inv, PublishInv, DumpReturns
    PROVE  PublishInv'
<1>0. /\ pc = "table" /\ pc' = "idle" /\ todo = {} /\ result' = "OK" /\ uses # 0
      /\ UNCHANGED <<adj_list_type, edges, directory, vertex_count, added, dumping, uses>>
  BY DEF DumpReturns, directory, PublishInv, Bounded
<1>1. Bounded' /\ Whole' /\ Progress'
  BY <1>0 DEF PublishInv, Bounded, Whole, Progress, Counting, Writing
<1>2. ASSUME uses = 1
      PROVE  vertex_count = VertexNum /\ \A vc \in VertexChunks : HasTable(vc)
  BY <1>0, <1>2 DEF PublishInv, Bounded, Progress, Writing
<1>3. Done'
  BY <1>0, <1>2, TablesKept DEF Done
<1>. QED BY <1>1, <1>3 DEF PublishInv

\* A failed Dump keeps it: the builder has been used and returned no OK.
LEMMA PublishWriteFails ==
    ASSUME Inv, PublishInv, WriteFails
    PROVE  PublishInv'
<1>0. /\ pc # "idle" /\ pc' = "idle" /\ result' = "error" /\ uses # 0
      /\ UNCHANGED <<added, uses>>
  BY DEF WriteFails, PublishInv, Bounded
<1>. QED BY <1>0 DEF PublishInv, Bounded, Whole, Progress, Done, Counting, Writing

\* A builder that is cleared, or new behind a crash, has no edges.
LEMMA PublishEmptied ==
    ASSUME pc' = "idle", uses' = 0, added' = {}, edges' = NoEdges
    PROVE  PublishInv'
BY EmptyWhole DEF PublishInv

\* A step of no variable.
LEMMA PublishStutter ==
    ASSUME PublishInv, UNCHANGED vars
    PROVE  PublishInv'
<1>0. UNCHANGED <<adj_list_type, edges, pc, todo, chunk, directory, vertex_count,
                  adj_chunk, prop_chunk, added, dumping, uses, result>>
  BY DEF vars, memory, directory, history
<1>1. Bounded' /\ Done'
  BY <1>0, TablesKept DEF PublishInv, Bounded, Done, Writing
<1>2. Whole'
  BY <1>0 DEF PublishInv, Whole, Bucket, IsTable, InChunk, Counting, Writing
<1>3. Progress'
  <2>1. \A vc : HasTable(vc) => HasTable(vc)'
    BY <1>0, TablesKept
  <2>2. StoredUpTo(chunk[1], edges[chunk[1]], chunk[2])
            => StoredUpTo(chunk[1], edges[chunk[1]], chunk[2])'
    BY <1>0 DEF StoredUpTo
  <2>. QED BY <1>0, <2>1, <2>2 DEF PublishInv, Progress, Writing
<1>. QED BY <1>1, <1>2, <1>3 DEF PublishInv

------------------------------------------------------------------------------
(* The theorem.                                                             *)

\* Every step of the specification keeps the invariant.
LEMMA PublishNext == Inv /\ PublishInv /\ [Next]_vars => PublishInv'
<1>. SUFFICES ASSUME Inv, PublishInv, [Next]_vars PROVE PublishInv'
  OBVIOUS
<1>1. CASE \E e \in Edges, level \in ValidateLevels : AddEdge(e, level)
  BY <1>1, PublishAddEdge
<1>2. CASE Clear
  BY <1>2, PublishEmptied DEF Clear
<1>3. CASE DumpStart
  BY <1>3, PublishDumpStart
<1>4. CASE DumpStep
  <2>1. CASE WriteOffsetChunk
    BY <2>1, PublishWriteOffsetChunk
  <2>2. CASE WriteVerticesNum
    BY <2>2, PublishWriteVerticesNum
  <2>3. CASE WriteEdgesNum
    BY <2>3, PublishWriteEdgesNum
  <2>4. CASE EnterTable
    BY <2>4, PublishEnterTable
  <2>5. CASE WriteAdjListChunk
    BY <2>5, PublishWriteAdjListChunk
  <2>6. CASE WritePropertyChunk
    BY <2>6, PublishWritePropertyChunk
  <2>7. CASE LeaveTable
    BY <2>7, PublishLeaveTable
  <2>8. CASE DumpReturns
    BY <2>8, PublishDumpReturns
  <2>. QED BY <1>4, <2>1, <2>2, <2>3, <2>4, <2>5, <2>6, <2>7, <2>8 DEF DumpStep
<1>5. CASE WriteFails
  BY <1>5, PublishWriteFails
<1>6. CASE Crash
  BY <1>6, PublishEmptied DEF Crash
<1>7. CASE UNCHANGED vars
  BY <1>7, PublishStutter
<1>. QED BY <1>1, <1>2, <1>3, <1>4, <1>5, <1>6, <1>7 DEF Next

\* When the first Dump of a builder returns OK, a reader of the directory finds every edge
\* of it, whatever failed, crashed or was dumped there before.
THEOREM DumpCorrect == Spec => []DumpPublishes
<1>1. Init => Inv /\ PublishInv
  BY InitCorrect, PublishInit
<1>2. Inv /\ PublishInv /\ [Next]_vars => (Inv /\ PublishInv)'
  BY NextCorrect, PublishNext
<1>3. PublishInv => DumpPublishes
  BY DonePublishes
<1>. QED BY <1>1, <1>2, <1>3, PTL DEF Spec
==============================================================================
