---------------------------- MODULE EdgeIter_proofs ----------------------------
(****************************************************************************)
(* Proofs about the iterator over edges, for every adjacency list in which  *)
(* no vertex chunk is empty or ends with a full edge chunk, and every range *)
(* of vertex chunks: its three positions agree, and it implements a         *)
(* position in the sequence of the edges.                                   *)
(****************************************************************************)
EXTENDS EdgeIter, AdjListLayout_proofs

\* No vertex chunk ends with a full edge chunk.  An empty one counts as full.
PartialEnds(s) == \A vc \in VertexChunks : EdgeNum(s, vc) % ChunkSize # 0

\* What never changes while a collection is open.
Static ==
    /\ adj \in AdjLists /\ Aligned(adj) /\ PartialEnds(adj)
    /\ IsOrdered => Ordered(adj)
    /\ range \in VertexChunks \X (1 .. VertexChunkNum) /\ range[1] < range[2]
    /\ collection = Collection(adj, range)

------------------------------------------------------------------------------
(* The rows of a vertex chunk.                                              *)

\* Quotient and remainder are unique.
LEMMA DivUnique ==
    ASSUME NEW d \in Nat \ {0}, NEW q \in Nat, NEW x \in 0 .. d - 1
    PROVE  (q * d + x) \div d = q /\ (q * d + x) % d = x
<1>. DEFINE n == q * d + x
<1>1. n \in Nat /\ q * d \in Nat
  OBVIOUS
<1>2. n \div d \in Nat /\ (n \div d) * d <= n /\ n < (n \div d) * d + d
  BY <1>1, DivType
<1>3. n \div d = q
  <2>1. ASSUME NEW a \in Nat, NEW b \in Nat, a < b
        PROVE  a * d + d <= b * d
    BY <2>1
  <2>2. ~(n \div d < q) /\ ~(q < n \div d)
    BY <1>1, <1>2, <2>1
  <2>. QED BY <1>2, <2>2
<1>4. n % d = n - (n \div d) * d
  BY <1>1
<1>. QED BY <1>3, <1>4

\* Quotient and remainder are numbers, and make up what was divided.
LEMMA DivMod ==
    ASSUME NEW n \in Nat, NEW d \in Nat \ {0}
    PROVE  /\ n \div d \in Nat /\ n % d \in 0 .. d - 1
           /\ n % d = n - (n \div d) * d
           /\ (n \div d) * d \in Nat
<1>1. n \div d \in Nat /\ (n \div d) * d <= n /\ n < (n \div d) * d + d
  BY DivType
<1>2. n % d = n - (n \div d) * d
  OBVIOUS
<1>3. (n \div d) * d \in Nat
  BY <1>1
<1>. DEFINE x == n % d
            m == (n \div d) * d
<1>4. x = n - m /\ m \in Nat /\ m <= n /\ n < m + d
  BY <1>1, <1>2, <1>3
<1>. HIDE DEF x, m
<1>5. x \in 0 .. d - 1 /\ n = m + x
  BY <1>4
<1>6. n % d \in 0 .. d - 1
  BY <1>5, Zenon DEF x
<1>. QED BY <1>1, <1>2, <1>3, <1>6

\* The division of the number that follows.
LEMMA DivNext ==
    ASSUME NEW n \in Nat, NEW d \in Nat \ {0}
    PROVE  /\ (n % d) + 1 < d => (n + 1) \div d = n \div d /\ (n + 1) % d = (n % d) + 1
           /\ (n % d) + 1 = d => (n + 1) \div d = n \div d + 1 /\ (n + 1) % d = 0
<1>. DEFINE q == n \div d
            x == n % d
<1>0. q \in Nat /\ x \in 0 .. d - 1 /\ x = n - q * d /\ q * d \in Nat
  BY DivMod
<1>. HIDE DEF q, x
<1>1. q \in Nat /\ x \in 0 .. d - 1 /\ n = q * d + x /\ q * d \in Nat
  BY <1>0
<1>2. ASSUME x + 1 < d PROVE (n + 1) \div d = q /\ (n + 1) % d = x + 1
  <2>1. x + 1 \in 0 .. d - 1 /\ n + 1 = q * d + (x + 1)
    BY <1>1, <1>2
  <2>. QED BY <1>1, <2>1, DivUnique
<1>3. ASSUME x + 1 = d PROVE (n + 1) \div d = q + 1 /\ (n + 1) % d = 0
  <2>1. n + 1 = (q + 1) * d + 0 /\ q + 1 \in Nat /\ 0 \in 0 .. d - 1
    BY <1>1, <1>3
  <2>2. ((q + 1) * d + 0) \div d = q + 1 /\ ((q + 1) * d + 0) % d = 0
    BY <2>1, DivUnique
  <2>. QED BY <2>1, <2>2
<1>. QED BY <1>2, <1>3 DEF q, x

\* Division is monotone.
LEMMA DivMonotone ==
    ASSUME NEW a \in Nat, NEW b \in Nat, NEW d \in Nat \ {0}, a \div d < b \div d
    PROVE  a < b
<1>. DEFINE p == a \div d
            q == b \div d
<1>1. p \in Nat /\ q \in Nat /\ a < p * d + d /\ q * d <= b
  BY DivType
<1>2. p < q
  OBVIOUS
<1>. HIDE DEF p, q
<1>3. p * d + d <= q * d
  BY <1>1, <1>2
<1>. QED BY <1>1, <1>3

\* The edge chunks of a vertex chunk that does not end with a full one.
LEMMA RowsOfVertexChunk ==
    ASSUME NEW s \in AdjLists, PartialEnds(s), NEW vc \in VertexChunks
    PROVE  LET n == EdgeNum(s, vc)
           IN  /\ n \in Nat /\ n > 0
               /\ ChunkSize \in Nat \ {0}
               /\ EdgeChunkNum(s, vc) \in Nat
               /\ EdgeChunkNum(s, vc) = n \div ChunkSize + 1
               /\ EdgeChunkNum(s, vc) > 0
               /\ \A row \in 0 .. n : row \div ChunkSize < EdgeChunkNum(s, vc)
<1>. DEFINE n == EdgeNum(s, vc)
            q == n \div ChunkSize
            x == n % ChunkSize
<1>1. n \in Nat /\ x # 0 /\ ChunkSize \in Nat \ {0}
  BY EdgeChunkType, LayoutAssumption DEF PartialEnds
<1>2. n > 0
  BY <1>1
<1>0. q \in Nat /\ x \in 0 .. ChunkSize - 1 /\ x = n - q * ChunkSize /\ q * ChunkSize \in Nat
  BY <1>1, DivMod
<1>3. /\ q \in Nat /\ x \in 1 .. ChunkSize - 1 /\ n = q * ChunkSize + x
      /\ q * ChunkSize \in Nat
  <2>. HIDE DEF n, q, x
  <2>. QED BY <1>0, <1>1
<1>4. EdgeChunkNum(s, vc) = q + 1
  <2>. HIDE DEF n, q, x
  <2>1. (q + 1) * ChunkSize = q * ChunkSize + ChunkSize
    BY <1>1, <1>3
  <2>2. n + ChunkSize - 1 = (q + 1) * ChunkSize + (x - 1)
    BY <1>1, <1>3, <2>1
  <2>3. x - 1 \in 0 .. ChunkSize - 1 /\ q + 1 \in Nat
    BY <1>1, <1>3
  <2>4. ((q + 1) * ChunkSize + (x - 1)) \div ChunkSize = q + 1
    BY <1>1, <2>3, DivUnique
  <2>5. (n + ChunkSize - 1) \div ChunkSize = q + 1
    BY <2>2, <2>4
  <2>. QED BY <2>5 DEF EdgeChunkNum, ChunkNum, n
<1>5. ASSUME NEW row \in 0 .. n PROVE row \div ChunkSize < q + 1
  <2>1. row \div ChunkSize \in Nat /\ ~(q < row \div ChunkSize)
    BY <1>1, DivType, DivMonotone
  <2>. QED BY <1>3, <2>1
<1>. HIDE DEF x, q
<1>6. EdgeChunkNum(s, vc) \in Nat /\ EdgeChunkNum(s, vc) > 0
  BY <1>3, <1>4
<1>7. \A row \in 0 .. n : row \div ChunkSize < EdgeChunkNum(s, vc)
  BY <1>4, <1>5
<1>. QED BY <1>1, <1>2, <1>4, <1>6, <1>7, Zenon DEF q

\* What ++ learns from the number of rows of its edge chunk.
LEMMA RowAhead ==
    ASSUME NEW s \in AdjLists, PartialEnds(s), NEW vc \in VertexChunks,
           NEW row \in Nat, row < EdgeNum(s, vc)
    PROVE  LET ec == row \div ChunkSize
               rows == RowsOfChunk(s, <<vc, ec>>)
               next == (row + 1) % ChunkSize
           IN  /\ rows \in 1 .. ChunkSize
               /\ rows = ChunkSize /\ next = 0 =>
                     row + 1 < EdgeNum(s, vc) /\ (row + 1) \div ChunkSize = ec + 1
               /\ rows # ChunkSize /\ next >= rows =>
                     row + 1 = EdgeNum(s, vc) /\ ec + 1 = EdgeChunkNum(s, vc)
               /\ ~(rows = ChunkSize /\ next = 0) /\ ~(rows # ChunkSize /\ next >= rows) =>
                     row + 1 < EdgeNum(s, vc) /\ (row + 1) \div ChunkSize = ec
<1>. DEFINE n == EdgeNum(s, vc)
            d == ChunkSize
            q == n \div d
            y == n % d
            ec == row \div d
            x == row % d
            rows == RowsOfChunk(s, <<vc, ec>>)
<1>1. n \in Nat /\ d \in Nat \ {0} /\ EdgeChunkNum(s, vc) = q + 1 /\ y # 0
  BY RowsOfVertexChunk DEF PartialEnds
<1>2. q \in Nat /\ y \in 1 .. d - 1 /\ n = q * d + y /\ q * d \in Nat
  <2>1. q \in Nat /\ y \in 0 .. d - 1 /\ y = n - q * d /\ q * d \in Nat
    BY <1>1, DivMod
  <2>. HIDE DEF n, d, q, y
  <2>. QED BY <1>1, <2>1
<1>3. ec \in Nat /\ x \in 0 .. d - 1 /\ row = ec * d + x /\ ec * d \in Nat
  <2>1. ec \in Nat /\ x \in 0 .. d - 1 /\ x = row - ec * d /\ ec * d \in Nat
    BY <1>1, DivMod
  <2>. HIDE DEF d, ec, x
  <2>. QED BY <1>1, <2>1
<1>4. ec <= q
  <2>1. row < n
    OBVIOUS
  <2>2. q < ec => n < row
    BY <1>1, DivMonotone
  <2>. HIDE DEF n, q, ec
  <2>. QED BY <1>1, <1>2, <1>3, <2>1, <2>2
<1>5. /\ x + 1 < d => (row + 1) \div d = ec /\ (row + 1) % d = x + 1
      /\ x + 1 = d => (row + 1) \div d = ec + 1 /\ (row + 1) % d = 0
  BY <1>1, DivNext
<1>6. rows = IF n - ec * d < d THEN n - ec * d ELSE d
  BY DEF RowsOfChunk
<1>. HIDE DEF n, d, q, y, ec, x, rows
<1>7. CASE ec < q
  <2>1. ec * d + d <= q * d
    BY <1>1, <1>2, <1>3, <1>7
  <2>2. rows = d /\ row + 1 < n
    BY <1>1, <1>2, <1>3, <1>6, <2>1
  <2>3. x + 1 = d \/ x + 1 < d
    BY <1>1, <1>3
  <2>4. (row + 1) % d # 0 <=> x + 1 < d
    BY <1>3, <1>5, <2>3
  <2>. QED BY <1>1, <1>5, <2>2, <2>3, <2>4 DEF d, n, ec, rows
<1>8. CASE ec = q
  <2>1. rows = y /\ rows # d /\ x < y
    BY <1>1, <1>2, <1>3, <1>6, <1>8 DEF n
  <2>2. (row + 1) \div d = ec /\ (row + 1) % d = x + 1
    BY <1>1, <1>2, <1>3, <1>5, <2>1
  <2>3. x + 1 >= y => row + 1 = n /\ ec + 1 = EdgeChunkNum(s, vc)
    BY <1>1, <1>2, <1>3, <1>8, <2>1
  <2>4. ~(x + 1 >= y) => row + 1 < n
    BY <1>1, <1>2, <1>3, <1>8, <2>1
  <2>5. rows \in 1 .. d
    BY <1>1, <1>2, <2>1
  <2>. QED BY <2>1, <2>2, <2>3, <2>4, <2>5 DEF d, n, ec, rows
<1>. QED BY <1>2, <1>3, <1>4, <1>7, <1>8

------------------------------------------------------------------------------
(* The readers of an iterator, all files of which can be read.              *)

\* A reader between two calls: its edge chunk is that of its offset, and on a vertex chunk
\* the number of edge chunks and the table are current.
Settled(s, r) ==
    /\ r \in Readers
    /\ r.chunk_index = r.seek_offset \div ChunkSize
    /\ IF r.vertex_chunk_index \in VertexChunks
       THEN /\ r.chunk_num = EdgeChunkNum(s, r.vertex_chunk_index)
            /\ r.chunk_table # NoTable =>
                  /\ r.chunk_table = <<r.vertex_chunk_index, r.chunk_index>>
                  /\ r.chunk_index < r.chunk_num
       ELSE r.chunk_table = NoTable

\* The members of a reader.
LEMMA ReaderFields ==
    ASSUME NEW r \in Readers
    PROVE  /\ r.vertex_chunk_index \in Nat /\ r.chunk_index \in Nat /\ r.seek_offset \in Nat
           /\ r.chunk_num \in Nat \cup {-1}
           /\ r.chunk_table \in (Nat \X Nat) \cup {NoTable}
           /\ r.intact \in BOOLEAN
BY DEF Readers

\* The records that a method makes of a reader.
LEMMA ReaderRecords ==
    ASSUME NEW r \in Readers, NEW vc \in Nat, NEW ec \in Nat, NEW offset \in Nat,
           NEW num \in Nat, NEW table \in (Nat \X Nat) \cup {NoTable}, NEW whole \in BOOLEAN
    PROVE  /\ [r EXCEPT !.vertex_chunk_index = vc] \in Readers
           /\ [r EXCEPT !.chunk_index = ec] \in Readers
           /\ [r EXCEPT !.chunk_num = num] \in Readers
           /\ [r EXCEPT !.chunk_table = table] \in Readers
           /\ [r EXCEPT !.intact = whole] \in Readers
           /\ [r EXCEPT !.seek_offset = offset, !.chunk_index = ec, !.chunk_table = table]
                 \in Readers
           /\ [r EXCEPT !.chunk_index = ec, !.seek_offset = offset, !.chunk_table = table]
                 \in Readers
           /\ [r EXCEPT !.chunk_table = table, !.intact = whole] \in Readers
           /\ [r EXCEPT !.vertex_chunk_index = vc, !.chunk_index = ec, !.chunk_num = num]
                 \in Readers
BY DEF Readers

\* All count files can be read.
LEMMA VertexChunkReadable ==
    ASSUME NEW vc
    PROVE  CountReadable(vc, NoFile) <=> vc \in VertexChunks
BY DEF CountReadable, EdgeCountFile, NoFile

\* seek
LEMMA SeekSettled ==
    ASSUME NEW s \in AdjLists, NEW r, Settled(s, r), NEW offset \in Nat
    PROVE  LET o == Seek(s, r, offset, NoFile)
           IN  /\ Settled(s, o.reader)
               /\ o.reader.vertex_chunk_index = r.vertex_chunk_index
               /\ o.reader.seek_offset = offset
               /\ r.vertex_chunk_index \in VertexChunks =>
                     o.status = IF offset \div ChunkSize < r.chunk_num
                                  THEN "OK" ELSE "IndexError"
<1>. DEFINE index == offset \div ChunkSize
            table == IF index = r.chunk_index THEN r.chunk_table ELSE NoTable
            moved == [r EXCEPT !.seek_offset = offset, !.chunk_index = index,
                               !.chunk_table = table]
<1>1. /\ r \in Readers /\ index \in Nat /\ table \in (Nat \X Nat) \cup {NoTable}
      /\ r.chunk_num \in Nat \cup {-1}
  BY LayoutAssumption, DivType, ReaderFields DEF Settled
<1>. HIDE DEF index
<1>2. /\ moved \in Readers
      /\ moved.vertex_chunk_index = r.vertex_chunk_index /\ moved.seek_offset = offset
      /\ moved.chunk_index = index /\ moved.chunk_table = table
      /\ moved.chunk_num = r.chunk_num
  <2>1. moved \in Readers
    <3>. HIDE DEF table
    <3>. QED BY <1>1, ReaderRecords
  <2>. QED BY <1>1, <2>1 DEF Readers
<1>. HIDE DEF moved
<1>3. CASE r.vertex_chunk_index \in VertexChunks
  <2>1. r.chunk_num = EdgeChunkNum(s, r.vertex_chunk_index) /\ r.chunk_num \in Nat
    BY <1>3, EdgeChunkType DEF Settled
  <2>2. /\ Seek(s, r, offset, NoFile).reader = moved
        /\ Seek(s, r, offset, NoFile).status = IF index < r.chunk_num THEN "OK" ELSE "IndexError"
    BY <1>1, <1>2, <2>1 DEF Seek, Outcome, moved, index
  <2>3. Settled(s, moved)
    BY <1>2, <1>3, <2>1 DEF Settled, index
  <2>. QED BY <1>2, <2>2, <2>3 DEF index
<1>4. CASE r.vertex_chunk_index \notin VertexChunks
  <2>1. table = NoTable
    BY <1>4 DEF Settled
  <2>. DEFINE failed == [moved EXCEPT !.intact = FALSE]
  <2>2. Seek(s, r, offset, NoFile).reader \in {moved, failed}
    BY <1>2, <1>4, VertexChunkReadable DEF Seek, RefreshChunkNum, Outcome, moved, index
  <2>3. /\ failed \in Readers
        /\ failed.vertex_chunk_index = r.vertex_chunk_index /\ failed.seek_offset = offset
        /\ failed.chunk_index = index /\ failed.chunk_table = table
    <3>1. failed \in Readers
      BY <1>2, ReaderRecords
    <3>. QED BY <1>2, <3>1 DEF Readers
  <2>. HIDE DEF failed
  <2>4. Settled(s, moved) /\ Settled(s, failed)
    BY <1>2, <1>4, <2>1, <2>3 DEF Settled, index
  <2>. QED BY <1>2, <1>4, <2>2, <2>3, <2>4
<1>. QED BY <1>3, <1>4

\* seek_chunk_index, to the first edge chunk of a vertex chunk.
LEMMA SeekChunkIndexSettled ==
    ASSUME NEW s \in AdjLists, NEW vc \in VertexChunks, NEW r,
           Settled(s, r) \/ r = NewReader
    PROVE  LET o == SeekChunkIndex(s, r, vc, 0, NoFile)
           IN  Settled(s, o.reader) /\ o.reader.vertex_chunk_index = vc
<1>. DEFINE num == EdgeChunkNum(s, vc)
            placed == [r EXCEPT !.vertex_chunk_index = vc]
            counted == [placed EXCEPT !.chunk_num = num]
            fresh == [counted EXCEPT !.chunk_table = NoTable, !.intact = TRUE]
            moved == IF r.chunk_num >= 0 /\ r.vertex_chunk_index = vc THEN r ELSE fresh
            start == [moved EXCEPT !.chunk_index = 0, !.seek_offset = 0 * ChunkSize,
                                   !.chunk_table = NoTable]
<1>1. vc \in Nat /\ num \in Nat /\ ChunkSize \in Nat \ {0} /\ VertexChunks \subseteq Nat
  BY VertexChunkType, EdgeChunkType, LayoutAssumption
<1>2. r \in Readers /\ r.chunk_index = r.seek_offset \div ChunkSize
  <2>1. CASE Settled(s, r)
    BY <2>1 DEF Settled
  <2>2. CASE r = NewReader
    <3>1. NewReader \in Readers
      BY DEF NewReader, Readers
    <3>2. 0 \div ChunkSize = 0
      BY <1>1, DivUnique, 0 * ChunkSize + 0 = 0, 0 \in 0 .. ChunkSize - 1
    <3>. QED BY <2>2, <3>1, <3>2 DEF NewReader
  <2>. QED BY <2>1, <2>2
<1>. HIDE DEF num
<1>3. /\ fresh \in Readers /\ fresh.vertex_chunk_index = vc /\ fresh.chunk_num = num
      /\ fresh.chunk_index = r.chunk_index /\ fresh.seek_offset = r.seek_offset
      /\ fresh.chunk_table = NoTable
  <2>1. placed \in Readers
    BY <1>1, <1>2 DEF Readers
  <2>2. counted \in Readers
    <3>. HIDE DEF placed
    <3>. QED BY <1>1, <2>1 DEF Readers
  <2>3. fresh \in Readers
    <3>. HIDE DEF counted
    <3>. QED BY <2>2 DEF Readers, NoTable
  <2>. QED BY <1>1, <1>2, <2>1, <2>2, <2>3 DEF Readers
<1>. HIDE DEF fresh
<1>4. moved \in Readers /\ moved.vertex_chunk_index = vc /\ Settled(s, moved)
  <2>1. CASE r.chunk_num >= 0 /\ r.vertex_chunk_index = vc
    <3>1. r # NewReader
      BY <2>1 DEF NewReader
    <3>. QED BY <1>2, <2>1, <3>1
  <2>2. CASE ~(r.chunk_num >= 0 /\ r.vertex_chunk_index = vc)
    <3>1. Settled(s, fresh)
      BY <1>2, <1>3 DEF Settled, num
    <3>. QED BY <1>3, <2>2, <3>1
  <2>. QED BY <2>1, <2>2
<1>5. MoveToVertexChunk(s, r, vc, NoFile) = [reader |-> moved, status |-> "OK"]
  <2>1. CASE r.chunk_num >= 0 /\ r.vertex_chunk_index = vc
    BY <2>1 DEF MoveToVertexChunk, Outcome
  <2>2. CASE ~(r.chunk_num >= 0 /\ r.vertex_chunk_index = vc)
    <3>1. placed.vertex_chunk_index = vc
      BY <1>2 DEF Readers
    <3>2. RefreshChunkNum(s, placed, NoFile) = [reader |-> counted, status |-> "OK"]
      BY <3>1, VertexChunkReadable DEF RefreshChunkNum, Outcome, num
    <3>3. moved = fresh
      BY <2>2
    <3>. HIDE DEF counted, moved
    <3>4. MoveToVertexChunk(s, r, vc, NoFile) = [reader |-> fresh, status |-> "OK"]
      <4>. HIDE DEF placed
      <4>1. RefreshChunkNum(s, placed, NoFile).status = "OK"
            /\ RefreshChunkNum(s, placed, NoFile).reader = counted
        BY <3>2
      <4>. QED BY <2>2, <4>1 DEF MoveToVertexChunk, Outcome, fresh, placed
    <3>. QED BY <3>3, <3>4
  <2>. QED BY <2>1, <2>2
<1>. HIDE DEF moved
<1>6. SeekChunkIndex(s, r, vc, 0, NoFile).reader = IF moved.chunk_index = 0 THEN moved ELSE start
  BY <1>5 DEF SeekChunkIndex, Outcome, AtChunkStart
<1>7. Settled(s, start) /\ start.vertex_chunk_index = vc
  <2>1. 0 * ChunkSize = 0 /\ 0 \div ChunkSize = 0 /\ 0 \in Nat
    BY <1>1, DivUnique, 0 * ChunkSize + 0 = 0, 0 \in 0 .. ChunkSize - 1
  <2>2. start \in Readers
    BY <1>4, <2>1 DEF Readers
  <2>3. /\ start.vertex_chunk_index = vc /\ start.chunk_num = moved.chunk_num
        /\ start.chunk_index = 0 /\ start.seek_offset = 0 /\ start.chunk_table = NoTable
    BY <1>4, <2>1 DEF Readers
  <2>. HIDE DEF start
  <2>. QED BY <1>4, <2>1, <2>2, <2>3 DEF Settled
<1>. QED BY <1>4, <1>6, <1>7

\* GetChunk, and GetRowNumOfChunk.  Where there is a row, both load its edge chunk.
LEMMA GetChunkSettled ==
    ASSUME NEW s \in AdjLists, NEW r, Settled(s, r), r.vertex_chunk_index \in VertexChunks
    PROVE  LET vc == r.vertex_chunk_index
               got == GetChunk(s, r, NoFile)
               counted == GetRowNumOfChunk(s, r, NoFile)
           IN  /\ \A q \in {got.reader, counted.reader} :
                     /\ Settled(s, q) /\ q.vertex_chunk_index = vc
                     /\ q.seek_offset = r.seek_offset
               /\ r.chunk_index < EdgeChunkNum(s, vc) =>
                     /\ counted.status = "OK"
                     /\ counted.reader.chunk_table = <<vc, r.chunk_index>>
               /\ r.seek_offset < EdgeNum(s, vc) =>
                     /\ got.status = "OK"
                     /\ got.reader.chunk_table = <<vc, r.chunk_index>>
                     /\ RowOf(got.reader) = <<vc, r.seek_offset>>
<1>. DEFINE vc == r.vertex_chunk_index
            ec == r.chunk_index
            here == <<vc, ec>>
            loaded == [r EXCEPT !.chunk_table = here]
            n == EdgeNum(s, vc)
<1>1. /\ r \in Readers /\ vc \in Nat /\ ec \in Nat /\ r.seek_offset \in Nat
      /\ ec = r.seek_offset \div ChunkSize /\ ChunkSize \in Nat \ {0}
      /\ n \in Nat /\ EdgeChunkNum(s, vc) \in Nat
      /\ \A i \in Nat : i < EdgeChunkNum(s, vc) <=> i * ChunkSize < n
      /\ r.chunk_num = EdgeChunkNum(s, vc)
      /\ r.chunk_table # NoTable => r.chunk_table = here /\ ec < EdgeChunkNum(s, vc)
  BY ReaderFields, LayoutAssumption, EdgeChunkType DEF Settled
<1>2. ec * ChunkSize \in Nat /\ ec * ChunkSize <= r.seek_offset
      /\ r.seek_offset < ec * ChunkSize + ChunkSize
  BY <1>1, DivType
<1>3. here # NoTable /\ here \in (Nat \X Nat) \cup {NoTable}
  BY <1>1 DEF NoTable
<1>4. /\ loaded \in Readers /\ loaded.vertex_chunk_index = vc /\ loaded.chunk_index = ec
      /\ loaded.seek_offset = r.seek_offset /\ loaded.chunk_table = here
      /\ loaded.chunk_num = r.chunk_num
  <2>1. loaded \in Readers
    <3>. HIDE DEF here
    <3>. QED BY <1>1, <1>3 DEF Readers
  <2>. QED BY <1>1, <2>1 DEF Readers
<1>. HIDE DEF loaded
<1>5. ec < EdgeChunkNum(s, vc) => Settled(s, loaded)
  BY <1>1, <1>4 DEF Settled
<1>6. ChunkReadable(s, here, NoFile) <=> ec < EdgeChunkNum(s, vc)
  BY DEF ChunkReadable, ChunkFile, NoFile
<1>7. \A q : (q.chunk_index = ec /\ q.seek_offset = r.seek_offset /\ q.chunk_table = here) =>
          /\ RowOf(q) = <<vc, r.seek_offset>>
          /\ r.seek_offset < n => SliceStatus(s, q) = "OK"
  <2>. SUFFICES ASSUME NEW q, q.chunk_index = ec, q.seek_offset = r.seek_offset,
                       q.chunk_table = here
                PROVE  /\ RowOf(q) = <<vc, r.seek_offset>>
                       /\ r.seek_offset < n => SliceStatus(s, q) = "OK"
    OBVIOUS
  <2>1. (ec - ec) * ChunkSize + r.seek_offset = r.seek_offset
    <3>1. ec - ec = 0 /\ 0 * ChunkSize = 0
      BY <1>1
    <3>. QED BY <1>1, <3>1
  <2>2. RowOf(q) = <<vc, r.seek_offset>>
    BY <2>1 DEF RowOf
  <2>3. ASSUME r.seek_offset < n
        PROVE  r.seek_offset - ec * ChunkSize \in 0 .. RowsOfChunk(s, here)
    <3>1. RowsOfChunk(s, here) = IF n - ec * ChunkSize < ChunkSize THEN n - ec * ChunkSize
                                                                  ELSE ChunkSize
      BY DEF RowsOfChunk
    <3>. QED BY <1>1, <1>2, <2>3, <3>1
  <2>4. r.seek_offset < n => SliceStatus(s, q) = "OK"
    BY <2>3 DEF SliceStatus
  <2>. QED BY <2>2, <2>4
<1>8. r.seek_offset < n => ec < EdgeChunkNum(s, vc)
  BY <1>1, <1>2
<1>. DEFINE got == GetChunk(s, r, NoFile)
            counted == GetRowNumOfChunk(s, r, NoFile)
<1>9. CASE r.chunk_table # NoTable
  <2>1. got.reader = r /\ got.status = SliceStatus(s, r) /\ counted.reader = r
        /\ counted.status = "OK"
    BY <1>9 DEF GetChunk, GetRowNumOfChunk, Outcome
  <2>. QED BY <1>1, <1>7, <1>9, <2>1
<1>10. CASE r.chunk_table = NoTable
  <2>1. CASE ec < EdgeChunkNum(s, vc)
    <3>1. n # 0
      BY <1>1, <1>2, <2>1
    <3>2. counted.reader = loaded /\ counted.status = "OK"
      BY <1>6, <1>10, <2>1 DEF GetRowNumOfChunk, Outcome, loaded
    <3>3. got.reader = loaded /\ got.status = SliceStatus(s, loaded)
      BY <1>6, <1>10, <2>1, <3>1, VertexChunkReadable DEF GetChunk, Outcome, loaded
    <3>. HIDE DEF got, counted
    <3>. QED BY <1>4, <1>5, <1>7, <2>1, <3>2, <3>3 DEF got, counted
  <2>2. CASE ~(ec < EdgeChunkNum(s, vc))
    <3>1. got.reader = r /\ counted.reader = r
      BY <1>6, <1>10, <2>2, VertexChunkReadable DEF GetChunk, GetRowNumOfChunk, Outcome
    <3>. HIDE DEF got, counted
    <3>. QED BY <1>8, <2>2, <3>1 DEF got, counted
  <2>. QED BY <2>1, <2>2
<1>. QED BY <1>9, <1>10

\* The loop of next_chunk skips nothing: every vertex chunk has edges.
LEMMA NextStopNear ==
    ASSUME NEW s \in AdjLists, PartialEnds(s), NEW vc \in VertexChunks
    PROVE  NextStop(s, vc, NoFile) = vc + 1
<1>1. /\ vc \in Nat /\ VertexChunkNum \in Nat /\ vc < VertexChunkNum
      /\ VertexChunks = {c \in Nat : c < VertexChunkNum}
  BY VertexChunkType
<1>. DEFINE Stops(stop) ==
                /\ \/ stop = VertexChunkNum
                   \/ ~CountReadable(stop, NoFile)
                   \/ EdgeChunkNum(s, stop) > 0
                /\ \A skipped \in vc + 1 .. stop - 1 :
                      CountReadable(skipped, NoFile) /\ EdgeChunkNum(s, skipped) = 0
<1>2. vc + 1 \in vc + 1 .. VertexChunkNum /\ Stops(vc + 1)
  <2>1. vc + 1 = VertexChunkNum \/ EdgeChunkNum(s, vc + 1) > 0
    <3>1. vc + 1 # VertexChunkNum => vc + 1 \in VertexChunks
      BY <1>1
    <3>. QED BY <3>1, RowsOfVertexChunk
  <2>. QED BY <1>1, <2>1
<1>3. ASSUME NEW stop \in vc + 1 .. VertexChunkNum, Stops(stop)
      PROVE  stop = vc + 1
  <2>. SUFFICES ASSUME stop # vc + 1 PROVE FALSE
    OBVIOUS
  <2>1. vc + 1 \in vc + 1 .. stop - 1 /\ vc + 1 \in VertexChunks
    BY <1>1
  <2>2. EdgeChunkNum(s, vc + 1) = 0
    BY <1>3, <2>1
  <2>3. EdgeChunkNum(s, vc + 1) > 0
    BY <2>1, RowsOfVertexChunk
  <2>. QED BY <2>2, <2>3
<1>4. NextStop(s, vc, NoFile) = CHOOSE stop \in vc + 1 .. VertexChunkNum : Stops(stop)
  BY <1>1 DEF NextStop
<1>. HIDE DEF Stops
<1>. QED BY <1>2, <1>3, <1>4

\* next_chunk
LEMMA NextChunkSettled ==
    ASSUME NEW s \in AdjLists, PartialEnds(s), NEW r, Settled(s, r),
           r.vertex_chunk_index \in VertexChunks
    PROVE  LET vc == r.vertex_chunk_index
               o == NextChunk(s, r, NoFile)
           IN  /\ r.chunk_index + 1 < r.chunk_num =>
                     /\ o.status = "OK" /\ Settled(s, o.reader)
                     /\ o.reader.vertex_chunk_index = vc
                     /\ o.reader.seek_offset = (r.chunk_index + 1) * ChunkSize
               /\ ~(r.chunk_index + 1 < r.chunk_num) /\ vc + 1 \in VertexChunks =>
                     /\ o.status = "OK" /\ Settled(s, o.reader)
                     /\ o.reader.vertex_chunk_index = vc + 1
                     /\ o.reader.seek_offset = 0
               /\ ~(r.chunk_index + 1 < r.chunk_num) /\ vc + 1 \notin VertexChunks =>
                     /\ o.status = "IndexError" /\ o.reader \in Readers
                     /\ o.reader.vertex_chunk_index = VertexChunkNum
                     /\ o.reader.chunk_index = r.chunk_index + 1
<1>. DEFINE vc == r.vertex_chunk_index
            ec == r.chunk_index + 1
            ahead == [r EXCEPT !.chunk_index = @ + 1]
            o == NextChunk(s, r, NoFile)
<1>1. /\ r \in Readers /\ vc \in Nat /\ ec \in Nat /\ ec > 0 /\ ChunkSize \in Nat \ {0}
      /\ VertexChunkNum \in Nat /\ vc < VertexChunkNum
      /\ r.chunk_num = EdgeChunkNum(s, vc) /\ r.chunk_num \in Nat
      /\ VertexChunks = {c \in Nat : c < VertexChunkNum}
  BY ReaderFields, LayoutAssumption, VertexChunkType, EdgeChunkType DEF Settled
<1>2. /\ ahead \in Readers /\ ahead.vertex_chunk_index = vc /\ ahead.chunk_index = ec
      /\ ahead.chunk_num = r.chunk_num
  BY <1>1 DEF Readers
<1>. HIDE DEF ahead
<1>3. \A q \in Readers : \A c \in Nat :
          LET start == AtChunkStart(q, c)
          IN  /\ start \in Readers /\ start.chunk_index = c
              /\ start.seek_offset = c * ChunkSize /\ start.chunk_table = NoTable
              /\ start.vertex_chunk_index = q.vertex_chunk_index
              /\ start.chunk_num = q.chunk_num
              /\ q.vertex_chunk_index \in VertexChunks
                 /\ q.chunk_num = EdgeChunkNum(s, q.vertex_chunk_index) => Settled(s, start)
  <2>. SUFFICES ASSUME NEW q \in Readers, NEW c \in Nat
                PROVE  LET start == AtChunkStart(q, c)
                       IN  /\ start \in Readers /\ start.chunk_index = c
                           /\ start.seek_offset = c * ChunkSize /\ start.chunk_table = NoTable
                           /\ start.vertex_chunk_index = q.vertex_chunk_index
                           /\ start.chunk_num = q.chunk_num
                           /\ q.vertex_chunk_index \in VertexChunks
                              /\ q.chunk_num = EdgeChunkNum(s, q.vertex_chunk_index)
                                   => Settled(s, start)
    OBVIOUS
  <2>. DEFINE m == c * ChunkSize
              start == [q EXCEPT !.chunk_index = c, !.seek_offset = m, !.chunk_table = NoTable]
  <2>1. m \in Nat /\ m \div ChunkSize = c
    <3>1. (c * ChunkSize + 0) \div ChunkSize = c
      BY <1>1, DivUnique, 0 \in 0 .. ChunkSize - 1
    <3>. QED BY <1>1, <3>1
  <2>2. AtChunkStart(q, c) = start
    BY DEF AtChunkStart
  <2>. HIDE DEF m
  <2>3. /\ start \in Readers /\ start.chunk_index = c
        /\ start.seek_offset = m /\ start.chunk_table = NoTable
        /\ start.vertex_chunk_index = q.vertex_chunk_index
        /\ start.chunk_num = q.chunk_num
    BY <2>1 DEF Readers
  <2>. HIDE DEF start
  <2>4. q.vertex_chunk_index \in VertexChunks
        /\ q.chunk_num = EdgeChunkNum(s, q.vertex_chunk_index) => Settled(s, start)
    BY <2>1, <2>3 DEF Settled
  <2>. QED BY <2>2, <2>3, <2>4 DEF m
<1>4. CASE ec < r.chunk_num
  <2>. DEFINE ready == Outcome(ahead, "OK")
  <2>0. ready.status = "OK" /\ ready.reader = ahead
    BY DEF Outcome
  <2>. HIDE DEF ready
  <2>1. NextChunk(s, r, NoFile) = Outcome(AtChunkStart(ahead, ahead.chunk_index), "OK")
    <3>1. ~(r.chunk_num < 0) /\ ahead.chunk_index < ready.reader.chunk_num
      BY <1>1, <1>2, <1>4, <2>0
    <3>. QED BY <2>0, <3>1 DEF NextChunk, ahead, ready
  <2>2. o = Outcome(AtChunkStart(ahead, ec), "OK")
    BY <1>2, <2>1
  <2>. HIDE DEF o
  <2>3. o.reader = AtChunkStart(ahead, ec) /\ o.status = "OK"
    BY <2>2 DEF Outcome
  <2>. DEFINE start == AtChunkStart(ahead, ec)
  <2>4. /\ Settled(s, start) /\ start.vertex_chunk_index = vc
        /\ start.seek_offset = ec * ChunkSize
    <3>1. /\ ahead \in Readers /\ ec \in Nat /\ ahead.vertex_chunk_index = vc
          /\ ahead.vertex_chunk_index \in VertexChunks
          /\ ahead.chunk_num = EdgeChunkNum(s, ahead.vertex_chunk_index)
      BY <1>1, <1>2
    <3>. HIDE DEF ec, vc
    <3>2. Settled(s, start) /\ start.vertex_chunk_index = ahead.vertex_chunk_index
          /\ start.seek_offset = ec * ChunkSize
      BY <1>3, <3>1
    <3>. QED BY <3>1, <3>2
  <2>. HIDE DEF start
  <2>5. /\ o.status = "OK" /\ Settled(s, o.reader) /\ o.reader.vertex_chunk_index = vc
        /\ o.reader.seek_offset = ec * ChunkSize
    BY <2>3, <2>4 DEF start
  <2>. QED BY <1>4, <2>5, Zenon DEF o
<1>5. CASE ~(ec < r.chunk_num)
  <2>1. NextStop(s, vc, NoFile) = vc + 1
    BY NextStopNear
  <2>. DEFINE walked == [ahead EXCEPT !.vertex_chunk_index = vc + 1,
                                      !.chunk_index = ec, !.chunk_num = r.chunk_num]
              reset == [walked EXCEPT !.chunk_index = 0]
              counted == [reset EXCEPT !.chunk_num = EdgeChunkNum(s, vc + 1)]
              skip == SkipToEdges(s, ahead, NoFile)
  <2>2. /\ walked \in Readers /\ walked.vertex_chunk_index = vc + 1
        /\ walked.chunk_index = ec
    <3>1. vc + 1 \in Nat
      BY <1>1
    <3>. QED BY <1>1, <1>2, <3>1 DEF Readers
  <2>3. skip = IF vc + 1 >= VertexChunkNum THEN Outcome(walked, "IndexError")
               ELSE RefreshChunkNum(s, reset, NoFile)
    BY <1>2, <2>1 DEF SkipToEdges
  <2>4. o = IF skip.status # "OK" THEN skip
            ELSE Outcome(AtChunkStart(skip.reader, skip.reader.chunk_index), "OK")
    BY <1>1, <1>2, <1>5 DEF NextChunk, Outcome, ahead
  <2>. HIDE DEF walked, skip
  <2>5. CASE vc + 1 \notin VertexChunks
    <3>1. vc + 1 >= VertexChunkNum /\ vc + 1 = VertexChunkNum
      BY <1>1, <2>5
    <3>2. o.reader = walked /\ o.status = "IndexError"
      BY <2>3, <2>4, <3>1 DEF Outcome
    <3>. QED BY <1>5, <2>2, <2>5, <3>1, <3>2
  <2>6. CASE vc + 1 \in VertexChunks
    <3>1. ~(vc + 1 >= VertexChunkNum) /\ EdgeChunkNum(s, vc + 1) \in Nat
      BY <1>1, <2>6, EdgeChunkType
    <3>2. reset \in Readers /\ reset.vertex_chunk_index = vc + 1 /\ reset.chunk_index = 0
      BY <2>2 DEF Readers
    <3>. HIDE DEF reset
    <3>3. /\ counted \in Readers /\ counted.vertex_chunk_index = vc + 1
          /\ counted.chunk_index = 0 /\ counted.chunk_num = EdgeChunkNum(s, vc + 1)
      BY <3>1, <3>2 DEF Readers
    <3>4. skip = Outcome(counted, "OK")
      BY <2>3, <2>6, <3>1, <3>2, VertexChunkReadable DEF RefreshChunkNum
    <3>. HIDE DEF counted
    <3>5. skip.reader = counted /\ skip.status = "OK"
      BY <3>4 DEF Outcome
    <3>6. o.reader = AtChunkStart(counted, 0) /\ o.status = "OK"
      BY <2>4, <3>3, <3>5 DEF Outcome
    <3>7. 0 * ChunkSize = 0 /\ 0 \in Nat
      BY <1>1
    <3>. HIDE DEF o
    <3>. QED BY <1>3, <1>5, <2>6, <3>3, <3>6, <3>7 DEF o
  <2>. QED BY <2>5, <2>6
<1>. QED BY <1>4, <1>5

\* A reader that next_chunk has moved behind the last vertex chunk, after a seek to row 0.
LEMMA SeekBehind ==
    ASSUME NEW s \in AdjLists, NEW r \in Readers, r.vertex_chunk_index = VertexChunkNum,
           r.chunk_index # 0
    PROVE  LET q == Seek(s, r, 0, NoFile).reader
           IN  /\ Settled(s, q) /\ q.vertex_chunk_index = VertexChunkNum
               /\ q.seek_offset = 0
<1>. DEFINE moved == [r EXCEPT !.seek_offset = 0, !.chunk_index = 0, !.chunk_table = NoTable]
            failed == [moved EXCEPT !.intact = FALSE]
<1>1. VertexChunkNum \notin VertexChunks /\ ChunkSize \in Nat \ {0}
  BY VertexChunkType, LayoutAssumption
<1>2. 0 \div ChunkSize = 0
  BY <1>1, DivUnique, 0 * ChunkSize + 0 = 0, 0 \in 0 .. ChunkSize - 1
<1>3. /\ moved \in Readers /\ moved.vertex_chunk_index = VertexChunkNum
      /\ moved.seek_offset = 0 /\ moved.chunk_index = 0 /\ moved.chunk_table = NoTable
  BY DEF Readers
<1>4. Seek(s, r, 0, NoFile).reader \in {moved, failed}
  <2>1. [r EXCEPT !.seek_offset = 0, !.chunk_index = 0,
                  !.chunk_table = IF 0 = r.chunk_index THEN @ ELSE NoTable] = moved
    OBVIOUS
  <2>. HIDE DEF moved
  <2>. QED BY <1>1, <1>2, <1>3, <2>1, VertexChunkReadable DEF Seek, RefreshChunkNum, Outcome
<1>. HIDE DEF moved
<1>5. /\ failed \in Readers /\ failed.vertex_chunk_index = VertexChunkNum
      /\ failed.seek_offset = 0 /\ failed.chunk_index = 0 /\ failed.chunk_table = NoTable
  BY <1>3 DEF Readers
<1>. HIDE DEF failed
<1>6. Settled(s, moved) /\ Settled(s, failed)
  BY <1>1, <1>2, <1>3, <1>5 DEF Settled
<1>. QED BY <1>3, <1>4, <1>5, <1>6

\* The copy constructor.
LEMMA CopySettled ==
    ASSUME NEW s, NEW r, Settled(s, r)
    PROVE  /\ Settled(s, Copy(r)) /\ Copy(r).vertex_chunk_index = r.vertex_chunk_index
           /\ Copy(r).seek_offset = r.seek_offset
<1>1. /\ Copy(r) \in Readers /\ Copy(r).vertex_chunk_index = r.vertex_chunk_index
      /\ Copy(r).seek_offset = r.seek_offset /\ Copy(r).chunk_index = r.chunk_index
      /\ Copy(r).chunk_num = r.chunk_num /\ Copy(r).chunk_table = NoTable
  BY DEF Settled, Copy, Readers
<1>. QED BY <1>1 DEF Settled

------------------------------------------------------------------------------
(* The numbers of the edge chunks.                                          *)

\* The number of an edge chunk: as many come before it, so the numbers grow with the vertex
\* chunks and, in one, with its edge chunks.
LEMMA GlobalIndex ==
    ASSUME Static
    PROVE  /\ \A vc \in 0 .. VertexChunkNum : GlobalChunkIndex(vc, 0) \in Nat
           /\ \A vc \in VertexChunks : \A ec \in Nat :
                 GlobalChunkIndex(vc, ec) = GlobalChunkIndex(vc, 0) + ec
           /\ \A vc \in VertexChunks :
                 GlobalChunkIndex(vc + 1, 0) = GlobalChunkIndex(vc, 0) + EdgeChunkNum(adj, vc)
           /\ \A a, b \in 0 .. VertexChunkNum :
                 a <= b => GlobalChunkIndex(a, 0) <= GlobalChunkIndex(b, 0)
           /\ \A a, b \in 0 .. VertexChunkNum :
                 a < b => GlobalChunkIndex(a, 0) + EdgeChunkNum(adj, a)
                              <= GlobalChunkIndex(b, 0)
           /\ collection.chunk_begin = GlobalChunkIndex(range[1], 0)
           /\ collection.chunk_end = GlobalChunkIndex(range[2], 0)
<1>. DEFINE nums == [vc \in VertexChunks |-> EdgeChunkNum(adj, vc)]
            G(vc) == PileUpTo(0, vc, nums)
<1>1. /\ VertexChunkNum \in Nat /\ VertexChunks = 0 .. VertexChunkNum - 1
      /\ VertexChunks = {vc \in Nat : vc < VertexChunkNum}
      /\ \A vc \in VertexChunks : nums[vc] = EdgeChunkNum(adj, vc) /\ nums[vc] \in Nat
  BY VertexChunkType, EdgeChunkType DEF Static, VertexChunks
<1>2. /\ collection.edge_chunk_nums = nums
      /\ collection.chunk_begin = G(range[1]) /\ collection.chunk_end = G(range[2])
  BY DEF Static, Collection, PileUpTo, Pile
<1>. HIDE DEF nums
<1>3. \A vc, ec : GlobalChunkIndex(vc, ec) = G(vc) + ec
  BY <1>2 DEF GlobalChunkIndex, PileUpTo, Pile
<1>4. /\ \A vc \in 0 .. VertexChunkNum : G(vc) \in Nat
      /\ \A vc \in VertexChunks : G(vc + 1) = G(vc) + nums[vc]
  <2>1. \A c \in 0 .. VertexChunkNum - 1 : nums[c] \in Nat
    BY <1>1
  <2>2. /\ \A n \in 0 .. VertexChunkNum : PileUpTo(0, n, nums) \in Nat
        /\ \A n \in 0 .. VertexChunkNum - 1 :
              PileUpTo(0, n + 1, nums) = PileUpTo(0, n, nums) + nums[n]
    <3>. DEFINE N == VertexChunkNum
    <3>1. N \in Nat /\ 0 \in Nat /\ \A c \in 0 .. N - 1 : nums[c] \in Nat
      BY <1>1, <2>1
    <3>. HIDE DEF N, G
    <3>2. /\ \A n \in 0 .. N : PileUpTo(0, n, nums) \in Nat
          /\ \A n \in 0 .. N - 1 :
                PileUpTo(0, n + 1, nums) = PileUpTo(0, n, nums) + nums[n]
      <4>. HIDE DEF nums
      <4>1. Growth(0, N, nums)
        BY <3>1, PileGrows
      <4>. QED BY <4>1 DEF Growth
    <3>. QED BY <3>2 DEF N
  <2>. QED BY <1>1, <2>2
<1>5. /\ \A a, b \in 0 .. VertexChunkNum : a <= b => G(a) <= G(b)
      /\ \A a, b \in 0 .. VertexChunkNum : a < b => G(a) + nums[a] <= G(b)
  BY <1>1, PileMonotone, 0 \in Nat
<1>6. range[1] \in 0 .. VertexChunkNum /\ range[2] \in 0 .. VertexChunkNum
  BY <1>1 DEF Static
<1>. HIDE DEF G
<1>7. \A vc \in 0 .. VertexChunkNum : GlobalChunkIndex(vc, 0) = G(vc)
  BY <1>3, <1>4
<1>8. \A a, b \in 0 .. VertexChunkNum : a < b => a \in VertexChunks
  BY <1>1
<1>9. \A vc \in VertexChunks : vc \in 0 .. VertexChunkNum /\ vc + 1 \in 0 .. VertexChunkNum
  BY <1>1
<1>10. \A vc \in VertexChunks :
           GlobalChunkIndex(vc + 1, 0) = GlobalChunkIndex(vc, 0) + EdgeChunkNum(adj, vc)
  BY <1>1, <1>4, <1>7, <1>9
<1>11. \A vc \in VertexChunks : \A ec \in Nat :
           GlobalChunkIndex(vc, ec) = GlobalChunkIndex(vc, 0) + ec
  BY <1>3, <1>7, <1>9
<1>12. \A a, b \in 0 .. VertexChunkNum :
           a < b => GlobalChunkIndex(a, 0) + EdgeChunkNum(adj, a) <= GlobalChunkIndex(b, 0)
  BY <1>1, <1>5, <1>7, <1>8
<1>. QED BY <1>2, <1>4, <1>5, <1>6, <1>7, <1>10, <1>11, <1>12

\* Edge chunks are numbered by vertex chunk, then by edge chunk.
LEMMA GlobalOrder ==
    ASSUME Static,
           NEW a \in VertexChunks, NEW ec \in Nat, ec < EdgeChunkNum(adj, a),
           NEW b \in VertexChunks, NEW fc \in Nat, fc < EdgeChunkNum(adj, b)
    PROVE  /\ GlobalChunkIndex(a, ec) \in Nat
           /\ GlobalChunkIndex(a, ec) <= GlobalChunkIndex(b, fc) <=> a < b \/ (a = b /\ ec <= fc)
<1>1. a \in 0 .. VertexChunkNum /\ b \in 0 .. VertexChunkNum /\ a \in Nat /\ b \in Nat
  BY VertexChunkType
<1>. DEFINE A == GlobalChunkIndex(a, 0)
            B == GlobalChunkIndex(b, 0)
            m == EdgeChunkNum(adj, a)
            n == EdgeChunkNum(adj, b)
<1>2. /\ A \in Nat /\ B \in Nat /\ m \in Nat /\ n \in Nat
      /\ GlobalChunkIndex(a, ec) = A + ec /\ GlobalChunkIndex(b, fc) = B + fc
      /\ a < b => A + m <= B
      /\ b < a => B + n <= A
  BY <1>1, GlobalIndex, EdgeChunkType DEF Static
<1>3. a = b => A = B
  OBVIOUS
<1>. HIDE DEF A, B, m, n
<1>4. ec < m /\ fc < n
  BY DEF m, n
<1>5. GlobalChunkIndex(a, ec) <= GlobalChunkIndex(b, fc) <=> A + ec <= B + fc
  BY <1>2
<1>9. GlobalChunkIndex(a, ec) \in Nat
  BY <1>2
<1>6. CASE a < b
  <2>1. A + ec <= B + fc
    BY <1>2, <1>4, <1>6
  <2>2. GlobalChunkIndex(a, ec) <= GlobalChunkIndex(b, fc)
    BY <1>5, <2>1
  <2>. QED BY <1>6, <1>9, <2>2, Zenon
<1>7. CASE b < a
  <2>1. ~(A + ec <= B + fc)
    BY <1>2, <1>4, <1>7
  <2>. QED BY <1>1, <1>5, <1>7, <1>9, <2>1
<1>8. CASE a = b
  BY <1>1, <1>2, <1>3, <1>5, <1>8, <1>9
<1>. QED BY <1>1, <1>6, <1>7, <1>8, <1>9

\* The vertex chunk is found again.
LEMMA VertexChunkFound ==
    ASSUME Static
    PROVE  /\ \A vc \in VertexChunks : \A ec \in Nat :
                 ec < EdgeChunkNum(adj, vc) => VertexChunkOfGlobal(GlobalChunkIndex(vc, ec)) = vc
           /\ \A index : VertexChunkOfGlobal(index) \in VertexChunks
<1>. DEFINE Holds(vc, index) == /\ GlobalChunkIndex(vc, 0) <= index
                                /\ index < GlobalChunkIndex(vc + 1, 0)
            holders(index) == {vc \in VertexChunks : Holds(vc, index)}
<1>1. \A index : VertexChunkOfGlobal(index) =
          IF holders(index) = {} THEN 0 ELSE CHOOSE vc \in holders(index) : TRUE
  BY DEF VertexChunkOfGlobal
<1>2. ASSUME NEW vc \in VertexChunks, NEW ec \in Nat, ec < EdgeChunkNum(adj, vc)
      PROVE  holders(GlobalChunkIndex(vc, ec)) = {vc}
  <2>. DEFINE index == GlobalChunkIndex(vc, ec)
              G(c) == GlobalChunkIndex(c, 0)
  <2>1. /\ VertexChunks = {c \in Nat : c < VertexChunkNum} /\ VertexChunkNum \in Nat
        /\ \A c \in 0 .. VertexChunkNum : G(c) \in Nat
        /\ index = G(vc) + ec /\ EdgeChunkNum(adj, vc) \in Nat
        /\ \A c \in VertexChunks : G(c + 1) = G(c) + EdgeChunkNum(adj, c)
        /\ \A a, b \in 0 .. VertexChunkNum : a <= b => G(a) <= G(b)
    BY <1>2, GlobalIndex, VertexChunkType, EdgeChunkType DEF Static
  <2>. HIDE DEF G, index
  <2>2. G(vc) <= index /\ index < G(vc + 1)
    <3>1. G(vc + 1) = G(vc) + EdgeChunkNum(adj, vc) /\ G(vc) \in Nat
      BY <2>1
    <3>. QED BY <1>2, <2>1, <3>1
  <2>3. ASSUME NEW c \in VertexChunks, G(c) <= index, index < G(c + 1)
        PROVE  c = vc
    <3>1. /\ vc \in 0 .. VertexChunkNum /\ vc + 1 \in 0 .. VertexChunkNum
          /\ c \in 0 .. VertexChunkNum /\ c + 1 \in 0 .. VertexChunkNum
      BY <2>1
    <3>2. /\ G(c) \in Nat /\ G(c + 1) \in Nat /\ G(vc) \in Nat /\ G(vc + 1) \in Nat
          /\ c + 1 <= vc => G(c + 1) <= G(vc)
          /\ vc + 1 <= c => G(vc + 1) <= G(c)
      BY <2>1, <3>1
    <3>3. index \in Nat
      BY <2>1, <3>2
    <3>4. ~(c + 1 <= vc) /\ ~(vc + 1 <= c)
      BY <2>2, <2>3, <3>2, <3>3
    <3>. QED BY <3>1, <3>4
  <2>. QED BY <2>2, <2>3 DEF G, index
<1>3. 0 \in VertexChunks
  BY VertexChunkType DEF Static
<1>. HIDE DEF Holds
<1>4. ASSUME NEW vc \in VertexChunks, NEW ec \in Nat, ec < EdgeChunkNum(adj, vc)
      PROVE  VertexChunkOfGlobal(GlobalChunkIndex(vc, ec)) = vc
  BY <1>1, <1>2, <1>4
<1>5. ASSUME NEW index
      PROVE  VertexChunkOfGlobal(index) \in VertexChunks
  BY <1>1, <1>3
<1>. QED BY <1>4, <1>5

------------------------------------------------------------------------------
(* The iterator between two calls: at an edge, or at the end.               *)

Iters == [adj_list_reader : Readers, property_reader : Readers,
          global_chunk_index : Nat, vertex_chunk_index : Nat, cur_offset : Nat,
          num_row_of_chunk : 0 .. ChunkSize, broken : BOOLEAN, unread : BOOLEAN]

SamePlace(j, i) ==
    /\ j.global_chunk_index = i.global_chunk_index
    /\ j.vertex_chunk_index = i.vertex_chunk_index
    /\ j.cur_offset = i.cur_offset

ReadersSettled(i) ==
    /\ i \in Iters /\ ~i.broken
    /\ Settled(adj, i.adj_list_reader) /\ Settled(adj, i.property_reader)
    /\ i.property_reader.vertex_chunk_index \in VertexChunks

\* The three counters name one edge.
AtEdge(i) ==
    /\ i.vertex_chunk_index \in range[1] .. range[2] - 1
    /\ i.cur_offset < EdgeNum(adj, i.vertex_chunk_index)
    /\ i.global_chunk_index =
          GlobalChunkIndex(i.vertex_chunk_index, i.cur_offset \div ChunkSize)

Placed(i) ==
    /\ ReadersSettled(i) /\ AtEdge(i)
    /\ i.adj_list_reader.vertex_chunk_index = i.vertex_chunk_index
    /\ i.num_row_of_chunk # 0 =>
          i.num_row_of_chunk =
              RowsOfChunk(adj, <<i.vertex_chunk_index, i.cur_offset \div ChunkSize>>)
    /\ i.property_reader.vertex_chunk_index <= i.vertex_chunk_index
    /\ ~i.unread => i.property_reader.vertex_chunk_index = i.vertex_chunk_index

Ended(i) ==
    ReadersSettled(i) /\ i.global_chunk_index = collection.chunk_end /\ i.cur_offset = 0

\* The edge chunk of the edge is in the reader.
Loaded(i) == RowOf(i.adj_list_reader) = <<i.vertex_chunk_index, i.cur_offset>>

\* The vertex chunks of the range.
LEMMA RangeType ==
    ASSUME Static
    PROVE  /\ range[1] \in Nat /\ range[2] \in Nat /\ range[1] < range[2]
           /\ range[1] \in VertexChunks /\ range[2] \in 0 .. VertexChunkNum
           /\ \A vc \in range[1] .. range[2] - 1 :
                 /\ vc \in VertexChunks /\ vc \in Nat
                 /\ vc + 1 \in 0 .. VertexChunkNum
                 /\ vc + 1 \notin VertexChunks => vc + 1 = range[2]
BY VertexChunkType DEF Static

\* The iterator with another reader.
LEMMA WithReader ==
    ASSUME NEW i \in Iters, NEW r \in Readers
    PROVE  LET j == [i EXCEPT !.adj_list_reader = r]
           IN  /\ j \in Iters /\ SamePlace(j, i) /\ j.adj_list_reader = r
               /\ j.property_reader = i.property_reader
               /\ j.num_row_of_chunk = i.num_row_of_chunk
               /\ j.broken = i.broken /\ j.unread = i.unread
<1>. DEFINE j == [i EXCEPT !.adj_list_reader = r]
<1>1. j \in Iters
  BY DEF Iters
<1>2. /\ j.adj_list_reader = r /\ j.property_reader = i.property_reader
      /\ j.num_row_of_chunk = i.num_row_of_chunk /\ j.broken = i.broken /\ j.unread = i.unread
      /\ j.global_chunk_index = i.global_chunk_index
      /\ j.vertex_chunk_index = i.vertex_chunk_index /\ j.cur_offset = i.cur_offset
  BY DEF Iters
<1>. QED BY <1>1, <1>2 DEF SamePlace

\* The iterator with another property reader.
LEMMA WithProperties ==
    ASSUME NEW i \in Iters, NEW r \in Readers
    PROVE  LET j == [i EXCEPT !.property_reader = r]
           IN  /\ j \in Iters /\ SamePlace(j, i) /\ j.property_reader = r
               /\ j.adj_list_reader = i.adj_list_reader
               /\ j.num_row_of_chunk = i.num_row_of_chunk
               /\ j.broken = i.broken /\ j.unread = i.unread
<1>. DEFINE j == [i EXCEPT !.property_reader = r]
<1>1. j \in Iters
  BY DEF Iters
<1>2. /\ j.property_reader = r /\ j.adj_list_reader = i.adj_list_reader
      /\ j.num_row_of_chunk = i.num_row_of_chunk /\ j.broken = i.broken /\ j.unread = i.unread
      /\ j.global_chunk_index = i.global_chunk_index
      /\ j.vertex_chunk_index = i.vertex_chunk_index /\ j.cur_offset = i.cur_offset
  BY DEF Iters
<1>. QED BY <1>1, <1>2 DEF SamePlace

\* The iterator put elsewhere.
LEMMA PutAt ==
    ASSUME NEW i \in Iters, NEW index \in Nat, NEW vc \in Nat, NEW offset \in Nat
    PROVE  LET j == At(i, index, vc, offset)
           IN  /\ j \in Iters /\ j.adj_list_reader = i.adj_list_reader
               /\ j.property_reader = i.property_reader
               /\ j.num_row_of_chunk = i.num_row_of_chunk
               /\ j.broken = i.broken /\ j.unread = i.unread
               /\ j.global_chunk_index = index /\ j.vertex_chunk_index = vc
               /\ j.cur_offset = offset
<1>. DEFINE j == [i EXCEPT !.global_chunk_index = index, !.vertex_chunk_index = vc,
                           !.cur_offset = offset]
<1>1. j \in Iters
  BY DEF Iters
<1>2. /\ j.adj_list_reader = i.adj_list_reader /\ j.property_reader = i.property_reader
      /\ j.num_row_of_chunk = i.num_row_of_chunk /\ j.broken = i.broken /\ j.unread = i.unread
      /\ j.global_chunk_index = index /\ j.vertex_chunk_index = vc /\ j.cur_offset = offset
  BY DEF Iters
<1>. QED BY <1>1, <1>2 DEF At

\* SeekReader.
LEMMA SeekReaderSettled ==
    ASSUME Static, NEW i, ReadersSettled(i)
    PROVE  LET j == SeekReader(i)
           IN  /\ ReadersSettled(j) /\ SamePlace(j, i)
               /\ j.adj_list_reader.seek_offset = i.cur_offset
               /\ j.adj_list_reader.vertex_chunk_index = i.adj_list_reader.vertex_chunk_index
               /\ j.property_reader = i.property_reader
               /\ j.num_row_of_chunk = i.num_row_of_chunk
               /\ j.broken = i.broken /\ j.unread = i.unread
<1>. DEFINE q == Seek(adj, i.adj_list_reader, i.cur_offset, NoFile).reader
            j == [i EXCEPT !.adj_list_reader = q]
<1>1. i \in Iters /\ i.cur_offset \in Nat /\ adj \in AdjLists
      /\ Settled(adj, i.adj_list_reader)
  BY DEF ReadersSettled, Iters, Static
<1>2. /\ Settled(adj, q) /\ q \in Readers /\ q.seek_offset = i.cur_offset
      /\ q.vertex_chunk_index = i.adj_list_reader.vertex_chunk_index
  BY <1>1, SeekSettled DEF Settled
<1>. HIDE DEF q
<1>3. /\ j \in Iters /\ SamePlace(j, i) /\ j.adj_list_reader = q
      /\ j.property_reader = i.property_reader
      /\ j.num_row_of_chunk = i.num_row_of_chunk
      /\ j.broken = i.broken /\ j.unread = i.unread
  BY <1>1, <1>2, WithReader
<1>4. SeekReader(i) = j
  BY DEF SeekReader, q
<1>. HIDE DEF j
<1>5. ReadersSettled(j)
  BY <1>2, <1>3 DEF ReadersSettled
<1>. QED BY <1>2, <1>3, <1>4, <1>5

\* A change of the readers that leaves the rest, and the place.
LEMMA StaysPlaced ==
    ASSUME NEW i, Placed(i), NEW j, ReadersSettled(j), SamePlace(j, i),
           j.adj_list_reader.vertex_chunk_index = i.adj_list_reader.vertex_chunk_index,
           j.property_reader.vertex_chunk_index = i.property_reader.vertex_chunk_index,
           j.num_row_of_chunk = i.num_row_of_chunk, j.unread = i.unread
    PROVE  Placed(j)
BY DEF Placed, SamePlace, AtEdge

\* source and destination, which deliver the edge.
LEMMA ReadPlaced ==
    ASSUME Static, NEW i, Placed(i)
    PROVE  LET j == Read(i)
           IN  /\ Placed(j) /\ Loaded(j) /\ SamePlace(j, i)
               /\ j.property_reader = i.property_reader /\ j.unread = i.unread
<1>. DEFINE k == SeekReader(i)
            got == GetChunk(adj, k.adj_list_reader, NoFile)
            vc == i.vertex_chunk_index
            row == i.cur_offset
            j == [k EXCEPT !.adj_list_reader = got.reader]
<1>1. /\ ReadersSettled(k) /\ SamePlace(k, i) /\ k.adj_list_reader.seek_offset = row
      /\ k.adj_list_reader.vertex_chunk_index = vc
      /\ k.property_reader = i.property_reader /\ k.num_row_of_chunk = i.num_row_of_chunk
      /\ k.broken = i.broken /\ k.unread = i.unread
  BY SeekReaderSettled DEF Placed
<1>. HIDE DEF k
<1>2. Placed(k)
  BY <1>1, StaysPlaced DEF Placed
<1>3. /\ adj \in AdjLists /\ vc \in VertexChunks /\ row \in Nat /\ row < EdgeNum(adj, vc)
      /\ i.broken = FALSE /\ Settled(adj, k.adj_list_reader)
  BY <1>1, RangeType DEF Placed, AtEdge, ReadersSettled, Iters, Static
<1>4. /\ Settled(adj, got.reader) /\ got.reader.vertex_chunk_index = vc
      /\ got.status = "OK" /\ RowOf(got.reader) = <<vc, row>>
  BY <1>1, <1>3, GetChunkSettled
<1>5. Delivers(got)
  <2>1. RowOf(got.reader)[1] = vc /\ RowOf(got.reader)[2] = row
    BY <1>4
  <2>. HIDE DEF got
  <2>. QED BY <1>3, <1>4, <2>1 DEF Delivers
<1>6. k \in Iters /\ got.reader \in Readers
  BY <1>2, <1>4 DEF Placed, ReadersSettled, Settled
<1>. HIDE DEF got
<1>7. Read(i) = j
  <2>1. Read(i) = [k EXCEPT !.adj_list_reader = got.reader, !.broken = ~Delivers(got)]
    BY DEF Read, GetRow, Got, k, got
  <2>2. k.broken = ~Delivers(got)
    BY <1>1, <1>3, <1>5
  <2>. QED BY <1>6, <2>1, <2>2 DEF Iters
<1>8. /\ j \in Iters /\ SamePlace(j, k) /\ j.adj_list_reader = got.reader
      /\ j.property_reader = k.property_reader
      /\ j.num_row_of_chunk = k.num_row_of_chunk
      /\ j.broken = k.broken /\ j.unread = k.unread
  BY <1>6, WithReader
<1>. HIDE DEF j
<1>9. ReadersSettled(j)
  BY <1>1, <1>4, <1>8 DEF ReadersSettled
<1>10. Placed(j)
  BY <1>1, <1>2, <1>4, <1>8, <1>9, StaysPlaced
<1>11. SamePlace(j, i) /\ Loaded(j)
  BY <1>1, <1>4, <1>8 DEF SamePlace, Loaded
<1>. QED BY <1>1, <1>7, <1>8, <1>10, <1>11

\* property: whatever the property reader delivers, the iterator stays; and where ++ has left
\* no edge alone, it delivers that of the edge.
LEMMA PropertiesPlaced ==
    ASSUME Static, NEW i, Placed(i)
    PROVE  LET j == ReadProperty(i)
           IN  /\ Placed(j) /\ SamePlace(j, i) /\ j.adj_list_reader = i.adj_list_reader
               /\ j.unread = i.unread
               /\ j.property_reader.seek_offset = i.cur_offset
               /\ ~i.unread =>
                     /\ RowOf(j.property_reader) = <<i.vertex_chunk_index, i.cur_offset>>
                     /\ GetChunk(adj, SeekProperties(i).property_reader, NoFile).status = "OK"
<1>. DEFINE p == i.property_reader
            q == Seek(adj, p, i.cur_offset, NoFile).reader
            k == [i EXCEPT !.property_reader = q]
            got == GetChunk(adj, q, NoFile)
            j == [k EXCEPT !.property_reader = got.reader]
<1>1. /\ adj \in AdjLists /\ i \in Iters /\ i.cur_offset \in Nat
      /\ Settled(adj, p) /\ p.vertex_chunk_index \in VertexChunks
      /\ i.vertex_chunk_index \in VertexChunks
      /\ i.cur_offset < EdgeNum(adj, i.vertex_chunk_index)
      /\ ~i.unread => p.vertex_chunk_index = i.vertex_chunk_index
  BY RangeType DEF Placed, AtEdge, ReadersSettled, Iters, Static
<1>2. /\ Settled(adj, q) /\ q \in Readers /\ q.seek_offset = i.cur_offset
      /\ q.vertex_chunk_index = p.vertex_chunk_index
  BY <1>1, SeekSettled DEF Settled
<1>. HIDE DEF q
<1>3. /\ Settled(adj, got.reader) /\ got.reader \in Readers
      /\ got.reader.vertex_chunk_index = p.vertex_chunk_index
      /\ got.reader.seek_offset = i.cur_offset
      /\ ~i.unread =>
            /\ got.status = "OK"
            /\ RowOf(got.reader) = <<i.vertex_chunk_index, i.cur_offset>>
  BY <1>1, <1>2, GetChunkSettled DEF Settled
<1>. HIDE DEF got
<1>4. /\ k \in Iters /\ SamePlace(k, i) /\ k.property_reader = q
      /\ k.adj_list_reader = i.adj_list_reader
      /\ k.num_row_of_chunk = i.num_row_of_chunk
      /\ k.broken = i.broken /\ k.unread = i.unread
  BY <1>1, <1>2, WithProperties
<1>. HIDE DEF k
<1>5. /\ j \in Iters /\ SamePlace(j, k) /\ j.property_reader = got.reader
      /\ j.adj_list_reader = k.adj_list_reader
      /\ j.num_row_of_chunk = k.num_row_of_chunk
      /\ j.broken = k.broken /\ j.unread = k.unread
  BY <1>3, <1>4, WithProperties
<1>6. SeekProperties(i) = k /\ ReadProperty(i) = j
  <2>1. SeekProperties(i) = k
    BY DEF SeekProperties, k, q, p
  <2>2. ReadProperty(i) = [k EXCEPT !.property_reader = GetChunk(adj, k.property_reader, NoFile).reader]
    BY <2>1 DEF ReadProperty, GetProperty
  <2>. QED BY <1>4, <2>1, <2>2 DEF got
<1>. HIDE DEF j, p
<1>7. ReadersSettled(j)
  BY <1>1, <1>3, <1>4, <1>5 DEF ReadersSettled, Placed
<1>8. Placed(j) /\ SamePlace(j, i)
  <2>1. SamePlace(j, i)
    BY <1>4, <1>5 DEF SamePlace
  <2>. QED BY <1>3, <1>4, <1>5, <1>7, <2>1, StaysPlaced DEF p
<1>9. GetChunk(adj, SeekProperties(i).property_reader, NoFile) = got
  BY <1>4, <1>6 DEF got
<1>. QED BY <1>3, <1>4, <1>5, <1>6, <1>8, <1>9

\* operator*, while the property reader follows.
LEMMA DereferencePlaced ==
    ASSUME Static, NEW i, Placed(i), ~i.unread
    PROVE  LET j == Dereference(i)
           IN  /\ Placed(j) /\ Loaded(j) /\ SamePlace(j, i) /\ ~j.unread
               /\ j.property_reader.seek_offset = j.cur_offset
<1>. DEFINE k == Read(i)
            j == ReadProperty(k)
            got == GetChunk(adj, SeekProperties(k).property_reader, NoFile)
<1>1. Placed(k) /\ Loaded(k) /\ SamePlace(k, i) /\ k.unread = i.unread
  BY ReadPlaced
<1>. HIDE DEF k
<1>2. /\ Placed(j) /\ SamePlace(j, k) /\ j.adj_list_reader = k.adj_list_reader
      /\ j.unread = k.unread /\ j.property_reader.seek_offset = k.cur_offset
      /\ got.status = "OK"
      /\ RowOf(j.property_reader) = <<k.vertex_chunk_index, k.cur_offset>>
  BY <1>1, PropertiesPlaced
<1>3. got.reader = j.property_reader
  <2>. DEFINE h == SeekProperties(k)
  <2>1. ReadProperty(k) = [h EXCEPT !.property_reader = GetChunk(adj, @, NoFile).reader]
    BY DEF ReadProperty, GetProperty
  <2>2. DOMAIN h = DOMAIN k
    BY DEF SeekProperties
  <2>3. "property_reader" \in DOMAIN k
    BY <1>1 DEF Placed, ReadersSettled, Iters
  <2>. HIDE DEF h
  <2>. QED BY <2>1, <2>2, <2>3 DEF h
<1>4. Delivers(got)
  <2>1. /\ k.vertex_chunk_index \in VertexChunks
        /\ k.cur_offset < EdgeNum(adj, k.vertex_chunk_index)
    BY <1>1, RangeType DEF Placed, AtEdge
  <2>2. RowOf(got.reader) = <<k.vertex_chunk_index, k.cur_offset>>
    BY <1>2, <1>3
  <2>3. RowOf(got.reader)[1] = k.vertex_chunk_index /\ RowOf(got.reader)[2] = k.cur_offset
    BY <2>2
  <2>. HIDE DEF got
  <2>. QED BY <1>2, <2>1, <2>3 DEF Delivers
<1>5. Dereference(i) = j
  <2>1. Dereference(i) = GetEdge(SeekProperties(k))
    BY DEF Dereference, k
  <2>2. GetEdge(SeekProperties(k)) = [j EXCEPT !.broken = @ \/ ~Delivers(got)]
    BY DEF GetEdge, ReadProperty
  <2>3. j \in Iters /\ j.broken = FALSE
    BY <1>2 DEF Placed, ReadersSettled, Iters
  <2>. HIDE DEF j, got
  <2>. QED BY <1>4, <2>1, <2>2, <2>3 DEF Iters
<1>. HIDE DEF j
<1>6. Loaded(j) /\ SamePlace(j, i)
  BY <1>1, <1>2 DEF Loaded, SamePlace
<1>. QED BY <1>1, <1>2, <1>5, <1>6 DEF SamePlace

\* The copy constructor.
LEMMA CopyIterSettled ==
    ASSUME Static, NEW i, ReadersSettled(i)
    PROVE  LET j == CopyIter(i)
           IN  /\ ReadersSettled(j) /\ SamePlace(j, i) /\ j.unread = i.unread
               /\ j.adj_list_reader.vertex_chunk_index = i.adj_list_reader.vertex_chunk_index
               /\ j.property_reader.vertex_chunk_index = i.property_reader.vertex_chunk_index
               /\ j.num_row_of_chunk = i.num_row_of_chunk
<1>. DEFINE r == Copy(i.adj_list_reader)
            p == Copy(i.property_reader)
            k == [i EXCEPT !.adj_list_reader = r]
            j == [k EXCEPT !.property_reader = p]
<1>1. /\ Settled(adj, r) /\ r.vertex_chunk_index = i.adj_list_reader.vertex_chunk_index
      /\ Settled(adj, p) /\ p.vertex_chunk_index = i.property_reader.vertex_chunk_index
      /\ i \in Iters
  BY CopySettled DEF ReadersSettled
<1>2. r \in Readers /\ p \in Readers
  BY <1>1 DEF Settled
<1>3. CopyIter(i) = j
  BY <1>1 DEF CopyIter, Iters
<1>. HIDE DEF r, p
<1>4. /\ k \in Iters /\ SamePlace(k, i) /\ k.adj_list_reader = r
      /\ k.property_reader = i.property_reader
      /\ k.num_row_of_chunk = i.num_row_of_chunk
      /\ k.broken = i.broken /\ k.unread = i.unread
  BY <1>1, <1>2, WithReader
<1>. HIDE DEF k
<1>5. /\ j \in Iters /\ SamePlace(j, k) /\ j.property_reader = p
      /\ j.adj_list_reader = k.adj_list_reader
      /\ j.num_row_of_chunk = k.num_row_of_chunk
      /\ j.broken = k.broken /\ j.unread = k.unread
  BY <1>2, <1>4, WithProperties
<1>. HIDE DEF j
<1>6. SamePlace(j, i)
  BY <1>4, <1>5 DEF SamePlace
<1>7. ReadersSettled(j)
  BY <1>1, <1>4, <1>5 DEF ReadersSettled
<1>. QED BY <1>1, <1>3, <1>4, <1>5, <1>6, <1>7

\* A copy is at the same edge, or at the end.
LEMMA CopyPlaced ==
    ASSUME Static, NEW i
    PROVE  LET j == CopyIter(i)
           IN  /\ Placed(i) => Placed(j) /\ SamePlace(j, i) /\ j.unread = i.unread
               /\ Ended(i) => Ended(j) /\ SamePlace(j, i)
<1>1. ASSUME Placed(i)
      PROVE  Placed(CopyIter(i)) /\ SamePlace(CopyIter(i), i) /\ CopyIter(i).unread = i.unread
  BY <1>1, CopyIterSettled, StaysPlaced DEF Placed
<1>2. ASSUME Ended(i)
      PROVE  Ended(CopyIter(i)) /\ SamePlace(CopyIter(i), i)
  BY <1>2, CopyIterSettled DEF Ended, SamePlace
<1>. QED BY <1>1, <1>2

\* GetRowNumOfChunk, where the reader is in an edge chunk of its vertex chunk.
LEMMA CountRowsSettled ==
    ASSUME Static, NEW i, i \in Iters, ~i.broken, Settled(adj, i.adj_list_reader),
           NEW vc \in VertexChunks, i.adj_list_reader.vertex_chunk_index = vc,
           NEW row \in Nat, row < EdgeNum(adj, vc), i.adj_list_reader.seek_offset = row
    PROVE  LET j == CountRows(i)
           IN  /\ j \in Iters /\ ~j.broken /\ SamePlace(j, i) /\ j.unread = i.unread
               /\ j.property_reader = i.property_reader
               /\ Settled(adj, j.adj_list_reader)
               /\ j.adj_list_reader.vertex_chunk_index = vc
               /\ j.adj_list_reader.seek_offset = row
               /\ j.num_row_of_chunk = RowsOfChunk(adj, <<vc, row \div ChunkSize>>)
<1>. DEFINE r == i.adj_list_reader
            ec == row \div ChunkSize
            got == GetRowNumOfChunk(adj, r, NoFile)
            rows == RowsOfChunk(adj, <<vc, ec>>)
            k == [i EXCEPT !.adj_list_reader = got.reader]
            j == [k EXCEPT !.num_row_of_chunk = rows]
<1>1. /\ adj \in AdjLists /\ PartialEnds(adj) /\ r.chunk_index = ec
      /\ r.vertex_chunk_index \in VertexChunks
  BY DEF Static, Settled
<1>2. ec < EdgeChunkNum(adj, vc)
  <2>1. row \in 0 .. EdgeNum(adj, vc)
    BY <1>1, RowsOfVertexChunk
  <2>. QED BY <1>1, <2>1, RowsOfVertexChunk
<1>3. rows \in 0 .. ChunkSize
  <2>1. rows \in 1 .. ChunkSize /\ ChunkSize \in Nat
    BY <1>1, RowAhead, LayoutAssumption
  <2>. HIDE DEF rows
  <2>. QED BY <2>1
<1>4. /\ Settled(adj, got.reader) /\ got.reader.vertex_chunk_index = vc
      /\ got.reader.seek_offset = row /\ got.status = "OK"
      /\ got.reader.chunk_table = <<vc, ec>>
  BY <1>1, <1>2, GetChunkSettled
<1>5. CountRows(i) = j
  <2>1. CountRows(i) = Counted(i, got)
    BY DEF CountRows
  <2>. HIDE DEF got
  <2>2. Counted(i, got) = [i EXCEPT !.adj_list_reader = got.reader, !.num_row_of_chunk = rows]
    BY <1>4 DEF Counted, rows
  <2>. HIDE DEF rows
  <2>. QED BY <2>1, <2>2 DEF Iters
<1>. HIDE DEF got, rows
<1>6. got.reader \in Readers
  BY <1>4 DEF Settled
<1>7. /\ k \in Iters /\ SamePlace(k, i) /\ k.adj_list_reader = got.reader
      /\ k.property_reader = i.property_reader
      /\ k.broken = i.broken /\ k.unread = i.unread
  BY <1>6, WithReader
<1>. HIDE DEF k
<1>8. /\ j \in Iters /\ j.adj_list_reader = k.adj_list_reader
      /\ j.property_reader = k.property_reader /\ j.num_row_of_chunk = rows
      /\ j.broken = k.broken /\ j.unread = k.unread
      /\ j.global_chunk_index = k.global_chunk_index
      /\ j.vertex_chunk_index = k.vertex_chunk_index /\ j.cur_offset = k.cur_offset
  BY <1>3, <1>7 DEF Iters
<1>. HIDE DEF j
<1>9. SamePlace(j, i)
  BY <1>7, <1>8 DEF SamePlace
<1>. QED BY <1>4, <1>5, <1>7, <1>8, <1>9 DEF rows

\* refresh, where the counters name an edge.
LEMMA RefreshPlaced ==
    ASSUME Static, NEW i, i \in Iters, ~i.broken, AtEdge(i),
           Settled(adj, i.adj_list_reader), Settled(adj, i.property_reader)
    PROVE  LET j == Refresh(i)
           IN  Placed(j) /\ SamePlace(j, i) /\ ~j.unread
<1>. DEFINE vc == i.vertex_chunk_index
            row == i.cur_offset
            r == SeekChunkIndex(adj, i.adj_list_reader, vc, 0, NoFile).reader
            p == SeekChunkIndex(adj, i.property_reader, vc, 0, NoFile).reader
            a == [i EXCEPT !.adj_list_reader = r]
            b == [a EXCEPT !.property_reader = p]
            c == [b EXCEPT !.unread = FALSE]
            k == SeekReader(c)
            j == CountRows(k)
<1>1. /\ vc \in VertexChunks /\ adj \in AdjLists /\ row \in Nat /\ row < EdgeNum(adj, vc)
  BY RangeType DEF Static, AtEdge, Iters
<1>2. /\ Settled(adj, r) /\ r.vertex_chunk_index = vc /\ r \in Readers
      /\ Settled(adj, p) /\ p.vertex_chunk_index = vc /\ p \in Readers
  BY <1>1, SeekChunkIndexSettled DEF Settled
<1>3. Refresh(i) = j
  <2>1. c = [i EXCEPT !.adj_list_reader = r, !.property_reader = p, !.unread = FALSE]
    <3>. HIDE DEF r, p
    <3>. QED BY DEF Iters
  <2>2. [i EXCEPT !.adj_list_reader = r, !.property_reader = p, !.unread = FALSE]
          = [i EXCEPT !.adj_list_reader = SeekChunkIndex(adj, @, vc, 0, NoFile).reader,
                      !.property_reader = SeekChunkIndex(adj, @, vc, 0, NoFile).reader,
                      !.unread = FALSE]
    BY DEF Iters
  <2>. HIDE DEF c
  <2>. QED BY <2>1, <2>2 DEF Refresh
<1>. HIDE DEF r, p
<1>4. /\ a \in Iters /\ SamePlace(a, i) /\ a.adj_list_reader = r /\ a.broken = i.broken
  BY <1>2, WithReader
<1>. HIDE DEF a
<1>5. /\ b \in Iters /\ SamePlace(b, a) /\ b.property_reader = p /\ b.adj_list_reader = r
      /\ b.broken = i.broken
  BY <1>2, <1>4, WithProperties
<1>. HIDE DEF b
<1>6. /\ c \in Iters /\ c.property_reader = p /\ c.adj_list_reader = r
      /\ c.broken = i.broken /\ c.unread = FALSE
      /\ c.global_chunk_index = b.global_chunk_index
      /\ c.vertex_chunk_index = b.vertex_chunk_index /\ c.cur_offset = b.cur_offset
  BY <1>5 DEF Iters
<1>. HIDE DEF c
<1>7. ReadersSettled(c) /\ SamePlace(c, i)
  BY <1>1, <1>2, <1>4, <1>5, <1>6 DEF ReadersSettled, SamePlace
<1>8. /\ ReadersSettled(k) /\ SamePlace(k, c) /\ k.adj_list_reader.seek_offset = row
      /\ k.adj_list_reader.vertex_chunk_index = vc /\ k.property_reader = p
      /\ ~k.unread
  BY <1>2, <1>6, <1>7, SeekReaderSettled DEF SamePlace
<1>. HIDE DEF k
<1>9. /\ j \in Iters /\ ~j.broken /\ SamePlace(j, k) /\ j.unread = k.unread
      /\ j.property_reader = p /\ Settled(adj, j.adj_list_reader)
      /\ j.adj_list_reader.vertex_chunk_index = vc
      /\ j.num_row_of_chunk = RowsOfChunk(adj, <<vc, row \div ChunkSize>>)
  BY <1>1, <1>8, CountRowsSettled DEF ReadersSettled
<1>. HIDE DEF j
<1>10. SamePlace(j, i) /\ ~j.unread
  BY <1>7, <1>8, <1>9 DEF SamePlace
<1>11. ReadersSettled(j) /\ AtEdge(j)
  BY <1>1, <1>2, <1>9, <1>10 DEF ReadersSettled, AtEdge, SamePlace
<1>12. Placed(j)
  <2>1. j.vertex_chunk_index = vc /\ j.cur_offset = row /\ vc <= vc
    BY <1>1, <1>10, RangeType, VertexChunkType DEF SamePlace
  <2>. QED BY <1>2, <1>9, <1>11, <2>1 DEF Placed
<1>. QED BY <1>3, <1>10, <1>12

\* The constructor: an iterator at an edge, and end().
LEMMA MadeSettled ==
    ASSUME Static, NEW index \in Nat, NEW offset \in Nat
    PROVE  LET j == IterAt(index, offset)
               vc == VertexChunkOfGlobal(index)
           IN  /\ ReadersSettled(j) /\ ~j.unread
               /\ j.global_chunk_index = index /\ j.cur_offset = offset
               /\ j.vertex_chunk_index = vc /\ j.adj_list_reader.vertex_chunk_index = vc
               /\ j.property_reader.vertex_chunk_index = vc /\ j.num_row_of_chunk = 0
<1>. DEFINE vc == VertexChunkOfGlobal(index)
            at == SeekChunkIndex(adj, NewReader, vc, 0, NoFile).reader
            j == [adj_list_reader |-> at, property_reader |-> at,
                  global_chunk_index |-> index, vertex_chunk_index |-> vc, cur_offset |-> offset,
                  num_row_of_chunk |-> 0, broken |-> FALSE, unread |-> FALSE]
<1>1. vc \in VertexChunks /\ vc \in Nat /\ adj \in AdjLists /\ 0 \in 0 .. ChunkSize
  BY VertexChunkFound, VertexChunkType, LayoutAssumption DEF Static
<1>2. Settled(adj, at) /\ at.vertex_chunk_index = vc /\ at \in Readers
  BY <1>1, SeekChunkIndexSettled DEF Settled
<1>3. IterAt(index, offset) = j
  BY DEF IterAt
<1>. HIDE DEF vc, at
<1>4. j \in Iters
  BY <1>1, <1>2 DEF Iters
<1>. QED BY <1>1, <1>2, <1>3, <1>4 DEF ReadersSettled, vc

\* An iterator that the constructor puts at an edge is in place.
LEMMA MadeAtEdge ==
    ASSUME Static, NEW vc \in range[1] .. range[2] - 1, NEW row \in Nat,
           row < EdgeNum(adj, vc)
    PROVE  LET j == IterAt(GlobalChunkIndex(vc, row \div ChunkSize), row)
           IN  Placed(j) /\ ~j.unread /\ j.vertex_chunk_index = vc /\ j.cur_offset = row
<1>. DEFINE ec == row \div ChunkSize
            index == GlobalChunkIndex(vc, ec)
            j == IterAt(index, row)
<1>1. vc \in VertexChunks /\ adj \in AdjLists /\ PartialEnds(adj) /\ vc \in Nat
  BY RangeType DEF Static
<1>2. ec \in Nat /\ ec < EdgeChunkNum(adj, vc)
  <2>1. row \in 0 .. EdgeNum(adj, vc)
    BY <1>1, RowsOfVertexChunk
  <2>. QED BY <1>1, <2>1, RowsOfVertexChunk, DivType, LayoutAssumption
<1>3. index \in Nat /\ VertexChunkOfGlobal(index) = vc
  BY <1>1, <1>2, GlobalOrder, VertexChunkFound
<1>4. /\ ReadersSettled(j) /\ ~j.unread
      /\ j.global_chunk_index = index /\ j.cur_offset = row
      /\ j.vertex_chunk_index = vc /\ j.adj_list_reader.vertex_chunk_index = vc
      /\ j.property_reader.vertex_chunk_index = vc /\ j.num_row_of_chunk = 0
  BY <1>3, MadeSettled
<1>. HIDE DEF j
<1>5. AtEdge(j)
  BY <1>4 DEF AtEdge, index
<1>6. Placed(j)
  BY <1>1, <1>4, <1>5 DEF Placed
<1>. QED BY <1>4, <1>6 DEF j

\* end() is at the end.
LEMMA EndIsEnded ==
    ASSUME Static
    PROVE  Ended(end)
<1>1. collection.chunk_end \in Nat /\ 0 \in Nat
  BY GlobalIndex, RangeType
<1>. QED BY <1>1, MadeSettled DEF end, Ended

\* begin().
LEMMA BeginIsPlaced ==
    ASSUME Static
    PROVE  /\ Placed(begin) /\ ~begin.unread
           /\ begin.vertex_chunk_index = range[1] /\ begin.cur_offset = 0
           /\ 0 < EdgeNum(adj, range[1])
           /\ begin.global_chunk_index = collection.chunk_begin
           /\ collection.chunk_begin = GlobalChunkIndex(range[1], 0)
           /\ VertexChunkOfGlobal(collection.chunk_begin) = range[1]
<1>1. /\ range[1] \in range[1] .. range[2] - 1 /\ 0 \in Nat /\ range[1] \in VertexChunks
      /\ adj \in AdjLists /\ PartialEnds(adj)
  BY RangeType DEF Static
<1>2. 0 < EdgeNum(adj, range[1]) /\ 0 < EdgeChunkNum(adj, range[1])
  BY <1>1, RowsOfVertexChunk
<1>3. 0 \div ChunkSize = 0
  BY LayoutAssumption, DivUnique, 0 * ChunkSize + 0 = 0, 0 \in 0 .. ChunkSize - 1
<1>4. collection.chunk_begin = GlobalChunkIndex(range[1], 0)
      /\ collection.chunk_begin \in Nat
  BY <1>1, <1>2, GlobalIndex, GlobalOrder
<1>5. /\ Placed(begin) /\ ~begin.unread
      /\ begin.vertex_chunk_index = range[1] /\ begin.cur_offset = 0
  BY <1>1, <1>2, <1>3, <1>4, MadeAtEdge DEF begin
<1>6. begin.global_chunk_index = collection.chunk_begin
  BY <1>1, <1>4, MadeSettled DEF begin
<1>7. VertexChunkOfGlobal(collection.chunk_begin) = range[1]
  BY <1>1, <1>2, <1>4, VertexChunkFound
<1>. QED BY <1>2, <1>4, <1>5, <1>6, <1>7

\* to_begin()
LEMMA ToBeginPlaced ==
    ASSUME Static, NEW i, ReadersSettled(i)
    PROVE  LET j == ToBegin(i)
           IN  /\ Placed(j) /\ ~j.unread
               /\ j.vertex_chunk_index = range[1] /\ j.cur_offset = 0
<1>. DEFINE index == collection.chunk_begin
            k == At(i, index, range[1], 0)
<1>1. /\ index \in Nat /\ range[1] \in Nat /\ range[1] \in range[1] .. range[2] - 1
      /\ 0 < EdgeNum(adj, range[1]) /\ index = GlobalChunkIndex(range[1], 0) /\ 0 \in Nat
      /\ VertexChunkOfGlobal(index) = range[1]
  BY BeginIsPlaced, RangeType, GlobalIndex, VertexChunkType
<1>2. 0 \div ChunkSize = 0
  BY LayoutAssumption, DivUnique, 0 * ChunkSize + 0 = 0, 0 \in 0 .. ChunkSize - 1
<1>. HIDE DEF index
<1>3. /\ k \in Iters /\ k.adj_list_reader = i.adj_list_reader
      /\ k.property_reader = i.property_reader /\ k.broken = i.broken
      /\ k.global_chunk_index = index /\ k.vertex_chunk_index = range[1] /\ k.cur_offset = 0
  <2>1. i \in Iters /\ index \in Nat /\ range[1] \in Nat /\ 0 \in Nat
    BY <1>1 DEF ReadersSettled
  <2>2. \A n \in Nat : \A vc \in Nat :
          LET h == At(i, n, vc, 0)
          IN  /\ h \in Iters /\ h.adj_list_reader = i.adj_list_reader
              /\ h.property_reader = i.property_reader /\ h.broken = i.broken
              /\ h.global_chunk_index = n /\ h.vertex_chunk_index = vc /\ h.cur_offset = 0
    <3>. TAKE n \in Nat
    <3>. TAKE vc \in Nat
    <3>1. i \in Iters /\ 0 \in Nat
      BY <2>1
    <3>. QED BY <3>1, PutAt
  <2>. QED BY <2>1, <2>2
<1>4. ToBegin(i) = Refresh(k)
  BY <1>1 DEF ToBegin, index
<1>. HIDE DEF k
<1>5. AtEdge(k) /\ ~k.broken
  BY <1>1, <1>2, <1>3 DEF AtEdge, ReadersSettled
<1>. QED BY <1>3, <1>4, <1>5, RefreshPlaced DEF ReadersSettled, SamePlace

\* operator++ behind the last edge of a vertex chunk.  The property reader is in its last
\* edge chunk, too, or ++ has left an edge alone.
LEMMA LeaveSettled ==
    ASSUME Static, NEW i, ReadersSettled(i), NEW vc \in range[1] .. range[2] - 1,
           i.vertex_chunk_index = vc, i.adj_list_reader.vertex_chunk_index = vc,
           ~(i.adj_list_reader.chunk_index + 1 < EdgeChunkNum(adj, vc)),
           i.global_chunk_index + 1 = GlobalChunkIndex(vc + 1, 0),
           i.property_reader.vertex_chunk_index <= vc,
           ~i.unread => /\ i.property_reader.vertex_chunk_index = vc
                        /\ ~(i.property_reader.chunk_index + 1 < EdgeChunkNum(adj, vc))
    PROVE  LET j == LeaveVertexChunk(i)
           IN  /\ vc + 1 = range[2] => Ended(j)
               /\ vc + 1 # range[2] =>
                     Placed(j) /\ j.vertex_chunk_index = vc + 1 /\ j.cur_offset = 0
               /\ j.unread = i.unread
<1>. DEFINE next == NextChunk(adj, i.adj_list_reader, NoFile)
            a == MovedTo(i, next)
            entered == EnterVertexChunk(i, next)
            b == [entered EXCEPT !.cur_offset = 0]
            j == SeekReader(b)
<1>1. /\ adj \in AdjLists /\ PartialEnds(adj) /\ vc \in VertexChunks /\ vc \in Nat
      /\ vc + 1 \in Nat /\ i \in Iters /\ ~i.broken
      /\ i.global_chunk_index + 1 \in Nat
      /\ vc + 1 \notin VertexChunks => vc + 1 = range[2]
  BY RangeType DEF Static, ReadersSettled, Iters
<1>2. /\ i.adj_list_reader \in Readers /\ Settled(adj, i.adj_list_reader)
      /\ i.adj_list_reader.chunk_num = EdgeChunkNum(adj, vc)
      /\ i.adj_list_reader.chunk_index + 1 > 0
  BY <1>1, ReaderFields DEF ReadersSettled, Settled
<1>3. /\ vc + 1 \in VertexChunks =>
            /\ next.status = "OK" /\ Settled(adj, next.reader)
            /\ next.reader.vertex_chunk_index = vc + 1 /\ next.reader.seek_offset = 0
      /\ vc + 1 \notin VertexChunks =>
            /\ next.status = "IndexError" /\ next.reader \in Readers
            /\ next.reader.vertex_chunk_index = VertexChunkNum
            /\ next.reader.chunk_index # 0
  <2>1. /\ i.adj_list_reader.vertex_chunk_index \in VertexChunks
        /\ i.adj_list_reader.vertex_chunk_index = vc
        /\ ~(i.adj_list_reader.chunk_index + 1 < i.adj_list_reader.chunk_num)
    BY <1>1, <1>2
  <2>2. i.adj_list_reader.chunk_index + 1 # 0
    BY <1>2, ReaderFields
  <2>. QED BY <1>1, <1>2, <2>1, <2>2, NextChunkSettled
<1>4. next.reader \in Readers
  BY <1>3 DEF Settled
<1>5. LeaveVertexChunk(i) = j
  BY DEF LeaveVertexChunk
<1>6. EnterVertexChunk(i, next) = IF next.status = "IndexError" THEN a
          ELSE [CountRows(a) EXCEPT !.property_reader = NextChunk(adj, @, NoFile).reader]
  BY DEF EnterVertexChunk
<1>. HIDE DEF next
<1>7. /\ a \in Iters /\ a.broken = i.broken /\ a.unread = i.unread
      /\ a.adj_list_reader = next.reader /\ a.property_reader = i.property_reader
      /\ a.global_chunk_index = i.global_chunk_index + 1
      /\ a.vertex_chunk_index = vc + 1
  <2>. DEFINE h == [i EXCEPT !.adj_list_reader = next.reader,
                             !.global_chunk_index = i.global_chunk_index + 1,
                             !.vertex_chunk_index = vc + 1]
  <2>1. a = h
    BY <1>1 DEF MovedTo, Iters
  <2>2. h \in Iters
    BY <1>1, <1>4 DEF Iters
  <2>3. /\ h.broken = i.broken /\ h.unread = i.unread
        /\ h.adj_list_reader = next.reader /\ h.property_reader = i.property_reader
        /\ h.global_chunk_index = i.global_chunk_index + 1
        /\ h.vertex_chunk_index = vc + 1
    BY <1>1 DEF Iters
  <2>. HIDE DEF h, a
  <2>. QED BY <2>1, <2>2, <2>3
<1>. HIDE DEF a
<1>8. \A k \in Iters : LET h == [k EXCEPT !.cur_offset = 0]
                       IN  /\ h \in Iters /\ h.cur_offset = 0
                           /\ h.global_chunk_index = k.global_chunk_index
                           /\ h.vertex_chunk_index = k.vertex_chunk_index
                           /\ h.adj_list_reader = k.adj_list_reader
                           /\ h.property_reader = k.property_reader
                           /\ h.num_row_of_chunk = k.num_row_of_chunk
                           /\ h.broken = k.broken /\ h.unread = k.unread
  BY DEF Iters
<1>9. CASE vc + 1 \notin VertexChunks
  <2>1. entered = a /\ vc + 1 = range[2]
    BY <1>1, <1>3, <1>6, <1>9
  <2>2. /\ b \in Iters /\ b.cur_offset = 0 /\ b.broken = a.broken /\ b.unread = a.unread
        /\ b.adj_list_reader = a.adj_list_reader /\ b.property_reader = a.property_reader
        /\ b.global_chunk_index = a.global_chunk_index
    BY <1>7, <1>8, <2>1
  <2>. HIDE DEF b
  <2>. DEFINE q == Seek(adj, b.adj_list_reader, 0, NoFile).reader
              h == [b EXCEPT !.adj_list_reader = q]
  <2>3. Settled(adj, q) /\ q \in Readers
    BY <1>1, <1>3, <1>7, <1>9, <2>2, SeekBehind DEF Settled
  <2>4. j = h
    BY <2>2 DEF SeekReader
  <2>. HIDE DEF q
  <2>5. /\ h \in Iters /\ SamePlace(h, b) /\ h.adj_list_reader = q
        /\ h.property_reader = b.property_reader
        /\ h.broken = b.broken /\ h.unread = b.unread
    BY <2>2, <2>3, WithReader
  <2>. HIDE DEF h, j
  <2>6. ReadersSettled(j)
    BY <1>1, <1>7, <2>2, <2>3, <2>4, <2>5 DEF ReadersSettled
  <2>7. j.global_chunk_index = collection.chunk_end /\ j.cur_offset = 0
    BY <1>7, <2>1, <2>2, <2>4, <2>5, GlobalIndex DEF SamePlace
  <2>8. Ended(j) /\ j.unread = i.unread
    BY <1>7, <2>2, <2>4, <2>5, <2>6, <2>7 DEF Ended
  <2>. QED BY <1>5, <2>1, <2>8
<1>10. CASE vc + 1 \in VertexChunks
  <2>. DEFINE c == CountRows(a)
              p == NextChunk(adj, i.property_reader, NoFile).reader
              n == [c EXCEPT !.property_reader = p]
  <2>0. /\ 0 < EdgeNum(adj, vc + 1) /\ 0 \in Nat
        /\ 0 \div ChunkSize = 0
    BY <1>1, <1>10, RowsOfVertexChunk, LayoutAssumption, DivUnique, 0 * ChunkSize + 0 = 0,
       0 \in 0 .. ChunkSize - 1
  <2>1. /\ c \in Iters /\ ~c.broken /\ SamePlace(c, a) /\ c.unread = a.unread
        /\ c.property_reader = a.property_reader
        /\ Settled(adj, c.adj_list_reader)
        /\ c.adj_list_reader.vertex_chunk_index = vc + 1
        /\ c.num_row_of_chunk = RowsOfChunk(adj, <<vc + 1, 0>>)
    BY <1>1, <1>3, <1>7, <1>10, <2>0, CountRowsSettled
  <2>. HIDE DEF c
  <2>2. entered = n
    <3>1. entered = [c EXCEPT !.property_reader = NextChunk(adj, @, NoFile).reader]
      BY <1>3, <1>6, <1>10 DEF c
    <3>. QED BY <1>7, <2>1, <3>1 DEF Iters
  <2>3. /\ Settled(adj, p) /\ p \in Readers /\ p.vertex_chunk_index \in VertexChunks
        /\ p.vertex_chunk_index <= vc + 1
        /\ ~i.unread => p.vertex_chunk_index = vc + 1
    <3>. DEFINE o == NextChunk(adj, i.property_reader, NoFile)
                pv == i.property_reader.vertex_chunk_index
    <3>1. /\ Settled(adj, i.property_reader) /\ pv \in VertexChunks /\ pv <= vc /\ pv \in Nat
          /\ VertexChunks = {k \in Nat : k < VertexChunkNum} /\ VertexChunkNum \in Nat
          /\ i.property_reader.chunk_num = EdgeChunkNum(adj, pv)
      BY VertexChunkType DEF ReadersSettled, Settled
    <3>2. pv + 1 \in VertexChunks
      BY <1>1, <1>10, <3>1
    <3>3. /\ i.property_reader.chunk_index + 1 < i.property_reader.chunk_num =>
                Settled(adj, o.reader) /\ o.reader.vertex_chunk_index = pv
          /\ ~(i.property_reader.chunk_index + 1 < i.property_reader.chunk_num) =>
                Settled(adj, o.reader) /\ o.reader.vertex_chunk_index = pv + 1
      BY <1>1, <3>1, <3>2, NextChunkSettled
    <3>. HIDE DEF o
    <3>4. Settled(adj, p) /\ p.vertex_chunk_index \in {pv, pv + 1}
      BY <3>3 DEF o
    <3>5. ~i.unread => p.vertex_chunk_index = vc + 1
      BY <3>1, <3>3 DEF o
    <3>. HIDE DEF p, pv
    <3>. QED BY <1>1, <3>1, <3>2, <3>4, <3>5 DEF Settled
  <2>. HIDE DEF p
  <2>4. /\ n \in Iters /\ SamePlace(n, c) /\ n.property_reader = p
        /\ n.adj_list_reader = c.adj_list_reader
        /\ n.num_row_of_chunk = c.num_row_of_chunk
        /\ n.broken = c.broken /\ n.unread = c.unread
    BY <2>1, <2>3, WithProperties
  <2>. HIDE DEF n
  <2>5. /\ b \in Iters /\ b.cur_offset = 0
        /\ b.global_chunk_index = n.global_chunk_index
        /\ b.vertex_chunk_index = n.vertex_chunk_index
        /\ b.adj_list_reader = n.adj_list_reader
        /\ b.property_reader = n.property_reader
        /\ b.num_row_of_chunk = n.num_row_of_chunk
        /\ b.broken = n.broken /\ b.unread = n.unread
    BY <1>8, <2>2, <2>4
  <2>. HIDE DEF b
  <2>6. ReadersSettled(b)
    BY <2>1, <2>3, <2>4, <2>5 DEF ReadersSettled
  <2>7. /\ ReadersSettled(j) /\ SamePlace(j, b)
        /\ j.adj_list_reader.vertex_chunk_index = b.adj_list_reader.vertex_chunk_index
        /\ j.property_reader = b.property_reader /\ j.num_row_of_chunk = b.num_row_of_chunk
        /\ j.broken = b.broken /\ j.unread = b.unread
    BY <2>6, SeekReaderSettled
  <2>. HIDE DEF j
  <2>8. /\ j.global_chunk_index = GlobalChunkIndex(vc + 1, 0)
        /\ j.vertex_chunk_index = vc + 1 /\ j.cur_offset = 0
        /\ j.adj_list_reader.vertex_chunk_index = vc + 1
        /\ j.property_reader = p /\ j.num_row_of_chunk = RowsOfChunk(adj, <<vc + 1, 0>>)
        /\ j.unread = i.unread
    BY <1>7, <2>1, <2>4, <2>5, <2>7 DEF SamePlace
  <2>9. CASE vc + 1 = range[2]
    <3>1. Ended(j)
      BY <2>7, <2>8, <2>9, GlobalIndex DEF Ended
    <3>. QED BY <1>5, <2>8, <2>9, <3>1
  <2>10. CASE vc + 1 # range[2]
    <3>1. vc + 1 \in range[1] .. range[2] - 1
      BY <1>1, <2>10, RangeType
    <3>2. AtEdge(j)
      BY <2>0, <2>8, <3>1 DEF AtEdge
    <3>3. Placed(j)
      BY <2>0, <2>3, <2>7, <2>8, <3>2 DEF Placed
    <3>. QED BY <1>5, <2>8, <2>10, <3>3
  <2>. QED BY <2>9, <2>10
<1>. QED BY <1>9, <1>10

\* What operator++ does, as a relation of places: the next row of the vertex chunk, the first
\* of the next vertex chunk, or the end.
Advanced(j, i) ==
    \/ /\ Placed(j) /\ j.vertex_chunk_index = i.vertex_chunk_index
       /\ j.cur_offset = i.cur_offset + 1
    \/ /\ i.cur_offset + 1 = EdgeNum(adj, i.vertex_chunk_index)
       /\ \/ /\ Placed(j) /\ j.vertex_chunk_index = i.vertex_chunk_index + 1
             /\ j.cur_offset = 0
          \/ Ended(j) /\ i.vertex_chunk_index + 1 = range[2]

\* With the number of rows of its edge chunk known.
LEMMA StepAdvances ==
    ASSUME Static, NEW i, Placed(i),
           i.num_row_of_chunk =
               RowsOfChunk(adj, <<i.vertex_chunk_index, i.cur_offset \div ChunkSize>>)
    PROVE  LET j == Step(i)
           IN  /\ Advanced(j, i)
               /\ ~i.unread /\ i.property_reader.seek_offset = i.cur_offset => ~j.unread
<1>. DEFINE vc == i.vertex_chunk_index
            row == i.cur_offset
            ec == row \div ChunkSize
            rows == RowsOfChunk(adj, <<vc, ec>>)
            left == i.unread \/ i.property_reader.seek_offset # row
            k == [i EXCEPT !.cur_offset = row + 1, !.unread = left]
            seek == Seek(adj, i.adj_list_reader, row + 1, NoFile)
            m == [k EXCEPT !.adj_list_reader = seek.reader]
            mod == (row + 1) % ChunkSize
            stays == ~(rows = ChunkSize /\ mod = 0) /\ ~(rows # ChunkSize /\ mod >= rows)
<1>1. /\ adj \in AdjLists /\ PartialEnds(adj) /\ vc \in VertexChunks /\ vc \in Nat
      /\ vc \in range[1] .. range[2] - 1 /\ vc + 1 \in 0 .. VertexChunkNum
      /\ i \in Iters /\ i.broken = FALSE /\ row \in Nat /\ row + 1 \in Nat
      /\ row < EdgeNum(adj, vc) /\ EdgeNum(adj, vc) \in Nat
      /\ i.global_chunk_index = GlobalChunkIndex(vc, ec)
      /\ Settled(adj, i.adj_list_reader) /\ i.adj_list_reader.vertex_chunk_index = vc
      /\ ReadersSettled(i) /\ i.unread \in BOOLEAN
      /\ ChunkSize \in Nat \ {0} /\ ec \in Nat /\ mod \in Nat
      /\ i.num_row_of_chunk = rows /\ EdgeChunkNum(adj, vc) \in Nat
  <2>1. /\ adj \in AdjLists /\ PartialEnds(adj) /\ vc \in VertexChunks /\ vc \in Nat
        /\ vc \in range[1] .. range[2] - 1 /\ vc + 1 \in 0 .. VertexChunkNum
    BY RangeType DEF Static, Placed, AtEdge
  <2>2. /\ ReadersSettled(i) /\ i \in Iters /\ i.broken = FALSE /\ row \in Nat
        /\ i.unread \in BOOLEAN /\ Settled(adj, i.adj_list_reader)
    BY DEF Placed, ReadersSettled, Iters
  <2>3. /\ row < EdgeNum(adj, vc) /\ i.global_chunk_index = GlobalChunkIndex(vc, ec)
        /\ i.adj_list_reader.vertex_chunk_index = vc /\ i.num_row_of_chunk = rows
    BY DEF Placed, AtEdge
  <2>4. EdgeNum(adj, vc) \in Nat /\ EdgeChunkNum(adj, vc) \in Nat
    BY <2>1, EdgeChunkType
  <2>5. row + 1 \in Nat /\ ChunkSize \in Nat \ {0}
    BY <2>2, LayoutAssumption
  <2>6. ec \in Nat /\ mod \in Nat
    <3>1. mod \in 0 .. ChunkSize - 1
      BY <2>5, DivMod
    <3>2. ec \in Nat
      BY <2>2, <2>5, DivType
    <3>. HIDE DEF mod, ec
    <3>. QED BY <2>5, <3>1, <3>2
  <2>. HIDE DEF ec, mod, rows
  <2>. QED BY <2>1, <2>2, <2>3, <2>4, <2>5, <2>6
<1>2. /\ rows \in 1 .. ChunkSize
      /\ rows = ChunkSize /\ mod = 0 =>
            row + 1 < EdgeNum(adj, vc) /\ (row + 1) \div ChunkSize = ec + 1
      /\ rows # ChunkSize /\ mod >= rows =>
            row + 1 = EdgeNum(adj, vc) /\ ec + 1 = EdgeChunkNum(adj, vc)
      /\ stays => row + 1 < EdgeNum(adj, vc) /\ (row + 1) \div ChunkSize = ec
  BY <1>1, RowAhead
<1>. HIDE DEF rows, mod, ec
<1>3. (row + 1) \div ChunkSize < EdgeChunkNum(adj, vc)
      /\ (row + 1) \div ChunkSize \in Nat
  <2>1. row + 1 \in 0 .. EdgeNum(adj, vc)
    BY <1>1
  <2>. QED BY <1>1, <2>1, RowsOfVertexChunk, DivType
<1>4. /\ Settled(adj, seek.reader) /\ seek.reader \in Readers
      /\ seek.reader.vertex_chunk_index = vc
      /\ seek.reader.seek_offset = row + 1 /\ seek.status = "OK"
  <2>1. i.adj_list_reader.chunk_num = EdgeChunkNum(adj, vc)
    BY <1>1 DEF Settled
  <2>2. row + 1 \in Nat /\ vc \in VertexChunks /\ Settled(adj, i.adj_list_reader)
        /\ i.adj_list_reader.vertex_chunk_index = vc /\ adj \in AdjLists
    BY <1>1 DEF Static
  <2>. QED BY <1>3, <2>1, <2>2, SeekSettled DEF Settled
<1>5. Step(i) = Settle(m, "OK")
  <2>1. Step(i) = SettleAt([i EXCEPT !.cur_offset = @ + 1,
                                     !.unread = @ \/ i.property_reader.seek_offset # i.cur_offset],
                           seek)
    BY <1>1 DEF Step
  <2>2. [i EXCEPT !.cur_offset = @ + 1,
                  !.unread = @ \/ i.property_reader.seek_offset # i.cur_offset] = k
    BY <1>1 DEF Iters
  <2>. HIDE DEF k, seek
  <2>. QED BY <1>4, <2>1, <2>2 DEF SettleAt
<1>. HIDE DEF seek
<1>6. left \in BOOLEAN
  BY <1>1
<1>. HIDE DEF left
<1>7. /\ k \in Iters /\ k.cur_offset = row + 1 /\ k.unread = left
      /\ k.global_chunk_index = i.global_chunk_index /\ k.vertex_chunk_index = vc
      /\ k.property_reader = i.property_reader
      /\ k.num_row_of_chunk = i.num_row_of_chunk /\ k.broken = i.broken
  BY <1>1, <1>6 DEF Iters
<1>. HIDE DEF k
<1>8. /\ m \in Iters /\ m.cur_offset = row + 1 /\ m.unread = left
      /\ m.global_chunk_index = GlobalChunkIndex(vc, ec) /\ m.vertex_chunk_index = vc
      /\ m.property_reader = i.property_reader /\ m.adj_list_reader = seek.reader
      /\ m.num_row_of_chunk = rows /\ m.broken = FALSE
  BY <1>1, <1>4, <1>7, WithReader DEF SamePlace
<1>. HIDE DEF m
<1>9. ReadersSettled(m)
  BY <1>1, <1>4, <1>8 DEF ReadersSettled
<1>10. /\ i.property_reader.vertex_chunk_index <= vc
       /\ ~left => /\ i.property_reader.vertex_chunk_index = vc
                   /\ i.property_reader.seek_offset = row
       /\ ~i.unread /\ i.property_reader.seek_offset = i.cur_offset => ~left
  BY DEF Placed, left
<1>11. Settle(m, "OK") = IF rows = ChunkSize /\ mod = 0 THEN EnterChunk(m)
           ELSE IF rows # ChunkSize /\ mod >= rows
           THEN LeaveVertexChunk(SeekReader(
                   [m EXCEPT !.cur_offset = (@ \div ChunkSize + 1) * ChunkSize]))
           ELSE m
  BY <1>8 DEF Settle, mod
<1>12. \A ec2 \in Nat : GlobalChunkIndex(vc, ec2) = GlobalChunkIndex(vc, 0) + ec2
       /\ GlobalChunkIndex(vc, 0) \in Nat
       /\ GlobalChunkIndex(vc + 1, 0) = GlobalChunkIndex(vc, 0) + EdgeChunkNum(adj, vc)
  <2>1. vc \in 0 .. VertexChunkNum
    BY <1>1, VertexChunkType
  <2>. QED BY <1>1, <2>1, GlobalIndex
<1>13. CASE stays
  <2>1. Step(i) = m
    BY <1>5, <1>11, <1>13
  <2>2. row + 1 < EdgeNum(adj, vc) /\ (row + 1) \div ChunkSize = ec
    BY <1>2, <1>13
  <2>3. AtEdge(m)
    BY <1>1, <1>8, <2>2 DEF AtEdge
  <2>4. Placed(m)
    <3>1. m.num_row_of_chunk = RowsOfChunk(adj, <<m.vertex_chunk_index, m.cur_offset \div ChunkSize>>)
      BY <1>8, <2>2 DEF rows
    <3>. QED BY <1>4, <1>8, <1>9, <1>10, <2>3, <3>1 DEF Placed
  <2>. QED BY <1>8, <1>10, <2>1, <2>4 DEF Advanced
<1>14. CASE rows = ChunkSize /\ mod = 0
  <2>. DEFINE c == CountRows(m)
              j == [c EXCEPT !.global_chunk_index = c.global_chunk_index + 1]
  <2>1. row + 1 < EdgeNum(adj, vc) /\ (row + 1) \div ChunkSize = ec + 1
    BY <1>2, <1>14
  <2>2. /\ c \in Iters /\ ~c.broken /\ SamePlace(c, m) /\ c.unread = m.unread
        /\ c.property_reader = m.property_reader
        /\ Settled(adj, c.adj_list_reader)
        /\ c.adj_list_reader.vertex_chunk_index = vc
        /\ c.num_row_of_chunk = RowsOfChunk(adj, <<vc, ec + 1>>)
    BY <1>1, <1>4, <1>8, <2>1, CountRowsSettled
  <2>3. Step(i) = j
    <3>1. Step(i) = [c EXCEPT !.global_chunk_index = @ + 1]
      BY <1>5, <1>11, <1>14 DEF EnterChunk
    <3>. HIDE DEF c
    <3>. QED BY <2>2, <3>1 DEF Iters
  <2>. HIDE DEF c
  <2>4. /\ j \in Iters /\ ~j.broken /\ j.unread = left
        /\ j.property_reader = i.property_reader /\ j.adj_list_reader = c.adj_list_reader
        /\ j.num_row_of_chunk = RowsOfChunk(adj, <<vc, ec + 1>>)
        /\ j.global_chunk_index = c.global_chunk_index + 1
        /\ j.vertex_chunk_index = c.vertex_chunk_index /\ j.cur_offset = c.cur_offset
    <3>1. c.global_chunk_index + 1 \in Nat
      BY <2>2 DEF Iters
    <3>. QED BY <1>8, <2>2, <3>1 DEF Iters
  <2>. HIDE DEF j
  <2>5. /\ j.global_chunk_index = GlobalChunkIndex(vc, ec) + 1
        /\ j.vertex_chunk_index = vc /\ j.cur_offset = row + 1
    BY <1>8, <2>2, <2>4 DEF SamePlace
  <2>6. GlobalChunkIndex(vc, ec) + 1 = GlobalChunkIndex(vc, ec + 1)
    <3>. DEFINE g == GlobalChunkIndex(vc, 0)
    <3>1. ec \in Nat /\ ec + 1 \in Nat
      BY <1>1
    <3>2. /\ g \in Nat /\ GlobalChunkIndex(vc, ec) = g + ec
          /\ GlobalChunkIndex(vc, ec + 1) = g + (ec + 1)
      BY <1>12, <3>1, Zenon
    <3>. HIDE DEF g
    <3>. QED BY <3>1, <3>2
  <2>7. ReadersSettled(j)
    BY <1>1, <2>2, <2>4 DEF ReadersSettled
  <2>8. AtEdge(j)
    BY <1>1, <2>1, <2>5, <2>6 DEF AtEdge
  <2>9. Placed(j)
    BY <1>10, <2>1, <2>2, <2>4, <2>5, <2>7, <2>8 DEF Placed
  <2>. QED BY <1>10, <2>3, <2>4, <2>5, <2>9 DEF Advanced
<1>15. CASE rows # ChunkSize /\ mod >= rows
  <2>. DEFINE last == ((row + 1) \div ChunkSize + 1) * ChunkSize
              a == [m EXCEPT !.cur_offset = last]
              b == SeekReader(a)
              j == LeaveVertexChunk(b)
  <2>1. row + 1 = EdgeNum(adj, vc) /\ ec + 1 = EdgeChunkNum(adj, vc)
    BY <1>2, <1>15
  <2>2. Step(i) = j
    BY <1>5, <1>8, <1>11, <1>15
  <2>3. (row + 1) \div ChunkSize + 1 = EdgeChunkNum(adj, vc)
    <3>1. EdgeChunkNum(adj, vc) = (row + 1) \div ChunkSize + 1
      BY <1>1, <2>1, RowsOfVertexChunk
    <3>. QED BY <3>1
  <2>4. last \in Nat /\ last \div ChunkSize = EdgeChunkNum(adj, vc)
    <3>. DEFINE n == EdgeChunkNum(adj, vc)
    <3>1. last = n * ChunkSize
      BY <2>3, Zenon
    <3>. HIDE DEF last, n
    <3>2. n \in Nat /\ ChunkSize \in Nat \ {0}
      BY <1>1 DEF n
    <3>3. n * ChunkSize = n * ChunkSize + 0 /\ n * ChunkSize \in Nat /\ 0 \in 0 .. ChunkSize - 1
      BY <3>2
    <3>4. (n * ChunkSize + 0) \div ChunkSize = n
      BY <3>2, <3>3, DivUnique
    <3>5. last \in Nat /\ last \div ChunkSize = n
      BY <3>1, <3>3, <3>4
    <3>. QED BY <3>5 DEF n
  <2>. HIDE DEF last
  <2>5. /\ a \in Iters /\ a.cur_offset = last /\ a.unread = left
        /\ a.global_chunk_index = GlobalChunkIndex(vc, ec) /\ a.vertex_chunk_index = vc
        /\ a.property_reader = i.property_reader /\ a.adj_list_reader = seek.reader
        /\ a.broken = FALSE
    BY <1>8, <2>4 DEF Iters
  <2>. HIDE DEF a
  <2>6. ReadersSettled(a)
    BY <1>1, <1>4, <2>5 DEF ReadersSettled
  <2>7. /\ ReadersSettled(b) /\ SamePlace(b, a)
        /\ b.adj_list_reader.seek_offset = a.cur_offset
        /\ b.adj_list_reader.vertex_chunk_index = a.adj_list_reader.vertex_chunk_index
        /\ b.property_reader = a.property_reader /\ b.unread = a.unread
    BY <2>6, SeekReaderSettled
  <2>. HIDE DEF b
  <2>8. ~(b.adj_list_reader.chunk_index + 1 < EdgeChunkNum(adj, vc))
    <3>1. b.adj_list_reader.chunk_index = EdgeChunkNum(adj, vc)
      BY <2>4, <2>5, <2>7 DEF ReadersSettled, Settled
    <3>. QED BY <1>1, <3>1
  <2>9. b.global_chunk_index + 1 = GlobalChunkIndex(vc + 1, 0)
    BY <1>1, <1>12, <2>1, <2>5, <2>7 DEF SamePlace
  <2>10. ~b.unread => /\ b.property_reader.vertex_chunk_index = vc
                      /\ ~(b.property_reader.chunk_index + 1 < EdgeChunkNum(adj, vc))
    <3>. SUFFICES ASSUME ~b.unread
                  PROVE  /\ b.property_reader.vertex_chunk_index = vc
                         /\ ~(b.property_reader.chunk_index + 1 < EdgeChunkNum(adj, vc))
      OBVIOUS
    <3>1. /\ i.property_reader.vertex_chunk_index = vc
          /\ i.property_reader.seek_offset = row /\ b.property_reader = i.property_reader
      BY <1>10, <2>5, <2>7
    <3>2. b.property_reader.chunk_index = ec
      BY <2>7, <3>1 DEF ReadersSettled, Settled, ec
    <3>. QED BY <1>1, <2>1, <3>1, <3>2
  <2>11. b.vertex_chunk_index = vc /\ b.adj_list_reader.vertex_chunk_index = vc
         /\ b.property_reader.vertex_chunk_index <= vc /\ b.unread = left
    BY <1>4, <1>10, <2>5, <2>7 DEF SamePlace
  <2>12. /\ vc + 1 = range[2] => Ended(j)
         /\ vc + 1 # range[2] =>
               Placed(j) /\ j.vertex_chunk_index = vc + 1 /\ j.cur_offset = 0
         /\ j.unread = b.unread
    BY <1>1, <2>7, <2>8, <2>9, <2>10, <2>11, LeaveSettled
  <2>. HIDE DEF j
  <2>. QED BY <1>10, <2>1, <2>2, <2>11, <2>12 DEF Advanced
<1>. QED BY <1>13, <1>14, <1>15

\* operator++
LEMMA IncrementAdvances ==
    ASSUME Static, NEW i, Placed(i)
    PROVE  LET j == Increment(i)
           IN  /\ Advanced(j, i)
               /\ ~i.unread /\ i.property_reader.seek_offset = i.cur_offset => ~j.unread
<1>. DEFINE vc == i.vertex_chunk_index
            row == i.cur_offset
            k == SeekReader(i)
            c == CountRows(k)
<1>1. CASE i.num_row_of_chunk # 0
  <2>1. Increment(i) = Step(i)
    BY <1>1 DEF Increment
  <2>. QED BY <1>1, <2>1, StepAdvances DEF Placed
<1>2. CASE i.num_row_of_chunk = 0
  <2>1. Increment(i) = Step(c)
    BY <1>2 DEF Increment
  <2>2. /\ ReadersSettled(k) /\ SamePlace(k, i) /\ k.adj_list_reader.seek_offset = row
        /\ k.adj_list_reader.vertex_chunk_index = vc
        /\ k.property_reader = i.property_reader /\ k.unread = i.unread
    BY SeekReaderSettled DEF Placed
  <2>. HIDE DEF k
  <2>3. vc \in VertexChunks /\ row \in Nat /\ row < EdgeNum(adj, vc)
    BY RangeType DEF Placed, AtEdge, ReadersSettled, Iters
  <2>4. /\ c \in Iters /\ ~c.broken /\ SamePlace(c, k) /\ c.unread = k.unread
        /\ c.property_reader = k.property_reader
        /\ Settled(adj, c.adj_list_reader)
        /\ c.adj_list_reader.vertex_chunk_index = vc
        /\ c.num_row_of_chunk = RowsOfChunk(adj, <<vc, row \div ChunkSize>>)
    BY <2>2, <2>3, CountRowsSettled DEF ReadersSettled
  <2>. HIDE DEF c
  <2>5. ReadersSettled(c) /\ SamePlace(c, i)
    BY <2>2, <2>4 DEF ReadersSettled, SamePlace
  <2>6. Placed(c)
    BY <2>2, <2>4, <2>5 DEF Placed, AtEdge, SamePlace
  <2>7. c.vertex_chunk_index = vc /\ c.cur_offset = row
        /\ c.property_reader = i.property_reader /\ c.unread = i.unread
    BY <2>2, <2>4, <2>5 DEF SamePlace
  <2>8. /\ Advanced(Step(c), c)
        /\ ~c.unread /\ c.property_reader.seek_offset = c.cur_offset => ~Step(c).unread
    BY <2>4, <2>6, <2>7, StepAdvances
  <2>9. Advanced(Step(c), i)
    BY <2>7, <2>8 DEF Advanced
  <2>. QED BY <2>1, <2>7, <2>8, <2>9
<1>. QED BY <1>1, <1>2

------------------------------------------------------------------------------
(* The position in the sequence of the edges.                               *)

Rows == [vc \in VertexChunks |-> EdgeNum(adj, vc)]

\* The edges of the collection before a vertex chunk.
Off(vc) == PileUpTo(range[1], vc, Rows)

Place(i) == IF IsEnd(i) THEN Off(range[2]) ELSE Off(i.vertex_chunk_index) + i.cur_offset

\* The positions at which the vertex chunks of the range begin.
LEMMA OffType ==
    ASSUME Static
    PROVE  /\ Off(range[1]) = 0
           /\ \A vc \in range[1] .. range[2] : Off(vc) \in Nat
           /\ \A vc \in range[1] .. range[2] - 1 :
                 Off(vc + 1) = Off(vc) + EdgeNum(adj, vc) /\ EdgeNum(adj, vc) \in Nat
           /\ \A a, b \in range[1] .. range[2] : a <= b => Off(a) <= Off(b)
           /\ \A a, b \in range[1] .. range[2] : a < b => Off(a) + EdgeNum(adj, a) <= Off(b)
           /\ \A p \in Nat : p < Off(range[2]) =>
                 \E vc \in range[1] .. range[2] - 1 : \E row \in Nat :
                     row < EdgeNum(adj, vc) /\ p = Off(vc) + row
<1>. DEFINE lo == range[1]
            hi == range[2]
            m == Rows
            U(vc) == PileUpTo(lo, vc, m)
<1>1. /\ lo \in Nat /\ hi \in Nat /\ lo <= hi
      /\ \A vc \in lo .. hi - 1 : m[vc] = EdgeNum(adj, vc) /\ m[vc] \in Nat
  <2>1. \A vc \in lo .. hi - 1 : vc \in VertexChunks
    BY RangeType
  <2>2. \A vc \in VertexChunks : EdgeNum(adj, vc) \in Nat
    BY EdgeChunkType DEF Static
  <2>3. lo \in Nat /\ hi \in Nat /\ lo <= hi
    BY RangeType
  <2>. HIDE DEF lo, hi
  <2>. QED BY <2>1, <2>2, <2>3 DEF Rows
<1>. HIDE DEF lo, hi, m
<1>2. \A c \in lo .. hi - 1 : m[c] \in Nat
  BY <1>1
<1>3. /\ U(lo) = 0
      /\ \A vc \in lo .. hi : U(vc) \in Nat
      /\ \A vc \in lo .. hi - 1 : U(vc + 1) = U(vc) + m[vc]
  <2>1. lo \in Nat /\ hi \in Nat
    BY <1>1
  <2>2. /\ U(lo) = 0
        /\ \A vc \in lo .. hi : U(vc) \in Nat /\ IsFiniteSet(Pile(lo .. vc - 1, m))
        /\ \A vc \in lo .. hi - 1 : U(vc + 1) = U(vc) + m[vc]
    <3>1. Growth(lo, hi, m)
      BY <1>2, <2>1, PileGrows
    <3>. QED BY <3>1 DEF Growth
  <2>. HIDE DEF U
  <2>. QED BY <2>2
<1>4. /\ \A a, b \in lo .. hi : a <= b => U(a) <= U(b)
      /\ \A a, b \in lo .. hi : a < b => U(a) + m[a] <= U(b)
  BY <1>1, <1>2, PileMonotone
<1>5. \A p \in Nat : p < U(hi) =>
          \E vc \in lo .. hi - 1 : U(vc) <= p /\ p < U(vc) + m[vc]
  BY <1>1, <1>2, PileColumn
<1>. HIDE DEF U
<1>6. ASSUME NEW p \in Nat, p < U(hi)
      PROVE  \E vc \in lo .. hi - 1 : \E row \in Nat : row < EdgeNum(adj, vc) /\ p = U(vc) + row
  <2>1. PICK vc \in lo .. hi - 1 : U(vc) <= p /\ p < U(vc) + m[vc]
    BY <1>5, <1>6
  <2>2. U(vc) \in Nat /\ m[vc] = EdgeNum(adj, vc) /\ m[vc] \in Nat
    BY <1>1, <1>3
  <2>3. p - U(vc) \in Nat /\ p - U(vc) < EdgeNum(adj, vc) /\ p = U(vc) + (p - U(vc))
    BY <2>1, <2>2
  <2>. QED BY <2>3
<1>7. \A a, b \in lo .. hi : a < b => U(a) + EdgeNum(adj, a) <= U(b)
  <2>1. \A a, b \in lo .. hi : a < b => a \in lo .. hi - 1
    BY <1>1
  <2>. QED BY <1>1, <1>4, <2>1
<1>8. \A vc \in lo .. hi - 1 : U(vc + 1) = U(vc) + EdgeNum(adj, vc) /\ EdgeNum(adj, vc) \in Nat
  BY <1>1, <1>3
<1>9. \A vc : Off(vc) = U(vc)
  BY DEF Off, U, lo, m
<1>10. /\ Off(lo) = 0
       /\ \A vc \in lo .. hi : Off(vc) \in Nat
       /\ \A vc \in lo .. hi - 1 : Off(vc + 1) = Off(vc) + EdgeNum(adj, vc) /\ EdgeNum(adj, vc) \in Nat
       /\ \A a, b \in lo .. hi : a <= b => Off(a) <= Off(b)
       /\ \A a, b \in lo .. hi : a < b => Off(a) + EdgeNum(adj, a) <= Off(b)
       /\ \A p \in Nat : p < Off(hi) =>
             \E vc \in lo .. hi - 1 : \E row \in Nat :
                 row < EdgeNum(adj, vc) /\ p = Off(vc) + row
  BY <1>3, <1>4, <1>6, <1>7, <1>8, <1>9
<1>. QED BY <1>10 DEF lo, hi

\* The sequence of the edges.
LEMMA EdgesShape ==
    ASSUME Static
    PROVE  /\ Edges \in Seq(VertexIds) /\ Len(Edges) = Off(range[2])
           /\ \A vc \in range[1] .. range[2] - 1 : \A row \in Nat :
                 row < EdgeNum(adj, vc) =>
                     /\ Off(vc) + row + 1 \in 1 .. Len(Edges)
                     /\ Edges[Off(vc) + row + 1] = adj[vc][row + 1]
<1>. DEFINE lo == range[1]
            n == range[2] - range[1]
            seqs == [k \in 1 .. n |-> adj[lo + k - 1]]
<1>1. /\ lo \in Nat /\ n \in Nat \ {0} /\ range[2] = lo + n
      /\ \A k \in 1 .. n : lo + k - 1 \in VertexChunks /\ lo + k - 1 \in range[1] .. range[2] - 1
  BY RangeType
<1>2. adj \in [VertexChunks -> Seq(VertexIds)]
  BY DEF Static, AdjLists
<1>3. seqs \in [1 .. n -> Seq(VertexIds)]
  BY <1>1, <1>2
<1>4. Edges = FlattenSeq(seqs)
  BY DEF Edges
<1>5. PICK F \in [0 .. n -> Seq(VertexIds)] :
          /\ F[0] = <<>>
          /\ \A k \in 1 .. n : F[k] = F[k - 1] \o seqs[k]
          /\ FlattenSeq(seqs) = F[n]
  <2>1. n \in Nat \ {0}
    BY <1>1
  <2>. HIDE DEF n, seqs
  <2>2. \E F \in [0 .. n -> Seq(VertexIds)] : Joins(F, n, seqs)
    BY <1>3, <2>1, FlattenShape
  <2>. QED BY <2>2 DEF Joins
<1>6. /\ Off(lo) = 0
      /\ \A k \in 0 .. n : Off(lo + k) \in Nat
      /\ \A k \in 1 .. n : Off(lo + k) = Off(lo + k - 1) + EdgeNum(adj, lo + k - 1)
  <2>1. \A k \in 0 .. n : lo + k \in range[1] .. range[2]
    BY <1>1
  <2>2. \A k \in 1 .. n : (lo + k - 1) + 1 = lo + k
    BY <1>1
  <2>. HIDE DEF n
  <2>3. \A k \in 1 .. n : Off((lo + k - 1) + 1) = Off(lo + k - 1) + EdgeNum(adj, lo + k - 1)
    BY <1>1, OffType
  <2>4. \A k \in 0 .. n : Off(lo + k) \in Nat
    BY <2>1, OffType
  <2>5. Off(lo) = 0
    BY OffType
  <2>. HIDE DEF lo
  <2>. QED BY <2>2, <2>3, <2>4, <2>5
<1>7. \A k \in 1 .. n : seqs[k] = adj[lo + k - 1] /\ Len(seqs[k]) = EdgeNum(adj, lo + k - 1)
  BY DEF EdgeNum
<1>. HIDE DEF lo, n, seqs
<1>. DEFINE Right(k) ==
              /\ Len(F[k]) = Off(lo + k)
              /\ \A j \in 1 .. k : \A row \in Nat :
                    row < Len(seqs[j]) =>
                        /\ Off(lo + j - 1) + row + 1 \in 1 .. Len(F[k])
                        /\ F[k][Off(lo + j - 1) + row + 1] = seqs[j][row + 1]
            Good == {k \in Nat : k \in 0 .. n => Right(k)}
<1>8. 0 \in Good
  <2>1. Len(F[0]) = Off(lo + 0)
    BY <1>1, <1>5, <1>6
  <2>. QED BY <1>1, <2>1
<1>9. ASSUME NEW k \in Nat, k \in Good PROVE k + 1 \in Good
  <2>. SUFFICES ASSUME k + 1 \in 0 .. n PROVE Right(k + 1)
    OBVIOUS
  <2>1. k \in 0 .. n /\ k + 1 \in 1 .. n /\ (k + 1) - 1 = k /\ lo + (k + 1) - 1 = lo + k
    BY <1>1
  <2>2. Right(k)
    BY <1>9, <2>1
  <2>. DEFINE s == F[k]
              t == seqs[k + 1]
              u == F[k + 1]
  <2>3. /\ s \in Seq(VertexIds) /\ t \in Seq(VertexIds) /\ u = s \o t
        /\ Len(s) = Off(lo + k)
        /\ Off(lo + (k + 1)) = Off(lo + k) + Len(t)
    <3>1. F[k + 1] = F[(k + 1) - 1] \o seqs[k + 1]
      BY <1>5, <2>1
    <3>2. Off(lo + (k + 1)) = Off(lo + (k + 1) - 1) + EdgeNum(adj, lo + (k + 1) - 1)
      BY <1>6, <2>1
    <3>3. Len(t) = EdgeNum(adj, lo + (k + 1) - 1)
      BY <1>7, <2>1
    <3>4. s \in Seq(VertexIds) /\ t \in Seq(VertexIds)
      BY <1>3, <1>5, <2>1
    <3>5. Off(lo + (k + 1)) = Off(lo + k) + Len(t)
      BY <2>1, <3>2, <3>3
    <3>. QED BY <2>1, <2>2, <3>1, <3>4, <3>5
  <2>. HIDE DEF s, t, u
  <2>4. /\ Len(u) = Len(s) + Len(t) /\ Len(s) \in Nat /\ Len(t) \in Nat
        /\ \A p \in 1 .. Len(s) : u[p] = s[p]
        /\ \A p \in 1 .. Len(t) : u[Len(s) + p] = t[p]
    <3>1. s \in Seq(VertexIds) /\ t \in Seq(VertexIds) /\ u = s \o t
      BY <2>3
    <3>. QED BY <3>1
  <2>5. Len(u) = Off(lo + (k + 1))
    BY <2>3, <2>4
  <2>6. ASSUME NEW j \in 1 .. k + 1, NEW row \in Nat, row < Len(seqs[j])
        PROVE  /\ Off(lo + j - 1) + row + 1 \in 1 .. Len(u)
               /\ u[Off(lo + j - 1) + row + 1] = seqs[j][row + 1]
    <3>1. CASE j = k + 1
      <4>1. Off(lo + j - 1) = Len(s) /\ seqs[j] = t
        BY <2>1, <2>3, <3>1 DEF t
      <4>2. row + 1 \in 1 .. Len(t) /\ Len(s) + row + 1 = Len(s) + (row + 1)
        BY <2>4, <2>6, <4>1
      <4>3. Len(s) + (row + 1) \in 1 .. Len(u)
        BY <2>4, <4>2
      <4>. QED BY <2>4, <4>1, <4>2, <4>3
    <3>2. CASE j # k + 1
      <4>1. j \in 1 .. k
        BY <3>2
      <4>. DEFINE p == Off(lo + j - 1) + row + 1
      <4>2. p \in 1 .. Len(s) /\ s[p] = seqs[j][row + 1]
        BY <2>2, <2>6, <4>1 DEF s
      <4>. HIDE DEF p
      <4>3. p \in 1 .. Len(u) /\ u[p] = s[p]
        BY <2>4, <4>2
      <4>. QED BY <4>2, <4>3 DEF p
    <3>. QED BY <3>1, <3>2
  <2>. QED BY <2>5, <2>6 DEF u
<1>10. Nat \subseteq Good
  <2>. HIDE DEF Good
  <2>. QED BY <1>8, <1>9, SetInduction
<1>11. Right(n)
  BY <1>1, <1>10
<1>12. Edges = F[n] /\ Edges \in Seq(VertexIds) /\ Len(Edges) = Off(range[2])
  BY <1>1, <1>4, <1>5, <1>11
<1>13. ASSUME NEW vc \in range[1] .. range[2] - 1, NEW row \in Nat, row < EdgeNum(adj, vc)
       PROVE  /\ Off(vc) + row + 1 \in 1 .. Len(Edges)
              /\ Edges[Off(vc) + row + 1] = adj[vc][row + 1]
  <2>. DEFINE j == vc - lo + 1
  <2>1. j \in 1 .. n /\ lo + j - 1 = vc
    <3>1. vc \in Nat /\ lo <= vc /\ vc < lo + n
      <4>1. vc \in lo .. (lo + n) - 1
        BY <1>1 DEF lo
      <4>. QED BY <1>1, <4>1
    <3>. QED BY <1>1, <3>1
  <2>. HIDE DEF j
  <2>2. seqs[j] = adj[vc] /\ Len(seqs[j]) = EdgeNum(adj, vc)
    BY <1>7, <2>1
  <2>. QED BY <1>11, <1>12, <1>13, <2>1, <2>2
<1>. QED BY <1>12, <1>13

\* The position of an iterator at an edge is that of the edge.
LEMMA PlaceOfPlaced ==
    ASSUME Static, NEW i, Placed(i)
    PROVE  /\ ~IsEnd(i) /\ ~Equal(i, end)
           /\ i.vertex_chunk_index \in Nat /\ i.cur_offset \in Nat
           /\ Place(i) = Off(i.vertex_chunk_index) + i.cur_offset
           /\ Place(i) \in Nat /\ Place(i) < Len(Edges)
           /\ Edges[Place(i) + 1] = adj[i.vertex_chunk_index][i.cur_offset + 1]
<1>. DEFINE vc == i.vertex_chunk_index
            row == i.cur_offset
            ec == row \div ChunkSize
            G(c) == GlobalChunkIndex(c, 0)
<1>1. /\ vc \in range[1] .. range[2] - 1 /\ vc \in VertexChunks /\ vc \in Nat
      /\ row \in Nat /\ row < EdgeNum(adj, vc)
      /\ i.global_chunk_index = GlobalChunkIndex(vc, ec)
      /\ adj \in AdjLists /\ PartialEnds(adj)
  BY RangeType DEF Static, Placed, AtEdge, ReadersSettled, Iters
<1>2. ec \in Nat /\ ec < EdgeChunkNum(adj, vc) /\ EdgeChunkNum(adj, vc) \in Nat
  <2>1. row \in 0 .. EdgeNum(adj, vc)
    BY <1>1, RowsOfVertexChunk
  <2>. QED BY <1>1, <2>1, RowsOfVertexChunk, DivType, LayoutAssumption
<1>3. /\ i.global_chunk_index = G(vc) + ec
      /\ G(vc) \in Nat /\ G(range[2]) \in Nat
      /\ G(vc) + EdgeChunkNum(adj, vc) <= G(range[2])
      /\ collection.chunk_end = G(range[2])
  <2>1. vc \in 0 .. VertexChunkNum /\ range[2] \in 0 .. VertexChunkNum /\ vc < range[2]
    BY <1>1, RangeType, VertexChunkType
  <2>. QED BY <1>1, <1>2, <2>1, GlobalIndex
<1>. HIDE DEF G
<1>4. i.global_chunk_index < collection.chunk_end
  BY <1>2, <1>3
<1>5. ~IsEnd(i)
  BY <1>2, <1>3, <1>4 DEF IsEnd
<1>6. ~Equal(i, end)
  <2>1. end.global_chunk_index = collection.chunk_end
    BY EndIsEnded DEF Ended
  <2>. QED BY <1>2, <1>3, <1>4, <2>1 DEF Equal
<1>7. /\ Off(vc) + row + 1 \in 1 .. Len(Edges)
      /\ Edges[Off(vc) + row + 1] = adj[vc][row + 1]
  BY <1>1, EdgesShape
<1>8. Off(vc) \in Nat /\ Len(Edges) \in Nat
  <2>1. vc \in range[1] .. range[2]
    BY <1>1, RangeType
  <2>. QED BY <2>1, OffType, EdgesShape
<1>9. Place(i) = Off(vc) + row
  BY <1>5 DEF Place
<1>. HIDE DEF vc, row
<1>10. Place(i) \in Nat /\ Place(i) < Len(Edges)
  BY <1>1, <1>7, <1>8, <1>9
<1>. QED BY <1>1, <1>5, <1>6, <1>7, <1>9, <1>10 DEF vc, row

\* The position of an iterator at the end is behind the last edge.
LEMMA PlaceOfEnded ==
    ASSUME Static, NEW i, Ended(i)
    PROVE  IsEnd(i) /\ Equal(i, end) /\ Place(i) = Len(Edges) /\ Place(i) \in Nat
<1>1. collection.chunk_end \in Nat
  BY RangeType, GlobalIndex
<1>2. IsEnd(i)
  BY <1>1 DEF IsEnd, Ended
<1>3. Equal(i, end)
  BY EndIsEnded DEF Ended, Equal
<1>. QED BY <1>2, <1>3, EdgesShape DEF Place

\* ++ moves to the next position.
LEMMA PlaceAdvances ==
    ASSUME Static, NEW i, Placed(i), NEW j, Advanced(j, i)
    PROVE  Place(j) = Place(i) + 1 /\ (Placed(j) \/ Ended(j))
<1>. DEFINE vc == i.vertex_chunk_index
            row == i.cur_offset
<1>1. Place(i) = Off(vc) + row /\ vc \in Nat /\ row \in Nat
  BY PlaceOfPlaced
<1>2. vc \in range[1] .. range[2] - 1
  BY DEF Placed, AtEdge
<1>3. Off(vc) \in Nat /\ Off(vc + 1) = Off(vc) + EdgeNum(adj, vc) /\ EdgeNum(adj, vc) \in Nat
  BY <1>2, OffType, RangeType
<1>. HIDE DEF vc, row
<1>4. CASE Placed(j) /\ j.vertex_chunk_index = vc /\ j.cur_offset = row + 1
  <2>1. Place(j) = Off(vc) + (row + 1)
    BY <1>4, PlaceOfPlaced
  <2>. QED BY <1>1, <1>3, <1>4, <2>1
<1>5. CASE row + 1 = EdgeNum(adj, vc) /\ Placed(j) /\ j.vertex_chunk_index = vc + 1 /\ j.cur_offset = 0
  <2>1. Place(j) = Off(vc + 1) + 0
    BY <1>5, PlaceOfPlaced
  <2>. QED BY <1>1, <1>3, <1>5, <2>1
<1>6. CASE row + 1 = EdgeNum(adj, vc) /\ Ended(j) /\ vc + 1 = range[2]
  <2>1. Place(j) = Off(vc + 1)
    BY <1>6, PlaceOfEnded, EdgesShape
  <2>. QED BY <1>1, <1>3, <1>6, <2>1
<1>. QED BY <1>4, <1>5, <1>6 DEF Advanced, vc, row

\* An iterator at the same place.
LEMMA PlaceOfSame ==
    ASSUME NEW i, NEW j, SamePlace(j, i)
    PROVE  Place(j) = Place(i)
BY DEF SamePlace, Place, IsEnd

\* As many rounds as there are edges are enough.
LEMMA EnoughRounds ==
    ASSUME Static
    PROVE  EdgesIn(VertexChunks) \in Nat /\ Len(Edges) <= EdgesIn(VertexChunks)
<1>. DEFINE whole == Pile(0 .. VertexChunkNum - 1, Rows)
            part == Pile(range[1] .. range[2] - 1, Rows)
<1>1. /\ VertexChunks = 0 .. VertexChunkNum - 1 /\ VertexChunkNum \in Nat
      /\ \A vc \in VertexChunks : Rows[vc] = EdgeNum(adj, vc) /\ Rows[vc] \in Nat
  BY VertexChunkType, EdgeChunkType DEF VertexChunks, Rows, Static
<1>2. IsFiniteSet(whole)
  <2>1. \A c \in 0 .. VertexChunkNum - 1 : Rows[c] \in Nat
    BY <1>1
  <2>2. 0 \in Nat /\ VertexChunkNum \in Nat /\ VertexChunkNum \in 0 .. VertexChunkNum
    BY <1>1
  <2>3. Growth(0, VertexChunkNum, Rows)
    BY <2>1, <2>2, PileGrows
  <2>. QED BY <2>2, <2>3 DEF Growth
<1>3. EdgesIn(VertexChunks) = Cardinality(whole)
  <2>1. UNION {{vc} \X (1 .. EdgeNum(adj, vc)) : vc \in VertexChunks} = whole
    BY <1>1 DEF Pile
  <2>. QED BY <2>1 DEF EdgesIn
<1>4. part \subseteq whole
  <2>1. range[1] .. range[2] - 1 \subseteq 0 .. VertexChunkNum - 1
    BY RangeType, VertexChunkType DEF VertexChunks
  <2>. QED BY <2>1 DEF Pile
<1>5. Len(Edges) = Cardinality(part)
  BY EdgesShape DEF Off, PileUpTo
<1>. HIDE DEF whole, part
<1>6. Cardinality(part) <= Cardinality(whole) /\ Cardinality(whole) \in Nat
  BY <1>2, <1>4, FS_Subset, FS_CardinalityType
<1>. QED BY <1>3, <1>5, <1>6

------------------------------------------------------------------------------
(* The loops.                                                               *)

\* Where a loop may look for an edge, and what it has seen there.
Starts(loop, i) == Ended(i) \/ (Placed(i) /\ (loop = "find" => ~i.unread))

Seen(loop, j) ==
    \/ Ended(j)
    \/ /\ Placed(j) /\ Loaded(j)
       /\ loop = "find" => ~j.unread /\ j.property_reader.seek_offset = j.cur_offset

\* What source or destination returns is the endpoint of the edge at the position.
LEMMA VertexSeen ==
    ASSUME Static, NEW loop, NEW j, Seen(loop, j), Placed(j)
    PROVE  VertexOf(j) = Edges[Place(j) + 1]
<1>1. ~Ended(j)
  BY PlaceOfPlaced, PlaceOfEnded
<1>2. Loaded(j)
  BY <1>1 DEF Seen
<1>3. VertexOf(j) = adj[j.vertex_chunk_index][j.cur_offset + 1]
  BY <1>2 DEF VertexOf, Loaded
<1>. QED BY <1>3, PlaceOfPlaced

\* A look at an edge.
LEMMA LookSees ==
    ASSUME Static, NEW loop, NEW i, Starts(loop, i)
    PROVE  LET over == AtEnd(loop, i) \/ i.broken
               look == IF over THEN i ELSE Visit(loop, i)
           IN  /\ Seen(loop, look) /\ Place(look) = Place(i)
               /\ Ended(i) => over
               /\ Placed(i) => ~over /\ Placed(look)
<1>1. CASE Ended(i)
  <2>1. AtEnd(loop, i) /\ ~Placed(i)
    BY <1>1, PlaceOfEnded, PlaceOfPlaced DEF AtEnd
  <2>. QED BY <1>1, <2>1 DEF Seen
<1>2. CASE Placed(i) /\ (loop = "find" => ~i.unread)
  <2>1. ~AtEnd(loop, i) /\ ~i.broken /\ ~Ended(i)
    BY <1>2, PlaceOfPlaced, PlaceOfEnded DEF AtEnd, Placed, ReadersSettled
  <2>. DEFINE look == Visit(loop, i)
  <2>2. CASE loop = "find"
    <3>1. look = Dereference(i)
      BY <2>2 DEF Visit
    <3>2. Placed(look) /\ Loaded(look) /\ SamePlace(look, i) /\ ~look.unread
          /\ look.property_reader.seek_offset = look.cur_offset
      BY <1>2, <2>2, <3>1, DereferencePlaced
    <3>. HIDE DEF look
    <3>. QED BY <2>1, <3>2, PlaceOfSame DEF Seen, look
  <2>3. CASE loop # "find"
    <3>1. look = Read(i)
      BY <2>3 DEF Visit
    <3>2. Placed(look) /\ Loaded(look) /\ SamePlace(look, i)
      BY <1>2, <3>1, ReadPlaced
    <3>. HIDE DEF look
    <3>. QED BY <2>1, <2>3, <3>2, PlaceOfSame DEF Seen, look
  <2>. QED BY <2>2, <2>3
<1>. QED BY <1>1, <1>2 DEF Starts

\* Where a loop stops: behind no edge of v, at one, at the end, or behind the last vertex
\* chunk it may enter.
LEMMA WalkStops ==
    ASSUME Static, NEW loop, NEW i, Starts(loop, i), NEW v, NEW last
    PROVE  LET w == Walk(i, v, loop, last)
           IN  /\ Seen(loop, w.it) /\ w.found \in BOOLEAN
               /\ Place(i) <= Place(w.it)
               /\ \A p \in Place(i) .. Place(w.it) - 1 : Edges[p + 1] # v
               /\ w.found => Placed(w.it) /\ Edges[Place(w.it) + 1] = v
               /\ ~w.found =>
                     \/ Ended(w.it)
                     \/ /\ Placed(w.it) /\ Edges[Place(w.it) + 1] # v
                        /\ ChunkPassed(w.it, last)
<1>. DEFINE Over(j) == AtEnd(loop, j) \/ j.broken
            Look(j) == IF Over(j) THEN j ELSE Visit(loop, j)
            Hit(j) == ~Over(j) /\ VertexOf(j) = v
            Stop(j) == Over(j) \/ Hit(j) \/ ChunkPassed(j, last)
            Go(j) == IF Stop(j) THEN j ELSE Look(Increment(j))
            start == Place(i)
            Passed(j) == \A p \in start .. Place(j) - 1 : Edges[p + 1] # v
            Walked(j, n) == /\ Seen(loop, j) /\ start <= Place(j) /\ Passed(j)
                            /\ Place(j) = start + n \/ Stop(j)
            rounds == EdgesIn(VertexChunks)
<1>1. /\ start \in Nat /\ rounds \in Nat /\ Len(Edges) <= rounds /\ Len(Edges) \in Nat
  BY EnoughRounds, EdgesShape, PlaceOfPlaced, PlaceOfEnded DEF Starts
<1>2. \A j : Seen(loop, j) => Placed(j) \/ Ended(j)
  BY DEF Seen
<1>3. \A j : Placed(j) \/ Ended(j) =>
          /\ Place(j) \in Nat /\ Place(j) <= Len(Edges)
          /\ Place(j) = Len(Edges) => Ended(j)
          /\ Ended(j) => Place(j) = Len(Edges)
  <2>. SUFFICES ASSUME NEW j, Placed(j) \/ Ended(j)
                PROVE  /\ Place(j) \in Nat /\ Place(j) <= Len(Edges)
                       /\ Place(j) = Len(Edges) => Ended(j)
                       /\ Ended(j) => Place(j) = Len(Edges)
    OBVIOUS
  <2>1. CASE Placed(j)
    <3>1. Place(j) \in Nat /\ Place(j) < Len(Edges)
      BY <2>1, PlaceOfPlaced
    <3>2. ~Ended(j)
      BY <2>1, PlaceOfPlaced, PlaceOfEnded
    <3>. QED BY <1>1, <3>1, <3>2
  <2>2. CASE Ended(j)
    <3>1. Place(j) = Len(Edges)
      BY <2>2, PlaceOfEnded
    <3>. QED BY <1>1, <2>2, <3>1
  <2>. QED BY <2>1, <2>2
<1>4. \A j : (Ended(j) => Over(j)) /\ (Placed(j) => ~Over(j))
  <2>. SUFFICES ASSUME NEW j PROVE (Ended(j) => Over(j)) /\ (Placed(j) => ~Over(j))
    OBVIOUS
  <2>1. Ended(j) => Over(j)
    BY PlaceOfEnded DEF AtEnd
  <2>2. Placed(j) => ~Over(j)
    BY PlaceOfPlaced DEF AtEnd, Placed, ReadersSettled
  <2>. QED BY <2>1, <2>2
<1>5. \A j : Seen(loop, j) /\ Placed(j) => (Hit(j) <=> Edges[Place(j) + 1] = v)
  BY <1>4, VertexSeen
<1>6. Walked(Look(i), 0)
  <2>1. Seen(loop, Look(i)) /\ Place(Look(i)) = start
    BY LookSees
  <2>. HIDE DEF Look, Stop
  <2>2. start <= Place(Look(i)) /\ Passed(Look(i)) /\ Place(Look(i)) = start + 0
    BY <1>1, <2>1
  <2>. QED BY <2>1, <2>2
<1>7. ASSUME NEW n \in Nat, NEW j, Walked(j, n)
      PROVE  Walked(Go(j), n + 1)
  <2>1. CASE Stop(j)
    <3>1. Go(j) = j
      BY <2>1
    <3>. HIDE DEF Go, Stop
    <3>. QED BY <1>7, <2>1, <3>1
  <2>2. CASE ~Stop(j)
    <3>. DEFINE k == Increment(j)
                l == Look(k)
    <3>1. Placed(j) /\ ~Ended(j)
      BY <1>2, <1>4, <1>7, <2>2
    <3>2. Advanced(k, j) /\ (~j.unread /\ j.property_reader.seek_offset = j.cur_offset => ~k.unread)
      BY <3>1, IncrementAdvances
    <3>. HIDE DEF k
    <3>3. Place(k) = Place(j) + 1 /\ (Placed(k) \/ Ended(k))
      BY <3>1, <3>2, PlaceAdvances
    <3>4. Starts(loop, k)
      <4>1. loop = "find" => ~k.unread
        BY <1>7, <3>1, <3>2 DEF Seen
      <4>. QED BY <3>3, <4>1 DEF Starts
    <3>5. Seen(loop, l) /\ Place(l) = Place(k)
      BY <3>4, LookSees
    <3>6. Go(j) = l
      BY <2>2 DEF k
    <3>7. Edges[Place(j) + 1] # v
      BY <1>5, <1>7, <2>2, <3>1
    <3>8. Place(j) = start + n /\ Passed(j) /\ start <= Place(j)
      BY <1>7, <2>2
    <3>9. Place(j) \in Nat
      BY <1>3, <3>1
    <3>. HIDE DEF l, Go, Stop
    <3>10. start <= Place(l) /\ Passed(l) /\ Place(l) = start + (n + 1)
      <4>1. Place(l) = Place(j) + 1
        BY <3>3, <3>5
      <4>2. ASSUME NEW p \in start .. Place(l) - 1 PROVE Edges[p + 1] # v
        <5>1. p \in start .. Place(j) - 1 \/ p = Place(j)
          BY <1>1, <3>9, <4>1
        <5>. HIDE DEF start
        <5>. QED BY <3>7, <3>8, <5>1
      <4>3. start <= Place(l) /\ Place(l) = start + (n + 1)
        BY <1>1, <3>8, <3>9, <4>1
      <4>. QED BY <4>2, <4>3
    <3>. QED BY <3>5, <3>6, <3>10
  <2>. QED BY <2>1, <2>2
<1>. HIDE DEF Walked
<1>8. PICK walk : /\ walk[0] = Look(i)
                  /\ \A n \in Nat \ {0} : walk[n] = Go(walk[n - 1])
                  /\ Walk(i, v, loop, last) = Found(walk[rounds], Hit(walk[rounds]))
  <2>. DEFINE S == {j \in Iters : Seen(loop, j)}
              g == [x \in Nat \X S |-> Go(x[2])]
              a == Look(i)
              Is(h) == h = [n \in Nat |-> IF n = 0 THEN Look(i) ELSE Go(h[n - 1])]
              W == CHOOSE h : Is(h)
  <2>0. \A j : Seen(loop, j) => j \in Iters
    BY <1>2 DEF Placed, Ended, ReadersSettled
  <2>1. a \in S
    BY <1>6, <2>0 DEF Walked
  <2>2. \A j \in S : Go(j) \in S
    <3>. SUFFICES ASSUME NEW j \in S PROVE Seen(loop, Go(j))
      BY <2>0
    <3>1. CASE Stop(j)
      <4>1. Go(j) = j
        BY <3>1
      <4>. HIDE DEF Go
      <4>. QED BY <4>1
    <3>2. CASE ~Stop(j)
      <4>. DEFINE k == Increment(j)
      <4>1. Placed(j) /\ ~Ended(j)
        BY <1>2, <1>4, <3>2
      <4>2. Advanced(k, j) /\ (~j.unread /\ j.property_reader.seek_offset = j.cur_offset => ~k.unread)
        BY <4>1, IncrementAdvances
      <4>. HIDE DEF k
      <4>3. Placed(k) \/ Ended(k)
        BY <4>1, <4>2, PlaceAdvances
      <4>4. loop = "find" => ~k.unread
        BY <4>1, <4>2 DEF Seen
      <4>5. Starts(loop, k)
        BY <4>3, <4>4 DEF Starts
      <4>6. Seen(loop, Look(k))
        BY <4>5, LookSees
      <4>7. Go(j) = Look(k)
        BY <3>2 DEF k
      <4>. QED BY <4>6, <4>7
    <3>. QED BY <3>1, <3>2
  <2>. HIDE DEF S, Go, Look, Hit
  <2>3. g \in [Nat \X S -> S]
    BY <2>2
  <2>4. PICK f \in [Nat -> S] : f[0] = a /\ \A n \in Nat \ {0} : f[n] = g[<<n, f[n - 1]>>]
    <3>. HIDE DEF g, a
    <3>1. \E f \in [Nat -> S] : IsRecursion(f, a, g)
      BY <2>1, <2>3, Recursion
    <3>. QED BY <3>1 DEF IsRecursion
  <2>5. \A n \in Nat : f[n] = IF n = 0 THEN Look(i) ELSE Go(f[n - 1])
    <3>. SUFFICES ASSUME NEW n \in Nat PROVE f[n] = IF n = 0 THEN Look(i) ELSE Go(f[n - 1])
      OBVIOUS
    <3>1. CASE n = 0
      BY <2>4, <3>1
    <3>2. CASE n # 0
      <4>1. n - 1 \in Nat /\ f[n - 1] \in S
        BY <3>2
      <4>2. f[n] = g[<<n, f[n - 1]>>]
        <5>. HIDE DEF g
        <5>. QED BY <2>4, <3>2
      <4>. QED BY <3>2, <4>1, <4>2
    <3>. QED BY <3>1, <3>2
  <2>6. Is(f)
    BY <2>5
  <2>7. Is(W)
    <3>. HIDE DEF Is
    <3>. QED BY <2>6 DEF W
  <2>8. Walk(i, v, loop, last) = Found(W[rounds], Hit(W[rounds]))
    BY DEF Walk, W, Is, Hit, Go, Look
  <2>. HIDE DEF W
  <2>9. W[0] = Look(i) /\ \A n \in Nat \ {0} : W[n] = Go(W[n - 1])
    BY <2>7
  <2>. QED BY <2>8, <2>9
<1>. HIDE DEF Go, Look
<1>9. Nat \subseteq {n \in Nat : Walked(walk[n], n)}
  <2>. DEFINE T == {n \in Nat : Walked(walk[n], n)}
  <2>1. 0 \in T
    BY <1>6, <1>8
  <2>2. ASSUME NEW n \in Nat, n \in T PROVE n + 1 \in T
    <3>1. n + 1 \in Nat \ {0} /\ (n + 1) - 1 = n
      OBVIOUS
    <3>2. walk[n + 1] = Go(walk[n])
      BY <1>8, <3>1
    <3>. QED BY <1>7, <2>2, <3>1, <3>2
  <2>. HIDE DEF T
  <2>3. Nat \subseteq T
    BY <2>1, <2>2, SetInduction
  <2>. QED BY <2>3 DEF T
<1>. DEFINE j == walk[rounds]
<1>10. Walked(j, rounds)
  BY <1>1, <1>9
<1>. HIDE DEF j
<1>11. /\ Seen(loop, j) /\ start <= Place(j) /\ Passed(j)
       /\ Place(j) = start + rounds \/ Stop(j)
  BY <1>10 DEF Walked
<1>12. Stop(j)
  <2>. SUFFICES ASSUME Place(j) = start + rounds PROVE Stop(j)
    BY <1>11
  <2>1. Place(j) \in Nat /\ Place(j) <= Len(Edges)
    BY <1>2, <1>3, <1>11
  <2>2. Place(j) = Len(Edges)
    BY <1>1, <2>1
  <2>3. Ended(j)
    BY <1>2, <1>3, <1>11, <2>2
  <2>. QED BY <1>4, <2>3
<1>13. Walk(i, v, loop, last) = Found(j, Hit(j))
  BY <1>8 DEF j
<1>14. /\ Walk(i, v, loop, last).it = j /\ Walk(i, v, loop, last).found = Hit(j)
  <2>. HIDE DEF Hit
  <2>. QED BY <1>13 DEF Found
<1>15. Hit(j) \in BOOLEAN
  OBVIOUS
<1>16. Hit(j) => Placed(j) /\ Edges[Place(j) + 1] = v
  BY <1>2, <1>4, <1>5, <1>11
<1>17. ~Hit(j) => \/ Ended(j)
                  \/ Placed(j) /\ Edges[Place(j) + 1] # v /\ ChunkPassed(j, last)
  BY <1>2, <1>4, <1>5, <1>11, <1>12
<1>. HIDE DEF Hit
<1>. QED BY <1>11, <1>14, <1>15, <1>16, <1>17

------------------------------------------------------------------------------
(* Where the edges of a vertex are.                                         *)

\* Positions are ordered by vertex chunk, then by row.
LEMMA PlaceOrder ==
    ASSUME Static,
           NEW a \in range[1] .. range[2] - 1, NEW r \in Nat, r < EdgeNum(adj, a),
           NEW b \in range[1] .. range[2] - 1, NEW q \in Nat, q < EdgeNum(adj, b)
    PROVE  Off(a) + r <= Off(b) + q <=> (a < b \/ (a = b /\ r <= q))
<1>1. /\ a \in range[1] .. range[2] /\ b \in range[1] .. range[2] /\ a \in Nat /\ b \in Nat
  BY RangeType
<1>. DEFINE A == Off(a)
            B == Off(b)
            m == EdgeNum(adj, a)
            n == EdgeNum(adj, b)
<1>2. /\ A \in Nat /\ B \in Nat /\ m \in Nat /\ n \in Nat
      /\ a < b => A + m <= B
      /\ b < a => B + n <= A
      /\ a = b => A = B
  BY <1>1, OffType
<1>3. r < m /\ q < n
  OBVIOUS
<1>. HIDE DEF A, B, m, n
<1>4. CASE a < b
  <2>1. A + r <= B + q
    BY <1>2, <1>3, <1>4
  <2>. QED BY <1>4, <2>1 DEF A, B
<1>5. CASE b < a
  <2>1. ~(A + r <= B + q)
    BY <1>2, <1>3, <1>5
  <2>2. ~(a < b) /\ a # b
    BY <1>1, <1>5
  <2>. QED BY <2>1, <2>2 DEF A, B
<1>6. CASE a = b
  <2>1. A + r <= B + q <=> r <= q
    BY <1>2, <1>6
  <2>2. ~(a < b)
    BY <1>1, <1>6
  <2>. QED BY <1>6, <2>1, <2>2 DEF A, B
<1>. QED BY <1>1, <1>4, <1>5, <1>6

\* An edge is in the vertex chunk of its aligned endpoint.
LEMMA HitIsAligned ==
    ASSUME Static, NEW p \in Nat, p < Len(Edges)
    PROVE  LET c == VertexChunkOf(Edges[p + 1])
           IN  /\ c \in range[1] .. range[2] - 1
               /\ \E row \in Nat : /\ row < EdgeNum(adj, c) /\ p = Off(c) + row
                                   /\ adj[c][row + 1] = Edges[p + 1]
<1>1. PICK vc \in range[1] .. range[2] - 1 :
          \E row \in Nat : row < EdgeNum(adj, vc) /\ p = Off(vc) + row
  BY OffType, EdgesShape
<1>2. PICK row \in Nat : row < EdgeNum(adj, vc) /\ p = Off(vc) + row
  BY <1>1
<1>3. Edges[Off(vc) + row + 1] = adj[vc][row + 1]
  BY <1>2, EdgesShape
<1>4. Edges[p + 1] = adj[vc][row + 1]
  BY <1>2, <1>3
<1>5. VertexChunkOf(adj[vc][row + 1]) = vc
  <2>1. vc \in VertexChunks /\ EdgeNum(adj, vc) \in Nat /\ Aligned(adj)
    BY RangeType, OffType DEF Static
  <2>2. row + 1 \in 1 .. Len(adj[vc])
    BY <1>2, <2>1 DEF EdgeNum
  <2>. QED BY <2>1, <2>2 DEF Aligned
<1>. QED BY <1>2, <1>4, <1>5

\* No edge of a vertex is behind the vertex chunk of the vertex.
LEMMA NoneBehind ==
    ASSUME Static, NEW j, Placed(j), NEW v, v \in Nat, VertexChunkOf(v) < j.vertex_chunk_index
    PROVE  \A p \in Place(j) .. Len(Edges) - 1 : Edges[p + 1] # v
<1>. SUFFICES ASSUME NEW p \in Place(j) .. Len(Edges) - 1, Edges[p + 1] = v PROVE FALSE
  OBVIOUS
<1>. DEFINE c == VertexChunkOf(v)
            vc == j.vertex_chunk_index
            row == j.cur_offset
<1>1. /\ Place(j) = Off(vc) + row /\ Place(j) \in Nat /\ vc \in range[1] .. range[2] - 1
      /\ row \in Nat /\ row < EdgeNum(adj, vc) /\ vc \in Nat
  BY PlaceOfPlaced DEF Placed, AtEdge
<1>2. p \in Nat /\ p < Len(Edges) /\ Len(Edges) \in Nat /\ Place(j) <= p
  BY <1>1, EdgesShape
<1>3. c \in range[1] .. range[2] - 1
      /\ \E r \in Nat : r < EdgeNum(adj, c) /\ p = Off(c) + r
  BY <1>2, HitIsAligned
<1>4. PICK r \in Nat : r < EdgeNum(adj, c) /\ p = Off(c) + r
  BY <1>3
<1>5. vc < c \/ (vc = c /\ row <= r)
  BY <1>1, <1>2, <1>3, <1>4, PlaceOrder
<1>6. c < vc /\ c \in Nat
  BY VertexChunkType
<1>. HIDE DEF c, vc
<1>. QED BY <1>1, <1>5, <1>6

\* A search from a position: the first edge of v, or none, and then the iterator is where
\* it was before the call or not before the position.
NoneFrom(from, v) == \A p \in from .. Len(Edges) - 1 : Edges[p + 1] # v

Reached(w, from, v) ==
    /\ w.found = TRUE /\ Placed(w.it) /\ from <= Place(w.it) /\ Edges[Place(w.it) + 1] = v
    /\ \A p \in from .. Place(w.it) - 1 : Edges[p + 1] # v

Missed(w, at, from, v) ==
    /\ w.found = FALSE /\ (Placed(w.it) \/ Ended(w.it)) /\ NoneFrom(from, v)
    /\ Place(w.it) = at \/ from <= Place(w.it)

Searched(w, at, from, v) == Reached(w, from, v) \/ Missed(w, at, from, v)

\* A loop that may go as far as the vertex chunk of the vertex.
LEMMA WalkSearches ==
    ASSUME Static, NEW loop, NEW i, Starts(loop, i), NEW v, v \in Nat,
           NEW last, \A j : Placed(j) /\ ChunkPassed(j, last)
                               => VertexChunkOf(v) < j.vertex_chunk_index
    PROVE  LET w == Walk(i, v, loop, last)
           IN  /\ \A at : Searched(w, at, Place(i), v)
               /\ Seen(loop, w.it)
               /\ (\A j : Placed(j) => ~ChunkPassed(j, last)) /\ ~w.found => Ended(w.it)
<1>. DEFINE w == Walk(i, v, loop, last)
<1>1. /\ Seen(loop, w.it) /\ w.found \in BOOLEAN
      /\ Place(i) <= Place(w.it)
      /\ \A p \in Place(i) .. Place(w.it) - 1 : Edges[p + 1] # v
      /\ w.found => Placed(w.it) /\ Edges[Place(w.it) + 1] = v
      /\ ~w.found =>
            \/ Ended(w.it)
            \/ /\ Placed(w.it) /\ Edges[Place(w.it) + 1] # v
               /\ ChunkPassed(w.it, last)
  BY WalkStops
<1>. HIDE DEF w
<1>2. w.found => Reached(w, Place(i), v)
  BY <1>1 DEF Reached
<1>3. ASSUME ~w.found PROVE NoneFrom(Place(i), v)
  <2>. SUFFICES ASSUME NEW p \in Place(i) .. Len(Edges) - 1 PROVE Edges[p + 1] # v
    BY DEF NoneFrom
  <2>1. /\ Place(i) \in Nat /\ Place(w.it) \in Nat /\ Len(Edges) \in Nat
    BY <1>1, PlaceOfPlaced, PlaceOfEnded, EdgesShape DEF Starts, Seen
  <2>2. CASE p < Place(w.it)
    <3>1. p \in Place(i) .. Place(w.it) - 1
      BY <2>1, <2>2
    <3>. QED BY <1>1, <3>1
  <2>3. CASE ~(p < Place(w.it))
    <3>1. p \in Place(w.it) .. Len(Edges) - 1
      BY <2>1, <2>3
    <3>2. ~Ended(w.it)
      <4>1. Ended(w.it) => Place(w.it) = Len(Edges)
        BY PlaceOfEnded
      <4>. QED BY <2>1, <3>1, <4>1
    <3>3. Placed(w.it) /\ VertexChunkOf(v) < w.it.vertex_chunk_index
      BY <1>1, <1>3, <3>2
    <3>. QED BY <3>1, <3>3, NoneBehind
  <2>. QED BY <2>2, <2>3
<1>4. ~w.found => \A at : Missed(w, at, Place(i), v)
  BY <1>1, <1>3 DEF Missed, Seen
<1>. QED BY <1>1, <1>2, <1>4 DEF Searched, w

\* The iterator is in the vertex chunk of the endpoint of its edge.
LEMMA AlignedHere ==
    ASSUME Static, NEW i, Placed(i)
    PROVE  /\ Edges[Place(i) + 1] \in Nat
           /\ VertexChunkOf(Edges[Place(i) + 1]) = i.vertex_chunk_index
<1>. DEFINE vc == i.vertex_chunk_index
            row == i.cur_offset
<1>1. /\ Place(i) \in Nat /\ Place(i) < Len(Edges) /\ row \in Nat
      /\ Edges[Place(i) + 1] = adj[vc][row + 1]
  BY PlaceOfPlaced
<1>2. vc \in VertexChunks /\ row < EdgeNum(adj, vc) /\ EdgeNum(adj, vc) \in Nat /\ Aligned(adj)
  BY RangeType, OffType DEF Placed, AtEdge, Static
<1>3. row + 1 \in 1 .. Len(adj[vc])
  BY <1>1, <1>2 DEF EdgeNum
<1>4. VertexChunkOf(adj[vc][row + 1]) = vc
  BY <1>2, <1>3 DEF Aligned
<1>5. Edges[Place(i) + 1] \in VertexIds
  <2>1. Edges \in Seq(VertexIds) /\ Place(i) + 1 \in 1 .. Len(Edges)
    BY <1>1, EdgesShape
  <2>. HIDE DEF vc, row
  <2>. QED BY <2>1
<1>. QED BY <1>1, <1>4, <1>5 DEF VertexIds

\* On an ordered list, what follows an edge of a vertex is an edge of the vertex, or none is
\* behind.
LEMMA OrderedRun ==
    ASSUME Static, IsOrdered, NEW i, Placed(i), NEW j, Placed(j), Place(i) <= Place(j),
           Edges[Place(j) + 1] # Edges[Place(i) + 1]
    PROVE  NoneFrom(Place(j), Edges[Place(i) + 1])
<1>. DEFINE v == Edges[Place(i) + 1]
            c == i.vertex_chunk_index
            a == i.cur_offset
            b == j.cur_offset
<1>. SUFFICES ASSUME NEW p \in Place(j) .. Len(Edges) - 1, Edges[p + 1] = v PROVE FALSE
  BY DEF NoneFrom
<1>1. /\ Place(i) = Off(c) + a /\ Place(i) \in Nat /\ a \in Nat /\ c \in Nat
      /\ c \in range[1] .. range[2] - 1 /\ a < EdgeNum(adj, c)
      /\ v = adj[c][a + 1] /\ VertexChunkOf(v) = c
  BY PlaceOfPlaced, AlignedHere DEF Placed, AtEdge
<1>2. /\ Place(j) = Off(j.vertex_chunk_index) + b /\ Place(j) \in Nat /\ b \in Nat
      /\ j.vertex_chunk_index \in Nat
      /\ j.vertex_chunk_index \in range[1] .. range[2] - 1
      /\ b < EdgeNum(adj, j.vertex_chunk_index)
      /\ Edges[Place(j) + 1] = adj[j.vertex_chunk_index][b + 1]
  BY PlaceOfPlaced DEF Placed, AtEdge
<1>3. p \in Nat /\ p < Len(Edges) /\ Place(j) <= p
  BY <1>2, EdgesShape
<1>4. \E row \in Nat : row < EdgeNum(adj, c) /\ p = Off(c) + row /\ adj[c][row + 1] = v
  <2>1. \E row \in Nat : /\ row < EdgeNum(adj, VertexChunkOf(Edges[p + 1]))
                         /\ p = Off(VertexChunkOf(Edges[p + 1])) + row
                         /\ adj[VertexChunkOf(Edges[p + 1])][row + 1] = Edges[p + 1]
    BY <1>3, HitIsAligned
  <2>2. Edges[p + 1] = v
    OBVIOUS
  <2>. HIDE DEF v
  <2>. QED BY <1>1, <2>1, <2>2
<1>5. PICK r \in Nat : r < EdgeNum(adj, c) /\ p = Off(c) + r /\ adj[c][r + 1] = v
  BY <1>4
<1>. DEFINE vc == j.vertex_chunk_index
<1>6. c < vc \/ (c = vc /\ a <= b)
  <2>1. Off(c) + a <= Off(vc) + b
    BY <1>1, <1>2
  <2>. HIDE DEF a, b, c, v, vc
  <2>2. c \in range[1] .. range[2] - 1 /\ vc \in range[1] .. range[2] - 1
        /\ a \in Nat /\ b \in Nat /\ a < EdgeNum(adj, c) /\ b < EdgeNum(adj, vc)
    BY <1>1, <1>2 DEF vc
  <2>3. Off(c) + a <= Off(vc) + b <=> (c < vc \/ (c = vc /\ a <= b))
    BY <2>2, PlaceOrder, Zenon
  <2>. QED BY <2>1, <2>3
<1>7. vc < c \/ (vc = c /\ b <= r)
  <2>1. Off(vc) + b <= Off(c) + r
    BY <1>2, <1>3, <1>5
  <2>. HIDE DEF a, b, c, v, vc
  <2>2. c \in range[1] .. range[2] - 1 /\ vc \in range[1] .. range[2] - 1
        /\ r \in Nat /\ b \in Nat /\ r < EdgeNum(adj, c) /\ b < EdgeNum(adj, vc)
    BY <1>1, <1>2, <1>5 DEF vc
  <2>3. Off(vc) + b <= Off(c) + r <=> (vc < c \/ (vc = c /\ b <= r))
    BY <2>2, PlaceOrder, Zenon
  <2>. QED BY <2>1, <2>3
<1>8. vc = c /\ a <= b /\ b <= r
  <2>. HIDE DEF c, vc
  <2>. QED BY <1>1, <1>2, <1>6, <1>7 DEF vc
<1>9. Ordered(adj) /\ c \in VertexChunks /\ EdgeNum(adj, c) \in Nat
      /\ adj \in AdjLists
  BY <1>1, RangeType, OffType DEF Static
<1>10. a + 1 \in 1 .. Len(adj[c]) /\ b + 1 \in 1 .. Len(adj[c]) /\ r + 1 \in 1 .. Len(adj[c])
       /\ a + 1 <= b + 1 /\ b + 1 <= r + 1
  <2>1. EdgeNum(adj, vc) = EdgeNum(adj, c)
    BY <1>8
  <2>2. a \in Nat /\ b \in Nat /\ r \in Nat /\ a < EdgeNum(adj, c) /\ r < EdgeNum(adj, c)
        /\ b < EdgeNum(adj, vc) /\ a <= b /\ b <= r
    BY <1>1, <1>2, <1>5, <1>8
  <2>3. EdgeNum(adj, c) = Len(adj[c]) /\ EdgeNum(adj, c) \in Nat
    BY <1>9 DEF EdgeNum
  <2>. HIDE DEF a, b, c, vc
  <2>. QED BY <2>1, <2>2, <2>3
<1>11. adj[c][a + 1] <= adj[c][b + 1] /\ adj[c][b + 1] <= adj[c][r + 1]
  BY <1>9, <1>10 DEF Ordered
<1>12. adj[c][a + 1] \in Nat /\ adj[c][b + 1] \in Nat
  <2>1. adj[c] \in Seq(VertexIds)
    BY <1>9 DEF AdjLists
  <2>2. VertexIds \subseteq Nat
    BY DEF VertexIds
  <2>. HIDE DEF a, b, c
  <2>3. adj[c][a + 1] \in VertexIds /\ adj[c][b + 1] \in VertexIds
    BY <1>10, <2>1
  <2>. QED BY <2>2, <2>3
<1>13. adj[c][b + 1] # v /\ adj[c][a + 1] = v /\ adj[c][r + 1] = v
  BY <1>1, <1>2, <1>5, <1>8
<1>. HIDE DEF v, c, a, b
<1>. QED BY <1>11, <1>12, <1>13

\* next_src()
LEMMA NextSameSearches ==
    ASSUME Static, NEW i, Placed(i)
    PROVE  \A at : Searched(NextSame(i), at, Place(i) + 1, Edges[Place(i) + 1])
<1>. DEFINE r == Read(i)
            v == Edges[Place(i) + 1]
            k == Increment(r)
            last == IF IsOrdered THEN -1 ELSE r.vertex_chunk_index
            w == Walk(k, v, "search", last)
<1>1. Placed(r) /\ Loaded(r) /\ Place(r) = Place(i)
  BY ReadPlaced, PlaceOfSame
<1>. HIDE DEF r
<1>2. VertexOf(r) = v
  <2>1. Seen("search", r)
    BY <1>1 DEF Seen
  <2>. QED BY <1>1, <2>1, VertexSeen
<1>3. Place(k) = Place(i) + 1 /\ (Placed(k) \/ Ended(k))
  BY <1>1, IncrementAdvances, PlaceAdvances
<1>4. NextSame(i) = w
  BY <1>2 DEF NextSame, NextOfRead, r
<1>5. v \in Nat /\ VertexChunkOf(v) = r.vertex_chunk_index /\ r.vertex_chunk_index \in Nat
  BY <1>1, AlignedHere, PlaceOfPlaced
<1>. HIDE DEF k, v
<1>6. Starts("search", k)
  BY <1>3 DEF Starts
<1>7. CASE ~IsOrdered
  <2>1. last = r.vertex_chunk_index
    BY <1>7
  <2>. HIDE DEF last
  <2>2. \A j : Placed(j) /\ ChunkPassed(j, last) => VertexChunkOf(v) < j.vertex_chunk_index
    BY <1>5, <2>1, PlaceOfPlaced DEF ChunkPassed
  <2>3. \A at : Searched(w, at, Place(k), v)
    BY <1>5, <1>6, <2>2, WalkSearches
  <2>. QED BY <1>3, <1>4, <2>3 DEF v
<1>8. CASE IsOrdered
  <2>1. /\ Seen("search", w.it) /\ w.found \in BOOLEAN /\ Place(k) <= Place(w.it)
        /\ \A p \in Place(k) .. Place(w.it) - 1 : Edges[p + 1] # v
        /\ w.found => Placed(w.it) /\ Edges[Place(w.it) + 1] = v
        /\ ~w.found => Ended(w.it) \/ (Placed(w.it) /\ Edges[Place(w.it) + 1] # v)
    BY <1>6, WalkStops
  <2>. HIDE DEF w
  <2>2. w.found => Reached(w, Place(k), v)
    BY <2>1 DEF Reached
  <2>3. Place(i) \in Nat /\ Place(w.it) \in Nat /\ Place(k) \in Nat /\ Len(Edges) \in Nat
    BY <1>3, <2>1, PlaceOfPlaced, PlaceOfEnded, EdgesShape DEF Seen
  <2>4. ASSUME ~w.found PROVE NoneFrom(Place(k), v)
    <3>1. NoneFrom(Place(w.it), v)
      <4>1. CASE Ended(w.it)
        <5>1. Place(w.it) = Len(Edges)
          BY <4>1, PlaceOfEnded
        <5>. QED BY <2>3, <5>1 DEF NoneFrom
      <4>2. CASE Placed(w.it) /\ Edges[Place(w.it) + 1] # v
        <5>1. Place(i) <= Place(w.it)
          BY <1>3, <2>1, <2>3
        <5>. QED BY <1>8, <4>2, <5>1, OrderedRun DEF v
      <4>. QED BY <2>1, <2>4, <4>1, <4>2
    <3>2. ASSUME NEW p \in Place(k) .. Len(Edges) - 1 PROVE Edges[p + 1] # v
      <4>1. p \in Place(k) .. Place(w.it) - 1 \/ p \in Place(w.it) .. Len(Edges) - 1
        BY <2>3
      <4>. QED BY <2>1, <3>1, <4>1 DEF NoneFrom
    <3>. QED BY <3>2 DEF NoneFrom
  <2>5. ~w.found => \A at : Missed(w, at, Place(k), v)
    BY <2>1, <2>4 DEF Missed, Seen
  <2>6. \A at : Searched(w, at, Place(k), v)
    BY <2>1, <2>2, <2>5 DEF Searched
  <2>. QED BY <1>3, <1>4, <2>6 DEF w, v
<1>. QED BY <1>7, <1>8

------------------------------------------------------------------------------
(* The searches of an ordered list, which the offset chunk answers.         *)

\* The rows between the two entries of a vertex are those of its edges.
LEMMA OrderedRows ==
    ASSUME Static, IsOrdered, NEW v \in Nat, VertexChunkOf(v) \in VertexChunks
    PROVE  LET c == VertexChunkOf(v)
               rows == OffsetsOfVertex(adj, v)
           IN  /\ rows[1] \in Nat /\ rows[2] \in Nat
               /\ rows[1] <= EdgeNum(adj, c) /\ rows[2] <= EdgeNum(adj, c)
               /\ \A row \in Nat : row < EdgeNum(adj, c) =>
                     (adj[c][row + 1] = v <=> rows[1] <= row /\ row < rows[2])
<1>. DEFINE c == VertexChunkOf(v)
            first == FirstRow(adj, v)
            behind == EndRow(adj, v)
<1>1. adj \in AdjLists /\ Ordered(adj)
  BY DEF Static
<1>2. first \in Nat /\ first <= EdgeNum(adj, c)
  BY <1>1, FirstRowType
<1>3. /\ behind \in Nat /\ behind <= Len(adj[c])
      /\ \A i \in 1 .. Len(adj[c]) : /\ adj[c][i] < v <=> i <= first
                                     /\ adj[c][i] <= v <=> i <= behind
  BY <1>1, OffsetsDelimit
<1>4. EdgeNum(adj, c) = Len(adj[c]) /\ EdgeNum(adj, c) \in Nat
  BY <1>1, EdgeChunkType DEF EdgeNum
<1>5. ASSUME NEW row \in Nat, row < EdgeNum(adj, c)
      PROVE  adj[c][row + 1] = v <=> first <= row /\ row < behind
  <2>1. row + 1 \in 1 .. Len(adj[c])
    BY <1>4, <1>5
  <2>2. adj[c][row + 1] \in Nat
    <3>1. adj[c] \in Seq(VertexIds) /\ VertexIds \subseteq Nat
      BY <1>1 DEF AdjLists, VertexIds
    <3>. HIDE DEF c
    <3>2. adj[c][row + 1] \in VertexIds
      BY <2>1, <3>1
    <3>. QED BY <3>1, <3>2
  <2>3. /\ adj[c][row + 1] < v <=> row + 1 <= first
        /\ adj[c][row + 1] <= v <=> row + 1 <= behind
    BY <1>3, <2>1
  <2>. HIDE DEF c, first, behind
  <2>. QED BY <1>2, <1>3, <2>2, <2>3
<1>6. OffsetsOfVertex(adj, v)[1] = first /\ OffsetsOfVertex(adj, v)[2] = behind
  BY DEF OffsetsOfVertex
<1>. HIDE DEF first, behind, c
<1>. QED BY <1>2, <1>3, <1>4, <1>5, <1>6 DEF c

\* The edge chunks of the first and the last row of a vertex, as first_src computes them,
\* and what it compares them with.
FirstChunk(v) == GlobalChunkIndex(VertexChunkOf(v), OffsetsOfVertex(adj, v)[1] \div ChunkSize)
LastChunk(v) == GlobalChunkIndex(VertexChunkOf(v), OffsetsOfVertex(adj, v)[2] \div ChunkSize)
Inside(from, v) ==
    FirstChunk(v) <= from.global_chunk_index /\ from.global_chunk_index <= LastChunk(v)
NoRows(from, v) ==
    \/ OffsetsOfVertex(adj, v)[1] >= OffsetsOfVertex(adj, v)[2]
    \/ from.global_chunk_index > LastChunk(v)
    \/ Inside(from, v) /\ from.cur_offset >= OffsetsOfVertex(adj, v)[2]

\* The comparison of chunk indexes is one of vertex chunks and rows.
LEMMA OrderedCompare ==
    ASSUME Static, IsOrdered, NEW from, Placed(from), NEW v \in Nat, VertexChunkOf(v) < range[2]
    PROVE  LET c == VertexChunkOf(v)
               a == from.vertex_chunk_index
               o == from.cur_offset
               rows == OffsetsOfVertex(adj, v)
           IN  /\ c \in VertexChunks /\ c \in Nat /\ LastChunk(v) \in Nat
               /\ from.global_chunk_index > LastChunk(v) <=>
                     c < a \/ (c = a /\ rows[2] \div ChunkSize < o \div ChunkSize)
               /\ FirstChunk(v) <= from.global_chunk_index <=>
                     c < a \/ (c = a /\ rows[1] \div ChunkSize <= o \div ChunkSize)
<1>. DEFINE c == VertexChunkOf(v)
            a == from.vertex_chunk_index
            o == from.cur_offset
            rows == OffsetsOfVertex(adj, v)
            g == from.global_chunk_index
<1>1. c \in VertexChunks /\ c \in Nat
  <2>1. c \in Nat /\ VertexChunkNum \in Nat /\ VertexChunks = {vc \in Nat : vc < VertexChunkNum}
    BY VertexChunkType
  <2>2. range[2] \in 0 .. VertexChunkNum
    BY RangeType
  <2>3. c < range[2]
    OBVIOUS
  <2>. HIDE DEF c
  <2>. QED BY <2>1, <2>2, <2>3
<1>2. /\ a \in VertexChunks /\ a \in Nat /\ o \in Nat /\ o < EdgeNum(adj, a)
      /\ g = GlobalChunkIndex(a, o \div ChunkSize)
  <2>1. a \in range[1] .. range[2] - 1
    BY DEF Placed, AtEdge
  <2>2. a \in VertexChunks /\ a \in Nat
    BY <2>1, RangeType
  <2>. QED BY <2>2, PlaceOfPlaced DEF Placed, AtEdge
<1>3. adj \in AdjLists /\ PartialEnds(adj) /\ ChunkSize \in Nat \ {0}
  BY LayoutAssumption DEF Static
<1>4. /\ rows[1] \in Nat /\ rows[2] \in Nat
      /\ rows[1] <= EdgeNum(adj, c) /\ rows[2] <= EdgeNum(adj, c)
  BY <1>1, OrderedRows
<1>. HIDE DEF c, a, o, rows, g
<1>5. /\ o \div ChunkSize \in Nat /\ rows[1] \div ChunkSize \in Nat
      /\ rows[2] \div ChunkSize \in Nat
  BY <1>2, <1>3, <1>4, DivType
<1>6. /\ rows[1] \div ChunkSize < EdgeChunkNum(adj, c)
      /\ rows[2] \div ChunkSize < EdgeChunkNum(adj, c)
  <2>1. EdgeNum(adj, c) \in Nat
        /\ \A row \in 0 .. EdgeNum(adj, c) : row \div ChunkSize < EdgeChunkNum(adj, c)
    BY <1>1, <1>3, RowsOfVertexChunk
  <2>2. rows[1] \in 0 .. EdgeNum(adj, c) /\ rows[2] \in 0 .. EdgeNum(adj, c)
    BY <1>4, <2>1
  <2>. QED BY <2>1, <2>2
<1>7. o \div ChunkSize < EdgeChunkNum(adj, a)
  <2>1. EdgeNum(adj, a) \in Nat
        /\ \A row \in 0 .. EdgeNum(adj, a) : row \div ChunkSize < EdgeChunkNum(adj, a)
    BY <1>2, <1>3, RowsOfVertexChunk
  <2>2. o \in 0 .. EdgeNum(adj, a)
    BY <1>2, <2>1
  <2>. QED BY <2>1, <2>2
<1>8. LastChunk(v) = GlobalChunkIndex(c, rows[2] \div ChunkSize)
      /\ FirstChunk(v) = GlobalChunkIndex(c, rows[1] \div ChunkSize)
  BY DEF LastChunk, FirstChunk, c, rows
<1>9. /\ LastChunk(v) \in Nat /\ g \in Nat
      /\ g <= LastChunk(v) <=>
            (a < c \/ (a = c /\ o \div ChunkSize <= rows[2] \div ChunkSize))
  BY <1>1, <1>2, <1>5, <1>6, <1>7, <1>8, GlobalOrder
<1>10. FirstChunk(v) <= g <=>
            (c < a \/ (c = a /\ rows[1] \div ChunkSize <= o \div ChunkSize))
  BY <1>1, <1>2, <1>5, <1>6, <1>7, <1>8, GlobalOrder
<1>11. g > LastChunk(v) <=>
            (c < a \/ (c = a /\ rows[2] \div ChunkSize < o \div ChunkSize))
  BY <1>1, <1>2, <1>5, <1>9
<1>. QED BY <1>1, <1>9, <1>10, <1>11 DEF c, a, o, rows, g

\* A vertex that first_src finds no rows for has no edge from the position on.
LEMMA NoRowsNoEdge ==
    ASSUME Static, IsOrdered, NEW from, Placed(from), NEW v \in Nat,
           VertexChunkOf(v) < range[2], NoRows(from, v)
    PROVE  NoneFrom(Place(from), v)
<1>. DEFINE c == VertexChunkOf(v)
            a == from.vertex_chunk_index
            o == from.cur_offset
            first == OffsetsOfVertex(adj, v)[1]
            behind == OffsetsOfVertex(adj, v)[2]
<1>. SUFFICES ASSUME NEW p \in Place(from) .. Len(Edges) - 1, Edges[p + 1] = v PROVE FALSE
  BY DEF NoneFrom
<1>1. /\ Place(from) = Off(a) + o /\ Place(from) \in Nat /\ a \in Nat /\ o \in Nat
      /\ a \in range[1] .. range[2] - 1 /\ o < EdgeNum(adj, a)
  BY PlaceOfPlaced DEF Placed, AtEdge
<1>2. p \in Nat /\ p < Len(Edges) /\ Place(from) <= p
  BY <1>1, EdgesShape
<1>3. PICK r \in Nat : r < EdgeNum(adj, c) /\ p = Off(c) + r /\ adj[c][r + 1] = v
  BY <1>2, HitIsAligned
<1>4. c \in range[1] .. range[2] - 1
  BY <1>2, HitIsAligned
<1>5. a < c \/ (a = c /\ o <= r)
  <2>1. Off(a) + o <= Off(c) + r
    BY <1>1, <1>2, <1>3
  <2>. HIDE DEF a, c, o
  <2>2. Off(a) + o <= Off(c) + r <=> (a < c \/ (a = c /\ o <= r))
    BY <1>1, <1>3, <1>4, PlaceOrder, Zenon
  <2>. QED BY <2>1, <2>2
<1>6. /\ c \in VertexChunks /\ c \in Nat
      /\ from.global_chunk_index > LastChunk(v) <=>
            c < a \/ (c = a /\ behind \div ChunkSize < o \div ChunkSize)
      /\ FirstChunk(v) <= from.global_chunk_index <=>
            c < a \/ (c = a /\ first \div ChunkSize <= o \div ChunkSize)
  BY OrderedCompare
<1>7. /\ first \in Nat /\ behind \in Nat /\ first <= r /\ r < behind
  BY <1>3, <1>6, OrderedRows
<1>8. ~(from.global_chunk_index > LastChunk(v))
  <2>1. behind \div ChunkSize < o \div ChunkSize => behind < o
    BY <1>1, <1>7, DivMonotone, LayoutAssumption
  <2>. HIDE DEF c, a, o, first, behind
  <2>. QED BY <1>1, <1>3, <1>5, <1>6, <1>7, <2>1
<1>9. ~(Inside(from, v) /\ o >= behind)
  <2>1. Inside(from, v) => FirstChunk(v) <= from.global_chunk_index
    BY DEF Inside
  <2>. HIDE DEF c, a, o, first, behind
  <2>. QED BY <1>1, <1>3, <1>5, <1>6, <1>7, <2>1
<1>10. ~(first >= behind)
  <2>. HIDE DEF first, behind
  <2>. QED BY <1>3, <1>7
<1>. QED BY <1>8, <1>9, <1>10 DEF NoRows

\* A position among the rows of a vertex is at an edge of it.
LEMMA AmongRows ==
    ASSUME Static, IsOrdered, NEW from, Placed(from), NEW v \in Nat,
           VertexChunkOf(v) < range[2], ~NoRows(from, v),
           FirstChunk(v) <= from.global_chunk_index,
           OffsetsOfVertex(adj, v)[1] <= from.cur_offset
    PROVE  Edges[Place(from) + 1] = v
<1>. DEFINE c == VertexChunkOf(v)
            a == from.vertex_chunk_index
            o == from.cur_offset
            first == OffsetsOfVertex(adj, v)[1]
            behind == OffsetsOfVertex(adj, v)[2]
            g == from.global_chunk_index
<1>1. /\ a \in Nat /\ o \in Nat /\ o < EdgeNum(adj, a)
      /\ Edges[Place(from) + 1] = adj[a][o + 1]
  BY PlaceOfPlaced DEF Placed, AtEdge
<1>2. /\ c \in VertexChunks /\ c \in Nat
      /\ g > LastChunk(v) <=>
            c < a \/ (c = a /\ behind \div ChunkSize < o \div ChunkSize)
      /\ FirstChunk(v) <= g <=>
            c < a \/ (c = a /\ first \div ChunkSize <= o \div ChunkSize)
  BY OrderedCompare
<1>3. /\ ~(g > LastChunk(v)) /\ ~(Inside(from, v) /\ o >= behind)
  BY DEF NoRows
<1>4. Inside(from, v)
  <2>1. LastChunk(v) \in Nat /\ g \in Nat
    BY OrderedCompare DEF Placed, ReadersSettled, Iters
  <2>2. FirstChunk(v) <= g
    OBVIOUS
  <2>. HIDE DEF g
  <2>. QED BY <1>3, <2>1, <2>2 DEF Inside, g
<1>5. a = c
  <2>1. c < a \/ c = a
    <3>1. FirstChunk(v) <= g
      OBVIOUS
    <3>. QED BY <1>2, <3>1
  <2>. QED BY <1>2, <1>3, <2>1
<1>6. /\ first \in Nat /\ behind \in Nat /\ o < EdgeNum(adj, c)
      /\ adj[c][o + 1] = v <=> first <= o /\ o < behind
  BY <1>1, <1>2, <1>5, OrderedRows
<1>7. first <= o
  OBVIOUS
<1>8. adj[a][o + 1] = v
  <2>. HIDE DEF a, c, o, first, behind
  <2>. QED BY <1>1, <1>3, <1>4, <1>5, <1>6, <1>7
<1>. QED BY <1>1, <1>8

\* From any other position the first row of the vertex is its next edge.
LEMMA AheadOfRows ==
    ASSUME Static, IsOrdered, NEW from, Placed(from), NEW v \in Nat,
           VertexChunkOf(v) < range[2], ~NoRows(from, v),
           \/ ~(FirstChunk(v) <= from.global_chunk_index)
           \/ from.cur_offset <= OffsetsOfVertex(adj, v)[1]
    PROVE  LET c == VertexChunkOf(v)
               first == OffsetsOfVertex(adj, v)[1]
           IN  /\ c \in range[1] .. range[2] - 1
               /\ first \in Nat /\ first < EdgeNum(adj, c)
               /\ Place(from) <= Off(c) + first /\ Off(c) + first \in Nat
               /\ Edges[Off(c) + first + 1] = v
               /\ \A p \in Place(from) .. Off(c) + first - 1 : Edges[p + 1] # v
<1>. DEFINE c == VertexChunkOf(v)
            a == from.vertex_chunk_index
            o == from.cur_offset
            first == OffsetsOfVertex(adj, v)[1]
            behind == OffsetsOfVertex(adj, v)[2]
            g == from.global_chunk_index
<1>1. /\ Place(from) = Off(a) + o /\ Place(from) \in Nat /\ a \in Nat /\ o \in Nat
      /\ a \in range[1] .. range[2] - 1 /\ o < EdgeNum(adj, a)
  BY PlaceOfPlaced DEF Placed, AtEdge
<1>2. /\ c \in VertexChunks /\ c \in Nat
      /\ g > LastChunk(v) <=>
            c < a \/ (c = a /\ behind \div ChunkSize < o \div ChunkSize)
      /\ FirstChunk(v) <= g <=>
            c < a \/ (c = a /\ first \div ChunkSize <= o \div ChunkSize)
  BY OrderedCompare
<1>3. ~(g > LastChunk(v)) /\ ~(first >= behind)
  BY DEF NoRows
<1>4. /\ first \in Nat /\ behind \in Nat /\ behind <= EdgeNum(adj, c)
      /\ EdgeNum(adj, c) \in Nat
      /\ \A row \in Nat : row < EdgeNum(adj, c) =>
            (adj[c][row + 1] = v <=> first <= row /\ row < behind)
  <2>1. adj \in AdjLists
    BY DEF Static
  <2>. QED BY <1>2, <2>1, OrderedRows, EdgeChunkType
<1>5. first < EdgeNum(adj, c) /\ first < behind
  <2>. HIDE DEF first, behind, c
  <2>. QED BY <1>3, <1>4
<1>6. a < c \/ (a = c /\ o <= first)
  <2>1. first \div ChunkSize \in Nat /\ o \div ChunkSize \in Nat
    BY <1>1, <1>4, DivType, LayoutAssumption
  <2>2. o \div ChunkSize < first \div ChunkSize => o < first
    BY <1>1, <1>4, DivMonotone, LayoutAssumption
  <2>3. \/ ~(FirstChunk(v) <= g)
        \/ o <= first
    OBVIOUS
  <2>. HIDE DEF a, c, o, first, behind, g
  <2>. QED BY <1>1, <1>2, <1>3, <1>4, <2>1, <2>2, <2>3
<1>7. range[1] \in Nat /\ range[2] \in Nat /\ c < range[2]
  BY RangeType
<1>8. c \in range[1] .. range[2] - 1
  <2>. HIDE DEF a, c
  <2>. QED BY <1>1, <1>2, <1>6, <1>7
<1>9. Off(a) + o <= Off(c) + first
  BY <1>1, <1>4, <1>5, <1>6, <1>8, PlaceOrder
<1>10. Off(c) + first + 1 \in 1 .. Len(Edges) /\ Edges[Off(c) + first + 1] = adj[c][first + 1]
  BY <1>4, <1>5, <1>8, EdgesShape
<1>11. adj[c][first + 1] = v
  <2>1. first <= first
    BY <1>4
  <2>. QED BY <1>4, <1>5, <2>1
<1>12. Off(c) \in Nat /\ Off(c) + first \in Nat
  BY <1>4, <1>7, <1>8, OffType
<1>13. ASSUME NEW p \in Place(from) .. Off(c) + first - 1, Edges[p + 1] = v
       PROVE  FALSE
  <2>1. p \in Nat /\ p < Off(c) + first
    <3>1. Place(from) \in Nat /\ Off(c) \in Nat /\ first \in Nat
      BY <1>1, <1>4, <1>12
    <3>. HIDE DEF c, first
    <3>. QED BY <1>13, <3>1
  <2>2. p < Len(Edges)
    <3>. HIDE DEF c, first
    <3>. QED BY <1>10, <1>12, <2>1, EdgesShape
  <2>3. PICK r \in Nat : r < EdgeNum(adj, c) /\ p = Off(c) + r /\ adj[c][r + 1] = v
    BY <1>13, <2>1, <2>2, HitIsAligned
  <2>4. first <= r
    BY <1>4, <2>3
  <2>. HIDE DEF c, first
  <2>. QED BY <1>4, <1>12, <2>1, <2>3, <2>4
<1>. HIDE DEF c, a, o, first
<1>. QED BY <1>1, <1>4, <1>5, <1>8, <1>9, <1>10, <1>11, <1>12, <1>13 DEF c, first

\* An iterator at the first row of a vertex has reached its next edge.
LEMMA AtFirstRow ==
    ASSUME Static, IsOrdered, NEW from, Placed(from), NEW v \in Nat,
           VertexChunkOf(v) < range[2], ~NoRows(from, v),
           \/ ~(FirstChunk(v) <= from.global_chunk_index)
           \/ from.cur_offset <= OffsetsOfVertex(adj, v)[1],
           NEW j, Placed(j), j.vertex_chunk_index = VertexChunkOf(v),
           j.cur_offset = OffsetsOfVertex(adj, v)[1]
    PROVE  Reached(Found(j, TRUE), Place(from), v)
<1>. DEFINE c == VertexChunkOf(v)
            first == OffsetsOfVertex(adj, v)[1]
<1>1. /\ c \in range[1] .. range[2] - 1 /\ first \in Nat
      /\ Place(from) <= Off(c) + first /\ Off(c) + first \in Nat
      /\ Edges[Off(c) + first + 1] = v
      /\ \A p \in Place(from) .. Off(c) + first - 1 : Edges[p + 1] # v
  BY AheadOfRows
<1>2. Place(j) = Off(c) + first
  BY PlaceOfPlaced
<1>3. Off(c) \in Nat
  BY <1>1, RangeType, OffType
<1>. HIDE DEF c, first
<1>4. Off(c) + first - 1 = Place(j) - 1
  BY <1>1, <1>2, <1>3
<1>5. /\ Place(from) <= Place(j) /\ Edges[Place(j) + 1] = v
      /\ \A p \in Place(from) .. Place(j) - 1 : Edges[p + 1] # v
  <2>1. Edges[Place(j) + 1] = v
    BY <1>1, <1>2
  <2>2. Place(from) <= Place(j)
    BY <1>1, <1>2
  <2>. QED BY <1>1, <1>4, <2>1, <2>2
<1>. QED BY <1>5 DEF Reached, Found

\* An iterator that stays has reached the edge it is at, if it is of the vertex.
LEMMA ReachedHere ==
    ASSUME Static, NEW from, Placed(from), NEW j, Placed(j), SamePlace(j, from),
           NEW v, Edges[Place(from) + 1] = v
    PROVE  Reached(Found(j, TRUE), Place(from), v)
<1>1. Place(j) = Place(from) /\ Place(from) \in Nat
  BY PlaceOfSame, PlaceOfPlaced
<1>2. Place(from) <= Place(j) /\ Place(from) .. Place(j) - 1 = {}
  BY <1>1
<1>. QED BY <1>1, <1>2 DEF Reached, Found

\* An iterator that is left where it is, with or without an edge.
LEMMA MissedHere ==
    ASSUME NEW i, Placed(i) \/ Ended(i), NEW from, NEW v, NoneFrom(from, v)
    PROVE  Missed(Found(i, FALSE), Place(i), from, v)
BY DEF Missed, Found

\* An iterator at an edge of the first vertex chunk and row given, whatever it was before.
LEMMA MovedAndRefreshed ==
    ASSUME Static, NEW i, ReadersSettled(i), NEW index, NEW vc, NEW row \in Nat,
           vc \in range[1] .. range[2] - 1, row < EdgeNum(adj, vc),
           index = GlobalChunkIndex(vc, row \div ChunkSize)
    PROVE  LET j == Refresh(At(i, index, vc, row))
           IN  /\ Placed(j) /\ ~j.unread /\ j.global_chunk_index = index
               /\ j.vertex_chunk_index = vc /\ j.cur_offset = row
<1>. DEFINE a == At(i, index, vc, row)
<1>1. vc \in VertexChunks /\ vc \in Nat /\ index \in Nat
  <2>1. vc \in VertexChunks /\ vc \in Nat
    BY RangeType
  <2>2. /\ GlobalChunkIndex(vc, 0) \in Nat /\ row \div ChunkSize \in Nat
        /\ GlobalChunkIndex(vc, row \div ChunkSize)
              = GlobalChunkIndex(vc, 0) + row \div ChunkSize
    <3>1. vc \in 0 .. VertexChunkNum
      BY <2>1, VertexChunkType
    <3>2. row \div ChunkSize \in Nat
      BY DivType, LayoutAssumption
    <3>. QED BY <2>1, <3>1, <3>2, GlobalIndex
  <2>. QED BY <2>1, <2>2
<1>2. i \in Iters /\ ~i.broken
      /\ Settled(adj, i.adj_list_reader) /\ Settled(adj, i.property_reader)
  BY DEF ReadersSettled
<1>3. /\ a \in Iters /\ a.adj_list_reader = i.adj_list_reader
      /\ a.property_reader = i.property_reader /\ a.broken = i.broken
      /\ a.global_chunk_index = index /\ a.vertex_chunk_index = vc /\ a.cur_offset = row
  <2>1. i \in Iters /\ index \in Nat /\ vc \in Nat /\ row \in Nat
    BY <1>1, <1>2
  <2>. DEFINE b == [i EXCEPT !.global_chunk_index = index, !.vertex_chunk_index = vc,
                             !.cur_offset = row]
  <2>2. b \in Iters
    BY <2>1 DEF Iters
  <2>3. /\ b.adj_list_reader = i.adj_list_reader /\ b.property_reader = i.property_reader
        /\ b.broken = i.broken /\ b.global_chunk_index = index
        /\ b.vertex_chunk_index = vc /\ b.cur_offset = row
    BY <2>1 DEF Iters
  <2>4. a = b
    BY DEF At
  <2>. HIDE DEF a, b
  <2>. QED BY <2>2, <2>3, <2>4
<1>. HIDE DEF a
<1>4. AtEdge(a)
  BY <1>3 DEF AtEdge
<1>5. Placed(Refresh(a)) /\ SamePlace(Refresh(a), a) /\ ~Refresh(a).unread
  BY <1>2, <1>3, <1>4, RefreshPlaced
<1>. QED BY <1>3, <1>5 DEF SamePlace, a

\* first_src on an ordered list stops at the first edge of the vertex from the position on,
\* or stays where there is none.
LEMMA FirstOrderedSearches ==
    ASSUME Static, IsOrdered, NEW i, Placed(i) \/ Ended(i), NEW from, Placed(from),
           NEW v \in Nat, VertexChunkOf(v) < range[2]
    PROVE  Searched(FirstOrdered(i, from, v), Place(i), Place(from), v)
<1>. DEFINE c == VertexChunkOf(v)
            first == OffsetsOfVertex(adj, v)[1]
            behind == OffsetsOfVertex(adj, v)[2]
            index == from.global_chunk_index
            offset == from.cur_offset
            here == Refresh(At(i, index, from.vertex_chunk_index, offset))
            there == Refresh(At(i, FirstChunk(v), c, first))
<1>1. FirstOrdered(i, from, v) =
          IF NoRows(from, v) THEN Found(i, FALSE)
          ELSE IF Inside(from, v) /\ first < offset THEN Found(here, TRUE)
          ELSE Found(there, TRUE)
  BY DEF FirstOrdered, NoRows, Inside, FirstChunk, LastChunk
<1>2. ReadersSettled(i)
  BY DEF Placed, Ended
<1>3. CASE NoRows(from, v)
  <2>1. Missed(Found(i, FALSE), Place(i), Place(from), v)
    BY <1>3, NoRowsNoEdge, MissedHere
  <2>. QED BY <1>1, <1>3, <2>1 DEF Searched
<1>4. CASE ~NoRows(from, v) /\ Inside(from, v) /\ first < offset
  <2>1. /\ from.vertex_chunk_index \in range[1] .. range[2] - 1 /\ offset \in Nat
        /\ offset < EdgeNum(adj, from.vertex_chunk_index)
        /\ index = GlobalChunkIndex(from.vertex_chunk_index, offset \div ChunkSize)
    BY PlaceOfPlaced DEF Placed, AtEdge
  <2>2. Placed(here) /\ here.global_chunk_index = index
        /\ here.vertex_chunk_index = from.vertex_chunk_index /\ here.cur_offset = offset
    BY <1>2, <2>1, MovedAndRefreshed
  <2>. HIDE DEF here
  <2>3. SamePlace(here, from)
    BY <2>2 DEF SamePlace
  <2>4. Edges[Place(from) + 1] = v
    <3>1. VertexChunkOf(v) \in VertexChunks
      BY OrderedCompare
    <3>2. first \in Nat
      BY <3>1, OrderedRows
    <3>3. first <= offset /\ FirstChunk(v) <= index
      BY <1>4, <2>1, <3>2 DEF Inside
    <3>. QED BY <1>4, <3>3, AmongRows
  <2>5. Reached(Found(here, TRUE), Place(from), v)
    BY <2>2, <2>3, <2>4, ReachedHere
  <2>. QED BY <1>1, <1>4, <2>5 DEF Searched
<1>5. CASE ~NoRows(from, v) /\ ~(Inside(from, v) /\ first < offset)
  <2>1. \/ ~(FirstChunk(v) <= index)
        \/ offset <= first
    <3>1. /\ VertexChunkOf(v) \in VertexChunks /\ VertexChunkOf(v) \in Nat
      BY OrderedCompare
    <3>2. /\ first \in Nat /\ behind \in Nat /\ offset \in Nat /\ behind <= EdgeNum(adj, c)
          /\ index \in Nat
      BY <3>1, OrderedRows, PlaceOfPlaced DEF Placed, ReadersSettled, Iters
    <3>3. LastChunk(v) \in Nat
      BY OrderedCompare
    <3>4. ~(index > LastChunk(v))
      BY <1>5 DEF NoRows
    <3>. HIDE DEF index, offset, first
    <3>. QED BY <1>5, <3>2, <3>3, <3>4 DEF Inside, index
  <2>2. /\ c \in range[1] .. range[2] - 1 /\ first \in Nat /\ first < EdgeNum(adj, c)
    BY <1>5, <2>1, AheadOfRows
  <2>3. FirstChunk(v) = GlobalChunkIndex(c, first \div ChunkSize)
    BY DEF FirstChunk
  <2>4. Placed(there) /\ there.vertex_chunk_index = c /\ there.cur_offset = first
    BY <1>2, <2>2, <2>3, MovedAndRefreshed
  <2>. HIDE DEF there
  <2>5. Reached(Found(there, TRUE), Place(from), v)
    BY <1>5, <2>1, <2>4, AtFirstRow
  <2>. QED BY <1>1, <1>5, <2>5 DEF Searched
<1>. QED BY <1>3, <1>4, <1>5

\* find_src: an iterator at the first edge of the vertex from the position on, or the end.
Finds(j, from, v) ==
    \/ Placed(j) /\ Reached(Found(j, TRUE), from, v)
    \/ Ended(j) /\ NoneFrom(from, v)

\* No edge is behind the end.
LEMMA NoneFromEnd ==
    ASSUME Static, NEW from, Ended(from), NEW v
    PROVE  NoneFrom(Place(from), v)
<1>1. Place(from) = Len(Edges) /\ Len(Edges) \in Nat
  BY PlaceOfEnded, EdgesShape
<1>2. Place(from) .. Len(Edges) - 1 = {}
  BY <1>1
<1>. QED BY <1>2 DEF NoneFrom

\* The chunk indexes of a vertex below the end of the range are below the end.
LEMMA LastChunkBelowEnd ==
    ASSUME Static, IsOrdered, NEW v \in Nat, VertexChunkOf(v) < range[2]
    PROVE  LastChunk(v) \in Nat /\ collection.chunk_end \in Nat
           /\ LastChunk(v) < collection.chunk_end
<1>. DEFINE c == VertexChunkOf(v)
            behind == OffsetsOfVertex(adj, v)[2]
            ec == behind \div ChunkSize
<1>1. Placed(begin)
  BY BeginIsPlaced
<1>2. c \in VertexChunks /\ c \in Nat /\ LastChunk(v) \in Nat
  BY <1>1, OrderedCompare
<1>3. adj \in AdjLists /\ PartialEnds(adj)
  BY DEF Static
<1>4. behind \in 0 .. EdgeNum(adj, c) /\ behind \in Nat
  BY <1>2, <1>3, OrderedRows, EdgeChunkType
<1>5. ec \in Nat /\ ec < EdgeChunkNum(adj, c) /\ EdgeChunkNum(adj, c) \in Nat
  BY <1>2, <1>3, <1>4, RowsOfVertexChunk, DivType
<1>6. LastChunk(v) = GlobalChunkIndex(c, ec)
  BY DEF LastChunk
<1>7. range[2] \in 0 .. VertexChunkNum /\ c \in 0 .. VertexChunkNum /\ c < range[2]
  BY <1>2, RangeType, VertexChunkType
<1>. HIDE DEF ec, c
<1>8. /\ GlobalChunkIndex(c, ec) = GlobalChunkIndex(c, 0) + ec
      /\ GlobalChunkIndex(c, 0) \in Nat
      /\ GlobalChunkIndex(c, 0) + EdgeChunkNum(adj, c) <= GlobalChunkIndex(range[2], 0)
      /\ GlobalChunkIndex(range[2], 0) \in Nat
      /\ collection.chunk_end = GlobalChunkIndex(range[2], 0)
  BY <1>2, <1>5, <1>7, GlobalIndex
<1>. QED BY <1>2, <1>5, <1>6, <1>8

\* find_src on an ordered list.
LEMMA FindOrderedFinds ==
    ASSUME Static, IsOrdered, NEW from, Placed(from) \/ Ended(from),
           NEW v \in Nat, VertexChunkOf(v) < range[2]
    PROVE  Finds(FindOrdered(from, v), Place(from), v)
<1>. DEFINE c == VertexChunkOf(v)
            first == OffsetsOfVertex(adj, v)[1]
            behind == OffsetsOfVertex(adj, v)[2]
            index == from.global_chunk_index
            offset == from.cur_offset
            before == FirstChunk(v) > index \/ first > offset
            none == \/ first >= behind \/ LastChunk(v) < index
                    \/ (FirstChunk(v) <= index /\ behind <= offset)
            there == IterAt(FirstChunk(v), first)
            here == IterAt(index, offset)
<1>1. FindOrdered(from, v) = IF none THEN end ELSE IF before THEN there ELSE here
  BY DEF FindOrdered, FirstChunk, LastChunk
<1>2. Ended(end)
  BY EndIsEnded
<1>3. /\ LastChunk(v) \in Nat /\ collection.chunk_end \in Nat
      /\ LastChunk(v) < collection.chunk_end
  BY LastChunkBelowEnd
<1>4. CASE Ended(from)
  <2>1. LastChunk(v) < index
    BY <1>3, <1>4 DEF Ended
  <2>2. FindOrdered(from, v) = end
    BY <1>1, <2>1
  <2>. QED BY <1>2, <1>4, <2>2, NoneFromEnd DEF Finds
<1>5. CASE Placed(from)
  <2>1. c \in VertexChunks /\ c \in Nat
    BY <1>5, OrderedCompare
  <2>2. first \in Nat /\ behind \in Nat
    BY <2>1, OrderedRows
  <2>3. /\ index \in Nat /\ offset \in Nat /\ offset < EdgeNum(adj, from.vertex_chunk_index)
        /\ from.vertex_chunk_index \in range[1] .. range[2] - 1
        /\ index = GlobalChunkIndex(from.vertex_chunk_index, offset \div ChunkSize)
    BY <1>5, PlaceOfPlaced DEF Placed, AtEdge, ReadersSettled, Iters
  <2>4. FirstChunk(v) \in Nat
    <3>1. adj \in AdjLists /\ PartialEnds(adj)
      BY DEF Static
    <3>2. first \in 0 .. EdgeNum(adj, c)
      BY <2>1, <2>2, <3>1, OrderedRows, EdgeChunkType
    <3>3. first \div ChunkSize \in Nat /\ first \div ChunkSize < EdgeChunkNum(adj, c)
      BY <2>1, <2>2, <3>1, <3>2, RowsOfVertexChunk, DivType
    <3>4. FirstChunk(v) = GlobalChunkIndex(c, first \div ChunkSize)
      BY DEF FirstChunk
    <3>. HIDE DEF c, first
    <3>. QED BY <2>1, <3>3, <3>4, GlobalOrder DEF c
  <2>5. none <=> NoRows(from, v)
    <3>1. LastChunk(v) < index <=> index > LastChunk(v)
      BY <1>3, <2>3
    <3>2. behind <= offset <=> offset >= behind
      BY <2>2, <2>3
    <3>3. ~(LastChunk(v) < index) => index <= LastChunk(v)
      BY <1>3, <2>3
    <3>. HIDE DEF first, behind, index, offset
    <3>. QED BY <3>1, <3>2, <3>3 DEF NoRows, Inside, first, behind, index, offset
  <2>6. before <=> ~(FirstChunk(v) <= index) \/ ~(first <= offset)
    <3>. HIDE DEF first, index, offset
    <3>. QED BY <2>2, <2>3, <2>4
  <2>7. CASE none
    <3>1. FindOrdered(from, v) = end
      BY <1>1, <2>7
    <3>2. NoneFrom(Place(from), v)
      BY <1>5, <2>5, <2>7, NoRowsNoEdge
    <3>. QED BY <1>2, <3>1, <3>2 DEF Finds
  <2>8. CASE ~none /\ before
    <3>1. FindOrdered(from, v) = there
      BY <1>1, <2>8
    <3>2. \/ ~(FirstChunk(v) <= index)
          \/ offset <= first
      <4>1. ~(first <= offset) => offset <= first
        BY <2>2, <2>3
      <4>. QED BY <2>6, <2>8, <4>1
    <3>3. /\ c \in range[1] .. range[2] - 1 /\ first < EdgeNum(adj, c)
      BY <1>5, <2>5, <2>8, <3>2, AheadOfRows
    <3>4. FirstChunk(v) = GlobalChunkIndex(c, first \div ChunkSize)
      BY DEF FirstChunk
    <3>5. Placed(there) /\ there.vertex_chunk_index = c /\ there.cur_offset = first
      BY <2>2, <3>3, <3>4, MadeAtEdge
    <3>. HIDE DEF there
    <3>6. Reached(Found(there, TRUE), Place(from), v)
      BY <1>5, <2>5, <2>8, <3>2, <3>5, AtFirstRow
    <3>. QED BY <3>1, <3>5, <3>6 DEF Finds
  <2>9. CASE ~none /\ ~before
    <3>1. FindOrdered(from, v) = here
      BY <1>1, <2>9
    <3>2. Edges[Place(from) + 1] = v
      BY <1>5, <2>5, <2>6, <2>9, AmongRows
    <3>3. Placed(here) /\ here.vertex_chunk_index = from.vertex_chunk_index
          /\ here.cur_offset = offset
      BY <2>3, MadeAtEdge
    <3>4. here.global_chunk_index = index
      BY DEF IterAt
    <3>. HIDE DEF here
    <3>5. SamePlace(here, from)
      BY <3>3, <3>4 DEF SamePlace
    <3>6. Reached(Found(here, TRUE), Place(from), v)
      BY <1>5, <3>2, <3>3, <3>5, ReachedHere
    <3>. QED BY <3>1, <3>3, <3>6 DEF Finds
  <2>. QED BY <2>7, <2>8, <2>9
<1>. QED BY <1>4, <1>5

------------------------------------------------------------------------------
(* The searches of an unordered list, and the searches as a whole.          *)

\* A search that begins at the vertex chunk of the vertex misses no edge before it.
LEMMA NoneBefore ==
    ASSUME Static, NEW from, Placed(from), NEW v \in Nat,
           VertexChunkOf(v) \in range[1] .. range[2] - 1,
           from.vertex_chunk_index < VertexChunkOf(v)
    PROVE  LET here == Off(VertexChunkOf(v))
           IN  /\ here \in Nat /\ Place(from) \in Nat /\ Place(from) <= here
               /\ \A p \in Place(from) .. here - 1 : Edges[p + 1] # v
<1>. DEFINE c == VertexChunkOf(v)
            a == from.vertex_chunk_index
            o == from.cur_offset
            here == Off(c)
<1>1. /\ Place(from) = Off(a) + o /\ Place(from) \in Nat /\ a \in Nat /\ o \in Nat
      /\ a \in range[1] .. range[2] - 1 /\ o < EdgeNum(adj, a)
  BY PlaceOfPlaced DEF Placed, AtEdge
<1>2. range[1] \in Nat /\ range[2] \in Nat /\ c \in VertexChunks
  BY RangeType
<1>3. /\ here \in Nat /\ Off(a) \in Nat /\ EdgeNum(adj, a) \in Nat
      /\ Off(a) + EdgeNum(adj, a) <= here
  <2>1. c \in range[1] .. range[2] /\ a \in range[1] .. range[2] /\ a < c
    <3>1. c \in range[1] .. range[2] - 1 /\ a < c
      OBVIOUS
    <3>. HIDE DEF c, a
    <3>. QED BY <1>1, <1>2, <3>1
  <2>. HIDE DEF a, c
  <2>. QED BY <1>1, <2>1, OffType DEF here
<1>4. Place(from) <= here
  <2>. HIDE DEF a, o, here
  <2>. QED BY <1>1, <1>3
<1>5. ASSUME NEW p \in Place(from) .. here - 1, Edges[p + 1] = v PROVE FALSE
  <2>1. p \in Nat /\ p < here
    <3>. HIDE DEF here
    <3>. QED BY <1>1, <1>3, <1>5
  <2>2. Off(c) <= Off(range[2]) /\ Off(range[2]) \in Nat
    <3>1. c \in range[1] .. range[2] /\ range[2] \in range[1] .. range[2] /\ c <= range[2]
      <4>1. c \in range[1] .. range[2] - 1
        OBVIOUS
      <4>. HIDE DEF c
      <4>. QED BY <1>2, <4>1
    <3>. QED BY <3>1, OffType
  <2>3. p < Len(Edges)
    <3>1. Len(Edges) = Off(range[2])
      BY EdgesShape
    <3>. HIDE DEF c
    <3>. QED BY <1>3, <2>1, <2>2, <3>1
  <2>4. PICK r \in Nat : p = Off(c) + r
    BY <1>5, <2>1, <2>3, HitIsAligned
  <2>. HIDE DEF c
  <2>. QED BY <1>3, <2>1, <2>4 DEF here
<1>. HIDE DEF here
<1>. QED BY <1>1, <1>3, <1>4, <1>5 DEF here

\* A search that begins further on is one from here, if no edge of the vertex is between.
LEMMA SearchedFurther ==
    ASSUME Static, NEW w, NEW at, NEW from \in Nat, NEW here \in Nat, from <= here,
           NEW v, \A p \in from .. here - 1 : Edges[p + 1] # v, Searched(w, at, here, v),
           Place(w.it) \in Nat
    PROVE  Searched(w, at, from, v)
<1>1. Len(Edges) \in Nat
  BY EdgesShape
<1>2. CASE Reached(w, here, v)
  <2>1. Place(w.it) \in Nat /\ here <= Place(w.it)
    BY <1>2 DEF Reached
  <2>2. ASSUME NEW p \in from .. Place(w.it) - 1 PROVE Edges[p + 1] # v
    <3>1. p \in from .. here - 1 \/ p \in here .. Place(w.it) - 1
      BY <2>1, <2>2
    <3>. QED BY <1>2, <3>1 DEF Reached
  <2>3. from <= Place(w.it)
    BY <2>1
  <2>. QED BY <1>2, <2>2, <2>3 DEF Searched, Reached
<1>3. CASE Missed(w, at, here, v)
  <2>1. ASSUME NEW p \in from .. Len(Edges) - 1 PROVE Edges[p + 1] # v
    <3>1. p \in from .. here - 1 \/ p \in here .. Len(Edges) - 1
      BY <1>1, <2>1
    <3>. QED BY <1>3, <3>1 DEF Missed, NoneFrom
  <2>2. NoneFrom(from, v)
    BY <2>1 DEF NoneFrom
  <2>3. Place(w.it) = at \/ from <= Place(w.it)
    BY <1>3 DEF Missed
  <2>. QED BY <1>3, <2>2, <2>3 DEF Searched, Missed
<1>. QED BY <1>2, <1>3 DEF Searched

\* An iterator given the offset of another one in the same edge chunk.
LEMMA PutInChunk ==
    ASSUME Static, NEW i, Placed(i), NEW from, Placed(from),
           from.global_chunk_index = i.global_chunk_index
    PROVE  LET j == [i EXCEPT !.cur_offset = from.cur_offset]
           IN  Placed(j) /\ SamePlace(j, from)
<1>. DEFINE j == [i EXCEPT !.cur_offset = from.cur_offset]
            a == i.vertex_chunk_index
            b == from.vertex_chunk_index
            m == i.cur_offset
            n == from.cur_offset
<1>1. i \in Iters /\ n \in Nat /\ m \in Nat
  BY PlaceOfPlaced DEF Placed, ReadersSettled, Iters
<1>2. /\ j \in Iters /\ j.adj_list_reader = i.adj_list_reader
      /\ j.property_reader = i.property_reader
      /\ j.num_row_of_chunk = i.num_row_of_chunk
      /\ j.broken = i.broken /\ j.unread = i.unread
      /\ j.global_chunk_index = i.global_chunk_index /\ j.vertex_chunk_index = a
      /\ j.cur_offset = n
  <2>1. j \in Iters
    BY <1>1 DEF Iters
  <2>. QED BY <1>1, <2>1 DEF Iters
<1>. HIDE DEF j
<1>3. /\ a \in VertexChunks /\ b \in VertexChunks
      /\ m < EdgeNum(adj, a) /\ n < EdgeNum(adj, b)
      /\ i.global_chunk_index = GlobalChunkIndex(a, m \div ChunkSize)
      /\ from.global_chunk_index = GlobalChunkIndex(b, n \div ChunkSize)
  BY RangeType DEF Placed, AtEdge
<1>4. /\ m \div ChunkSize \in Nat /\ n \div ChunkSize \in Nat
      /\ m \div ChunkSize < EdgeChunkNum(adj, a) /\ n \div ChunkSize < EdgeChunkNum(adj, b)
  <2>1. adj \in AdjLists /\ PartialEnds(adj)
    BY DEF Static
  <2>2. /\ m \in 0 .. EdgeNum(adj, a) /\ n \in 0 .. EdgeNum(adj, b)
    BY <1>1, <1>3, <2>1, EdgeChunkType
  <2>. QED BY <1>1, <1>3, <2>1, <2>2, RowsOfVertexChunk, DivType, LayoutAssumption
<1>5. a = b
  <2>1. VertexChunkOfGlobal(GlobalChunkIndex(a, m \div ChunkSize)) = a
    BY <1>3, <1>4, VertexChunkFound
  <2>2. VertexChunkOfGlobal(GlobalChunkIndex(b, n \div ChunkSize)) = b
    BY <1>3, <1>4, VertexChunkFound
  <2>3. GlobalChunkIndex(a, m \div ChunkSize) = GlobalChunkIndex(b, n \div ChunkSize)
    BY <1>3
  <2>. QED BY <2>1, <2>2, <2>3
<1>6. m \div ChunkSize = n \div ChunkSize
  <2>1. /\ GlobalChunkIndex(a, m \div ChunkSize) = GlobalChunkIndex(a, 0) + m \div ChunkSize
        /\ GlobalChunkIndex(a, n \div ChunkSize) = GlobalChunkIndex(a, 0) + n \div ChunkSize
    BY <1>3, <1>4, GlobalIndex
  <2>2. GlobalChunkIndex(a, 0) \in Nat
    BY <1>3, GlobalIndex, VertexChunkType
  <2>3. GlobalChunkIndex(a, m \div ChunkSize) = GlobalChunkIndex(a, n \div ChunkSize)
    BY <1>3, <1>5
  <2>. QED BY <1>4, <2>1, <2>2, <2>3
<1>7. SamePlace(j, from)
  BY <1>2, <1>5 DEF SamePlace
<1>8. ReadersSettled(j)
  BY <1>2 DEF Placed, ReadersSettled
<1>9. AtEdge(j)
  BY <1>2, <1>5, <1>3, <1>6 DEF AtEdge, Placed
<1>10. j.num_row_of_chunk # 0 =>
          j.num_row_of_chunk = RowsOfChunk(adj, <<a, n \div ChunkSize>>)
  BY <1>2, <1>6 DEF Placed
<1>11. Placed(j)
  BY <1>2, <1>8, <1>9, <1>10 DEF Placed
<1>. QED BY <1>7, <1>11 DEF j

\* first_src on an unordered list.
LEMMA FirstUnorderedSearches ==
    ASSUME Static, NEW i, Placed(i) \/ Ended(i), NEW from, Placed(from),
           NEW v \in Nat, VertexChunkOf(v) < range[2]
    PROVE  Searched(FirstUnordered(i, from, v), Place(i), Place(from), v)
<1>. DEFINE c == VertexChunkOf(v)
            a == from.vertex_chunk_index
            o == from.cur_offset
            g == from.global_chunk_index
            expect == GlobalChunkIndex(c, 0)
            ahead == Refresh(At(i, expect, c, 0))
            near == [i EXCEPT !.cur_offset = o]
            moved == Refresh(At(i, g, a, o))
            start == IF g < expect THEN ahead
                     ELSE IF g = i.global_chunk_index THEN near ELSE moved
            w == Walk(start, v, "search", c)
<1>1. ReadersSettled(i)
  BY DEF Placed, Ended
<1>2. /\ a \in range[1] .. range[2] - 1 /\ a \in VertexChunks /\ a \in Nat
      /\ o \in Nat /\ o < EdgeNum(adj, a) /\ g = GlobalChunkIndex(a, o \div ChunkSize)
      /\ Place(from) \in Nat /\ g \in Nat
  BY RangeType, PlaceOfPlaced DEF Placed, AtEdge, ReadersSettled, Iters
<1>3. /\ c \in VertexChunks /\ c \in Nat /\ c \in 0 .. VertexChunkNum
      /\ range[1] \in Nat /\ range[2] \in 0 .. VertexChunkNum /\ c < range[2]
  <2>1. range[1] \in Nat /\ range[2] \in 0 .. VertexChunkNum /\ VertexChunkNum \in Nat
    BY RangeType, VertexChunkType
  <2>2. c \in Nat /\ c < range[2]
    BY VertexChunkType
  <2>3. VertexChunks = {vc \in Nat : vc < VertexChunkNum}
    BY VertexChunkType
  <2>. HIDE DEF c
  <2>. QED BY <2>1, <2>2, <2>3
<1>4. /\ adj \in AdjLists /\ PartialEnds(adj) /\ ChunkSize \in Nat \ {0}
  BY LayoutAssumption DEF Static
<1>5. /\ EdgeNum(adj, c) \in Nat /\ 0 < EdgeNum(adj, c) /\ 0 < EdgeChunkNum(adj, c)
      /\ EdgeChunkNum(adj, c) \in Nat
  BY <1>3, <1>4, RowsOfVertexChunk
<1>6. 0 \div ChunkSize = 0
  BY <1>4, DivUnique, 0 * ChunkSize + 0 = 0, 0 \in 0 .. ChunkSize - 1
<1>7. FirstUnordered(i, from, v) = w
  <2>1. /\ expect \in Nat /\ expect + EdgeChunkNum(adj, c) <= collection.chunk_end
        /\ collection.chunk_end \in Nat
    <3>. HIDE DEF c
    <3>. QED BY <1>3, GlobalIndex
  <2>2. ~(expect > collection.chunk_end)
    <3>. HIDE DEF expect
    <3>. QED BY <1>5, <2>1
  <2>. QED BY <2>2 DEF FirstUnordered
<1>. HIDE DEF w
<1>8. g < expect => a < c
  <2>1. o \div ChunkSize \in Nat /\ o \div ChunkSize < EdgeChunkNum(adj, a)
    <3>1. o \in 0 .. EdgeNum(adj, a)
      BY <1>2, <1>4, EdgeChunkType
    <3>. QED BY <1>2, <1>4, <3>1, RowsOfVertexChunk, DivType
  <2>2. /\ expect <= g <=> (c < a \/ (c = a /\ 0 <= o \div ChunkSize))
        /\ expect \in Nat
    <3>1. 0 \in Nat
      OBVIOUS
    <3>. HIDE DEF c, a, o, g
    <3>. QED BY <1>2, <1>3, <1>5, <2>1, <3>1, GlobalOrder
  <2>. HIDE DEF c, a, o, g, expect
  <2>. QED BY <1>2, <1>3, <2>1, <2>2
<1>9. \A j : Placed(j) /\ ChunkPassed(j, c) => VertexChunkOf(v) < j.vertex_chunk_index
  BY <1>3, PlaceOfPlaced DEF ChunkPassed
<1>10. ASSUME NEW s, start = s, Placed(s)
       PROVE  /\ Searched(w, Place(i), Place(s), v) /\ Place(s) \in Nat
              /\ Place(w.it) \in Nat
  <2>1. Starts("search", s)
    BY <1>10 DEF Starts
  <2>2. w = Walk(s, v, "search", c)
    BY <1>10 DEF w
  <2>. HIDE DEF c, start
  <2>3. (\A at : Searched(w, at, Place(s), v)) /\ Seen("search", w.it)
    BY <1>9, <2>1, <2>2, WalkSearches DEF c
  <2>4. Place(w.it) \in Nat
    BY <2>3, PlaceOfPlaced, PlaceOfEnded DEF Seen
  <2>. QED BY <1>10, <2>3, <2>4, PlaceOfPlaced
<1>11. CASE g < expect
  <2>1. c \in range[1] .. range[2] - 1
    <3>. HIDE DEF c, a, g, expect
    <3>. QED BY <1>2, <1>3, <1>8, <1>11
  <2>2. Placed(ahead) /\ ahead.vertex_chunk_index = c /\ ahead.cur_offset = 0
    <3>1. expect = GlobalChunkIndex(c, 0 \div ChunkSize) /\ 0 \in Nat
      BY <1>6
    <3>. HIDE DEF c, expect
    <3>. QED BY <1>1, <1>5, <2>1, <3>1, MovedAndRefreshed
  <2>3. start = ahead
    BY <1>11
  <2>. HIDE DEF ahead, start
  <2>4. /\ Searched(w, Place(i), Place(ahead), v) /\ Place(ahead) \in Nat
        /\ Place(w.it) \in Nat
    BY <1>10, <2>2, <2>3
  <2>5. /\ Off(c) \in Nat /\ Place(from) <= Off(c)
        /\ \A p \in Place(from) .. Off(c) - 1 : Edges[p + 1] # v
    BY <1>8, <1>11, <2>1, NoneBefore
  <2>6. Place(ahead) = Off(c)
    <3>1. Place(ahead) = Off(ahead.vertex_chunk_index) + ahead.cur_offset
      BY <2>2, PlaceOfPlaced
    <3>. HIDE DEF c
    <3>. QED BY <2>2, <2>5, <3>1
  <2>. HIDE DEF c
  <2>. QED BY <1>2, <1>7, <2>4, <2>5, <2>6, SearchedFurther
<1>12. CASE ~(g < expect) /\ g = i.global_chunk_index
  <2>1. Placed(i)
    <3>2. Ended(i) => IsEnd(i)
      BY PlaceOfEnded
    <3>3. ~IsEnd(i)
      <4>1. ~IsEnd(from)
        BY PlaceOfPlaced
      <4>. QED BY <1>12, <4>1 DEF IsEnd
    <3>. QED BY <3>2, <3>3
  <2>2. Placed(near) /\ SamePlace(near, from)
    BY <1>12, <2>1, PutInChunk
  <2>3. start = near
    BY <1>12
  <2>. HIDE DEF near, start
  <2>4. Searched(w, Place(i), Place(near), v)
    BY <1>10, <2>2, <2>3
  <2>. QED BY <1>7, <2>2, <2>4, PlaceOfSame
<1>13. CASE ~(g < expect) /\ g # i.global_chunk_index
  <2>1. Placed(moved) /\ moved.global_chunk_index = g
        /\ moved.vertex_chunk_index = a /\ moved.cur_offset = o
    <3>. HIDE DEF a, o, g
    <3>. QED BY <1>1, <1>2, MovedAndRefreshed
  <2>2. start = moved
    BY <1>13
  <2>. HIDE DEF moved, start
  <2>3. SamePlace(moved, from)
    BY <2>1 DEF SamePlace
  <2>4. Searched(w, Place(i), Place(moved), v)
    BY <1>10, <2>1, <2>2
  <2>. QED BY <1>7, <2>3, <2>4, PlaceOfSame
<1>. QED BY <1>11, <1>12, <1>13

\* first_src, from the iterator itself or from another one.
LEMMA FirstOfSearches ==
    ASSUME Static, NEW i, Placed(i) \/ Ended(i), NEW from, Placed(from) \/ Ended(from),
           NEW v \in Nat, VertexChunkOf(v) < range[2]
    PROVE  Searched(FirstOf(i, from, v), Place(i), Place(from), v)
<1>1. CASE Ended(from)
  <2>1. FirstOf(i, from, v) = Found(i, FALSE)
    BY <1>1, PlaceOfEnded DEF FirstOf
  <2>2. NoneFrom(Place(from), v)
    BY <1>1, NoneFromEnd
  <2>3. Missed(Found(i, FALSE), Place(i), Place(from), v)
    BY <2>2, MissedHere
  <2>. QED BY <2>1, <2>3 DEF Searched
<1>2. CASE Placed(from)
  <2>1. ~IsEnd(from)
    BY <1>2, PlaceOfPlaced
  <2>2. CASE IsOrdered
    <3>1. FirstOf(i, from, v) = FirstOrdered(i, from, v)
      BY <2>1, <2>2 DEF FirstOf
    <3>. QED BY <1>2, <2>2, <3>1, FirstOrderedSearches
  <2>3. CASE ~IsOrdered
    <3>1. FirstOf(i, from, v) = FirstUnordered(i, from, v)
      BY <2>1, <2>3 DEF FirstOf
    <3>. QED BY <1>2, <3>1, FirstUnorderedSearches
  <2>. QED BY <2>2, <2>3
<1>. QED BY <1>1, <1>2

\* A search from the iterator itself ends at or behind it, wherever it was before.
LEMMA SearchedFromSelf ==
    ASSUME NEW w, NEW from \in Nat, NEW v, Searched(w, from, from, v)
    PROVE  \A at : Searched(w, at, from, v)
<1>1. Missed(w, from, from, v) => from <= Place(w.it)
  BY DEF Missed
<1>2. \A at : Missed(w, from, from, v) => Missed(w, at, from, v)
  BY <1>1 DEF Missed
<1>. QED BY <1>2 DEF Searched

\* next_src(v): the first edge of v behind the iterator.
LEMMA NextOfSearches ==
    ASSUME Static, NEW i, Placed(i), NEW v \in Nat, VertexChunkOf(v) < range[2]
    PROVE  \A at : Searched(NextOf(i, v), at, Place(i) + 1, v)
<1>. DEFINE k == Increment(i)
<1>1. Place(k) = Place(i) + 1 /\ (Placed(k) \/ Ended(k))
  BY IncrementAdvances, PlaceAdvances
<1>2. Place(i) \in Nat
  BY PlaceOfPlaced
<1>3. NextOf(i, v) = FirstOf(k, k, v)
  BY DEF NextOf, FirstOfSelf
<1>. HIDE DEF k
<1>4. Searched(NextOf(i, v), Place(k), Place(k), v)
  BY <1>1, <1>3, FirstOfSearches
<1>5. Place(k) \in Nat
  BY <1>1, <1>2
<1>6. \A at : Searched(NextOf(i, v), at, Place(k), v)
  BY <1>4, <1>5, SearchedFromSelf
<1>. QED BY <1>1, <1>6

\* find_src on an unordered list: its loop ends at an edge of the vertex or at the end.
LEMMA FindUnorderedFinds ==
    ASSUME Static, NEW from, Ended(from) \/ (Placed(from) /\ ~from.unread), NEW v \in Nat
    PROVE  Finds(FindUnordered(from, v), Place(from), v)
<1>. DEFINE k == CopyIter(from)
            w == Walk(k, v, "find", VertexChunkNum)
<1>1. /\ Placed(from) => Placed(k) /\ SamePlace(k, from) /\ k.unread = from.unread
      /\ Ended(from) => Ended(k) /\ SamePlace(k, from)
  BY CopyPlaced
<1>2. Starts("find", k) /\ Place(k) = Place(from)
  BY <1>1, PlaceOfSame DEF Starts
<1>3. FindUnordered(from, v) = w.it
  BY DEF FindUnordered
<1>. HIDE DEF k
<1>4. \A j : Placed(j) => ~ChunkPassed(j, VertexChunkNum)
  <2>. SUFFICES ASSUME NEW j, Placed(j) PROVE ~ChunkPassed(j, VertexChunkNum)
    OBVIOUS
  <2>1. j.vertex_chunk_index \in VertexChunks /\ j.vertex_chunk_index \in Nat
    BY RangeType DEF Placed, AtEdge
  <2>. QED BY <2>1, VertexChunkType DEF ChunkPassed
<1>5. /\ \A at : Searched(w, at, Place(k), v)
      /\ ~w.found => Ended(w.it)
  <2>1. \A j : Placed(j) /\ ChunkPassed(j, VertexChunkNum)
                  => VertexChunkOf(v) < j.vertex_chunk_index
    BY <1>4
  <2>. QED BY <1>2, <1>4, <2>1, WalkSearches
<1>. HIDE DEF w
<1>6. CASE w.found
  <2>1. Reached(w, Place(k), v)
    BY <1>5, <1>6 DEF Searched, Missed
  <2>2. Placed(w.it) /\ Reached(Found(w.it, TRUE), Place(k), v)
    BY <2>1 DEF Reached, Found
  <2>. QED BY <1>2, <1>3, <2>2 DEF Finds
<1>7. CASE ~w.found
  <2>1. Missed(w, Place(k), Place(k), v)
    BY <1>5, <1>7 DEF Searched, Reached
  <2>. QED BY <1>2, <1>3, <1>5, <1>7, <2>1 DEF Finds, Missed
<1>. QED BY <1>6, <1>7

\* find_src
LEMMA FindFinds ==
    ASSUME Static, NEW from, Ended(from) \/ (Placed(from) /\ ~from.unread),
           NEW v \in Nat, VertexChunkOf(v) < range[2]
    PROVE  Finds(Find(from, v), Place(from), v)
<1>1. CASE IsOrdered
  <2>1. Find(from, v) = FindOrdered(from, v)
    BY <1>1 DEF Find
  <2>. QED BY <1>1, <2>1, FindOrderedFinds
<1>2. CASE ~IsOrdered
  <2>1. Find(from, v) = FindUnordered(from, v)
    BY <1>2 DEF Find
  <2>. QED BY <2>1, FindUnorderedFinds
<1>. QED BY <1>1, <1>2

------------------------------------------------------------------------------
(* The invariant of the iterator, and its steps as steps of EdgeScan.       *)

\* What the theorems assume of the collections that are opened: no vertex chunk of the
\* list is empty or ends with a full edge chunk, and the range is not empty.
PayloadsEndPartly == \A s \in Payloads : PartialEnds(s)
RangesNotEmpty == \A r \in Ranges : r[1] < r[2]

Inv ==
    /\ Static
    /\ Placed(it) \/ Ended(it)
    /\ call.found \in BOOLEAN

\* The position is that of EdgeScan.
LEMMA PositionIsPlace ==
    ASSUME Static, Placed(it) \/ Ended(it)
    PROVE  Position = Place(it)
<1>1. ~it.broken
  BY DEF Placed, Ended, ReadersSettled
<1>2. CASE Ended(it)
  <2>1. IsEnd(it) /\ Place(it) = Len(Edges)
    BY <1>2, PlaceOfEnded
  <2>. QED BY <1>1, <2>1 DEF Position
<1>3. CASE Placed(it)
  <2>. DEFINE vc == it.vertex_chunk_index
              before == {c \in VertexChunks : range[1] <= c /\ c < vc}
  <2>1. /\ ~IsEnd(it) /\ Place(it) = Off(vc) + it.cur_offset
        /\ it.cur_offset < EdgeNum(adj, vc) /\ it.cur_offset \in Nat
        /\ EdgeNum(adj, vc) \in Nat
        /\ vc \in VertexChunks /\ vc \in Nat /\ vc \in range[1] .. range[2] - 1
        /\ it.adj_list_reader.vertex_chunk_index = vc
    BY <1>3, PlaceOfPlaced, RangeType, OffType DEF Placed, AtEdge
  <2>2. before = range[1] .. vc - 1
    <3>1. /\ VertexChunkNum \in Nat /\ VertexChunks = {c \in Nat : c < VertexChunkNum}
          /\ range[1] \in Nat
      BY VertexChunkType, RangeType
    <3>. HIDE DEF vc
    <3>. QED BY <2>1, <3>1
  <2>3. EdgesIn(before) = Off(vc)
    <3>1. UNION {{c} \X (1 .. EdgeNum(adj, c)) : c \in before} = Pile(range[1] .. vc - 1, Rows)
      <4>1. \A c \in before : Rows[c] = EdgeNum(adj, c)
        BY DEF Rows
      <4>. HIDE DEF before, vc
      <4>. QED BY <2>2, <4>1 DEF Pile
    <3>. HIDE DEF before, vc
    <3>. QED BY <3>1 DEF EdgesIn, Off, PileUpTo
  <2>4. Position = EdgesIn(before) + it.cur_offset
    <3>1. ~(vc \notin VertexChunks \/ it.cur_offset >= EdgeNum(adj, vc))
      <4>. HIDE DEF vc
      <4>. QED BY <2>1
    <3>. QED BY <1>1, <2>1, <3>1 DEF Position
  <2>. QED BY <2>1, <2>3, <2>4
<1>. QED BY <1>2, <1>3

\* A call changes the iterator and the last call, nothing else.
LEMMA Kept ==
    ASSUME Inv, NEW i, Placed(i) \/ Ended(i), it' = i,
           UNCHANGED <<adj, adj_list_type, range, collection>>, call'.found \in BOOLEAN
    PROVE  /\ Inv' /\ Edges' = Edges
           /\ Position = Place(it) /\ Position' = Place(i)
<1>1. Static'
  BY DEF Inv, Static, IsOrdered
<1>2. Placed(i) => Placed(it)'
  BY DEF Placed, ReadersSettled, AtEdge, GlobalChunkIndex
<1>3. Ended(i) => Ended(it)'
  BY DEF Ended, ReadersSettled
<1>4. Inv'
  BY <1>1, <1>2, <1>3 DEF Inv
<1>5. Position = Place(it)
  BY PositionIsPlace DEF Inv
<1>6. (Position = Place(it))'
  <2>1. (Static /\ (Placed(it) \/ Ended(it)))'
    BY <1>4 DEF Inv
  <2>2. (Static /\ (Placed(it) \/ Ended(it)) => Position = Place(it))'
    BY PositionIsPlace, PTL
  <2>. QED BY <2>1, <2>2
<1>7. Place(it)' = Place(i)
  BY DEF Place, IsEnd, Off, Rows
<1>8. Edges' = Edges
  BY DEF Edges
<1>. QED BY <1>4, <1>5, <1>6, <1>7, <1>8

\* A search of the iterator is one of EdgeScan.
LEMMA SearchIsSearch ==
    ASSUME Inv, NEW w, NEW request, NEW from \in Nat, NEW v,
           Searched(w, Place(it), from, v),
           it' = w.it, call' = [request |-> request, found |-> w.found],
           UNCHANGED <<adj, adj_list_type, range, collection>>
    PROVE  /\ Inv' /\ Edges' = Edges
           /\ Scan!Search(request, from, v)
<1>1. Placed(w.it) \/ Ended(w.it)
  BY DEF Searched, Reached, Missed
<1>2. w.found \in BOOLEAN
  BY DEF Searched, Reached, Missed
<1>3. call'.found \in BOOLEAN
  BY <1>2
<1>4. /\ Inv' /\ Edges' = Edges
      /\ Position = Place(it) /\ Position' = Place(w.it)
  BY <1>1, <1>3, Kept
<1>5. Place(w.it) \in Nat /\ Len(Edges) \in Nat /\ Place(w.it) <= Len(Edges)
      /\ (Placed(w.it) => Place(w.it) < Len(Edges))
  BY <1>1, PlaceOfPlaced, PlaceOfEnded, EdgesShape DEF Inv
<1>6. CASE Reached(w, from, v)
  <2>1. Place(w.it) \in Scan!Hits(from, v)
    <3>1. Place(w.it) \in from .. Len(Edges) - 1 /\ Edges[Place(w.it) + 1] = v
      BY <1>5, <1>6 DEF Reached
    <3>. QED BY <3>1 DEF Scan!Hits
  <2>2. ASSUME NEW p \in Scan!Hits(from, v) PROVE Place(w.it) <= p
    <3>1. p \in from .. Len(Edges) - 1 /\ Edges[p + 1] = v
      BY <2>2 DEF Scan!Hits
    <3>2. p \notin from .. Place(w.it) - 1
      BY <1>6, <3>1 DEF Reached
    <3>. QED BY <1>5, <3>1, <3>2
  <2>3. Scan!Returns(request, TRUE)
    BY <1>6 DEF Reached, Scan!Returns
  <2>. QED BY <1>4, <2>1, <2>2, <2>3 DEF Scan!Search, Scan!Reaches
<1>7. CASE Missed(w, Place(it), from, v)
  <2>1. Scan!Hits(from, v) = {}
    BY <1>7 DEF Missed, NoneFrom, Scan!Hits
  <2>2. Scan!Returns(request, FALSE)
    BY <1>7 DEF Missed, Scan!Returns
  <2>3. Place(w.it) \in {Place(it)} \cup (from .. Len(Edges))
    BY <1>5, <1>7 DEF Missed
  <2>. QED BY <1>4, <2>1, <2>2, <2>3 DEF Scan!Search, Scan!Misses, Scan!End
<1>. QED BY <1>4, <1>6, <1>7 DEF Searched

\* find_src is Find.
LEMMA FindIsFind ==
    ASSUME Inv, NEW j, NEW place, NEW v, NEW from \in Nat, from = Scan!From(place),
           Finds(j, from, v), it' = j,
           call' = [request |-> <<"find", place, v>>, found |-> ~IsEnd(j)],
           UNCHANGED <<adj, adj_list_type, range, collection>>
    PROVE  Inv' /\ Scan!Find(place, v)
<1>1. Position = Place(it)
  BY PositionIsPlace DEF Inv
<1>2. CASE Placed(j) /\ Reached(Found(j, TRUE), from, v)
  <2>. DEFINE w == Found(j, TRUE)
  <2>1. (~IsEnd(j)) = TRUE
    BY <1>2, PlaceOfPlaced DEF Inv
  <2>2. w.it = j /\ w.found = TRUE
    BY DEF Found
  <2>3. Reached(w, from, v)
    BY <1>2
  <2>. HIDE DEF w
  <2>4. Searched(w, Place(it), from, v)
    BY <2>3 DEF Searched
  <2>5. it' = w.it /\ call' = [request |-> <<"find", place, v>>, found |-> w.found]
    BY <2>1, <2>2
  <2>6. Inv' /\ Edges' = Edges /\ Scan!Search(<<"find", place, v>>, from, v)
    BY <2>4, <2>5, SearchIsSearch
  <2>7. ~Scan!Misses(<<"find", place, v>>, from, v)
    BY <2>2, <2>5 DEF Scan!Misses, Scan!Returns
  <2>. QED BY <2>6, <2>7 DEF Scan!Search, Scan!Find
<1>3. CASE Ended(j) /\ NoneFrom(from, v)
  <2>. DEFINE w == Found(j, FALSE)
  <2>1. (~IsEnd(j)) = FALSE /\ Place(j) = Len(Edges) /\ Place(j) \in Nat
    BY <1>3, PlaceOfEnded DEF Inv
  <2>2. w.it = j /\ w.found = FALSE
    BY DEF Found
  <2>3. from <= Place(j)
    <3>1. Place(it) \in Nat /\ Place(it) <= Len(Edges)
      BY PlaceOfPlaced, PlaceOfEnded, EdgesShape DEF Inv
    <3>2. from = 0 \/ from = Place(it)
      BY <1>1 DEF Scan!From
    <3>. QED BY <2>1, <3>1, <3>2
  <2>. HIDE DEF w
  <2>4. Searched(w, Place(it), from, v)
    <3>1. Ended(w.it) /\ from <= Place(w.it)
      BY <1>3, <2>2, <2>3, Zenon
    <3>2. w.found = FALSE /\ NoneFrom(from, v)
      BY <1>3, <2>2
    <3>3. Missed(w, Place(it), from, v)
      BY <3>1, <3>2 DEF Missed
    <3>. QED BY <3>3 DEF Searched
  <2>5. it' = w.it /\ call' = [request |-> <<"find", place, v>>, found |-> w.found]
    BY <2>1, <2>2
  <2>6. Inv' /\ Edges' = Edges /\ Scan!Search(<<"find", place, v>>, from, v)
    BY <2>4, <2>5, SearchIsSearch
  <2>7. ~Scan!Reaches(<<"find", place, v>>, from, v)
    BY <2>2, <2>5 DEF Scan!Reaches, Scan!Returns
  <2>8. Position' = Scan!End
    <3>1. call'.found \in BOOLEAN
      BY <2>2, <2>5
    <3>2. Position' = Place(j)
      BY <1>3, <3>1, Kept
    <3>. QED BY <2>1, <3>2 DEF Scan!End
  <2>. QED BY <2>6, <2>7, <2>8 DEF Scan!Search, Scan!Find
<1>. QED BY <1>2, <1>3 DEF Finds

\* Every step keeps the invariant, and is a step of EdgeScan or leaves its variables.
LEMMA StepIsStep ==
    ASSUME Inv, Next
    PROVE  Inv' /\ (Scan!Next \/ UNCHANGED <<Edges, Position, call>>)
<1>. DEFINE Same == UNCHANGED <<adj, adj_list_type, range, collection>>
            Step2 == Inv' /\ (Scan!Next \/ UNCHANGED <<Edges, Position, call>>)
<1>1. Static /\ (Placed(it) \/ Ended(it)) /\ call.found \in BOOLEAN
  BY DEF Inv
<1>2. /\ Placed(it) => ~IsEnd(it) /\ Place(it) \in Nat /\ Place(it) < Len(Edges)
      /\ Ended(it) => IsEnd(it) /\ Place(it) = Len(Edges) /\ Place(it) \in Nat
      /\ Len(Edges) \in Nat
  BY <1>1, PlaceOfPlaced, PlaceOfEnded, EdgesShape
<1>3. /\ Position = Place(it) /\ Scan!End = Len(Edges)
      /\ ~IsEnd(it) => Placed(it) /\ ~Scan!IsEnd
      /\ IsEnd(it) => Ended(it) /\ Scan!IsEnd
  BY <1>1, <1>2, PositionIsPlace DEF Scan!IsEnd, Scan!End
<1>4. /\ (Placed(begin) \/ Ended(begin)) /\ Placed(begin) /\ ~begin.unread
      /\ Place(begin) = 0
  <2>1. /\ Placed(begin) /\ ~begin.unread /\ begin.vertex_chunk_index = range[1]
        /\ begin.cur_offset = 0
    BY <1>1, BeginIsPlaced
  <2>2. Place(begin) = Off(begin.vertex_chunk_index) + begin.cur_offset
    BY <1>1, <2>1, PlaceOfPlaced
  <2>3. Off(range[1]) = 0
    BY <1>1, OffType
  <2>. HIDE DEF begin
  <2>. QED BY <2>1, <2>2, <2>3
<1>5. ASSUME NEW v \in Wanted
      PROVE  v \in VertexIds /\ v \in Nat /\ VertexChunkOf(v) < range[2]
  BY <1>5 DEF Wanted, VertexIds
<1>6. ASSUME NEW place \in {"here", "begin"}
      PROVE  /\ Placed(From(place)) \/ Ended(From(place))
             /\ Place(From(place)) = Scan!From(place) /\ Scan!From(place) \in Nat
  BY <1>1, <1>2, <1>3, <1>4, <1>6 DEF From, Scan!From
\* The calls that only read.
<1>7. ASSUME NEW i, Reads(i), Placed(i) \/ Ended(i), SamePlace(i, it)
      PROVE  Step2
  <2>1. it' = i /\ Same /\ call' = call
    BY <1>7 DEF Reads
  <2>2. call'.found \in BOOLEAN
    BY <1>1, <2>1
  <2>3. Inv' /\ Edges' = Edges /\ Position = Place(it) /\ Position' = Place(i)
    BY <1>7, <2>1, <2>2, Kept
  <2>4. Place(i) = Place(it)
    BY <1>7, PlaceOfSame
  <2>. QED BY <2>1, <2>3, <2>4
<1>8. CASE dereference
  <2>1. Placed(it) /\ ~it.unread /\ Reads(Dereference(it))
    BY <1>3, <1>8 DEF dereference, Follows
  <2>2. PICK i : i = Dereference(it)
    OBVIOUS
  <2>3. Placed(i) /\ SamePlace(i, it)
    BY <1>1, <2>1, <2>2, DereferencePlaced
  <2>. QED BY <1>7, <2>1, <2>2, <2>3
<1>9. CASE property
  <2>1. Placed(it) /\ Reads(ReadProperty(it))
    BY <1>3, <1>9 DEF property
  <2>2. PICK i : i = ReadProperty(it)
    OBVIOUS
  <2>3. Placed(i) /\ SamePlace(i, it)
    BY <1>1, <2>1, <2>2, PropertiesPlaced
  <2>. QED BY <1>7, <2>1, <2>2, <2>3
<1>10. CASE source
  <2>1. Placed(it) /\ Reads(Read(it))
    BY <1>3, <1>10 DEF source
  <2>2. PICK i : i = Read(it)
    OBVIOUS
  <2>3. Placed(i) /\ SamePlace(i, it)
    BY <1>1, <2>1, <2>2, ReadPlaced
  <2>. QED BY <1>7, <2>1, <2>2, <2>3
<1>11. CASE copy
  <2>1. Reads(CopyIter(it))
    BY <1>11 DEF copy
  <2>2. PICK i : i = CopyIter(it)
    OBVIOUS
  <2>3. (Placed(i) \/ Ended(i)) /\ SamePlace(i, it)
    BY <1>1, <2>2, CopyPlaced
  <2>. QED BY <1>7, <2>1, <2>2, <2>3
\* The calls that move.
<1>12. CASE increment
  <2>1. Placed(it) /\ ~IsEnd(it) /\ Moves(<<"increment">>, Increment(it))
    BY <1>3, <1>12 DEF increment
  <2>2. PICK i : i = Increment(it)
    OBVIOUS
  <2>3. /\ it' = i /\ Same /\ call' = [request |-> <<"increment">>, found |-> TRUE]
    BY <2>1, <2>2 DEF Moves, Returns, Found
  <2>4. Place(i) = Place(it) + 1 /\ (Placed(i) \/ Ended(i))
    BY <1>1, <2>1, <2>2, IncrementAdvances, PlaceAdvances
  <2>5. Inv' /\ Edges' = Edges /\ Position = Place(it) /\ Position' = Place(i)
    BY <2>3, <2>4, Kept
  <2>6. Scan!Advance
    BY <1>3, <2>1, <2>3, <2>4, <2>5 DEF Scan!Advance, Scan!Returns
  <2>. QED BY <2>5, <2>6 DEF Scan!Next
<1>13. CASE to_begin
  <2>1. PICK i : i = ToBegin(it)
    OBVIOUS
  <2>2. /\ it' = i /\ Same /\ call' = [request |-> <<"to_begin">>, found |-> TRUE]
    BY <1>13, <2>1 DEF to_begin, Moves, Returns, Found
  <2>3. Placed(i) /\ i.vertex_chunk_index = range[1] /\ i.cur_offset = 0
    BY <1>1, <2>1, ToBeginPlaced DEF Placed, Ended
  <2>4. Place(i) = 0
    <3>1. Place(i) = Off(i.vertex_chunk_index) + i.cur_offset
      BY <1>1, <2>3, PlaceOfPlaced
    <3>. QED BY <1>1, <2>3, <3>1, OffType
  <2>5. Inv' /\ Edges' = Edges /\ Position' = Place(i)
    BY <2>2, <2>3, Kept
  <2>6. Scan!Rewind
    BY <2>2, <2>4, <2>5 DEF Scan!Rewind, Scan!Returns
  <2>. QED BY <2>5, <2>6 DEF Scan!Next
\* The searches.  At the end next_src returns false.
<1>14. ASSUME NEW request, IsEnd(it), Returns(request, Found(it, FALSE))
       PROVE  Inv' /\ Edges' = Edges /\ Position' = Position /\ Scan!IsEnd
              /\ Scan!Returns(request, FALSE)
  <2>1. it' = it /\ Same /\ call' = [request |-> request, found |-> FALSE]
    BY <1>14 DEF Returns, Found
  <2>2. PICK i : i = it
    OBVIOUS
  <2>3. call'.found \in BOOLEAN
    BY <2>1
  <2>4. Inv' /\ Edges' = Edges /\ Position = Place(it) /\ Position' = Place(i)
    BY <1>1, <2>1, <2>2, <2>3, Kept
  <2>. QED BY <1>3, <1>14, <2>1, <2>2, <2>4 DEF Scan!Returns
<1>15. CASE next_same
  <2>1. CASE IsEnd(it)
    <3>1. Returns(<<"next">>, Found(it, FALSE))
      BY <1>15, <2>1 DEF next_same
    <3>. QED BY <1>14, <2>1, <3>1 DEF Scan!NextSame, Scan!Next
  <2>2. CASE ~IsEnd(it)
    <3>1. PICK w : w = NextSame(it)
      OBVIOUS
    <3>2. /\ it' = w.it /\ Same /\ call' = [request |-> <<"next">>, found |-> w.found]
      BY <1>15, <2>2, <3>1 DEF next_same, Returns
    <3>3. Searched(w, Place(it), Place(it) + 1, Edges[Place(it) + 1])
      BY <1>1, <1>3, <2>2, <3>1, NextSameSearches
    <3>4. /\ Inv' /\ Edges' = Edges
          /\ Scan!Search(<<"next">>, Place(it) + 1, Edges[Place(it) + 1])
      BY <1>2, <1>3, <2>2, <3>2, <3>3, SearchIsSearch
    <3>5. Scan!NextSame
      BY <1>3, <2>2, <3>4 DEF Scan!NextSame, Scan!EdgeAt
    <3>. QED BY <3>4, <3>5 DEF Scan!Next
  <2>. QED BY <2>1, <2>2
<1>16. ASSUME NEW v \in Wanted, next_of(v) PROVE Step2
  <2>1. CASE IsEnd(it)
    <3>1. Returns(<<"next", v>>, Found(it, FALSE))
      BY <1>16, <2>1 DEF next_of
    <3>. QED BY <1>5, <1>14, <1>16, <2>1, <3>1 DEF Scan!NextOf, Scan!Next
  <2>2. CASE ~IsEnd(it)
    <3>1. PICK w : w = NextOf(it, v)
      OBVIOUS
    <3>2. /\ it' = w.it /\ Same /\ call' = [request |-> <<"next", v>>, found |-> w.found]
      BY <1>16, <2>2, <3>1 DEF next_of, Returns
    <3>3. Searched(w, Place(it), Place(it) + 1, v)
      BY <1>1, <1>3, <1>5, <1>16, <2>2, <3>1, NextOfSearches
    <3>4. Inv' /\ Edges' = Edges /\ Scan!Search(<<"next", v>>, Place(it) + 1, v)
      BY <1>2, <1>3, <2>2, <3>2, <3>3, SearchIsSearch
    <3>5. Scan!NextOf(v)
      BY <1>3, <2>2, <3>4 DEF Scan!NextOf
    <3>. QED BY <1>5, <1>16, <3>4, <3>5 DEF Scan!Next
  <2>. QED BY <2>1, <2>2
<1>17. ASSUME NEW v \in Wanted, NEW place \in {"here", "begin"}, first_of(place, v)
       PROVE  Step2
  <2>1. PICK w : w = FirstOf(it, From(place), v)
    OBVIOUS
  <2>2. PICK from : from = From(place)
    OBVIOUS
  <2>3. /\ it' = w.it /\ Same
        /\ call' = [request |-> <<"first", place, v>>, found |-> w.found]
    BY <1>17, <2>1 DEF first_of, Returns
  <2>4. Searched(w, Place(it), Place(from), v)
    <3>1. PICK i : i = it
      OBVIOUS
    <3>2. Searched(FirstOf(i, from, v), Place(i), Place(from), v)
      BY <1>1, <1>5, <1>6, <1>17, <2>2, <3>1, FirstOfSearches
    <3>. QED BY <2>1, <2>2, <3>1, <3>2
  <2>5. Place(from) = Scan!From(place) /\ Place(from) \in Nat
    BY <1>6, <1>17, <2>2
  <2>6. Inv' /\ Edges' = Edges /\ Scan!Search(<<"first", place, v>>, Place(from), v)
    BY <2>3, <2>4, <2>5, SearchIsSearch
  <2>7. Scan!FirstOf(place, v)
    BY <2>5, <2>6 DEF Scan!FirstOf
  <2>. QED BY <1>5, <1>17, <2>6, <2>7 DEF Scan!Next
<1>18. ASSUME NEW v \in Wanted, NEW place \in {"here", "begin"}, find(place, v)
       PROVE  Step2
  <2>1. PICK from : from = From(place)
    OBVIOUS
  <2>2. PICK j : j = Find(from, v)
    OBVIOUS
  <2>3. /\ it' = j /\ Same
        /\ call' = [request |-> <<"find", place, v>>, found |-> ~IsEnd(j)]
    BY <1>18, <2>1, <2>2 DEF find, Returns, Assigned, Found
  <2>4. Ended(from) \/ (Placed(from) /\ ~from.unread)
    BY <1>1, <1>4, <1>18, <2>1 DEF find, Follows, From
  <2>5. Finds(j, Place(from), v)
    BY <1>1, <1>5, <1>18, <2>2, <2>4, FindFinds
  <2>6. Place(from) = Scan!From(place) /\ Place(from) \in Nat
    BY <1>6, <1>18, <2>1
  <2>7. Inv' /\ Scan!Find(place, v)
    BY <2>3, <2>5, <2>6, FindIsFind
  <2>. QED BY <1>5, <1>18, <2>7 DEF Scan!Next
<1>. HIDE DEF Step2
<1>. QED BY <1>8, <1>9, <1>10, <1>11, <1>12, <1>13, <1>15, <1>16, <1>17, <1>18 DEF Next, Step2

\* A collection that is opened, and its first iterator.
LEMMA InitInv ==
    ASSUME PayloadsEndPartly, RangesNotEmpty, Init
    PROVE  Inv /\ Scan!Init
<1>1. Static
  <2>1. adj \in AdjLists /\ PartialEnds(adj) /\ Aligned(adj) /\ (IsOrdered => Ordered(adj))
    BY IterAssumption DEF Init, PayloadsEndPartly
  <2>2. range \in VertexChunks \X (1 .. VertexChunkNum) /\ range[1] < range[2]
    BY IterAssumption DEF Init, RangesNotEmpty
  <2>. QED BY <2>1, <2>2 DEF Init, Static
<1>2. /\ Placed(begin) /\ begin.vertex_chunk_index = range[1] /\ begin.cur_offset = 0
  BY <1>1, BeginIsPlaced
<1>3. it = begin /\ call = [request |-> <<>>, found |-> TRUE]
  BY DEF Init
<1>4. Inv
  BY <1>1, <1>2, <1>3 DEF Inv
<1>5. Position = 0
  <2>1. Position = Place(it)
    BY <1>4, PositionIsPlace DEF Inv
  <2>2. Place(begin) = Off(begin.vertex_chunk_index) + begin.cur_offset
    BY <1>1, <1>2, PlaceOfPlaced
  <2>3. Off(range[1]) = 0
    BY <1>1, OffType
  <2>. HIDE DEF begin
  <2>. QED BY <1>2, <1>3, <2>1, <2>2, <2>3
<1>6. Edges \in Seq(VertexIds)
  BY <1>1, EdgesShape
<1>. QED BY <1>3, <1>4, <1>5, <1>6 DEF Scan!Init

\* A step that changes nothing.
LEMMA SameStep ==
    ASSUME Inv, UNCHANGED vars
    PROVE  Inv' /\ UNCHANGED <<Edges, Position, call>>
<1>1. PICK i : i = it
  OBVIOUS
<1>2. /\ Placed(i) \/ Ended(i)
      /\ it' = i /\ UNCHANGED <<adj, adj_list_type, range, collection, call>>
  BY <1>1 DEF vars, Inv
<1>3. call'.found \in BOOLEAN
  BY <1>2 DEF Inv
<1>4. Inv' /\ Edges' = Edges /\ Position = Place(it) /\ Position' = Place(i)
  BY <1>2, <1>3, Kept
<1>. QED BY <1>1, <1>2, <1>4

\* The invariant of the iterator, for every such list, range, vertex chunk size and edge
\* chunk size: it is at an edge of the range, with all that it keeps beside its position in
\* agreement, or at the end.
LEMMA Invariant ==
    ASSUME PayloadsEndPartly, RangesNotEmpty
    PROVE  Spec => []Inv
<1>1. Init => Inv
  BY InitInv
<1>2. Inv /\ [Next]_vars => Inv'
  BY StepIsStep, SameStep
<1>. QED BY <1>1, <1>2, PTL DEF Spec

\* For every adjacency list in which no vertex chunk is empty or ends with a full edge
\* chunk, and every range of vertex chunks that is not empty: the members of the iterator
\* are what the code declares (EdgeIter).
THEOREM TypeCorrect ==
    ASSUME PayloadsEndPartly, RangesNotEmpty
    PROVE  Spec => []TypeOK
<1>1. Inv => TypeOK
  BY DEF Inv, TypeOK, Placed, Ended, ReadersSettled, Iters
<1>. QED BY Invariant, <1>1, PTL

\* The number of the edge chunk, the vertex chunk with the offset, and the reader are at the
\* same place, and an edge is there (operator++, first_src, next_src, find_src, to_begin).
THEOREM PositionsCorrect ==
    ASSUME PayloadsEndPartly, RangesNotEmpty
    PROVE  Spec => []PositionsAgree
<1>1. Inv => PositionsAgree
  <2>. SUFFICES ASSUME Inv, ~IsEnd(it)
                PROVE  /\ it.vertex_chunk_index \in VertexChunks
                       /\ it.cur_offset < EdgeNum(adj, it.vertex_chunk_index)
                       /\ it.global_chunk_index =
                            GlobalChunkIndex(it.vertex_chunk_index, it.cur_offset \div ChunkSize)
                       /\ it.adj_list_reader.vertex_chunk_index = it.vertex_chunk_index
    BY DEF PositionsAgree
  <2>1. Static /\ Placed(it)
    BY PlaceOfEnded DEF Inv
  <2>. QED BY <2>1, RangeType DEF Placed, AtEdge
<1>. QED BY Invariant, <1>1, PTL

\* The number of rows by which ++ finds the end of a vertex chunk is that of the edge chunk
\* the iterator is in (operator++).
THEOREM CountCorrect ==
    ASSUME PayloadsEndPartly, RangesNotEmpty
    PROVE  Spec => []CountIsCurrent
<1>1. Inv => CountIsCurrent
  <2>. SUFFICES ASSUME Inv, ~IsEnd(it), it.num_row_of_chunk # 0
                PROVE  it.num_row_of_chunk =
                          RowsOfChunk(adj, <<it.vertex_chunk_index, it.cur_offset \div ChunkSize>>)
    BY DEF CountIsCurrent
  <2>1. Placed(it)
    BY PlaceOfEnded DEF Inv
  <2>. QED BY <2>1 DEF Placed
<1>. QED BY Invariant, <1>1, PTL

\* What property returns is of the edge that the iterator points to, and is the value that
\* was written with it, as long as ++ has left no edge whose properties were not looked for
\* (EdgeIter::property, operator*, Edge::property).
THEOREM PropertiesCorrect ==
    ASSUME PayloadsEndPartly, RangesNotEmpty
    PROVE  Spec => []PropertiesFollow
<1>1. Inv => PropertiesFollow
  <2>. DEFINE row == RowOf(ReadProperty(it).property_reader)
              edge == <<it.vertex_chunk_index, it.cur_offset>>
  <2>. SUFFICES ASSUME Inv, ~IsEnd(it), ~it.unread
                PROVE  /\ row = edge
                       /\ \A t \in PV!Scalars : \A file_type \in {"parquet", "orc"} :
                             LET column == PV!ReadColumn(t, ValueOf(row), file_type)
                             IN  /\ PV!EdgeGives(t, column, ValueOf(edge))
                                 /\ PV!IterGives(t, column, ValueOf(edge))
    BY DEF PropertiesFollow
  <2>1. Static /\ Placed(it)
    BY PlaceOfEnded DEF Inv
  <2>2. row = edge
    BY <2>1, PropertiesPlaced
  <2>. HIDE DEF row, edge
  <2>3. Empty # Null
    BY IterAssumption
  <2>4. \A t \in PV!Scalars : \A file_type :
            /\ PV!EdgeGives(t, PV!ReadColumn(t, ValueOf(edge), file_type), ValueOf(edge))
            /\ PV!IterGives(t, PV!ReadColumn(t, ValueOf(edge), file_type), ValueOf(edge))
    BY <2>3, PV!PropertyKept, PV!IterPropertyKept DEF PV!Types
  <2>. QED BY <2>2, <2>4
<1>. QED BY Invariant, <1>1, PTL

\* The iterator implements a position in the sequence of the edges of the collection: ++
\* moves to the next edge, every search stops at the first edge of its vertex from where it
\* began, says so when there is none, and nothing throws (EdgeIter, EdgesCollection).
THEOREM IteratorScans ==
    ASSUME PayloadsEndPartly, RangesNotEmpty
    PROVE  Spec => Scans
<1>1. Init => Scan!Init
  BY InitInv
<1>2. Inv /\ [Next]_vars => [Scan!Next]_(Scan!vars)
  BY StepIsStep, SameStep DEF Scan!vars
<1>. QED BY <1>1, <1>2, Invariant, PTL DEF Spec, Scans, Scan!Spec
==============================================================================
