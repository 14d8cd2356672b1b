------------------------ MODULE AdjListReader_proofs ------------------------
(****************************************************************************)
(* Proofs about AdjListReader.  Each method of the reader takes a reader of *)
(* the right type with coherent caches to such a reader, whatever file      *)
(* cannot be read meanwhile; the invariants of the specification follow.    *)
(****************************************************************************)
EXTENDS AdjListReader, AdjListLayout_proofs

LEMMA ReaderFields ==
    ASSUME NEW r \in Readers
    PROVE  /\ r.vertex_chunk_index \in Nat
           /\ r.chunk_index \in Nat
           /\ r.seek_offset \in Nat
           /\ r.chunk_num \in Nat \cup {-1}
           /\ r.chunk_table \in (Nat \X Nat) \cup {NoTable}
           /\ r.intact \in BOOLEAN
BY DEF Readers

\* Reading the count of the current vertex chunk, into a reader whose table, but
\* not whose chunk_num, must be that of its position.
LEMMA RefreshChunkNumCorrect ==
    ASSUME NEW s \in AdjLists, NEW r \in Readers, NEW lost
    PROVE  LET o == RefreshChunkNum(s, r, lost)
           IN  /\ o.status \in {"OK", "IOError"}
               /\ o.reader \in Readers
               /\ o.reader.vertex_chunk_index = r.vertex_chunk_index
               /\ o.reader.chunk_index = r.chunk_index
               /\ o.reader.seek_offset = r.seek_offset
               /\ o.reader.chunk_table = r.chunk_table
               /\ o.status = "IOError" => ~o.reader.intact
               /\ o.status = "OK" =>
                     /\ r.vertex_chunk_index \in VertexChunks
                     /\ o.reader.chunk_num = EdgeChunkNum(s, r.vertex_chunk_index)
                     /\ o.reader.intact = r.intact
<1>1. CASE CountReadable(r.vertex_chunk_index, lost)
  <2>1. r.vertex_chunk_index \in VertexChunks
    BY <1>1 DEF CountReadable
  <2>2. EdgeChunkNum(s, r.vertex_chunk_index) \in Nat
    BY <2>1, EdgeChunkType
  <2>. QED BY <1>1, <2>1, <2>2 DEF RefreshChunkNum, Outcome, Readers
<1>2. CASE ~CountReadable(r.vertex_chunk_index, lost)
  BY <1>2 DEF RefreshChunkNum, Outcome, Readers
<1>. QED BY <1>1, <1>2

\* Moving to a vertex chunk, wherever the reader was.
LEMMA MoveToVertexChunkCorrect ==
    ASSUME NEW s \in AdjLists, NEW r \in Readers, Coherent(s, r),
           NEW vc \in Nat, NEW lost
    PROVE  LET o == MoveToVertexChunk(s, r, vc, lost)
           IN  /\ o.status \in {"OK", "IOError"}
               /\ o.reader \in Readers
               /\ Coherent(s, o.reader)
               /\ o.reader.vertex_chunk_index = vc
               /\ o.status = "OK" => o.reader.chunk_num \in Nat
<1>. DEFINE there == [r EXCEPT !.vertex_chunk_index = vc]
            moved == RefreshChunkNum(s, there, lost)
<1>1. CASE r.chunk_num >= 0 /\ r.vertex_chunk_index = vc
  <2>1. MoveToVertexChunk(s, r, vc, lost) = Outcome(r, "OK")
    BY <1>1 DEF MoveToVertexChunk
  <2>2. r.chunk_num \in Nat
    BY <1>1 DEF Readers
  <2>. QED BY <1>1, <2>1, <2>2 DEF Outcome
<1>2. CASE ~(r.chunk_num >= 0 /\ r.vertex_chunk_index = vc)
  <2>1. there \in Readers /\ there.vertex_chunk_index = vc
    BY DEF Readers
  <2>2. /\ moved.status \in {"OK", "IOError"}
        /\ moved.reader \in Readers
        /\ moved.reader.vertex_chunk_index = vc
        /\ moved.status = "IOError" => ~moved.reader.intact
        /\ moved.status = "OK" =>
              vc \in VertexChunks /\ moved.reader.chunk_num = EdgeChunkNum(s, vc)
    <3>. HIDE DEF there
    <3>. QED BY <2>1, RefreshChunkNumCorrect
  <2>. HIDE DEF moved
  <2>3. CASE moved.status = "IOError"
    <3>1. MoveToVertexChunk(s, r, vc, lost) = moved
      BY <1>2, <2>3 DEF MoveToVertexChunk, moved
    <3>. QED BY <2>2, <2>3, <3>1 DEF Coherent, OnVertexChunk
  <2>4. CASE moved.status = "OK"
    <3>1. MoveToVertexChunk(s, r, vc, lost) =
             Outcome([moved.reader EXCEPT !.chunk_table = NoTable, !.intact = TRUE], "OK")
      BY <1>2, <2>4 DEF MoveToVertexChunk, moved
    <3>2. EdgeChunkNum(s, vc) \in Nat
      BY <2>2, <2>4, EdgeChunkType
    <3>. DEFINE result == [moved.reader EXCEPT !.chunk_table = NoTable, !.intact = TRUE]
    <3>3. /\ result \in Readers
          /\ result.vertex_chunk_index = vc
          /\ result.chunk_table = NoTable
          /\ result.chunk_num = EdgeChunkNum(s, vc)
      BY <2>2, <2>4 DEF Readers
    <3>4. Coherent(s, result)
      BY <3>3 DEF Coherent
    <3>5. MoveToVertexChunk(s, r, vc, lost) = Outcome(result, "OK")
      BY <3>1
    <3>. HIDE DEF result
    <3>. QED BY <3>2, <3>3, <3>4, <3>5 DEF Outcome
  <2>. QED BY <2>2, <2>3, <2>4
<1>. QED BY <1>1, <1>2

LEMMA SeekCorrect ==
    ASSUME NEW s \in AdjLists, NEW r \in Readers, Coherent(s, r),
           NEW offset \in Nat, NEW lost
    PROVE  LET o == Seek(s, r, offset, lost)
           IN  /\ o.status \in {"OK", "IndexError", "IOError"}
               /\ o.reader \in Readers
               /\ Coherent(s, o.reader)
<1>. DEFINE index == offset \div ChunkSize
            moved == [r EXCEPT !.seek_offset = offset, !.chunk_index = index,
                               !.chunk_table = IF index = r.chunk_index THEN @
                                                                        ELSE NoTable]
            ready == IF moved.chunk_num < 0 THEN RefreshChunkNum(s, moved, lost)
                                            ELSE Outcome(moved, "OK")
<1>1. index \in Nat
  BY LayoutAssumption, DivType
<1>2. moved \in Readers /\ Coherent(s, moved)
  <2>. HIDE DEF index
  <2>1. moved \in Readers
    BY <1>1 DEF Readers
  <2>2. Coherent(s, moved)
    BY <1>1 DEF Readers, Coherent, OnVertexChunk
  <2>. QED BY <2>1, <2>2
<1>3. /\ ready.status \in {"OK", "IOError"}
      /\ ready.reader \in Readers
      /\ Coherent(s, ready.reader)
  <2>. HIDE DEF moved
  <2>1. CASE moved.chunk_num < 0
    BY <1>2, <2>1, RefreshChunkNumCorrect DEF Coherent, OnVertexChunk
  <2>2. CASE ~(moved.chunk_num < 0)
    BY <1>2, <2>2 DEF Outcome
  <2>. QED BY <2>1, <2>2
<1>4. Seek(s, r, offset, lost) =
         IF ready.status = "OK" /\ index >= ready.reader.chunk_num
         THEN Outcome(ready.reader, "IndexError")
         ELSE ready
  BY DEF Seek
<1>. HIDE DEF ready, index
<1>. QED BY <1>3, <1>4 DEF Outcome

LEMMA SeekVertexCorrect ==
    ASSUME NEW s \in AdjLists, NEW type, NEW r \in Readers, Coherent(s, r),
           NEW id \in Nat, NEW lost
    PROVE  LET o == SeekVertex(s, type, r, id, lost)
           IN  /\ o.status \in {"OK", "IndexError", "IOError"}
               /\ o.reader \in Readers
               /\ Coherent(s, o.reader)
<1>. DEFINE moved == MoveToVertexChunk(s, r, VertexChunkOf(id), lost)
<1>1. CASE VertexChunkOf(id) >= VertexChunkNum
  BY <1>1 DEF SeekVertex, Outcome
<1>2. CASE ~(VertexChunkOf(id) >= VertexChunkNum)
  <2>1. VertexChunkOf(id) \in VertexChunks /\ VertexChunkOf(id) \in Nat
    BY <1>2, VertexChunkType
  <2>2. /\ moved.status \in {"OK", "IOError"}
        /\ moved.reader \in Readers
        /\ Coherent(s, moved.reader)
    BY <2>1, MoveToVertexChunkCorrect
  <2>3. SeekVertex(s, type, r, id, lost) =
           IF moved.status # "OK" THEN moved
           ELSE IF type \notin OrderedTypes THEN Seek(s, moved.reader, 0, lost)
           ELSE IF OffsetFile = lost THEN Outcome(moved.reader, "IOError")
           ELSE Seek(s, moved.reader, FirstRow(s, id), lost)
    BY <1>2 DEF SeekVertex, OffsetsOfVertex
  <2>4. FirstRow(s, id) \in Nat
    BY <2>1, FirstRowType
  <2>. HIDE DEF moved
  <2>5. /\ Seek(s, moved.reader, 0, lost).status \in {"OK", "IndexError", "IOError"}
        /\ Seek(s, moved.reader, 0, lost).reader \in Readers
        /\ Coherent(s, Seek(s, moved.reader, 0, lost).reader)
    BY <2>2, SeekCorrect
  <2>6. LET o == Seek(s, moved.reader, FirstRow(s, id), lost)
        IN  /\ o.status \in {"OK", "IndexError", "IOError"}
            /\ o.reader \in Readers
            /\ Coherent(s, o.reader)
    BY <2>2, <2>4, SeekCorrect
  <2>. QED BY <2>2, <2>3, <2>5, <2>6 DEF Outcome
<1>. QED BY <1>1, <1>2

LEMMA SeekChunkIndexCorrect ==
    ASSUME NEW s \in AdjLists, NEW r \in Readers, Coherent(s, r),
           NEW vc \in Nat, NEW ec \in Nat, NEW lost
    PROVE  LET o == SeekChunkIndex(s, r, vc, ec, lost)
           IN  /\ o.status \in {"OK", "IndexError", "IOError"}
               /\ o.reader \in Readers
               /\ Coherent(s, o.reader)
<1>. DEFINE moved == MoveToVertexChunk(s, r, vc, lost)
            there == AtChunkStart(moved.reader, ec)
<1>1. /\ moved.status \in {"OK", "IOError"}
      /\ moved.reader \in Readers
      /\ Coherent(s, moved.reader)
  BY MoveToVertexChunkCorrect
<1>2. SeekChunkIndex(s, r, vc, ec, lost) =
         IF moved.status # "OK" \/ moved.reader.chunk_index = ec
         THEN moved
         ELSE Outcome(there, "OK")
  BY DEF SeekChunkIndex
<1>. HIDE DEF moved
<1>. USE DEF AtChunkStart
<1>3. ec * ChunkSize \in Nat
  BY LayoutAssumption
<1>4. there \in Readers
  BY <1>1, <1>3 DEF Readers
<1>5. Coherent(s, there)
  BY <1>1 DEF Readers, Coherent, OnVertexChunk
<1>. QED BY <1>1, <1>2, <1>4, <1>5 DEF Outcome

\* The vertex chunk at which the loop of next_chunk stops exists, and lies ahead.
\* If it is one whose count can be read, it has edges.
LEMMA NextStopCorrect ==
    ASSUME NEW s \in AdjLists, NEW vc \in Nat, NEW lost
    PROVE  LET stop == NextStop(s, vc, lost)
           IN  /\ stop \in Nat
               /\ stop > vc
               /\ vc < VertexChunkNum => stop <= VertexChunkNum
               /\ stop < VertexChunkNum /\ CountReadable(stop, lost)
                     => EdgeChunkNum(s, stop) > 0
               /\ stop <= VertexChunkNum =>
                     \A skipped \in vc + 1 .. stop - 1 :
                        CountReadable(skipped, lost) /\ EdgeChunkNum(s, skipped) = 0
<1>1. CASE vc >= VertexChunkNum
  BY <1>1, VertexChunkType DEF NextStop
<1>2. CASE ~(vc >= VertexChunkNum)
  <2>. DEFINE Ends(i) == \/ i = VertexChunkNum
                         \/ ~CountReadable(i, lost)
                         \/ EdgeChunkNum(s, i) > 0
              stops == {i \in vc + 1 .. VertexChunkNum : Ends(i)}
              Passed(i) == CountReadable(i, lost) /\ EdgeChunkNum(s, i) = 0
  <2>1. \A i \in vc + 1 .. VertexChunkNum : Ends(i) \/ Passed(i)
    <3>. SUFFICES ASSUME NEW i \in vc + 1 .. VertexChunkNum, ~Ends(i)
                  PROVE  Passed(i)
      OBVIOUS
    <3>1. i \in VertexChunks
      BY DEF CountReadable
    <3>. QED BY <3>1, EdgeChunkType
  <2>. HIDE DEF Passed
  <2>2. \E stop \in vc + 1 .. VertexChunkNum :
           Ends(stop) /\ \A skipped \in vc + 1 .. stop - 1 : Passed(skipped)
    <3>1. stops \subseteq Nat /\ stops # {}
      BY <1>2, VertexChunkType
    <3>2. PICK stop \in stops : \A i \in stops : stop <= i
      <4>. HIDE DEF stops
      <4>. QED BY <3>1, LeastElement
    <3>. HIDE DEF Ends
    <3>3. \A skipped \in vc + 1 .. stop - 1 : Passed(skipped)
      BY <2>1, <3>2, VertexChunkType
    <3>. QED BY <3>2, <3>3
  <2>. DEFINE Chosen == CHOOSE stop \in vc + 1 .. VertexChunkNum :
           Ends(stop) /\ \A skipped \in vc + 1 .. stop - 1 : Passed(skipped)
  <2>3. NextStop(s, vc, lost) = Chosen
    BY <1>2 DEF NextStop, Passed
  <2>4. /\ Chosen \in vc + 1 .. VertexChunkNum
        /\ Ends(Chosen)
        /\ \A skipped \in vc + 1 .. Chosen - 1 : Passed(skipped)
    <3>. HIDE DEF Ends
    <3>. QED BY <2>2
  <2>. HIDE DEF Chosen
  <2>. QED BY <2>3, <2>4, VertexChunkType DEF Passed
<1>. QED BY <1>1, <1>2

\* A reader that next_chunk leaves behind the last vertex chunk, or that failed to
\* read a count, is no longer on a vertex chunk; the one it returns OK with is on
\* an edge chunk without a table.
LEMMA SkipToEdgesCorrect ==
    ASSUME NEW s \in AdjLists, NEW r \in Readers, NEW lost
    PROVE  LET o == SkipToEdges(s, r, lost)
           IN  /\ o.status \in {"OK", "IndexError", "IOError"}
               /\ o.reader \in Readers
               /\ o.status # "OK" => ~OnVertexChunk(o.reader)
               /\ o.status = "OK" =>
                     o.reader.chunk_num = EdgeChunkNum(s, o.reader.vertex_chunk_index)
<1>. DEFINE from == r.vertex_chunk_index
            stop == NextStop(s, from, lost)
            walked == [r EXCEPT !.vertex_chunk_index = stop,
                                !.chunk_index = IF stop = from + 1 THEN @ ELSE 0,
                                !.chunk_num = IF stop = from + 1 THEN @ ELSE 0]
            entered == [walked EXCEPT !.chunk_index = 0]
            there == RefreshChunkNum(s, entered, lost)
<1>1. stop \in Nat
  BY NextStopCorrect DEF Readers
<1>2. walked \in Readers /\ walked.vertex_chunk_index = stop
  <2>. HIDE DEF stop
  <2>. QED BY <1>1 DEF Readers
<1>3. entered \in Readers
  <2>. HIDE DEF walked
  <2>. QED BY <1>2 DEF Readers
<1>4. /\ there.status \in {"OK", "IOError"}
      /\ there.reader \in Readers
      /\ there.status = "IOError" => ~there.reader.intact
      /\ there.status = "OK" =>
            there.reader.chunk_num = EdgeChunkNum(s, there.reader.vertex_chunk_index)
  <2>. HIDE DEF entered
  <2>. QED BY <1>3, RefreshChunkNumCorrect
<1>5. SkipToEdges(s, r, lost) = IF stop >= VertexChunkNum
                                THEN Outcome(walked, "IndexError") ELSE there
  BY DEF SkipToEdges
<1>. HIDE DEF stop, walked, there
<1>6. CASE stop >= VertexChunkNum
  BY <1>1, <1>2, <1>5, <1>6, VertexChunkType DEF Outcome, OnVertexChunk
<1>7. CASE ~(stop >= VertexChunkNum)
  BY <1>4, <1>5, <1>7 DEF OnVertexChunk
<1>. QED BY <1>6, <1>7

LEMMA NextChunkCorrect ==
    ASSUME NEW s \in AdjLists, NEW r \in Readers, Coherent(s, r), NEW lost
    PROVE  LET o == NextChunk(s, r, lost)
           IN  /\ o.status \in {"OK", "IndexError", "IOError"}
               /\ o.reader \in Readers
               /\ Coherent(s, o.reader)
<1>. DEFINE ahead == [r EXCEPT !.chunk_index = @ + 1]
            ready == IF r.chunk_num < 0 THEN RefreshChunkNum(s, ahead, lost)
                                        ELSE Outcome(ahead, "OK")
            found == IF ready.status # "OK" \/ ahead.chunk_index < ready.reader.chunk_num
                     THEN ready
                     ELSE SkipToEdges(s, ready.reader, lost)
            result == AtChunkStart(found.reader, found.reader.chunk_index)
<1>1. /\ ahead \in Readers
      /\ OnVertexChunk(ahead) =>
            ahead.chunk_num \in {-1, EdgeChunkNum(s, ahead.vertex_chunk_index)}
      /\ ahead.chunk_num = r.chunk_num
  BY DEF Readers, Coherent, OnVertexChunk
<1>2. /\ ready.status \in {"OK", "IOError"}
      /\ ready.reader \in Readers
      /\ ready.status = "IOError" => ~ready.reader.intact
      /\ OnVertexChunk(ready.reader) =>
            ready.reader.chunk_num \in {-1, EdgeChunkNum(s, ready.reader.vertex_chunk_index)}
  <2>. HIDE DEF ahead
  <2>1. CASE r.chunk_num < 0
    BY <1>1, <2>1, RefreshChunkNumCorrect DEF OnVertexChunk
  <2>2. CASE ~(r.chunk_num < 0)
    BY <1>1, <2>2 DEF Outcome
  <2>. QED BY <2>1, <2>2
<1>. HIDE DEF ready
<1>3. /\ found.status \in {"OK", "IndexError", "IOError"}
      /\ found.reader \in Readers
      /\ found.status # "OK" => ~OnVertexChunk(found.reader)
      /\ OnVertexChunk(found.reader) =>
            found.reader.chunk_num \in {-1, EdgeChunkNum(s, found.reader.vertex_chunk_index)}
  BY <1>2, SkipToEdgesCorrect DEF OnVertexChunk
<1>4. NextChunk(s, r, lost) = IF found.status # "OK" THEN found ELSE Outcome(result, "OK")
  BY DEF NextChunk, ready
<1>. HIDE DEF found
<1>5. result \in Readers /\ Coherent(s, result)
  <2>1. found.reader.chunk_index * ChunkSize \in Nat
    BY <1>3, LayoutAssumption DEF Readers
  <2>2. result \in Readers
    BY <1>3, <2>1 DEF AtChunkStart, Readers
  <2>3. Coherent(s, result)
    BY <1>3, <2>2 DEF AtChunkStart, Readers, Coherent, OnVertexChunk
  <2>. QED BY <2>2, <2>3
<1>6. CASE found.status # "OK"
  BY <1>3, <1>4, <1>6 DEF Coherent
<1>7. CASE found.status = "OK"
  BY <1>4, <1>5, <1>7 DEF Outcome
<1>. QED BY <1>6, <1>7

\* GetChunk and GetRowNumOfChunk change nothing but the table, and the copy
\* constructor drops it.
LEMMA GetChunkCorrect ==
    ASSUME NEW s \in AdjLists, NEW r \in Readers, Coherent(s, r), NEW lost
    PROVE  /\ GetChunk(s, r, lost).reader \in Readers
           /\ Coherent(s, GetChunk(s, r, lost).reader)
           /\ GetRowNumOfChunk(s, r, lost).reader \in Readers
           /\ Coherent(s, GetRowNumOfChunk(s, r, lost).reader)
           /\ Copy(r) \in Readers
           /\ Coherent(s, Copy(r))
<1>. DEFINE loaded == [r EXCEPT !.chunk_table =
                                    <<r.vertex_chunk_index, r.chunk_index>>]
<1>1. GetChunk(s, r, lost).reader \in {r, loaded}
  BY DEF GetChunk, Outcome
<1>2. GetRowNumOfChunk(s, r, lost).reader \in {r, loaded}
  BY DEF GetRowNumOfChunk, Outcome
<1>3. loaded \in Readers /\ Coherent(s, loaded)
  BY DEF Readers, Coherent, OnVertexChunk
<1>4. Copy(r) \in Readers /\ Coherent(s, Copy(r))
  BY DEF Copy, Readers, Coherent, OnVertexChunk
<1>. HIDE DEF loaded
<1>. QED BY <1>1, <1>2, <1>3, <1>4

------------------------------------------------------------------------------
(* The invariants of the specification.                                     *)

ReaderInv == TypeOK /\ CacheCoherent

LEMMA InitCorrect == Init => ReaderInv
<1>. SUFFICES ASSUME Init PROVE ReaderInv
  OBVIOUS
<1>1. NewReader \in Readers /\ Coherent(adj, NewReader)
  BY DEF NewReader, Readers, Coherent, OnVertexChunk
<1>2. TypeOK
  BY <1>1, ReaderAssumption DEF Init, TypeOK, Aims, Aim
<1>. QED BY <1>1, <1>2 DEF Init, ReaderInv, CacheCoherent

\* A call that returns a reader with coherent caches preserves the invariant.
LEMMA ReturnsCorrect ==
    ASSUME ReaderInv, NEW o, Returns(o), aim' \in Aims,
           o.reader \in Readers, Coherent(adj, o.reader)
    PROVE  ReaderInv'
<1>1. TypeOK'
  BY DEF ReaderInv, TypeOK, Returns
<1>2. CacheCoherent'
  BY DEF CacheCoherent, Coherent, OnVertexChunk, Returns
<1>. QED BY <1>1, <1>2 DEF ReaderInv

LEMMA PositionsCorrect ==
    ASSUME ReaderInv, NEW o, NEW hit \in Aims, NEW miss \in Aims,
           Positions(o, hit, miss),
           o.status \in {"OK", "IndexError", "IOError"},
           o.reader \in Readers, Coherent(adj, o.reader)
    PROVE  ReaderInv'
<1>1. aim' \in Aims
  BY DEF Positions, Aims, Lost, Aim
<1>2. Returns(o)
  BY DEF Positions
<1>. QED BY <1>1, <1>2, ReturnsCorrect

LEMMA SeekAlignedCorrect ==
    ASSUME ReaderInv, NEW id \in SeekIds, NEW lost, SeekAligned(id, lost)
    PROVE  ReaderInv'
<1>. DEFINE o == SeekVertex(adj, adj_list_type, reader, id, lost)
            hit == IF adj_list_type \in OrderedTypes THEN Aim("vertex", id)
                                                     ELSE Aim("chunk", 0)
<1>1. id \in Nat
  BY ReaderAssumption
<1>2. hit \in Aims /\ Aim("miss", id) \in Aims
  BY <1>1 DEF Aims, Aim
<1>3. /\ o.status \in {"OK", "IndexError", "IOError"}
      /\ o.reader \in Readers
      /\ Coherent(adj, o.reader)
  BY <1>1, SeekVertexCorrect DEF ReaderInv, TypeOK, CacheCoherent
<1>4. Positions(o, hit, Aim("miss", id))
  BY DEF SeekAligned
<1>. HIDE DEF o, hit
<1>. QED BY <1>2, <1>3, <1>4, PositionsCorrect

\* The inductive step, one case per method.
LEMMA NextCorrect == ReaderInv /\ [Next]_vars => ReaderInv'
<1>. SUFFICES ASSUME ReaderInv, [Next]_vars PROVE ReaderInv'
  OBVIOUS
<1>. USE DEF ReaderInv
<1>a. /\ adj \in AdjLists
      /\ reader \in Readers
      /\ aim \in Aims
      /\ Coherent(adj, reader)
  BY DEF TypeOK, CacheCoherent
<1>b. \A kind \in {"vertex", "chunk", "offset", "index", "miss", "lost"} :
         \A id \in Nat : Aim(kind, id) \in Aims
  BY DEF Aims, Aim
<1>c. Lost \in Aims
  BY <1>b DEF Lost
<1>1. CASE copy
  BY <1>1, <1>a, GetChunkCorrect, ReturnsCorrect DEF copy, Outcome
<1>2. ASSUME NEW lost \in Faults, next_chunk(lost)
      PROVE  ReaderInv'
  <2>. DEFINE o == NextChunk(adj, reader, lost)
  <2>1. /\ o.status \in {"OK", "IndexError", "IOError"}
        /\ o.reader \in Readers
        /\ Coherent(adj, o.reader)
    BY <1>a, NextChunkCorrect
  <2>2. Positions(o, Aim("chunk", 0), Lost)
    BY <1>2 DEF next_chunk
  <2>. HIDE DEF o
  <2>. QED BY <1>b, <1>c, <2>1, <2>2, PositionsCorrect
<1>3. ASSUME NEW lost \in Faults, get_chunk(lost)
      PROVE  ReaderInv'
  BY <1>3, <1>a, GetChunkCorrect, ReturnsCorrect DEF get_chunk
<1>4. ASSUME NEW lost \in Faults, get_row_num_of_chunk(lost)
      PROVE  ReaderInv'
  BY <1>4, <1>a, GetChunkCorrect, ReturnsCorrect DEF get_row_num_of_chunk
<1>5. ASSUME NEW lost \in Faults, NEW id \in SeekIds, seek_src(id, lost)
      PROVE  ReaderInv'
  <2>1. CASE SeekAligned(id, lost)
    BY <2>1, SeekAlignedCorrect
  <2>2. CASE Invalid
    BY <2>2 DEF Invalid, vars, TypeOK, CacheCoherent, Coherent, OnVertexChunk
  <2>. QED BY <1>5, <2>1, <2>2 DEF seek_src
<1>6. ASSUME NEW lost \in Faults, NEW id \in SeekIds, seek_dst(id, lost)
      PROVE  ReaderInv'
  <2>1. CASE SeekAligned(id, lost)
    BY <2>1, SeekAlignedCorrect
  <2>2. CASE Invalid
    BY <2>2 DEF Invalid, vars, TypeOK, CacheCoherent, Coherent, OnVertexChunk
  <2>. QED BY <1>6, <2>1, <2>2 DEF seek_dst
<1>7. ASSUME NEW lost \in Faults, NEW offset \in SeekOffsets, seek(offset, lost)
      PROVE  ReaderInv'
  <2>. DEFINE o == Seek(adj, reader, offset, lost)
  <2>1. /\ o.status \in {"OK", "IndexError", "IOError"}
        /\ o.reader \in Readers
        /\ Coherent(adj, o.reader)
    BY <1>a, ReaderAssumption, SeekCorrect
  <2>2. Positions(o, Aim("offset", 0), Lost)
    BY <1>7 DEF seek
  <2>. HIDE DEF o
  <2>. QED BY <1>b, <1>c, <2>1, <2>2, PositionsCorrect
<1>8. ASSUME NEW lost \in Faults, NEW vc \in SeekChunks, NEW ec \in SeekChunks,
             seek_chunk_index(vc, ec, lost)
      PROVE  ReaderInv'
  <2>. DEFINE o == SeekChunkIndex(adj, reader, vc, ec, lost)
  <2>1. /\ o.status \in {"OK", "IndexError", "IOError"}
        /\ o.reader \in Readers
        /\ Coherent(adj, o.reader)
    BY <1>a, ReaderAssumption, SeekChunkIndexCorrect
  <2>2. Positions(o, Aim("index", 0), Lost)
    BY <1>8 DEF seek_chunk_index
  <2>. HIDE DEF o
  <2>. QED BY <1>b, <1>c, <2>1, <2>2, PositionsCorrect
<1>9. CASE UNCHANGED vars
  BY <1>9 DEF vars, TypeOK, CacheCoherent, Coherent, OnVertexChunk
<1>. QED BY <1>1, <1>2, <1>3, <1>4, <1>5, <1>6, <1>7, <1>8, <1>9 DEF Next

LEMMA ReaderInvariant == Spec => []ReaderInv
<1>. QED BY InitCorrect, NextCorrect, PTL DEF Spec

\* For every payload, layout and sequence of calls with every fault, the members of
\* a reader keep their types.
THEOREM TypeCorrect == Spec => []TypeOK
<1>1. ReaderInv => TypeOK
  BY DEF ReaderInv
<1>. QED BY <1>1, ReaderInvariant, PTL

\* For every payload, layout and sequence of calls, the caches of a reader that has
\* not failed to read a count file are those of its position.
THEOREM CachesCorrect == Spec => []CacheCoherent
<1>1. ReaderInv => CacheCoherent
  BY DEF ReaderInv
<1>. QED BY <1>1, ReaderInvariant, PTL

------------------------------------------------------------------------------
(* next_chunk visits the edge chunks in order.                              *)

\* The edge chunks behind a position, by their indices.
LEMMA ChunksAfterElements ==
    ASSUME adj \in AdjLists, NEW vc \in Nat, NEW ec \in Nat
    PROVE  \A c : c \in ChunksAfter(<<vc, ec>>) <=>
              \E i \in VertexChunks : \E j \in 0 .. EdgeChunkNum(adj, i) - 1 :
                 c = <<i, j>> /\ (vc < i \/ (vc = i /\ ec < j))
BY DEF ChunksAfter, Before

\* Within the vertex chunk, the successor is the next index.
LEMMA SuccessorInVertexChunk ==
    ASSUME adj \in AdjLists, NEW vc \in VertexChunks, NEW ec \in Nat,
           ec + 1 < EdgeChunkNum(adj, vc)
    PROVE  LET ahead == ChunksAfter(<<vc, ec>>)
           IN  <<vc, ec + 1>> \in ahead /\ \A c \in ahead : ~Before(c, <<vc, ec + 1>>)
<1>1. vc \in Nat /\ VertexChunks \subseteq Nat /\ EdgeChunkNum(adj, vc) \in Nat
  BY VertexChunkType, EdgeChunkType
<1>2. <<vc, ec + 1>> \in ChunksAfter(<<vc, ec>>)
  <2>1. ec + 1 \in 0 .. EdgeChunkNum(adj, vc) - 1 /\ ec < ec + 1
    BY <1>1
  <2>. QED BY <1>1, <2>1, ChunksAfterElements
<1>3. ASSUME NEW c \in ChunksAfter(<<vc, ec>>), Before(c, <<vc, ec + 1>>)
      PROVE  FALSE
  <2>1. PICK i \in VertexChunks : \E j \in 0 .. EdgeChunkNum(adj, i) - 1 :
           c = <<i, j>> /\ (vc < i \/ (vc = i /\ ec < j))
    BY <1>1, ChunksAfterElements
  <2>2. PICK j \in 0 .. EdgeChunkNum(adj, i) - 1 :
           c = <<i, j>> /\ (vc < i \/ (vc = i /\ ec < j))
    BY <2>1
  <2>3. i < vc \/ (i = vc /\ j < ec + 1)
    BY <1>3, <2>2 DEF Before
  <2>4. i \in Nat /\ EdgeChunkNum(adj, i) \in Nat
    BY <1>1, EdgeChunkType
  <2>. QED BY <1>1, <2>2, <2>3, <2>4
<1>. QED BY <1>2, <1>3

\* Behind the last edge chunk of the vertex chunk it is the first edge chunk of the
\* vertex chunk at which the loop of next_chunk stops.
LEMMA SuccessorBeyondVertexChunk ==
    ASSUME adj \in AdjLists, NEW vc \in VertexChunks, NEW ec \in Nat,
           EdgeChunkNum(adj, vc) <= ec + 1
    PROVE  LET ahead == ChunksAfter(<<vc, ec>>)
               stop == NextStop(adj, vc, NoFile)
           IN  /\ stop >= VertexChunkNum => ahead = {}
               /\ stop < VertexChunkNum =>
                     <<stop, 0>> \in ahead /\ \A c \in ahead : ~Before(c, <<stop, 0>>)
<1>. DEFINE ahead == ChunksAfter(<<vc, ec>>)
            stop == NextStop(adj, vc, NoFile)
<1>1. /\ vc \in Nat /\ vc < VertexChunkNum /\ VertexChunkNum \in Nat
      /\ \A i \in VertexChunks : i \in Nat /\ EdgeChunkNum(adj, i) \in Nat
      /\ \A i \in Nat : i < VertexChunkNum => i \in VertexChunks
  BY VertexChunkType, EdgeChunkType
<1>2. /\ stop \in Nat /\ stop > vc /\ stop <= VertexChunkNum
      /\ stop < VertexChunkNum /\ CountReadable(stop, NoFile) => EdgeChunkNum(adj, stop) > 0
      /\ \A skipped \in vc + 1 .. stop - 1 : EdgeChunkNum(adj, skipped) = 0
  BY <1>1, NextStopCorrect
<1>. HIDE DEF stop
<1>3. ASSUME NEW c \in ahead
      PROVE  \E i \in VertexChunks, j \in Nat : c = <<i, j>> /\ i >= stop
  <2>1. PICK i \in VertexChunks : \E j \in 0 .. EdgeChunkNum(adj, i) - 1 :
           c = <<i, j>> /\ (vc < i \/ (vc = i /\ ec < j))
    BY <1>1, ChunksAfterElements
  <2>2. PICK j \in 0 .. EdgeChunkNum(adj, i) - 1 :
           c = <<i, j>> /\ (vc < i \/ (vc = i /\ ec < j))
    BY <2>1
  <2>3. i \in Nat /\ EdgeChunkNum(adj, i) \in Nat /\ EdgeChunkNum(adj, i) > 0
    BY <1>1
  <2>4. vc < i
    BY <1>1, <2>2, <2>3
  <2>5. ~(i \in vc + 1 .. stop - 1)
    BY <1>2, <2>3
  <2>. QED BY <1>1, <1>2, <2>2, <2>3, <2>4, <2>5
<1>4. CASE stop >= VertexChunkNum
  <2>1. \A c \in ahead : FALSE
    BY <1>1, <1>2, <1>3, <1>4, VertexChunkType
  <2>. QED BY <1>1, <1>2, <1>4, <2>1 DEF stop
<1>5. CASE stop < VertexChunkNum
  <2>1. stop \in VertexChunks /\ CountReadable(stop, NoFile)
    BY <1>1, <1>2, <1>5 DEF CountReadable, EdgeCountFile, NoFile
  <2>2. 0 \in 0 .. EdgeChunkNum(adj, stop) - 1
    BY <1>1, <1>2, <1>5, <2>1
  <2>3. <<stop, 0>> \in ahead
    BY <1>1, <1>2, <2>1, <2>2, ChunksAfterElements
  <2>4. \A c \in ahead : ~Before(c, <<stop, 0>>)
    <3>. HIDE DEF ahead
    <3>. QED BY <1>1, <1>2, <1>3 DEF Before
  <2>. QED BY <1>1, <1>2, <1>5, <2>3, <2>4 DEF stop
<1>. QED BY <1>1, <1>2, <1>4, <1>5

LEMMA NextChunkSuccessor == ReaderInv => NextChunkFindsSuccessor
<1>. SUFFICES ASSUME ReaderInv, OnPayload
              PROVE  NextChunkFindsSuccessor
  BY DEF NextChunkFindsSuccessor
<1>. DEFINE r == reader
            vc == r.vertex_chunk_index
            ec == r.chunk_index
            num == EdgeChunkNum(adj, vc)
            ahead == [r EXCEPT !.chunk_index = @ + 1]
            ready == IF r.chunk_num < 0 THEN RefreshChunkNum(adj, ahead, NoFile)
                                        ELSE Outcome(ahead, "OK")
            skipped == SkipToEdges(adj, ready.reader, NoFile)
            next == NextChunk(adj, r, NoFile)
            there == <<next.reader.vertex_chunk_index, next.reader.chunk_index>>
<1>1. /\ adj \in AdjLists /\ r \in Readers
      /\ vc \in VertexChunks /\ vc \in Nat /\ ec \in Nat /\ num \in Nat
      /\ r.chunk_num \in {-1, num}
  BY VertexChunkType, EdgeChunkType
     DEF ReaderInv, TypeOK, CacheCoherent, Coherent, OnPayload, OnVertexChunk, Readers
<1>2. /\ ready.status = "OK"
      /\ ready.reader \in Readers
      /\ ready.reader.vertex_chunk_index = vc
      /\ ready.reader.chunk_index = ec + 1
      /\ ready.reader.chunk_num = num
  <2>1. ahead \in Readers /\ ahead.vertex_chunk_index = vc /\ ahead.chunk_index = ec + 1
        /\ ahead.chunk_num = r.chunk_num
    BY <1>1 DEF Readers
  <2>2. CountReadable(vc, NoFile)
    BY <1>1 DEF CountReadable, EdgeCountFile, NoFile
  <2>3. CASE r.chunk_num < 0
    <3>. HIDE DEF ahead
    <3>1. ready = Outcome([ahead EXCEPT !.chunk_num = num], "OK")
      BY <2>1, <2>2, <2>3 DEF RefreshChunkNum
    <3>2. /\ [ahead EXCEPT !.chunk_num = num] \in Readers
          /\ [ahead EXCEPT !.chunk_num = num].vertex_chunk_index = vc
          /\ [ahead EXCEPT !.chunk_num = num].chunk_index = ec + 1
          /\ [ahead EXCEPT !.chunk_num = num].chunk_num = num
      BY <1>1, <2>1 DEF Readers
    <3>. HIDE DEF ready
    <3>. QED BY <3>1, <3>2 DEF Outcome
  <2>4. CASE ~(r.chunk_num < 0)
    <3>. HIDE DEF ahead
    <3>. QED BY <1>1, <2>1, <2>4 DEF Outcome
  <2>. QED BY <2>3, <2>4
<1>3. NextChunk(adj, r, NoFile) =
         LET found == IF ready.status # "OK" \/ ahead.chunk_index < ready.reader.chunk_num
                      THEN ready ELSE skipped
         IN  IF found.status # "OK" THEN found
             ELSE Outcome(AtChunkStart(found.reader, found.reader.chunk_index), "OK")
  BY DEF NextChunk
<1>4. ahead.chunk_index = ec + 1
  BY <1>1 DEF Readers
<1>. HIDE DEF ahead, ready
<1>5. ASSUME NEW q \in Readers
      PROVE  /\ AtChunkStart(q, q.chunk_index).vertex_chunk_index = q.vertex_chunk_index
             /\ AtChunkStart(q, q.chunk_index).chunk_index = q.chunk_index
  BY DEF AtChunkStart, Readers
<1>6. CASE ec + 1 < num
  <2>1. next = Outcome(AtChunkStart(ready.reader, ready.reader.chunk_index), "OK")
    BY <1>2, <1>3, <1>4, <1>6
  <2>2. next.status = "OK" /\ there = <<vc, ec + 1>>
    BY <1>2, <1>5, <2>1 DEF Outcome
  <2>. HIDE DEF there, next
  <2>. QED BY <1>1, <1>6, <2>2, SuccessorInVertexChunk
       DEF NextChunkFindsSuccessor, there, next
<1>7. CASE ~(ec + 1 < num)
  <2>. DEFINE stop == NextStop(adj, vc, NoFile)
  <2>1. /\ stop \in Nat /\ VertexChunkNum \in Nat
        /\ stop < VertexChunkNum => stop \in VertexChunks
    BY <1>1, NextStopCorrect, VertexChunkType
  <2>2. next = IF skipped.status # "OK" THEN skipped
               ELSE Outcome(AtChunkStart(skipped.reader, skipped.reader.chunk_index), "OK")
    BY <1>2, <1>3, <1>4, <1>7
  <2>3. stop >= VertexChunkNum => skipped.status = "IndexError"
    BY <1>2 DEF SkipToEdges, Outcome
  <2>4. ASSUME stop < VertexChunkNum
        PROVE  /\ skipped.status = "OK"
               /\ skipped.reader \in Readers
               /\ skipped.reader.vertex_chunk_index = stop
               /\ skipped.reader.chunk_index = 0
    <3>. DEFINE q == ready.reader
                walked == [q EXCEPT !.vertex_chunk_index = stop,
                                    !.chunk_index = IF stop = vc + 1 THEN @ ELSE 0,
                                    !.chunk_num = IF stop = vc + 1 THEN @ ELSE 0]
                entered == [walked EXCEPT !.chunk_index = 0]
    <3>1. skipped = RefreshChunkNum(adj, entered, NoFile)
      BY <1>2, <2>1, <2>4 DEF SkipToEdges
    <3>. HIDE DEF stop
    <3>2. entered \in Readers /\ entered.vertex_chunk_index = stop /\ entered.chunk_index = 0
      BY <1>2, <2>1 DEF Readers
    <3>3. CountReadable(stop, NoFile) /\ EdgeChunkNum(adj, stop) \in Nat
      BY <1>1, <2>1, <2>4, EdgeChunkType DEF CountReadable, EdgeCountFile, NoFile
    <3>. HIDE DEF entered
    <3>4. skipped = Outcome([entered EXCEPT !.chunk_num = EdgeChunkNum(adj, stop)], "OK")
      BY <3>1, <3>2, <3>3 DEF RefreshChunkNum
    <3>5. skipped.status = "OK" /\ skipped.reader = [entered EXCEPT !.chunk_num = EdgeChunkNum(adj, stop)]
      BY <3>4 DEF Outcome
    <3>. HIDE DEF skipped
    <3>. QED BY <3>2, <3>3, <3>5 DEF Readers
  <2>. HIDE DEF skipped
  <2>5. /\ stop >= VertexChunkNum => next.status = "IndexError"
        /\ stop < VertexChunkNum => next.status = "OK" /\ there = <<stop, 0>>
    <3>1. stop >= VertexChunkNum => next.status = "IndexError"
      BY <2>2, <2>3
    <3>2. ASSUME stop < VertexChunkNum
          PROVE  next.status = "OK" /\ there = <<stop, 0>>
      BY <1>5, <2>2, <2>4, <3>2 DEF Outcome
    <3>. QED BY <3>1, <3>2
  <2>6. EdgeChunkNum(adj, vc) <= ec + 1
    BY <1>1, <1>7
  <2>7. LET behind == ChunksAfter(<<vc, ec>>)
        IN  /\ stop >= VertexChunkNum => behind = {}
            /\ stop < VertexChunkNum =>
                  <<stop, 0>> \in behind /\ \A c \in behind : ~Before(c, <<stop, 0>>)
    BY <1>1, <2>6, SuccessorBeyondVertexChunk
  <2>8. stop >= VertexChunkNum \/ stop < VertexChunkNum
    BY <2>1
  <2>. HIDE DEF there, next, stop
  <2>. QED BY <2>5, <2>7, <2>8 DEF NextChunkFindsSuccessor, there, next
<1>. QED BY <1>6, <1>7

\* For every payload and layout, a reader that has not failed to read a count file
\* and is on a vertex chunk finds with next_chunk the next edge chunk there is, and
\* the end only if there is none.
THEOREM ScanCorrect == Spec => []NextChunkFindsSuccessor
BY ReaderInvariant, NextChunkSuccessor, PTL
------------------------------------------------------------------------------
(* What GetChunk delivers after a positioning call.                         *)

\* The cached table is an edge chunk there is.
TableExists(s, r) ==
    r.chunk_table # NoTable =>
        /\ r.chunk_table[1] \in VertexChunks
        /\ r.chunk_table[2] < EdgeChunkNum(s, r.chunk_table[1])

OnEdgeChunk(s, r) == r.chunk_index < EdgeChunkNum(s, r.vertex_chunk_index)

\* What a seek to a vertex leaves in the members of an intact reader, and what a move to
\* the start of an edge chunk leaves there; why a seek may have found nothing.
AtVertex(s, type, r, id) ==
    /\ type \in OrderedTypes
    /\ VertexChunkOf(id) \in VertexChunks
    /\ r.vertex_chunk_index = VertexChunkOf(id)
    /\ r.seek_offset = FirstRow(s, id)
    /\ r.chunk_index = r.seek_offset \div ChunkSize
    /\ OnEdgeChunk(s, r)

AtStart(s, r) ==
    /\ r.seek_offset = r.chunk_index * ChunkSize
    /\ EdgeNum(s, r.vertex_chunk_index) = 0 \/ OnEdgeChunk(s, r)

NoEdgeFrom(s, type, id) ==
    id \in VertexIds =>
        \A i \in 1 .. EdgeNum(s, VertexChunkOf(id)) :
            /\ type \in OrderedTypes
            /\ s[VertexChunkOf(id)][i] < id

Kept(s, type, r, a) ==
    /\ a.kind = "vertex" /\ r.intact => AtVertex(s, type, r, a.id)
    /\ a.kind = "chunk" /\ OnVertexChunk(r) => AtStart(s, r)
    /\ a.kind = "miss" /\ OnVertexChunk(r) => NoEdgeFrom(s, type, a.id)

DeliveryInv ==
    /\ ReaderInv
    /\ adj_list_type \in OrderedTypes => Ordered(adj)
    /\ TableExists(adj, reader)
    /\ Kept(adj, adj_list_type, reader, aim)

\* A vertex is in one of the vertex chunks.
LEMMA VertexIdChunk ==
    ASSUME NEW v \in VertexIds
    PROVE  v \in Nat /\ VertexChunkOf(v) \in VertexChunks
<1>1. /\ v \in Nat /\ v < VertexNum /\ VertexNum \in Nat
      /\ VertexChunkSize \in Nat \ {0}
  BY LayoutAssumption DEF VertexIds
<1>2. /\ VertexChunkOf(v) \in Nat
      /\ VertexChunkOf(v) * VertexChunkSize <= v
  BY <1>1, DivType DEF VertexChunkOf
<1>. DEFINE vc == VertexChunkOf(v)
<1>3. vc < VertexChunkNum <=> vc * VertexChunkSize < VertexNum
  BY <1>1, <1>2, ChunkNumType DEF VertexChunkNum
<1>. HIDE DEF vc
<1>4. vc * VertexChunkSize < VertexNum
  <2>1. vc * VertexChunkSize \in Nat /\ vc * VertexChunkSize <= v
    BY <1>1, <1>2 DEF vc
  <2>. QED BY <1>1, <2>1
<1>. QED BY <1>1, <1>2, <1>3, <1>4, VertexChunkType DEF vc

\* Where seek leaves the members, and what its status says of the edge chunk.
LEMMA SeekPlaces ==
    ASSUME NEW s \in AdjLists, NEW r \in Readers, Coherent(s, r),
           NEW offset \in Nat, NEW lost
    PROVE  LET o == Seek(s, r, offset, lost)
           IN  /\ o.reader.vertex_chunk_index = r.vertex_chunk_index
               /\ o.reader.seek_offset = offset
               /\ o.reader.chunk_index = offset \div ChunkSize
               /\ o.reader.chunk_table \in {NoTable, r.chunk_table}
               /\ OnVertexChunk(o.reader) =>
                     /\ o.status = "OK" => OnEdgeChunk(s, o.reader)
                     /\ o.status = "IndexError" => ~OnEdgeChunk(s, o.reader)
<1>. DEFINE index == offset \div ChunkSize
            vc == r.vertex_chunk_index
            moved == [r EXCEPT !.seek_offset = offset, !.chunk_index = index,
                               !.chunk_table = IF index = r.chunk_index THEN @
                                                                        ELSE NoTable]
            ready == IF moved.chunk_num < 0 THEN RefreshChunkNum(s, moved, lost)
                                            ELSE Outcome(moved, "OK")
<1>1. index \in Nat
  BY LayoutAssumption, DivType
<1>2. Seek(s, r, offset, lost) =
         IF ready.status = "OK" /\ index >= ready.reader.chunk_num
         THEN Outcome(ready.reader, "IndexError")
         ELSE ready
  BY DEF Seek
<1>. HIDE DEF index
<1>3. /\ moved \in Readers
      /\ moved.vertex_chunk_index = vc
      /\ moved.seek_offset = offset
      /\ moved.chunk_index = index
      /\ moved.chunk_table \in {NoTable, r.chunk_table}
      /\ moved.chunk_num = r.chunk_num
      /\ moved.intact = r.intact
  BY <1>1 DEF Readers
<1>. HIDE DEF moved
<1>4. /\ ready.status \in {"OK", "IOError"}
      /\ ready.reader \in Readers
      /\ ready.reader.vertex_chunk_index = vc
      /\ ready.reader.seek_offset = offset
      /\ ready.reader.chunk_index = index
      /\ ready.reader.chunk_table \in {NoTable, r.chunk_table}
      /\ ready.status = "OK" /\ OnVertexChunk(ready.reader) =>
            ready.reader.chunk_num = EdgeChunkNum(s, vc)
  <2>1. CASE moved.chunk_num < 0
    BY <1>3, <2>1, RefreshChunkNumCorrect
  <2>2. CASE ~(moved.chunk_num < 0)
    <3>1. ready = Outcome(moved, "OK")
      BY <2>2
    <3>2. OnVertexChunk(moved) => moved.chunk_num = EdgeChunkNum(s, vc)
      BY <1>3, <2>2 DEF Coherent, OnVertexChunk, Readers
    <3>. HIDE DEF ready
    <3>. QED BY <1>3, <3>1, <3>2 DEF Outcome
  <2>. QED BY <2>1, <2>2
<1>. HIDE DEF ready
<1>5. OnVertexChunk(ready.reader) => vc \in VertexChunks /\ EdgeChunkNum(s, vc) \in Nat
  BY <1>4, EdgeChunkType DEF OnVertexChunk
<1>6. CASE ready.status = "OK" /\ index >= ready.reader.chunk_num
  <2>1. Seek(s, r, offset, lost) = Outcome(ready.reader, "IndexError")
    BY <1>2, <1>6
  <2>. QED BY <1>1, <1>4, <1>5, <1>6, <2>1 DEF Outcome, OnEdgeChunk, index, vc
<1>7. CASE ~(ready.status = "OK" /\ index >= ready.reader.chunk_num)
  <2>1. Seek(s, r, offset, lost) = ready
    BY <1>2, <1>7
  <2>. QED BY <1>1, <1>4, <1>5, <1>7, <2>1 DEF OnEdgeChunk, index, vc
<1>. QED BY <1>6, <1>7

\* A move to a vertex chunk keeps the table or drops it.
LEMMA MoveTable ==
    ASSUME NEW s \in AdjLists, NEW r \in Readers, NEW vc \in Nat, NEW lost
    PROVE  MoveToVertexChunk(s, r, vc, lost).reader.chunk_table \in {NoTable, r.chunk_table}
<1>. DEFINE there == [r EXCEPT !.vertex_chunk_index = vc]
            moved == RefreshChunkNum(s, there, lost)
            fresh == [moved.reader EXCEPT !.chunk_table = NoTable, !.intact = TRUE]
<1>1. there \in Readers /\ there.chunk_table = r.chunk_table
  BY DEF Readers
<1>2. moved.reader \in Readers /\ moved.reader.chunk_table = r.chunk_table
  <2>. HIDE DEF there
  <2>. QED BY <1>1, RefreshChunkNumCorrect
<1>3. MoveToVertexChunk(s, r, vc, lost) \in
         {Outcome(r, "OK"), moved, Outcome(fresh, "OK")}
  BY DEF MoveToVertexChunk
<1>. HIDE DEF moved
<1>4. fresh.chunk_table = NoTable
  BY <1>2 DEF Readers
<1>. HIDE DEF fresh
<1>. QED BY <1>2, <1>3, <1>4 DEF Outcome

\* A seek that finds a vertex stands on its first edge, or on the start of its vertex chunk
\* in an unordered list; one that finds none has passed over no edge.
LEMMA SeekVertexPlaces ==
    ASSUME NEW s \in AdjLists, NEW type, NEW r \in Readers, Coherent(s, r),
           type \in OrderedTypes => Ordered(s), NEW id \in Nat, NEW lost
    PROVE  LET o == SeekVertex(s, type, r, id, lost)
           IN  /\ o.reader.chunk_table \in {NoTable, r.chunk_table}
               /\ o.status = "OK" /\ type \in OrderedTypes /\ o.reader.intact =>
                     AtVertex(s, type, o.reader, id)
               /\ o.status = "OK" /\ type \notin OrderedTypes /\ OnVertexChunk(o.reader) =>
                     AtStart(s, o.reader)
               /\ o.status = "IndexError" /\ OnVertexChunk(o.reader) =>
                     NoEdgeFrom(s, type, id)
<1>. DEFINE vc == VertexChunkOf(id)
            moved == MoveToVertexChunk(s, r, vc, lost)
            start == Seek(s, moved.reader, 0, lost)
            first == Seek(s, moved.reader, FirstRow(s, id), lost)
<1>1. CASE vc >= VertexChunkNum
  <2>1. SeekVertex(s, type, r, id, lost) = Outcome(r, "IndexError")
    BY <1>1 DEF SeekVertex
  <2>2. id \notin VertexIds
    BY <1>1, VertexIdChunk, VertexChunkType
  <2>. QED BY <2>1, <2>2 DEF Outcome, NoEdgeFrom
<1>2. CASE ~(vc >= VertexChunkNum)
  <2>1. vc \in VertexChunks /\ vc \in Nat
    BY <1>2, VertexChunkType
  <2>2. /\ moved.status \in {"OK", "IOError"}
        /\ moved.reader \in Readers
        /\ Coherent(s, moved.reader)
        /\ moved.reader.vertex_chunk_index = vc
    BY <2>1, MoveToVertexChunkCorrect
  <2>3. moved.reader.chunk_table \in {NoTable, r.chunk_table}
    BY <2>1, MoveTable
  <2>4. SeekVertex(s, type, r, id, lost) =
           IF moved.status # "OK" THEN moved
           ELSE IF type \notin OrderedTypes THEN start
           ELSE IF OffsetFile = lost THEN Outcome(moved.reader, "IOError")
           ELSE first
    BY <1>2 DEF SeekVertex, OffsetsOfVertex
  <2>5. /\ FirstRow(s, id) \in Nat /\ FirstRow(s, id) <= EdgeNum(s, vc)
        /\ ChunkSize \in Nat \ {0}
        /\ EdgeNum(s, vc) \in Nat /\ EdgeChunkNum(s, vc) \in Nat
        /\ \A ec \in Nat : ec < EdgeChunkNum(s, vc) <=> ec * ChunkSize < EdgeNum(s, vc)
    BY <2>1, FirstRowType, EdgeChunkType, LayoutAssumption
  <2>. HIDE DEF moved
  <2>6. /\ start.reader.vertex_chunk_index = vc
        /\ start.reader.seek_offset = 0
        /\ start.reader.chunk_index = 0 \div ChunkSize
        /\ start.reader.chunk_table \in {NoTable, r.chunk_table}
        /\ OnVertexChunk(start.reader) =>
              /\ start.status = "OK" => OnEdgeChunk(s, start.reader)
              /\ start.status = "IndexError" => ~OnEdgeChunk(s, start.reader)
    BY <2>2, <2>3, SeekPlaces
  <2>7. /\ first.reader.vertex_chunk_index = vc
        /\ first.reader.seek_offset = FirstRow(s, id)
        /\ first.reader.chunk_index = FirstRow(s, id) \div ChunkSize
        /\ first.reader.chunk_table \in {NoTable, r.chunk_table}
        /\ OnVertexChunk(first.reader) =>
              /\ first.status = "OK" => OnEdgeChunk(s, first.reader)
              /\ first.status = "IndexError" => ~OnEdgeChunk(s, first.reader)
    BY <2>2, <2>3, <2>5, SeekPlaces
  <2>. HIDE DEF start, first, vc
  <2>8. CASE moved.status # "OK" \/ (type \in OrderedTypes /\ OffsetFile = lost)
    <3>1. SeekVertex(s, type, r, id, lost) \in {moved, Outcome(moved.reader, "IOError")}
          /\ SeekVertex(s, type, r, id, lost).status = "IOError"
      BY <2>2, <2>4, <2>8 DEF Outcome
    <3>. QED BY <2>3, <3>1 DEF Outcome
  <2>9. CASE moved.status = "OK" /\ type \notin OrderedTypes
    <3>1. SeekVertex(s, type, r, id, lost) = start
      BY <2>4, <2>9
    <3>2. 0 \div ChunkSize = 0 /\ 0 * ChunkSize = 0
      BY <2>5
    <3>3. OnVertexChunk(start.reader) /\ start.status = "OK" => AtStart(s, start.reader)
      BY <2>6, <3>2 DEF AtStart
    <3>4. OnVertexChunk(start.reader) /\ start.status = "IndexError" => EdgeNum(s, vc) = 0
      BY <2>5, <2>6, <3>2 DEF OnEdgeChunk
    <3>5. EdgeNum(s, vc) = 0 => NoEdgeFrom(s, type, id)
      BY DEF NoEdgeFrom, vc
    <3>. QED BY <2>6, <2>9, <3>1, <3>3, <3>4, <3>5
  <2>10. CASE moved.status = "OK" /\ type \in OrderedTypes /\ OffsetFile # lost
    <3>1. SeekVertex(s, type, r, id, lost) = first
      BY <2>4, <2>10
    <3>2. first.reader.intact => OnVertexChunk(first.reader)
      BY <2>1, <2>7 DEF OnVertexChunk
    <3>3. first.reader.intact /\ first.status = "OK" => AtVertex(s, type, first.reader, id)
      BY <2>1, <2>7, <2>10, <3>2 DEF AtVertex, vc
    <3>4. OnVertexChunk(first.reader) /\ first.status = "IndexError" =>
             NoEdgeFrom(s, type, id)
      <4>. SUFFICES ASSUME OnVertexChunk(first.reader), first.status = "IndexError",
                           NEW i \in 1 .. EdgeNum(s, vc)
                    PROVE  s[vc][i] < id
        BY <2>10 DEF NoEdgeFrom, vc
      <4>. DEFINE ec == FirstRow(s, id) \div ChunkSize
      <4>1. ec \in Nat /\ ec * ChunkSize <= FirstRow(s, id)
        BY <2>5, DivType
      <4>2. ~(ec < EdgeChunkNum(s, vc))
        BY <2>7 DEF OnEdgeChunk
      <4>. HIDE DEF ec
      <4>3. ec * ChunkSize \in Nat /\ ~(ec * ChunkSize < EdgeNum(s, vc))
        BY <2>5, <4>1, <4>2
      <4>4. FirstRow(s, id) = EdgeNum(s, vc)
        BY <2>5, <4>1, <4>3
      <4>. QED BY <2>1, <2>10, <4>4, OffsetsDelimit DEF EdgeNum, vc
    <3>. QED BY <2>7, <2>10, <3>1, <3>3, <3>4
  <2>. QED BY <2>2, <2>8, <2>9, <2>10
<1>. QED BY <1>1, <1>2

\* next_chunk that succeeds stands at the start of an edge chunk there is.
LEMMA NextChunkPlaces ==
    ASSUME NEW s \in AdjLists, NEW r \in Readers, Coherent(s, r), NEW lost
    PROVE  LET o == NextChunk(s, r, lost)
           IN  /\ o.reader.chunk_table \in {NoTable, r.chunk_table}
               /\ o.status = "OK" /\ OnVertexChunk(o.reader) => AtStart(s, o.reader)
<1>. DEFINE ahead == [r EXCEPT !.chunk_index = @ + 1]
            ready == IF r.chunk_num < 0 THEN RefreshChunkNum(s, ahead, lost)
                                        ELSE Outcome(ahead, "OK")
            q == ready.reader
            stop == NextStop(s, q.vertex_chunk_index, lost)
            walked == [q EXCEPT !.vertex_chunk_index = stop,
                                !.chunk_index = IF stop = q.vertex_chunk_index + 1 THEN @ ELSE 0,
                                !.chunk_num = IF stop = q.vertex_chunk_index + 1 THEN @ ELSE 0]
            entered == [walked EXCEPT !.chunk_index = 0]
            counted == RefreshChunkNum(s, entered, lost)
            found == IF ready.status # "OK" \/ ahead.chunk_index < ready.reader.chunk_num
                     THEN ready
                     ELSE SkipToEdges(s, ready.reader, lost)
            result == AtChunkStart(found.reader, found.reader.chunk_index)
<1>1. /\ ahead \in Readers
      /\ ahead.chunk_table = r.chunk_table
      /\ ahead.chunk_num = r.chunk_num
      /\ OnVertexChunk(ahead) =>
            ahead.chunk_num \in {-1, EdgeChunkNum(s, ahead.vertex_chunk_index)}
  BY DEF Readers, Coherent, OnVertexChunk
<1>2. /\ ready.status \in {"OK", "IOError"}
      /\ q \in Readers
      /\ q.chunk_table = r.chunk_table
      /\ q.chunk_index = ahead.chunk_index
      /\ ready.status = "OK" /\ OnVertexChunk(q) =>
            q.chunk_num = EdgeChunkNum(s, q.vertex_chunk_index)
  <2>. HIDE DEF ahead
  <2>1. CASE r.chunk_num < 0
    BY <1>1, <2>1, RefreshChunkNumCorrect DEF OnVertexChunk
  <2>2. CASE ~(r.chunk_num < 0)
    <3>1. ready = Outcome(ahead, "OK")
      BY <2>2
    <3>2. ahead.chunk_num # -1
      BY <1>1, <2>2
    <3>. HIDE DEF ready
    <3>. QED BY <1>1, <3>1, <3>2 DEF Outcome
  <2>. QED BY <2>1, <2>2
<1>3. NextChunk(s, r, lost) = IF found.status # "OK" THEN found ELSE Outcome(result, "OK")
  BY DEF NextChunk, ready
<1>4. /\ stop \in Nat
      /\ stop < VertexChunkNum /\ CountReadable(stop, lost) => EdgeChunkNum(s, stop) > 0
  BY <1>2, NextStopCorrect DEF Readers
<1>5. SkipToEdges(s, q, lost) = IF stop >= VertexChunkNum
                                THEN Outcome(walked, "IndexError") ELSE counted
  BY DEF SkipToEdges
<1>. HIDE DEF ready, q, stop
<1>6. walked \in Readers /\ walked.chunk_table = r.chunk_table
  BY <1>2, <1>4 DEF Readers
<1>7. /\ entered \in Readers /\ entered.chunk_table = r.chunk_table
      /\ entered.vertex_chunk_index = stop /\ entered.chunk_index = 0
  BY <1>2, <1>4 DEF Readers
<1>. HIDE DEF walked, entered
<1>8. /\ counted.reader \in Readers
      /\ counted.reader.chunk_table = r.chunk_table
      /\ counted.reader.vertex_chunk_index = stop
      /\ counted.reader.chunk_index = 0
      /\ counted.status = "OK" => CountReadable(stop, lost)
  <2>1. counted.status = "OK" => CountReadable(stop, lost)
    BY <1>7 DEF counted, RefreshChunkNum, Outcome
  <2>. QED BY <1>7, <2>1, RefreshChunkNumCorrect
<1>. HIDE DEF counted
<1>9. /\ found.reader \in Readers
      /\ found.reader.chunk_table = r.chunk_table
      /\ found.status = "OK" /\ OnVertexChunk(found.reader) => OnEdgeChunk(s, found.reader)
  <2>1. CASE ready.status # "OK" \/ ahead.chunk_index < ready.reader.chunk_num
    <3>1. found = ready
      BY <2>1
    <3>. QED BY <1>2, <2>1, <3>1 DEF OnEdgeChunk, q
  <2>2. CASE ~(ready.status # "OK" \/ ahead.chunk_index < ready.reader.chunk_num)
    <3>1. found = IF stop >= VertexChunkNum THEN Outcome(walked, "IndexError") ELSE counted
      BY <1>5, <2>2 DEF q
    <3>2. CASE stop >= VertexChunkNum
      BY <1>6, <3>1, <3>2 DEF Outcome
    <3>3. CASE ~(stop >= VertexChunkNum)
      <4>1. found = counted
        BY <3>1, <3>3
      <4>2. stop < VertexChunkNum
        BY <1>4, <3>3, VertexChunkType
      <4>. QED BY <1>4, <1>8, <4>1, <4>2 DEF OnEdgeChunk
    <3>. QED BY <3>2, <3>3
  <2>. QED BY <2>1, <2>2
<1>. HIDE DEF found, ahead
<1>10. /\ result.chunk_table = NoTable
       /\ result.seek_offset = result.chunk_index * ChunkSize
       /\ result.chunk_index = found.reader.chunk_index
       /\ result.vertex_chunk_index = found.reader.vertex_chunk_index
       /\ result.intact = found.reader.intact
  BY <1>9 DEF AtChunkStart, Readers
<1>. HIDE DEF result
<1>11. CASE found.status # "OK"
  BY <1>3, <1>9, <1>11
<1>12. CASE found.status = "OK"
  BY <1>3, <1>9, <1>10, <1>12 DEF Outcome, AtStart, OnVertexChunk, OnEdgeChunk
<1>. QED BY <1>11, <1>12

LEMMA SeekChunkIndexTable ==
    ASSUME NEW s \in AdjLists, NEW r \in Readers, Coherent(s, r), NEW vc \in Nat, NEW ec, NEW lost
    PROVE  SeekChunkIndex(s, r, vc, ec, lost).reader.chunk_table \in {NoTable, r.chunk_table}
<1>. DEFINE moved == MoveToVertexChunk(s, r, vc, lost)
<1>1. /\ moved.reader \in Readers
      /\ moved.reader.chunk_table \in {NoTable, r.chunk_table}
  BY MoveToVertexChunkCorrect, MoveTable
<1>2. SeekChunkIndex(s, r, vc, ec, lost) =
         IF moved.status # "OK" \/ moved.reader.chunk_index = ec
         THEN moved
         ELSE Outcome(AtChunkStart(moved.reader, ec), "OK")
  BY DEF SeekChunkIndex
<1>. HIDE DEF moved
<1>. QED BY <1>1, <1>2 DEF Outcome, AtChunkStart, Readers

\* GetChunk, GetRowNumOfChunk and the copy constructor move nothing, and load only an edge
\* chunk there is.
SamePlace(q, r) ==
    /\ q.vertex_chunk_index = r.vertex_chunk_index
    /\ q.chunk_index = r.chunk_index
    /\ q.seek_offset = r.seek_offset
    /\ q.intact = r.intact

LEMMA GetChunkPlaces ==
    ASSUME NEW s \in AdjLists, NEW r \in Readers, TableExists(s, r), NEW lost
    PROVE  \A q \in {GetChunk(s, r, lost).reader, GetRowNumOfChunk(s, r, lost).reader, Copy(r)} :
              SamePlace(q, r) /\ TableExists(s, q)
<1>. DEFINE here == <<r.vertex_chunk_index, r.chunk_index>>
            loaded == [r EXCEPT !.chunk_table = here]
<1>1. \/ GetChunk(s, r, lost).reader = r
      \/ ChunkReadable(s, here, lost) /\ GetChunk(s, r, lost).reader = loaded
  <2>1. \/ GetChunk(s, r, lost) \in {Outcome(r, SliceStatus(s, r)), Outcome(r, "IOError"),
                                    Outcome(r, "Empty")}
        \/ ChunkReadable(s, here, lost) /\ GetChunk(s, r, lost) = Outcome(loaded, SliceStatus(s, loaded))
    BY DEF GetChunk
  <2>. HIDE DEF loaded
  <2>. QED BY <2>1 DEF Outcome
<1>2. \/ GetRowNumOfChunk(s, r, lost).reader = r
      \/ ChunkReadable(s, here, lost) /\ GetRowNumOfChunk(s, r, lost).reader = loaded
  <2>1. \/ GetRowNumOfChunk(s, r, lost) \in {Outcome(r, "OK"), Outcome(r, "IOError")}
        \/ ChunkReadable(s, here, lost) /\ GetRowNumOfChunk(s, r, lost) = Outcome(loaded, "OK")
    BY DEF GetRowNumOfChunk
  <2>. HIDE DEF loaded
  <2>. QED BY <2>1 DEF Outcome
<1>3. SamePlace(loaded, r) /\ loaded.chunk_table = here
  BY DEF Readers, SamePlace
<1>4. SamePlace(Copy(r), r) /\ Copy(r).chunk_table = NoTable
  BY DEF Readers, SamePlace, Copy
<1>5. SamePlace(r, r)
  BY DEF SamePlace
<1>. HIDE DEF loaded
<1>6. ChunkReadable(s, here, lost) => TableExists(s, loaded)
  BY <1>3 DEF ChunkReadable, TableExists
<1>7. TableExists(s, Copy(r))
  BY <1>4 DEF TableExists
<1>. QED BY <1>1, <1>2, <1>3, <1>4, <1>5, <1>6, <1>7

\* What a call that moves nothing keeps.
LEMMA SamePlaceKept ==
    ASSUME NEW s, NEW type, NEW r, NEW q, NEW a, SamePlace(q, r), Kept(s, type, r, a)
    PROVE  Kept(s, type, q, a)
BY DEF SamePlace, Kept, AtVertex, AtStart, OnVertexChunk, OnEdgeChunk

LEMMA DeliveryInit == Init => DeliveryInv
<1>. SUFFICES ASSUME Init PROVE DeliveryInv
  OBVIOUS
<1>1. ReaderInv
  BY InitCorrect
<1>2. TableExists(adj, NewReader)
  BY DEF TableExists, NewReader
<1>3. Kept(adj, adj_list_type, NewReader, Aim("chunk", 0))
  <2>1. ASSUME OnVertexChunk(NewReader)
        PROVE  AtStart(adj, NewReader)
    <3>1. adj \in AdjLists /\ 0 \in VertexChunks
      BY <1>1, <2>1 DEF ReaderInv, TypeOK, OnVertexChunk, NewReader
    <3>2. /\ EdgeNum(adj, 0) \in Nat
          /\ 0 < EdgeChunkNum(adj, 0) <=> 0 * ChunkSize < EdgeNum(adj, 0)
      BY <3>1, EdgeChunkType
    <3>3. 0 * ChunkSize = 0
      BY LayoutAssumption
    <3>. QED BY <3>2, <3>3 DEF AtStart, OnEdgeChunk, NewReader
  <2>. QED BY <2>1 DEF Kept, Aim
<1>. QED BY <1>1, <1>2, <1>3 DEF Init, DeliveryInv

\* A positioning call that keeps or drops the table, and leaves behind what its new aim says.
LEMMA DeliveryPositions ==
    ASSUME DeliveryInv, ReaderInv', NEW o, Returns(o),
           o.reader.chunk_table \in {NoTable, reader.chunk_table},
           Kept(adj, adj_list_type, o.reader, aim')
    PROVE  DeliveryInv'
<1>1. reader' = o.reader /\ adj' = adj /\ adj_list_type' = adj_list_type
  BY DEF Returns
<1>2. TableExists(adj, o.reader)
  BY DEF DeliveryInv, TableExists
<1>. QED BY <1>1, <1>2 DEF DeliveryInv

LEMMA LostKeepsNothing ==
    ASSUME NEW s, NEW type, NEW r, NEW a, a.kind \in {"lost", "offset", "index"}
    PROVE  Kept(s, type, r, a)
BY DEF Kept

LEMMA DeliverySeekAligned ==
    ASSUME DeliveryInv, ReaderInv', NEW id \in SeekIds, NEW lost, SeekAligned(id, lost)
    PROVE  DeliveryInv'
<1>. DEFINE o == SeekVertex(adj, adj_list_type, reader, id, lost)
            hit == IF adj_list_type \in OrderedTypes THEN Aim("vertex", id)
                                                     ELSE Aim("chunk", 0)
<1>1. id \in Nat
  BY ReaderAssumption
<1>2. /\ adj \in AdjLists /\ reader \in Readers /\ Coherent(adj, reader)
      /\ adj_list_type \in OrderedTypes => Ordered(adj)
  BY DEF DeliveryInv, ReaderInv, TypeOK, CacheCoherent
<1>3. o.status \in {"OK", "IndexError", "IOError"}
  BY <1>1, <1>2, SeekVertexCorrect
<1>4. /\ o.reader.chunk_table \in {NoTable, reader.chunk_table}
      /\ o.status = "OK" /\ adj_list_type \in OrderedTypes /\ o.reader.intact =>
            AtVertex(adj, adj_list_type, o.reader, id)
      /\ o.status = "OK" /\ adj_list_type \notin OrderedTypes /\ OnVertexChunk(o.reader) =>
            AtStart(adj, o.reader)
      /\ o.status = "IndexError" /\ OnVertexChunk(o.reader) =>
            NoEdgeFrom(adj, adj_list_type, id)
  BY <1>1, <1>2, SeekVertexPlaces
<1>5. /\ Returns(o)
      /\ aim' = CASE o.status = "OK" -> hit
                  [] o.status = "IndexError" -> Aim("miss", id)
                  [] OTHER -> Lost
  BY DEF SeekAligned, Positions
<1>. HIDE DEF o
<1>6. Kept(adj, adj_list_type, o.reader, aim')
  <2>1. CASE o.status = "OK" /\ adj_list_type \in OrderedTypes
    <3>1. aim' = Aim("vertex", id)
      BY <1>5, <2>1
    <3>. QED BY <1>4, <2>1, <3>1 DEF Kept, Aim
  <2>2. CASE o.status = "OK" /\ adj_list_type \notin OrderedTypes
    <3>1. aim' = Aim("chunk", 0)
      BY <1>5, <2>2
    <3>. QED BY <1>4, <2>2, <3>1 DEF Kept, Aim
  <2>3. CASE o.status = "IndexError"
    <3>1. aim' = Aim("miss", id)
      BY <1>5, <2>3
    <3>. QED BY <1>4, <2>3, <3>1 DEF Kept, Aim
  <2>4. CASE o.status = "IOError"
    <3>1. aim' = Aim("lost", 0)
      BY <1>5, <2>4 DEF Lost
    <3>. QED BY <3>1, LostKeepsNothing DEF Aim
  <2>. QED BY <1>3, <2>1, <2>2, <2>3, <2>4
<1>. QED BY <1>4, <1>5, <1>6, DeliveryPositions

\* The inductive step.
LEMMA DeliveryNext == DeliveryInv /\ [Next]_vars => DeliveryInv'
<1>. SUFFICES ASSUME DeliveryInv, [Next]_vars PROVE DeliveryInv'
  OBVIOUS
<1>a. ReaderInv'
  BY NextCorrect DEF DeliveryInv
<1>b. /\ adj \in AdjLists /\ reader \in Readers /\ Coherent(adj, reader)
      /\ TableExists(adj, reader)
      /\ Kept(adj, adj_list_type, reader, aim)
  BY DEF DeliveryInv, ReaderInv, TypeOK, CacheCoherent
<1>c. ASSUME NEW o, Returns(o), UNCHANGED aim,
             SamePlace(o.reader, reader), TableExists(adj, o.reader)
      PROVE  DeliveryInv'
  <2>1. reader' = o.reader /\ adj' = adj /\ adj_list_type' = adj_list_type
    BY <1>c DEF Returns
  <2>2. Kept(adj, adj_list_type, o.reader, aim)
    BY <1>b, <1>c, SamePlaceKept
  <2>. QED BY <1>a, <1>c, <2>1, <2>2 DEF DeliveryInv
<1>d. ASSUME NEW o, NEW kind \in {"offset", "index"}, Positions(o, Aim(kind, 0), Lost),
             o.status \in {"OK", "IndexError", "IOError"},
             o.reader.chunk_table \in {NoTable, reader.chunk_table}
      PROVE  DeliveryInv'
  <2>1. Returns(o) /\ aim'.kind \in {"lost", "offset", "index"}
    BY <1>d DEF Positions, Aim, Lost
  <2>2. Kept(adj, adj_list_type, o.reader, aim')
    BY <2>1, LostKeepsNothing
  <2>. QED BY <1>a, <1>d, <2>1, <2>2, DeliveryPositions
<1>1. CASE copy
  <2>. DEFINE o == Outcome(Copy(reader), "OK")
  <2>1. Returns(o) /\ UNCHANGED aim
    BY <1>1 DEF copy
  <2>2. SamePlace(o.reader, reader) /\ TableExists(adj, o.reader)
    BY <1>b, GetChunkPlaces DEF Outcome
  <2>. HIDE DEF o
  <2>. QED BY <1>c, <2>1, <2>2
<1>2. ASSUME NEW lost \in Faults, next_chunk(lost)
      PROVE  DeliveryInv'
  <2>. DEFINE o == NextChunk(adj, reader, lost)
  <2>1. o.status \in {"OK", "IndexError", "IOError"}
    BY <1>b, NextChunkCorrect
  <2>2. /\ o.reader.chunk_table \in {NoTable, reader.chunk_table}
        /\ o.status = "OK" /\ OnVertexChunk(o.reader) => AtStart(adj, o.reader)
    BY <1>b, NextChunkPlaces
  <2>3. Positions(o, Aim("chunk", 0), Lost)
    BY <1>2 DEF next_chunk
  <2>. HIDE DEF o
  <2>4. Kept(adj, adj_list_type, o.reader, aim')
    <3>1. CASE o.status = "OK"
      <4>1. aim' = Aim("chunk", 0)
        BY <2>3, <3>1 DEF Positions
      <4>. QED BY <2>2, <3>1, <4>1 DEF Kept, Aim
    <3>2. CASE o.status # "OK"
      <4>1. aim'.kind = "lost"
        BY <2>1, <2>3, <3>2 DEF Positions, Lost, Aim
      <4>. QED BY <4>1, LostKeepsNothing
    <3>. QED BY <3>1, <3>2
  <2>. QED BY <1>a, <2>2, <2>3, <2>4, DeliveryPositions DEF Positions
<1>3. ASSUME NEW lost \in Faults, get_chunk(lost)
      PROVE  DeliveryInv'
  <2>. DEFINE o == GetChunk(adj, reader, lost)
  <2>1. SamePlace(o.reader, reader) /\ TableExists(adj, o.reader)
    BY <1>b, GetChunkPlaces
  <2>2. Returns(o) /\ UNCHANGED aim
    BY <1>3 DEF get_chunk
  <2>. HIDE DEF o
  <2>. QED BY <1>c, <2>1, <2>2
<1>4. ASSUME NEW lost \in Faults, get_row_num_of_chunk(lost)
      PROVE  DeliveryInv'
  <2>. DEFINE o == GetRowNumOfChunk(adj, reader, lost)
  <2>1. SamePlace(o.reader, reader) /\ TableExists(adj, o.reader)
    BY <1>b, GetChunkPlaces
  <2>2. Returns(o) /\ UNCHANGED aim
    BY <1>4 DEF get_row_num_of_chunk
  <2>. HIDE DEF o
  <2>. QED BY <1>c, <2>1, <2>2
<1>e. CASE UNCHANGED vars
  <2>1. adj' = adj /\ adj_list_type' = adj_list_type /\ reader' = reader /\ aim' = aim
    BY <1>e DEF vars
  <2>. QED BY <1>a, <2>1 DEF DeliveryInv
<1>5. ASSUME NEW lost \in Faults, NEW id \in SeekIds, seek_src(id, lost) \/ seek_dst(id, lost)
      PROVE  DeliveryInv'
  <2>1. CASE SeekAligned(id, lost)
    BY <1>a, <2>1, DeliverySeekAligned
  <2>2. CASE Invalid
    BY <1>e, <2>2 DEF Invalid
  <2>. QED BY <1>5, <2>1, <2>2 DEF seek_src, seek_dst
<1>6. ASSUME NEW lost \in Faults, NEW offset \in SeekOffsets, seek(offset, lost)
      PROVE  DeliveryInv'
  <2>. DEFINE o == Seek(adj, reader, offset, lost)
  <2>1. /\ o.status \in {"OK", "IndexError", "IOError"}
        /\ o.reader.chunk_table \in {NoTable, reader.chunk_table}
    BY <1>b, ReaderAssumption, SeekCorrect, SeekPlaces
  <2>2. Positions(o, Aim("offset", 0), Lost)
    BY <1>6 DEF seek
  <2>. HIDE DEF o
  <2>. QED BY <1>d, <2>1, <2>2
<1>7. ASSUME NEW lost \in Faults, NEW vc \in SeekChunks, NEW ec \in SeekChunks,
             seek_chunk_index(vc, ec, lost)
      PROVE  DeliveryInv'
  <2>. DEFINE o == SeekChunkIndex(adj, reader, vc, ec, lost)
  <2>1. /\ o.status \in {"OK", "IndexError", "IOError"}
        /\ o.reader.chunk_table \in {NoTable, reader.chunk_table}
    BY <1>b, ReaderAssumption, SeekChunkIndexCorrect, SeekChunkIndexTable
  <2>2. Positions(o, Aim("index", 0), Lost)
    BY <1>7 DEF seek_chunk_index
  <2>. HIDE DEF o
  <2>. QED BY <1>d, <2>1, <2>2
<1>. QED BY <1>1, <1>2, <1>3, <1>4, <1>5, <1>6, <1>7, <1>e DEF Next

LEMMA DeliveryInvariant == Spec => []DeliveryInv
BY DeliveryInit, DeliveryNext, PTL DEF Spec

\* On an edge chunk there is, GetChunk delivers from the sought row of it, and the table it
\* slices has that row or ends there.
LEMMA PeekDelivers ==
    ASSUME ReaderInv, OnPayload, OnEdgeChunk(adj, reader),
           reader.chunk_index * ChunkSize <= reader.seek_offset,
           reader.seek_offset < reader.chunk_index * ChunkSize + ChunkSize,
           reader.seek_offset <= EdgeNum(adj, reader.vertex_chunk_index)
    PROVE  /\ Peek.status = "OK"
           /\ Peek.reader.chunk_table = <<reader.vertex_chunk_index, reader.chunk_index>>
           /\ FirstDelivered = reader.seek_offset
           /\ EndDelivered \in Nat
           /\ reader.seek_offset < EdgeNum(adj, reader.vertex_chunk_index) =>
                 FirstDelivered < EndDelivered
<1>. DEFINE vc == reader.vertex_chunk_index
            ec == reader.chunk_index
            row == reader.seek_offset
            here == <<vc, ec>>
            loaded == [reader EXCEPT !.chunk_table = here]
            num == EdgeNum(adj, vc)
            base == ec * ChunkSize
            rows == RowsOfChunk(adj, here)
<1>1. /\ vc \in VertexChunks /\ ec \in Nat /\ row \in Nat /\ vc \in Nat
      /\ adj \in AdjLists /\ reader \in Readers
      /\ reader.chunk_table \in {NoTable, here}
  BY VertexChunkType DEF ReaderInv, TypeOK, CacheCoherent, Coherent, OnPayload, OnVertexChunk, Readers
<1>2. num \in Nat /\ base \in Nat /\ base < num /\ ChunkSize \in Nat \ {0}
  <2>1. base \in Nat
    BY <1>1, LayoutAssumption
  <2>. QED BY <1>1, <2>1, EdgeChunkType, LayoutAssumption DEF OnEdgeChunk
<1>3. /\ rows \in Nat
      /\ rows = IF num - base < ChunkSize THEN num - base ELSE ChunkSize
  <2>1. rows = IF num - base < ChunkSize THEN num - base ELSE ChunkSize
    BY DEF RowsOfChunk
  <2>. HIDE DEF rows, num, base
  <2>. QED BY <1>2, <2>1
<1>4. row - base \in 0 .. rows
  <2>. HIDE DEF rows, num, base, row, ec
  <2>1. base <= row /\ row < base + ChunkSize /\ row <= num
    BY DEF rows, num, base, row, ec
  <2>. QED BY <1>1, <1>2, <1>3, <2>1
<1>5. /\ loaded.chunk_table = here /\ loaded.chunk_index = ec /\ loaded.seek_offset = row
  BY <1>1 DEF Readers
<1>6. Peek.status = "OK" /\ Peek.reader = loaded
  <2>1. CASE reader.chunk_table = here
    <3>1. Peek = Outcome(reader, SliceStatus(adj, reader))
      BY <1>1, <2>1 DEF Peek, GetChunk, NoTable
    <3>2. SliceStatus(adj, reader) = "OK"
      BY <1>4, <2>1 DEF SliceStatus
    <3>3. loaded = reader
      BY <1>1, <2>1 DEF Readers
    <3>. QED BY <3>1, <3>2, <3>3 DEF Outcome
  <2>2. CASE reader.chunk_table = NoTable
    <3>1. CountReadable(vc, NoFile) /\ ChunkReadable(adj, here, NoFile) /\ EdgeNum(adj, vc) # 0
      BY <1>1, <1>2 DEF CountReadable, ChunkReadable, EdgeCountFile, NoFile, ChunkFile, OnEdgeChunk
    <3>2. Peek = Outcome(loaded, SliceStatus(adj, loaded))
      BY <2>2, <3>1 DEF Peek, GetChunk
    <3>. HIDE DEF loaded
    <3>3. SliceStatus(adj, loaded) = "OK"
      BY <1>4, <1>5 DEF SliceStatus
    <3>. QED BY <3>2, <3>3 DEF Outcome
  <2>. QED BY <1>1, <2>1, <2>2
<1>. HIDE DEF loaded
<1>7. FirstDelivered = row
  <2>1. FirstDelivered = (ec - ec) * ChunkSize + row
    BY <1>5, <1>6 DEF FirstDelivered
  <2>. QED BY <1>1, <1>2, <2>1
<1>8. EndDelivered = base + rows
  BY <1>5, <1>6 DEF EndDelivered
<1>9. row < num => row < base + rows
  <2>. HIDE DEF rows, num, base, row, ec
  <2>1. row < base + ChunkSize
    BY DEF base, row, ec
  <2>. QED BY <1>1, <1>2, <1>3, <2>1
<1>. QED BY <1>2, <1>3, <1>5, <1>6, <1>7, <1>8, <1>9

LEMMA VertexDelivered == DeliveryInv => SeekDeliversVertex
<1>. SUFFICES ASSUME DeliveryInv, reader.intact, aim.kind = "vertex"
              PROVE  /\ Peek.status = "OK"
                     /\ Peek.reader.chunk_table[1] = VertexChunkOf(aim.id)
                     /\ FirstDelivered = FirstRow(adj, aim.id)
                     /\ FirstRow(adj, aim.id) < EndRow(adj, aim.id) =>
                           /\ FirstDelivered < EndDelivered
                           /\ adj[VertexChunkOf(aim.id)][FirstDelivered + 1] = aim.id
  BY DEF SeekDeliversVertex
<1>. DEFINE vc == VertexChunkOf(aim.id)
            first == FirstRow(adj, aim.id)
            ec == reader.chunk_index
<1>1. /\ ReaderInv
      /\ adj \in AdjLists /\ reader \in Readers /\ aim.id \in Nat
      /\ AtVertex(adj, adj_list_type, reader, aim.id)
  BY DEF DeliveryInv, Kept, ReaderInv, TypeOK, Aims
<1>2. /\ vc \in VertexChunks /\ reader.vertex_chunk_index = vc
      /\ reader.seek_offset = first
      /\ ec = first \div ChunkSize
      /\ OnEdgeChunk(adj, reader)
      /\ Ordered(adj)
  BY <1>1 DEF AtVertex, DeliveryInv
<1>3. /\ first \in Nat /\ first <= EdgeNum(adj, vc)
      /\ ec * ChunkSize <= first /\ first < ec * ChunkSize + ChunkSize
  BY <1>1, <1>2, FirstRowType, LayoutAssumption, DivType
<1>4. OnPayload
  BY <1>2 DEF OnPayload, OnVertexChunk
<1>5. /\ Peek.status = "OK"
      /\ Peek.reader.chunk_table = <<vc, ec>>
      /\ FirstDelivered = first
      /\ first < EdgeNum(adj, vc) => FirstDelivered < EndDelivered
  BY <1>1, <1>2, <1>3, <1>4, PeekDelivers
<1>6. ASSUME first < EndRow(adj, aim.id)
      PROVE  first < EdgeNum(adj, vc) /\ adj[vc][first + 1] = aim.id
  <2>. DEFINE n == Len(adj[vc])
              end == EndRow(adj, aim.id)
  <2>1. /\ end \in Nat /\ end <= n
        /\ \A i \in 1 .. n : /\ adj[vc][i] < aim.id <=> i <= first
                             /\ adj[vc][i] <= aim.id <=> i <= end
    BY <1>1, <1>2, OffsetsDelimit
  <2>2. EdgeNum(adj, vc) = n /\ n \in Nat /\ \A i \in 1 .. n : adj[vc][i] \in Nat
    BY <1>1, <1>2, LayoutAssumption DEF EdgeNum, AdjLists, VertexIds
  <2>. HIDE DEF vc, first, n, end
  <2>3. first < end
    BY <1>6 DEF first, end
  <2>4. first + 1 \in 1 .. n /\ first + 1 <= end /\ ~(first + 1 <= first)
    BY <1>3, <2>1, <2>2, <2>3
  <2>5. adj[vc][first + 1] <= aim.id /\ ~(adj[vc][first + 1] < aim.id)
    BY <2>1, <2>4
  <2>6. adj[vc][first + 1] \in Nat
    BY <2>2, <2>4
  <2>. QED BY <1>1, <1>3, <2>2, <2>4, <2>5, <2>6 DEF first
<1>. HIDE DEF vc, first, ec
<1>7. Peek.reader.chunk_table[1] = vc
  BY <1>5
<1>. QED BY <1>5, <1>6, <1>7 DEF vc, first

LEMMA StartDelivered == DeliveryInv => ChunkDelivered
<1>. SUFFICES ASSUME DeliveryInv, OnPayload, aim.kind = "chunk"
              PROVE  \/ EdgeNum(adj, reader.vertex_chunk_index) = 0 /\ Peek.status = "Empty"
                     \/ /\ Peek.status = "OK"
                        /\ FirstDelivered = reader.chunk_index * ChunkSize
                        /\ FirstDelivered < EndDelivered
  BY DEF ChunkDelivered
<1>. DEFINE vc == reader.vertex_chunk_index
            base == reader.chunk_index * ChunkSize
<1>1. /\ ReaderInv
      /\ adj \in AdjLists /\ reader \in Readers
      /\ vc \in VertexChunks /\ reader.chunk_index \in Nat
      /\ reader.chunk_table \in {NoTable, <<vc, reader.chunk_index>>}
      /\ AtStart(adj, reader)
  BY DEF DeliveryInv, Kept, ReaderInv, TypeOK, CacheCoherent, Coherent, OnPayload,
         OnVertexChunk, Readers
<1>2. /\ base \in Nat /\ ChunkSize \in Nat \ {0}
      /\ EdgeNum(adj, vc) \in Nat /\ EdgeChunkNum(adj, vc) \in Nat
      /\ \A ec \in Nat : ec < EdgeChunkNum(adj, vc) <=> ec * ChunkSize < EdgeNum(adj, vc)
  BY <1>1, EdgeChunkType, LayoutAssumption
<1>3. CASE OnEdgeChunk(adj, reader)
  <2>1. reader.seek_offset = base /\ base < EdgeNum(adj, vc) /\ base < base + ChunkSize
    BY <1>1, <1>2, <1>3 DEF AtStart, OnEdgeChunk
  <2>. QED BY <1>1, <1>2, <1>3, <2>1, PeekDelivers
<1>4. CASE ~OnEdgeChunk(adj, reader)
  <2>1. EdgeNum(adj, vc) = 0
    BY <1>1, <1>4 DEF AtStart
  <2>2. reader.chunk_table = NoTable
    <3>1. TableExists(adj, reader)
      BY DEF DeliveryInv
    <3>. QED BY <1>1, <1>4, <3>1 DEF TableExists, OnEdgeChunk
  <2>3. CountReadable(vc, NoFile)
    BY <1>1 DEF CountReadable, EdgeCountFile, NoFile
  <2>4. Peek = Outcome(reader, "Empty")
    BY <2>1, <2>2, <2>3 DEF Peek, GetChunk
  <2>. QED BY <2>1, <2>4 DEF Outcome
<1>. QED BY <1>3, <1>4

LEMMA MissesNothing == DeliveryInv => MissHidesNoEdge
BY DEF DeliveryInv, Kept, NoEdgeFrom, MissHidesNoEdge, OnPayload

\* For every payload and layout: a seek to a vertex of an ordered list that succeeds, on a
\* reader that then has not failed to read a count file, makes GetChunk deliver the first
\* edge of the vertex first, after any number of calls that move nothing.
THEOREM SeekDeliveryCorrect == Spec => []SeekDeliversVertex
BY DeliveryInvariant, VertexDelivered, PTL

\* For every payload and layout: a reader that next_chunk, or a seek in an unordered list, has
\* put at the start of an edge chunk delivers the whole of it.
THEOREM DeliveryCorrect == Spec => []ChunkDelivered
BY DeliveryInvariant, StartDelivered, PTL

\* For every payload and layout: a seek that answers IndexError for a vertex there is hides
\* no edge of it, and none of a later vertex of its chunk.
THEOREM MissCorrect == Spec => []MissHidesNoEdge
BY DeliveryInvariant, MissesNothing, PTL
==============================================================================
