---------------------------- MODULE AdjListCursor ----------------------------
(****************************************************************************)
(* The methods of AdjListArrowChunkReader (arrow/chunk_reader.cc under      *)
(* cpp/src/graphar), a cursor over the edge chunks of one adjacency list.   *)
(* The reader caches the number of edge chunks of its vertex chunk and the  *)
(* table of its edge chunk; both are read lazily from files, and any read   *)
(* may fail (an object store that times out, a file that is not there).  A  *)
(* call that fails returns an error and leaves the reader as far as it got. *)
(*                                                                          *)
(* Each method is an operator from a reader to its outcome, so that the     *)
(* client of a reader and the iterators that hold readers are composed from *)
(* the same operators.  The reader of edge properties has the same methods. *)
(****************************************************************************)
EXTENDS AdjListLayout

BySource == {"ordered_by_source", "unordered_by_source"}
ByDest == {"ordered_by_dest", "unordered_by_dest"}
OrderedTypes == {"ordered_by_source", "ordered_by_dest"}
AdjListTypes == BySource \cup ByDest

------------------------------------------------------------------------------
(* Files.  A call is given the one file, if any, that cannot be read while  *)
(* it runs; one is enough, a call returns at the first error.               *)

NoFile == <<"none", 0>>
EdgeCountFile(vc) == <<"edge_count", vc>>
OffsetFile == <<"offset", 0>>      \* a call reads at most one offset chunk
ChunkFile == <<"adj_list", 0>>     \* and at most one edge chunk

Faults == {NoFile, OffsetFile, ChunkFile}
              \cup {EdgeCountFile(vc) : vc \in VertexChunks}

CountReadable(vc, lost) == vc \in VertexChunks /\ EdgeCountFile(vc) # lost

ChunkReadable(s, chunk, lost) ==
    /\ chunk[1] \in VertexChunks
    /\ chunk[2] < EdgeChunkNum(s, chunk[1])
    /\ ChunkFile # lost

------------------------------------------------------------------------------
(* The reader's members.  chunk_table is the edge chunk whose rows are      *)
(* cached.  intact is history: FALSE from a failed read of a count file     *)
(* until the reader next loads a vertex chunk completely.                   *)

NoTable == <<-1, -1>>

Readers == [vertex_chunk_index : Nat, chunk_index : Nat, seek_offset : Nat,
            chunk_num : Nat \cup {-1}, chunk_table : (Nat \X Nat) \cup {NoTable},
            intact : BOOLEAN]

\* Fault model: a member the constructor forgot to initialise.
UninitialisedReader ==
    [vertex_chunk_index |-> 0, chunk_index |-> 0, seek_offset |-> -1,
     chunk_num |-> -1, chunk_table |-> NoTable, intact |-> TRUE]

NewReader == [vertex_chunk_index |-> 0, chunk_index |-> 0, seek_offset |-> 0,
              chunk_num |-> -1, chunk_table |-> NoTable, intact |-> TRUE]

Outcome(r, status) == [reader |-> r, status |-> status]

\* initOrUpdateEdgeChunkNum: chunk_num is assigned only when the read succeeds.
RefreshChunkNum(s, r, lost) ==
    IF CountReadable(r.vertex_chunk_index, lost)
    THEN Outcome([r EXCEPT !.chunk_num = EdgeChunkNum(s, r.vertex_chunk_index)],
                 "OK")
    ELSE Outcome([r EXCEPT !.intact = FALSE], "IOError")

\* Fault model: the table of the old vertex chunk is kept.
MoveKeepingTable(s, r, vc, lost) ==
    IF r.chunk_num >= 0 /\ r.vertex_chunk_index = vc
    THEN Outcome(r, "OK")
    ELSE RefreshChunkNum(s, [r EXCEPT !.vertex_chunk_index = vc], lost)

\* The step that seek_src, seek_dst and seek_chunk_index share: the index is
\* assigned before the count is read, the table is dropped after.
MoveToVertexChunk(s, r, vc, lost) ==
    IF r.chunk_num >= 0 /\ r.vertex_chunk_index = vc
    THEN Outcome(r, "OK")
    ELSE LET moved == RefreshChunkNum(s, [r EXCEPT !.vertex_chunk_index = vc], lost)
         IN  IF moved.status # "OK"
             THEN moved
             ELSE Outcome([moved.reader EXCEPT !.chunk_table = NoTable,
                                               !.intact = TRUE], "OK")

\* The start of an edge chunk of the current vertex chunk.
StaleOffsetAt(r, ec) ==   \* fault model: the offset of the old chunk is kept
    [r EXCEPT !.chunk_index = ec, !.chunk_table = NoTable]
AtChunkStart(r, ec) ==
    [r EXCEPT !.chunk_index = ec, !.seek_offset = ec * ChunkSize,
              !.chunk_table = NoTable]

\* seek: the cached table survives if the edge chunk index does not change.
Seek(s, r, offset, lost) ==
    LET index == offset \div ChunkSize
        moved == [r EXCEPT !.seek_offset = offset, !.chunk_index = index,
                           !.chunk_table = IF index = r.chunk_index THEN @
                                                                    ELSE NoTable]
        ready == IF moved.chunk_num < 0 THEN RefreshChunkNum(s, moved, lost)
                                        ELSE Outcome(moved, "OK")
    IN  IF ready.status = "OK" /\ index >= ready.reader.chunk_num
        THEN Outcome(ready.reader, "IndexError")
        ELSE ready

\* GetAdjListOffsetOfVertex: the entry of the vertex and the next one.
SwappedOffsets(s, id) == <<EndRow(s, id), FirstRow(s, id)>>   \* fault model
OffsetsOfVertex(s, id) == <<FirstRow(s, id), EndRow(s, id)>>

\* seek_src and seek_dst, past the check of the adjacency list type.
SeekVertex(s, type, r, id, lost) ==
    IF VertexChunkOf(id) >= VertexChunkNum
    THEN Outcome(r, "IndexError")
    ELSE LET moved == MoveToVertexChunk(s, r, VertexChunkOf(id), lost)
         IN  IF moved.status # "OK" THEN moved
             ELSE IF type \notin OrderedTypes THEN Seek(s, moved.reader, 0, lost)
             ELSE IF OffsetFile = lost
                  THEN Outcome(moved.reader, "IOError")
             ELSE Seek(s, moved.reader, OffsetsOfVertex(s, id)[1], lost)

SeekChunkIndex(s, r, vc, ec, lost) ==
    LET moved == MoveToVertexChunk(s, r, vc, lost)
    IN  IF moved.status # "OK" \/ moved.reader.chunk_index = ec
        THEN moved
        ELSE Outcome(AtChunkStart(moved.reader, ec), "OK")

\* Fault model: an if in place of the loop over empty vertex chunks.
NextStopOnce(s, vc, lost) == vc + 1

\* The vertex chunk at which the loop of next_chunk, which starts behind vc,
\* stops: the first that has edges or whose count cannot be read, or the end.
NextStop(s, vc, lost) ==
    IF vc >= VertexChunkNum
    THEN vc + 1
    ELSE CHOOSE stop \in vc + 1 .. VertexChunkNum :
            /\ \/ stop = VertexChunkNum
               \/ ~CountReadable(stop, lost)
               \/ EdgeChunkNum(s, stop) > 0
            /\ \A skipped \in vc + 1 .. stop - 1 :
                  CountReadable(skipped, lost) /\ EdgeChunkNum(s, skipped) = 0

\* The loop itself: every vertex chunk it enters resets chunk_index, every
\* count it reads replaces chunk_num.
SkipToEdges(s, r, lost) ==
    LET from == r.vertex_chunk_index
        stop == NextStop(s, from, lost)
        walked == [r EXCEPT !.vertex_chunk_index = stop,
                            !.chunk_index = IF stop = from + 1 THEN @ ELSE 0,
                            !.chunk_num = IF stop = from + 1 THEN @ ELSE 0]
    IN  IF stop >= VertexChunkNum
        THEN Outcome(walked, "IndexError")
        ELSE RefreshChunkNum(s, [walked EXCEPT !.chunk_index = 0], lost)

NextChunk(s, r, lost) ==
    LET ahead == [r EXCEPT !.chunk_index = @ + 1]
        ready == IF r.chunk_num < 0 THEN RefreshChunkNum(s, ahead, lost)
                                    ELSE Outcome(ahead, "OK")
        found == IF ready.status # "OK" \/ ahead.chunk_index < ready.reader.chunk_num
                 THEN ready
                 ELSE SkipToEdges(s, ready.reader, lost)
    IN  IF found.status # "OK"
        THEN found
        ELSE Outcome(AtChunkStart(found.reader, found.reader.chunk_index), "OK")

\* Slicing the cached table.  Arrow aborts the process when the offset is
\* beyond the table; a negative one reads outside its buffers.
SliceStatus(s, r) ==
    LET row == r.seek_offset - r.chunk_index * ChunkSize
    IN  IF row \in 0 .. RowsOfChunk(s, r.chunk_table) THEN "OK" ELSE "Abort"

\* GetChunk.  The status "Empty" is the null table of an empty vertex chunk.
GetChunk(s, r, lost) ==
    LET here == <<r.vertex_chunk_index, r.chunk_index>>
        loaded == [r EXCEPT !.chunk_table = here]
    IN  IF r.chunk_table # NoTable THEN Outcome(r, SliceStatus(s, r))
        ELSE IF ~CountReadable(r.vertex_chunk_index, lost)
             THEN Outcome(r, "IOError")
        ELSE IF EdgeNum(s, r.vertex_chunk_index) = 0 THEN Outcome(r, "Empty")
        ELSE IF ~ChunkReadable(s, here, lost) THEN Outcome(r, "IOError")
        ELSE Outcome(loaded, SliceStatus(s, loaded))

\* GetRowNumOfChunk: no check for an empty vertex chunk.
GetRowNumOfChunk(s, r, lost) ==
    LET here == <<r.vertex_chunk_index, r.chunk_index>>
    IN  IF r.chunk_table # NoTable THEN Outcome(r, "OK")
        ELSE IF ChunkReadable(s, here, lost)
             THEN Outcome([r EXCEPT !.chunk_table = here], "OK")
        ELSE Outcome(r, "IOError")

\* The copy constructor: every member but the table.
Copy(r) == [r EXCEPT !.chunk_table = NoTable]
==============================================================================
