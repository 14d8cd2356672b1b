----------------------------- MODULE EdgeReaders ------------------------------
(****************************************************************************)
(* The other readers of an adjacency list, on files that nobody writes:     *)
(* AdjListPropertyArrowChunkReader and AdjListOffsetArrowChunkReader        *)
(* (cpp/src/graphar/arrow/chunk_reader.cc), AdjListChunkInfoReader and      *)
(* AdjListOffsetChunkInfoReader (cpp/src/graphar/chunk_info_reader.cc).     *)
(*                                                                          *)
(* A client reads edges with three readers that it calls together: one for  *)
(* the adjacency list (AdjListCursor), one for a property group and one for *)
(* the paths of the chunks.  Another client reads offsets with the reader   *)
(* of the offsets and the one of their paths.  Any read may fail in any one *)
(* of the readers.                                                          *)
(****************************************************************************)
EXTENDS EdgeFiles

CONSTANTS SeekIds,       \* vertex ids given to seek_src, seek_dst and seek
          SeekOffsets,   \* edge offsets given to seek
          ReadGroups     \* the property groups that are read

ASSUME EdgeReadersAssumption ==
    SeekIds \subseteq Nat /\ SeekOffsets \subseteq Nat /\ ReadGroups \subseteq Groups

VARIABLES
    edges,     \* the readers of the edges and what they returned last, or NoEdges
    offsets,   \* the readers of the offsets and what they returned last, or NoOffsets
    running    \* FALSE once a call has aborted the process

edgeReaderVars == <<edges, offsets, running>>

\* The adjacency list that the files hold, for the operators of AdjListCursor.
Stored == [vc \in VertexChunks |->
              [i \in 1 .. dir[EdgeCountPath(vc)] |-> EdgeAt(vc, i - 1).at]]

------------------------------------------------------------------------------
(* AdjListChunkInfoReader, and AdjListPropertyChunkInfoReader with the same *)
(* methods.  It has no table, and reads its count in the constructor.       *)

NewInfoReader ==
    [vertex_chunk_index |-> 0, chunk_index |-> 0,
     chunk_num |-> EdgeChunkNum(Stored, 0), intact |-> TRUE]

InfoSeek(r, offset) ==
    LET moved == [r EXCEPT !.chunk_index = offset \div ChunkSize]
    IN  Outcome(moved, IF moved.chunk_index < moved.chunk_num THEN "OK" ELSE "IndexError")

\* seek_src and seek_dst read the count of a vertex chunk that is not the current one.
InfoMove(r, vc, lost) ==
    IF r.vertex_chunk_index = vc THEN Outcome(r, "OK")
    ELSE LET moved == RefreshChunkNum(Stored, [r EXCEPT !.vertex_chunk_index = vc], lost)
         IN  [moved EXCEPT !.reader.intact = moved.status = "OK"]

InfoSeekVertex(r, id, lost) ==
    IF VertexChunkOf(id) >= VertexChunkNum THEN Outcome(r, "IndexError")
    ELSE LET moved == InfoMove(r, VertexChunkOf(id), lost)
         IN  IF moved.status # "OK" THEN moved
             ELSE IF adj_list_type \notin OrderedTypes THEN InfoSeek(moved.reader, 0)
             ELSE IF OffsetFile = lost THEN Outcome(moved.reader, "IOError")
             ELSE InfoSeek(moved.reader, FirstRow(Stored, id))

InfoNextStays(r, lost) ==                            \* fault model: off by one
    IF r.chunk_index + 1 <= r.chunk_num
      THEN Outcome([r EXCEPT !.chunk_index = @ + 1], "OK")
      ELSE SkipToEdges(Stored, [r EXCEPT !.chunk_index = @ + 1], lost)

\* A count that cannot be read makes next_chunk throw.
InfoNextChunk(r, lost) ==
    LET ahead == [r EXCEPT !.chunk_index = @ + 1]
    IN  IF ahead.chunk_index < r.chunk_num
          THEN Outcome(ahead, "OK") ELSE SkipToEdges(Stored, ahead, lost)

------------------------------------------------------------------------------
(* AdjListPropertyArrowChunkReader: the methods of the reader of the        *)
(* adjacency list, on chunks of the same rows.                              *)

PropertyKeepsTable(r, vc, ec, lost) ==               \* fault model: cache not dropped
    LET moved == MoveKeepingTable(Stored, r, vc, lost)
    IN  IF moved.status # "OK" \/ moved.reader.chunk_index = ec
          THEN moved ELSE Outcome(AtChunkStart(moved.reader, ec), "OK")

PropertySeekVertex(r, id, lost) == SeekVertex(Stored, adj_list_type, r, id, lost)
PropertySeek(r, offset, lost) == Seek(Stored, r, offset, lost)
PropertySeekChunkIndex(r, vc, ec, lost) == SeekChunkIndex(Stored, r, vc, ec, lost)
PropertyNextChunk(r, lost) == NextChunk(Stored, r, lost)
PropertyGetChunk(r, lost) == GetChunk(Stored, r, lost)

------------------------------------------------------------------------------
(* The client that reads edges.  together is history: the readers that have *)
(* done as the one of the adjacency list did, since a call that set the     *)
(* position of both.                                                        *)

NoEdges == [group |-> 0]

OpenEdges(g) ==
    /\ edges = NoEdges
    /\ edges' = [group |-> g, adj |-> NewReader, property |-> NewReader,
                 info |-> NewInfoReader, together |-> {"property", "info"},
                 adj_got |-> "none", property_got |-> "none"]

\* The one file that one of the readers, who, cannot read during a call.  Bound: the
\* reader of the properties, which is like that of the adjacency list, reads them all.
LostFor(reader, who, lost) == IF reader = who THEN lost ELSE NoFile
Reading == {<<"none", NoFile>>} \cup ({"adj", "info"} \X (Faults \ {NoFile}))

\* placed: the call sets the position whatever it was.
Moved(adj, property, info, placed) ==
    edges' = [edges EXCEPT
                 !.adj = adj.reader, !.property = property.reader, !.info = info.reader,
                 !.adj_got = "none", !.property_got = "none",
                 !.together =
                     {r \in (IF placed THEN {"property", "info"} ELSE @) :
                         adj.status = (IF r = "property" THEN property ELSE info).status}]

Open == edges # NoEdges /\ running

\* Bound: once no reader is together with the one of the adjacency list, the client only
\* seeks a vertex.

\* seek_src or seek_dst, the one that the adjacency list allows.
seek_vertex(id) ==
    /\ Open
    /\ \E <<who, lost>> \in Reading :
          Moved(SeekVertex(Stored, adj_list_type, edges.adj, id, LostFor("adj", who, lost)),
                PropertySeekVertex(edges.property, id, NoFile),
                InfoSeekVertex(edges.info, id, LostFor("info", who, lost)),
                VertexChunkOf(id) < VertexChunkNum)

seek(offset) ==
    /\ Open /\ edges.together # {}
    /\ \E <<who, lost>> \in Reading :
          Moved(Seek(Stored, edges.adj, offset, LostFor("adj", who, lost)),
                PropertySeek(edges.property, offset, NoFile),
                InfoSeek(edges.info, offset), FALSE)

\* Bound: next_chunk is called once behind the end, and not again and again while it
\* fails, each call of which adds one to the chunk index.
next_chunk ==
    /\ Open /\ edges.together # {}
    /\ \A r \in {edges.adj, edges.property, edges.info} :
          r.vertex_chunk_index < VertexChunkNum /\ r.chunk_index < MaxEdgeChunks
    /\ \E <<who, lost>> \in Reading :
          Moved(NextChunk(Stored, edges.adj, LostFor("adj", who, lost)),
                PropertyNextChunk(edges.property, NoFile),
                InfoNextChunk(edges.info, LostFor("info", who, lost)), FALSE)

\* The readers of paths cannot be moved to a chunk: the client leaves that one behind.
seek_chunk_index(vc, ec) ==
    /\ Open /\ "property" \in edges.together
    /\ \E <<who, lost>> \in Reading :
          LET adj == SeekChunkIndex(Stored, edges.adj, vc, ec, LostFor("adj", who, lost))
              property ==
                  PropertySeekChunkIndex(edges.property, vc, ec, NoFile)
          IN  edges' = [edges EXCEPT
                           !.adj = adj.reader, !.property = property.reader,
                           !.adj_got = "none", !.property_got = "none",
                           !.together = @ \cap (IF adj.status = property.status
                                                   THEN {"property"} ELSE {})]

\* GetChunk of both tables.
get_chunks ==
    /\ Open /\ edges.together # {}
    /\ \E <<who, lost>> \in Reading :
          LET adj == GetChunk(Stored, edges.adj, LostFor("adj", who, lost))
              property == PropertyGetChunk(edges.property, NoFile)
          IN  edges' = [edges EXCEPT !.adj = adj.reader, !.property = property.reader,
                                     !.adj_got = adj.status, !.property_got = property.status]

ReadEdges ==
    /\ \/ \E g \in ReadGroups : OpenEdges(g)
       \/ \E id \in SeekIds : seek_vertex(id)
       \/ \E offset \in SeekOffsets : seek(offset)
       \/ next_chunk
       \/ \E vc \in VertexChunks, ec \in Chunks : seek_chunk_index(vc, ec)
       \/ get_chunks
    /\ running' = (edges'.group = 0 \/ "Abort" \notin {edges'.adj_got, edges'.property_got})
    /\ UNCHANGED offsets
------------------------------------------------------------------------------
(* AdjListOffsetArrowChunkReader, and AdjListOffsetChunkInfoReader, which   *)
(* has the chunk index only.                                                *)

NoOffsets == [chunk_index |-> -1]
NoChunk == -1

NewOffsetReader == [chunk_index |-> 0, seek_id |-> 0, chunk_table |-> NoChunk]

OffsetSeekKeepsTable(r, id) ==                       \* fault model: cache not dropped
    [r EXCEPT !.seek_id = id, !.chunk_index = VertexChunkOf(id)]
OffsetSeek(r, id) ==
    [r EXCEPT !.seek_id = id, !.chunk_index = VertexChunkOf(id),
              !.chunk_table = IF VertexChunkOf(id) = r.chunk_index THEN @ ELSE NoChunk]

\* At the end only the chunk index has moved.
OffsetNextChunk(r) ==
    IF r.chunk_index + 1 < VertexChunkNum
      THEN [chunk_index |-> r.chunk_index + 1, chunk_table |-> NoChunk,
            seek_id |-> (r.chunk_index + 1) * VertexChunkSize]
      ELSE [r EXCEPT !.chunk_index = @ + 1]

OffsetStatus(r) == IF r.chunk_index < VertexChunkNum THEN "OK" ELSE "IndexError"

InfoChunkSeek(index, id) == VertexChunkOf(id)
InfoChunkNext(index) == index + 1

\* GetChunk of the table in memory: the offsets from the row of seek_id on.
OffsetRow(r) == r.seek_id - r.chunk_index * VertexChunkSize
OffsetsFrom(r) ==
    LET table == dir[OffsetPath(r.chunk_table)]
    IN  SubSeq(table, OffsetRow(r) + 1, Len(table))
InOffsets(r) == OffsetRow(r) \in 0 .. Len(dir[OffsetPath(r.chunk_table)])

------------------------------------------------------------------------------
(* The client that reads offsets.  aim is history: the vertex it sought.    *)

\* The constructors throw for an unordered list.
OpenOffsets ==
    /\ offsets = NoOffsets
    /\ adj_list_type \in OrderedTypes
    /\ offsets' = NewOffsetReader @@ [path_index |-> 0, aim |-> 0, got |-> "none"]

OffsetsMoved(r, path_index, aim) ==
    offsets' = r @@ [path_index |-> path_index, got |-> "none",
                     aim |-> IF OffsetStatus(r) = "OK" THEN aim ELSE NoChunk]

OffsetMembers == [f \in {"chunk_index", "seek_id", "chunk_table"} |-> offsets[f]]

seek_offsets(id) ==
    OffsetsMoved(OffsetSeek(OffsetMembers, id), InfoChunkSeek(offsets.path_index, id), id)

\* Bound: next_chunk is called once behind the end.
next_offsets ==
    /\ offsets.chunk_index <= VertexChunkNum
    /\ OffsetsMoved(OffsetNextChunk(OffsetMembers), InfoChunkNext(offsets.path_index),
                    (offsets.chunk_index + 1) * VertexChunkSize)

\* A slice that starts before the table or behind it is undefined, taken as an abort.
get_offsets ==
    \/ /\ offsets.chunk_table = NoChunk
       /\ offsets' = [offsets EXCEPT !.got = "IOError"]
    \/ /\ offsets.chunk_table # NoChunk \/ offsets.chunk_index < VertexChunkNum
       /\ offsets' = [offsets EXCEPT
              !.chunk_table = IF @ = NoChunk THEN offsets.chunk_index ELSE @,
              !.got = IF InOffsets([OffsetMembers EXCEPT
                             !.chunk_table = IF @ = NoChunk THEN offsets.chunk_index ELSE @])
                        THEN "OK" ELSE "Abort"]

ReadOffsets ==
    /\ \/ OpenOffsets
       \/ /\ offsets # NoOffsets /\ running
          /\ \/ \E id \in SeekIds : seek_offsets(id)
             \/ next_offsets
             \/ get_offsets
    /\ running' = (offsets'.chunk_index = -1 \/ offsets'.got # "Abort")
    /\ UNCHANGED edges

------------------------------------------------------------------------------
(* Properties.                                                              *)

\* While the adjacency list and the property group have been read with the same calls,
\* failed reads of a chunk included, and no count was lost, the tables that GetChunk of
\* both returns pair each edge with its own property (seek_src, seek, seek_chunk_index,
\* next_chunk, GetChunk of both readers; the iterators and the examples rely on it).
RowsAgree ==
    edges # NoEdges =>
        LET adj == edges.adj
            property == edges.property
            skip == adj.seek_offset - adj.chunk_index * ChunkSize
            rows == dir[AdjListPath(adj.chunk_table[1], adj.chunk_table[2])]
            tags == dir[PropertyPath(edges.group, property.chunk_table[1],
                                     property.chunk_table[2])]
            tag_skip == property.seek_offset - property.chunk_index * ChunkSize
        IN  (/\ edges.adj_got = "OK" /\ edges.property_got = "OK"
             /\ "property" \in edges.together /\ adj.intact /\ property.intact) =>
                  /\ Len(rows) - skip = Len(tags) - tag_skip
                  /\ \A i \in 1 .. Len(rows) - skip : rows[skip + i].tag = tags[tag_skip + i]

\* The path that AdjListChunkInfoReader gives is that of the chunk that the reader of
\* the chunks is at, after the same calls and while no count was lost, although one
\* reads counts in its constructor and the other when it needs them; a table that
\* GetChunk returns is of that chunk, unless next_chunk has run off the end (seek_src,
\* seek, next_chunk of both, GetChunk).
PathFollowsTable ==
    edges # NoEdges =>
        ("info" \in edges.together /\ edges.adj.intact /\ edges.info.intact =>
            /\ edges.info.vertex_chunk_index = edges.adj.vertex_chunk_index
            /\ edges.info.chunk_index = edges.adj.chunk_index
            /\ edges.adj_got = "OK" /\ edges.info.vertex_chunk_index < VertexChunkNum =>
                  edges.adj.chunk_table
                      = <<edges.info.vertex_chunk_index, edges.info.chunk_index>>)

\* The offsets that GetChunk returns start at the entry of the vertex that was sought or
\* that next_chunk moved to, also after a next_chunk that ran off the end; the entry and
\* the next one are the rows of its edges (AdjListOffsetArrowChunkReader), and the
\* reader of paths names the file they are in (AdjListOffsetChunkInfoReader).
OffsetsFollow ==
    offsets # NoOffsets =>
        /\ offsets.path_index = offsets.chunk_index
        /\ (offsets.got = "OK" /\ offsets.aim # NoChunk) =>
              /\ offsets.chunk_table = VertexChunkOf(offsets.aim)
              /\ Len(OffsetsFrom(OffsetMembers)) >= 2
              /\ offsets.aim \in VertexIds =>
                    /\ OffsetsFrom(OffsetMembers)[1] = FirstRow(Stored, offsets.aim)
                    /\ OffsetsFrom(OffsetMembers)[2] = EndRow(Stored, offsets.aim)
==============================================================================
