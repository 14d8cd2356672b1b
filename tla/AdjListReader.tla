---------------------------- MODULE AdjListReader ----------------------------
(****************************************************************************)
(* A client of one AdjListArrowChunkReader (arrow/chunk_reader.cc): it      *)
(* calls the methods in any order, and goes on using the reader after a     *)
(* call has failed.                                                         *)
(****************************************************************************)
EXTENDS AdjListCursor

CONSTANTS Payloads,             \* the adjacency lists a reader may be opened on
          EdgeAdjListTypes,     \* the types of adjacency list the edge info has
          SeekIds,              \* ids a client passes to seek_src, seek_dst
          SeekOffsets,          \* offsets a client passes to seek
          SeekChunks,           \* chunk indices passed to seek_chunk_index
          MaxVertexChunkIndex,  \* bounds: next_chunk is not called once an index
          MaxChunkIndex         \* has reached them

VARIABLES
    adj,             \* the payload, never written by a reader
    adj_list_type,   \* which of the four adjacency lists it is
    reader,          \* the reader's members
    running,         \* FALSE once a call has aborted the process
    aim              \* history: what the last positioning call asked for

vars == <<adj, adj_list_type, reader, running, aim>>

ASSUME ReaderAssumption ==
    /\ Payloads \subseteq AdjLists
    /\ EdgeAdjListTypes \subseteq AdjListTypes
    /\ SeekIds \subseteq Nat
    /\ SeekOffsets \subseteq Nat
    /\ SeekChunks \subseteq Nat
    /\ MaxVertexChunkIndex \in Nat
    /\ MaxChunkIndex \in Nat

------------------------------------------------------------------------------
(* The client.  aim records the promise of the last positioning call: the   *)
(* edges of a vertex, a whole edge chunk, an offset, an index, a vertex     *)
(* without edges ("miss"), or nothing after an error.                       *)

Aims == [kind : {"vertex", "chunk", "offset", "index", "miss", "lost"}, id : Nat]
Aim(kind, id) == [kind |-> kind, id |-> id]
Lost == Aim("lost", 0)

Init ==
    /\ adj \in {a \in Payloads : Aligned(a)}
    /\ adj_list_type \in {type \in EdgeAdjListTypes : type \in OrderedTypes => Ordered(adj)}
    /\ reader = NewReader
    /\ running = TRUE
    /\ aim = Aim("chunk", 0)

Returns(outcome) ==
    /\ running
    /\ reader' = outcome.reader
    /\ running' = (outcome.status # "Abort")
    /\ UNCHANGED <<adj, adj_list_type>>

Positions(outcome, hit, miss) ==
    /\ Returns(outcome)
    /\ aim' = CASE outcome.status = "OK" -> hit
               [] outcome.status = "IndexError" -> miss
               [] OTHER -> Lost

SeekAligned(id, lost) ==
    Positions(SeekVertex(adj, adj_list_type, reader, id, lost),
              IF adj_list_type \in OrderedTypes THEN Aim("vertex", id)
                                                ELSE Aim("chunk", 0),
              Aim("miss", id))

\* The check of the type that seek_src and seek_dst begin with.
Invalid ==
    running /\ UNCHANGED vars

seek_src(id, lost) ==
    \/ adj_list_type \in BySource /\ SeekAligned(id, lost)
    \/ adj_list_type \notin BySource /\ Invalid

seek_dst(id, lost) ==
    \/ adj_list_type \in ByDest /\ SeekAligned(id, lost)
    \/ adj_list_type \notin ByDest /\ Invalid

seek(offset, lost) ==
    Positions(Seek(adj, reader, offset, lost), Aim("offset", 0), Lost)

seek_chunk_index(vc, ec, lost) ==
    Positions(SeekChunkIndex(adj, reader, vc, ec, lost), Aim("index", 0), Lost)

next_chunk(lost) ==
    /\ reader.vertex_chunk_index < MaxVertexChunkIndex
    /\ reader.chunk_index < MaxChunkIndex
    /\ Positions(NextChunk(adj, reader, lost), Aim("chunk", 0), Lost)

get_chunk(lost) ==
    /\ Returns(GetChunk(adj, reader, lost))
    /\ UNCHANGED aim

get_row_num_of_chunk(lost) ==
    /\ Returns(GetRowNumOfChunk(adj, reader, lost))
    /\ UNCHANGED aim

copy ==
    /\ Returns(Outcome(Copy(reader), "OK"))
    /\ UNCHANGED aim

Next ==
    \/ copy
    \/ \E lost \in Faults :
        \/ next_chunk(lost)
        \/ get_chunk(lost)
        \/ get_row_num_of_chunk(lost)
        \/ \E id \in SeekIds : seek_src(id, lost) \/ seek_dst(id, lost)
        \/ \E offset \in SeekOffsets : seek(offset, lost)
        \/ \E vc, ec \in SeekChunks : seek_chunk_index(vc, ec, lost)

Spec == Init /\ [][Next]_vars

------------------------------------------------------------------------------
(* Properties.                                                              *)

\* Every variable has its type.
TypeOK ==
    /\ adj \in AdjLists
    /\ adj_list_type \in AdjListTypes
    /\ reader \in Readers
    /\ running \in BOOLEAN
    /\ aim \in Aims

OnVertexChunk(r) == r.intact /\ r.vertex_chunk_index \in VertexChunks
OnPayload == OnVertexChunk(reader)

Coherent(s, r) ==
    OnVertexChunk(r) =>
        /\ r.chunk_table \in {NoTable, <<r.vertex_chunk_index, r.chunk_index>>}
        /\ r.chunk_num \in {-1, EdgeChunkNum(s, r.vertex_chunk_index)}

\* As long as no count file failed to be read, the two caches of the reader are
\* those of its position, whatever methods were called in whatever order: the
\* table is the edge chunk at the two indices, and chunk_num the number of edge
\* chunks of the vertex chunk.
CacheCoherent == Coherent(adj, reader)

\* What GetChunk would deliver now: the status, and the rows first .. end - 1.
Peek == GetChunk(adj, reader, NoFile)
FirstDelivered ==
    LET r == Peek.reader
    IN  (r.chunk_table[2] - r.chunk_index) * ChunkSize + r.seek_offset
EndDelivered ==
    LET chunk == Peek.reader.chunk_table
    IN  chunk[2] * ChunkSize + RowsOfChunk(adj, chunk)

\* After seek_src or seek_dst finds a vertex in an ordered list, GetChunk delivers
\* its first edge first, and at least one edge if the vertex has any.
SeekDeliversVertex ==
    reader.intact /\ aim.kind = "vertex" =>
        /\ Peek.status = "OK"
        /\ Peek.reader.chunk_table[1] = VertexChunkOf(aim.id)
        /\ FirstDelivered = FirstRow(adj, aim.id)
        /\ FirstRow(adj, aim.id) < EndRow(adj, aim.id) =>
              /\ FirstDelivered < EndDelivered
              /\ adj[VertexChunkOf(aim.id)][FirstDelivered + 1] = aim.id

\* A reader that is at the start of an edge chunk delivers all of its rows; only
\* the constructor and the seeks to an empty vertex chunk leave it at none.
ChunkDelivered ==
    OnPayload /\ aim.kind = "chunk" =>
        \/ EdgeNum(adj, reader.vertex_chunk_index) = 0 /\ Peek.status = "Empty"
        \/ /\ Peek.status = "OK"
           /\ FirstDelivered = reader.chunk_index * ChunkSize
           /\ FirstDelivered < EndDelivered

\* seek_src and seek_dst answer IndexError for an existing vertex only if neither
\* it nor a later vertex of its chunk has an edge: no edge is hidden by it.
MissHidesNoEdge ==
    OnPayload /\ aim.kind = "miss" /\ aim.id \in VertexIds =>
        \A i \in 1 .. EdgeNum(adj, VertexChunkOf(aim.id)) :
            /\ adj_list_type \in OrderedTypes
            /\ adj[VertexChunkOf(aim.id)][i] < aim.id

Before(a, b) == a[1] < b[1] \/ (a[1] = b[1] /\ a[2] < b[2])

ChunksAfter(position) ==
    {chunk \in UNION {{vc} \X (0 .. EdgeChunkNum(adj, vc) - 1) : vc \in VertexChunks} :
        Before(position, chunk)}

\* From wherever the reader is, next_chunk moves to the next edge chunk there is,
\* over any number of empty vertex chunks: it skips none, repeats none, and says
\* IndexError only if none is left.
NextChunkFindsSuccessor ==
    OnPayload =>
        LET next == NextChunk(adj, reader, NoFile)
            ahead == ChunksAfter(<<reader.vertex_chunk_index, reader.chunk_index>>)
            there == <<next.reader.vertex_chunk_index, next.reader.chunk_index>>
        IN  IF next.status = "OK"
            THEN there \in ahead /\ \A c \in ahead : ~Before(c, there)
            ELSE ahead = {}

------------------------------------------------------------------------------
(* A statement of the header that the code does not keep.                   *)

\* "Sets chunk position to the specific vertex chunk and edge chunk": after it,
\* GetChunk delivers that edge chunk from its first row.
SeekChunkIndexDeliversChunk ==
    OnPayload /\ aim.kind = "index" =>
        \/ Peek.status \in {"Empty", "IOError"}
        \/ Peek.status = "OK" /\ FirstDelivered = reader.chunk_index * ChunkSize
==============================================================================
