----------------------------- MODULE EdgesBuilder -----------------------------
(****************************************************************************)
(* EdgesBuilder (cpp/src/graphar/high-level/edges_builder) and the          *)
(* EdgeChunkWriter (cpp/src/graphar/arrow/chunk_writer.cc) it drives: a     *)
(* client adds edges to a builder in memory, and Dump writes the files of   *)
(* one adjacency list, one file after the other.  Any write may fail, and   *)
(* the process may crash at any moment; both may leave the file that was    *)
(* being written torn.  The directory survives, and the client may dump     *)
(* again, with the same builder or, after a crash, with a new one.          *)
(*                                                                          *)
(* An edge is a pair of its aligned endpoint (source or destination, by the *)
(* adjacency list type) and a tag that stands for its other endpoint and    *)
(* its properties.  The property groups are one group.                      *)
(****************************************************************************)
EXTENDS AdjListLayout

CONSTANTS Edges,            \* the edges a client may add, each once
          EdgeAdjListTypes, \* the types of adjacency list the edge info has
          ValidateLevels,   \* the validate levels that calls of AddEdge use
          MaxEdges,         \* bound: the edges a builder is given
          MaxDumps,         \* bound: the calls to Dump; no edge is added behind the last
          Missing, Torn     \* a file that does not exist, one cut short

OrderedTypes == {"ordered_by_source", "ordered_by_dest"}
AdjListTypes == OrderedTypes \cup {"unordered_by_source", "unordered_by_dest"}
Levels == {"no_validate", "weak_validate", "strong_validate"}

Endpoint(e) == e[1]
ChunkOfEdge(e) == VertexChunkOf(Endpoint(e))

\* The vertex chunks of edges, which may lie behind the last one of the vertices.
Buckets == VertexChunks \cup {ChunkOfEdge(e) : e \in Edges}

Rows == Seq(Edges)
OffsetChunks == [0 .. VertexChunkSize -> Nat]

ASSUME BuilderAssumption ==
    /\ Edges \subseteq Nat \X Nat
    /\ IsFiniteSet(Edges)
    /\ EdgeAdjListTypes \subseteq AdjListTypes
    /\ ValidateLevels \subseteq Levels
    /\ MaxEdges \in Nat
    /\ MaxDumps \in Nat
    /\ Missing # Torn
    /\ {Missing, Torn} \cap (Nat \cup Rows \cup OffsetChunks) = {}

VARIABLES
    \* The builder.
    adj_list_type,
    edges,          \* vertex chunk -> its edges, for the chunks of the map
    is_saved,
    \* The progress of Dump.
    pc,             \* "idle", or the kind of file that is written next
    todo,           \* the vertex chunks that the current loop has still to do
    chunk,          \* <<vertex chunk, edge chunk>> that is written next
    \* The directory.
    vertex_count, edge_count, offset_chunk, adj_chunk, prop_chunk,
    \* History.
    added,          \* edges added since the constructor or Clear
    dumping,        \* those of them when Dump was last called
    dumps,          \* calls to Dump
    uses,           \* calls to Dump since the constructor or Clear
    saves,          \* those of them that returned OK
    result          \* how the last Dump ended

memory == <<adj_list_type, edges, is_saved>>
directory == <<vertex_count, edge_count, offset_chunk, adj_chunk, prop_chunk>>
history == <<added, dumping, dumps, uses, saves, result>>
vars == <<memory, pc, todo, chunk, directory, history>>

\* The edge chunks that MaxEdges edges may fill.
EdgeChunks == 0 .. ChunkNum(MaxEdges, ChunkSize) - 1
FileChunks == Buckets \X EdgeChunks

------------------------------------------------------------------------------

NoChunk == <<0, 0>>
NoEdges == [vc \in {} |-> <<>>]

IsOrdered == adj_list_type \in OrderedTypes

Bucket(vc) == IF vc \in DOMAIN edges THEN edges[vc] ELSE <<>>

Init ==
    /\ adj_list_type \in EdgeAdjListTypes
    /\ edges = NoEdges /\ is_saved = FALSE
    /\ pc = "idle" /\ todo = {} /\ chunk = NoChunk
    /\ vertex_count = Missing
    /\ edge_count = [vc \in VertexChunks |-> Missing]
    /\ offset_chunk = [vc \in Buckets |-> Missing]
    /\ adj_chunk = [c \in FileChunks |-> Missing]
    /\ prop_chunk = [c \in FileChunks |-> Missing]
    /\ added = {} /\ dumping = {}
    /\ dumps = 0 /\ uses = 0 /\ saves = 0 /\ result = "none"

\* AddEdge, with the level of the call or else of the builder: only a validating call
\* refuses an edge after a Dump.  No level compares the endpoint with VertexNum.
AddEdge(e, level) ==
    /\ pc = "idle"
    /\ dumps < MaxDumps
    /\ e \notin added /\ Cardinality(added) < MaxEdges
    /\ level # "no_validate" => ~is_saved
    /\ edges' = [vc \in DOMAIN edges \cup {ChunkOfEdge(e)} |->
                    IF vc = ChunkOfEdge(e) THEN Append(Bucket(vc), e) ELSE edges[vc]]
    /\ added' = added \cup {e}
    /\ UNCHANGED <<adj_list_type, is_saved, pc, todo, chunk, directory,
                   dumping, dumps, uses, saves, result>>

\* Clear.
Clear ==
    /\ pc = "idle"
    /\ edges' = NoEdges /\ is_saved' = FALSE
    /\ added' = {} /\ uses' = 0 /\ saves' = 0
    /\ UNCHANGED <<adj_list_type, pc, todo, chunk, directory, dumping, dumps, result>>

\* The call of Dump: every vertex chunk without edges gets an empty vector.
DumpStart ==
    /\ pc = "idle"
    /\ dumps < MaxDumps
    /\ edges' = [vc \in DOMAIN edges \cup VertexChunks |-> Bucket(vc)]
    /\ pc' = IF IsOrdered /\ DOMAIN edges' # {} THEN "offset" ELSE "vertex_count"
    /\ todo' = IF IsOrdered THEN DOMAIN edges' ELSE {}
    /\ dumping' = added
    /\ dumps' = dumps + 1 /\ uses' = uses + 1
    /\ result' = "none"
    /\ UNCHANGED <<adj_list_type, is_saved, chunk, directory, added, saves>>

------------------------------------------------------------------------------
(* Writing the offset chunks.                                               *)

Unsorted(q) == {q}   \* fault model: the edges are not sorted

\* What std::sort may leave: it is not stable.
SortedVersions(q) ==
    {r \in [1 .. Len(q) -> {q[i] : i \in 1 .. Len(q)}] :
        /\ \A i, j \in 1 .. Len(q) : i < j => Endpoint(r[i]) <= Endpoint(r[j])
        /\ \A i \in 1 .. Len(q) : \E j \in 1 .. Len(q) : r[j] = q[i]}

\* Fault model: the offset of a vertex ends with the edges of the next one.
ShiftedOffsetTable(vc, rows) ==
    [k \in 0 .. VertexChunkSize |->
        IF k = 0 THEN 0
        ELSE Cardinality({i \in 1 .. Len(rows) :
                             Endpoint(rows[i]) <= vc * VertexChunkSize + k})]

\* getOffsetTable: behind 0, for each vertex of the chunk the number of leading rows
\* whose endpoint is not beyond it.
OffsetTable(vc, rows) ==
    [k \in 0 .. VertexChunkSize |->
        IF k = 0 THEN 0
        ELSE Cardinality({i \in 1 .. Len(rows) :
                             \A j \in 1 .. i :
                                Endpoint(rows[j]) <= vc * VertexChunkSize + k - 1})]

\* One round of the loop: sort the edges of a vertex chunk, write its offsets.
WriteOffsetChunk ==
    /\ pc = "offset"
    /\ \E vc \in todo : \E sorted \in SortedVersions(edges[vc]) :
          /\ edges' = [edges EXCEPT ![vc] = sorted]
          /\ offset_chunk' = [offset_chunk EXCEPT ![vc] = OffsetTable(vc, sorted)]
          /\ todo' = todo \ {vc}
          /\ pc' = IF todo' = {} THEN "vertex_count" ELSE "offset"
    /\ UNCHANGED <<adj_list_type, is_saved, chunk, vertex_count, edge_count, adj_chunk, prop_chunk,
                   history>>

------------------------------------------------------------------------------
(* Writing the counts.                                                      *)

EdgeCountsFrom(vc) ==
    IF vc \in VertexChunks
    THEN pc' = "edge_count" /\ chunk' = <<vc, 0>> /\ UNCHANGED todo
    ELSE pc' = "table" /\ todo' = DOMAIN edges /\ chunk' = NoChunk

WriteVerticesNum ==
    /\ pc = "vertex_count"
    /\ vertex_count' = VertexNum
    /\ EdgeCountsFrom(0)
    /\ UNCHANGED <<memory, edge_count, offset_chunk, adj_chunk, prop_chunk,
                   history>>

\* The loop runs over the vertex chunks of the vertices, in order.
WriteEdgesNum ==
    /\ pc = "edge_count"
    /\ edge_count' = [edge_count EXCEPT ![chunk[1]] = Len(edges[chunk[1]])]
    /\ EdgeCountsFrom(chunk[1] + 1)
    /\ UNCHANGED <<memory, vertex_count, offset_chunk, adj_chunk, prop_chunk,
                   history>>

------------------------------------------------------------------------------
(* Writing the edge chunks.                                                 *)

\* The rows of edge chunk ec of a table.
Slice(rows, ec) ==
    SubSeq(rows, ec * ChunkSize + 1,
           IF (ec + 1) * ChunkSize < Len(rows) THEN (ec + 1) * ChunkSize ELSE Len(rows))

\* The loop over the map takes the next vertex chunk, in any order.
EnterTable ==
    /\ pc = "table"
    /\ \E vc \in todo : chunk' = <<vc, 0>>
    /\ pc' = "adj_chunk"
    /\ UNCHANGED <<memory, todo, directory, history>>

RowsMayBeLeft == chunk[2] * ChunkSize <= Len(edges[chunk[1]])   \* fault model
RowsLeft == chunk[2] * ChunkSize < Len(edges[chunk[1]])

WriteAdjListChunk ==
    /\ pc = "adj_chunk" /\ RowsLeft
    /\ adj_chunk' = [adj_chunk EXCEPT ![chunk] = Slice(edges[chunk[1]], chunk[2])]
    /\ pc' = "prop_chunk"
    /\ UNCHANGED <<memory, todo, chunk, vertex_count, edge_count, offset_chunk,
                   prop_chunk, history>>

WritePropertyChunk ==
    /\ pc = "prop_chunk"
    /\ prop_chunk' = [prop_chunk EXCEPT ![chunk] = Slice(edges[chunk[1]], chunk[2])]
    /\ chunk' = <<chunk[1], chunk[2] + 1>>
    /\ pc' = "adj_chunk"
    /\ UNCHANGED <<memory, todo, vertex_count, edge_count, offset_chunk,
                   adj_chunk, history>>

\* Fault model: the loop does not advance past a vertex chunk.
LeaveTableAgain ==
    /\ pc = "adj_chunk" /\ ~RowsLeft
    /\ edges' = [edges EXCEPT ![chunk[1]] = <<>>]
    /\ chunk' = NoChunk
    /\ pc' = "table"
    /\ UNCHANGED <<adj_list_type, is_saved, todo, directory, history>>

\* The table of a vertex chunk is written: its edges are dropped from memory.
LeaveTable ==
    /\ pc = "adj_chunk" /\ ~RowsLeft
    /\ edges' = [edges EXCEPT ![chunk[1]] = <<>>]
    /\ todo' = todo \ {chunk[1]} /\ chunk' = NoChunk
    /\ pc' = "table"
    /\ UNCHANGED <<adj_list_type, is_saved, directory, history>>

DumpReturns ==
    /\ pc = "table" /\ todo = {}
    /\ is_saved' = TRUE
    /\ pc' = "idle"
    /\ saves' = saves + 1 /\ result' = "OK"
    /\ UNCHANGED <<adj_list_type, edges, todo, chunk, directory, added, dumping, dumps, uses>>

------------------------------------------------------------------------------
(* Failures.                                                                *)

\* The file that is written next may be left torn; every other file is kept.
TornWrite ==
    \/ UNCHANGED directory
    \/ /\ pc = "offset"
       /\ \E vc \in todo : offset_chunk' = [offset_chunk EXCEPT ![vc] = Torn]
       /\ UNCHANGED <<vertex_count, edge_count, adj_chunk, prop_chunk>>
    \/ /\ pc = "vertex_count"
       /\ vertex_count' = Torn
       /\ UNCHANGED <<edge_count, offset_chunk, adj_chunk, prop_chunk>>
    \/ /\ pc = "edge_count"
       /\ edge_count' = [edge_count EXCEPT ![chunk[1]] = Torn]
       /\ UNCHANGED <<vertex_count, offset_chunk, adj_chunk, prop_chunk>>
    \/ /\ pc = "adj_chunk" /\ RowsLeft
       /\ adj_chunk' = [adj_chunk EXCEPT ![chunk] = Torn]
       /\ UNCHANGED <<vertex_count, edge_count, offset_chunk, prop_chunk>>
    \/ /\ pc = "prop_chunk"
       /\ prop_chunk' = [prop_chunk EXCEPT ![chunk] = Torn]
       /\ UNCHANGED <<vertex_count, edge_count, offset_chunk, adj_chunk>>

\* A write fails: Dump returns the error and leaves the builder as it is.  The chunk
\* whose offsets could not be written has been sorted; a retry sorts it again.
WriteFails ==
    /\ pc \in {"offset", "vertex_count", "edge_count", "adj_chunk", "prop_chunk"}
    /\ pc = "adj_chunk" => RowsLeft
    /\ TornWrite
    /\ pc' = "idle" /\ todo' = {} /\ chunk' = NoChunk
    /\ result' = "error"
    /\ UNCHANGED <<memory, added, dumping, dumps, uses, saves>>

\* The process crashes during Dump, and a new one constructs a new builder.
Crash ==
    /\ pc # "idle"
    /\ TornWrite
    /\ edges' = NoEdges /\ is_saved' = FALSE
    /\ pc' = "idle" /\ todo' = {} /\ chunk' = NoChunk
    /\ added' = {} /\ uses' = 0 /\ saves' = 0 /\ result' = "crash"
    /\ UNCHANGED <<adj_list_type, dumping, dumps>>

DumpStep ==
    \/ WriteOffsetChunk
    \/ WriteVerticesNum \/ WriteEdgesNum
    \/ EnterTable \/ WriteAdjListChunk \/ WritePropertyChunk \/ LeaveTable
    \/ DumpReturns

Next ==
    \/ \E e \in Edges, level \in ValidateLevels : AddEdge(e, level)
    \/ Clear
    \/ DumpStart
    \/ DumpStep
    \/ WriteFails
    \/ Crash

\* A call of Dump that has begun runs on: it waits for nothing.
Spec == Init /\ [][Next]_vars /\ WF_vars(DumpStep)

------------------------------------------------------------------------------
(* Properties.                                                              *)

Intact(file) == file \notin {Missing, Torn}

\* Every variable has its type; an edge chunk has between one and ChunkSize rows.
TypeOK ==
    /\ adj_list_type \in AdjListTypes
    /\ DOMAIN edges \subseteq Buckets
    /\ \A vc \in DOMAIN edges : edges[vc] \in Rows
    /\ is_saved \in BOOLEAN
    /\ pc \in {"idle", "offset", "vertex_count", "edge_count", "table", "adj_chunk",
               "prop_chunk"}
    /\ todo \subseteq Buckets
    /\ chunk \in Nat \X Nat
    /\ Intact(vertex_count) => vertex_count \in Nat
    /\ \A vc \in VertexChunks : Intact(edge_count[vc]) => edge_count[vc] \in Nat
    /\ \A vc \in Buckets : Intact(offset_chunk[vc]) => offset_chunk[vc] \in OffsetChunks
    /\ \A c \in FileChunks, file \in {adj_chunk, prop_chunk} :
          Intact(file[c]) => file[c] \in Rows /\ Len(file[c]) \in 1 .. ChunkSize
    /\ added \subseteq Edges /\ dumping \subseteq Edges
    /\ dumps \in 0 .. MaxDumps /\ uses \in Nat /\ saves \in Nat
    /\ result \in {"none", "OK", "error", "crash"}

\* The edge in row i of a vertex chunk, as a reader of the directory finds it.
StoredRow(vc, i) == adj_chunk[<<vc, i \div ChunkSize>>][(i % ChunkSize) + 1]

\* The offset chunk selects the row i for its own vertex and for no other.
OffsetsSelect(vc, i) ==
    \A k \in 0 .. VertexChunkSize - 1 :
        Endpoint(StoredRow(vc, i)) = vc * VertexChunkSize + k
            <=> offset_chunk[vc][k] <= i /\ i < offset_chunk[vc][k + 1]

\* A reader finds the vertex chunk complete, with the given edges.
ChunkPublished(vc, stored) ==
    LET count == Cardinality(stored)
    IN  /\ edge_count[vc] = count
        /\ \A ec \in 0 .. ChunkNum(count, ChunkSize) - 1 :
              /\ Intact(adj_chunk[<<vc, ec>>])
              /\ Len(adj_chunk[<<vc, ec>>]) =
                    IF (ec + 1) * ChunkSize < count THEN ChunkSize
                                                    ELSE count - ec * ChunkSize
              /\ prop_chunk[<<vc, ec>>] = adj_chunk[<<vc, ec>>]
        /\ {StoredRow(vc, i) : i \in 0 .. count - 1} = stored
        /\ IsOrdered =>
              /\ Intact(offset_chunk[vc])
              /\ \A i \in 0 .. count - 1 : OffsetsSelect(vc, i)

Published(stored) ==
    /\ vertex_count = VertexNum
    /\ \A vc \in VertexChunks :
          ChunkPublished(vc, {e \in stored : ChunkOfEdge(e) = vc})

\* When the first Dump of a builder returns OK, a reader finds every edge that was
\* added to an existing vertex chunk, each once, with its properties in the same row
\* and under the offsets of its own vertex: also in a directory where earlier dumps
\* failed, crashed, or published more edges than this one.
DumpPublishes ==
    pc = "idle" /\ result = "OK" /\ uses = 1 => Published(dumping)

\* At every moment of the first Dump into an empty directory, and after it failed or
\* crashed: an edge chunk that can be read is full of added edges of its vertex chunk
\* and lies within the count of a count file and under offsets that can be read too; a
\* property chunk that can be read is that of its edge chunk.
ReadableIsDescribed ==
    dumps <= 1 =>
        \A vc \in VertexChunks, ec \in EdgeChunks :
            LET rows == adj_chunk[<<vc, ec>>]
                props == prop_chunk[<<vc, ec>>]
            IN  /\ Intact(rows) =>
                      /\ Intact(edge_count[vc])
                      /\ \A j \in 1 .. Len(rows) :
                            /\ rows[j] \in dumping /\ ChunkOfEdge(rows[j]) = vc
                            /\ ec * ChunkSize + j <= edge_count[vc]
                            /\ IsOrdered => /\ Intact(offset_chunk[vc])
                                           /\ OffsetsSelect(vc, ec * ChunkSize + j - 1)
                /\ Intact(props) => props = rows

\* A call of Dump returns, or the process crashes: its loops end.
DumpReturnsEventually == pc # "idle" ~> pc = "idle"

------------------------------------------------------------------------------
(* A statement of the header that the code does not keep.                   *)

\* "Dump the collection into files.  @return Status: ok or error.": the first Dump of
\* a builder that returns OK, be it a retry, has dumped the collection.
RetryPublishes ==
    pc = "idle" /\ result = "OK" /\ saves = 1 => Published(dumping)
==============================================================================
