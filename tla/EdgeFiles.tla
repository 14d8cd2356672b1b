------------------------------ MODULE EdgeFiles -------------------------------
(****************************************************************************)
(* What the calls of EdgeChunkWriter (cpp/src/graphar/arrow/                *)
(* chunk_writer.cc) write, file by file, and where they stop.               *)
(*                                                                          *)
(* An edge is a record of its aligned endpoint, at, and a tag that stands   *)
(* for the rest of its row.  A row of an adjacency list chunk is the edge;  *)
(* a row of a property chunk is the tag.  The aligned endpoint is the       *)
(* column that the writer sorts by, the other one is never looked at.       *)
(****************************************************************************)
EXTENDS AdjListCursor, SequencesExt

CONSTANTS GroupNum,        \* EdgeInfo: the number of property groups
          Tags,            \* what tells the edges of one vertex apart
          MaxEdgeChunks,   \* bound: the edge chunks of a vertex chunk ever written
          Missing, Torn    \* a file that does not exist, one cut short

Groups == 1 .. GroupNum
Edges == [at : VertexIds, tag : Tags]

ASSUME EdgeFilesAssumption == GroupNum \in Nat /\ MaxEdgeChunks \in Nat

VertexCountPath == <<"vertex_count">>
EdgeCountPath(vc) == <<"edge_count", vc>>
OffsetPath(vc) == <<"offset", vc>>
AdjListPath(vc, ec) == <<"adj_list", vc, ec>>
PropertyPath(g, vc, ec) == <<"group", vc, ec, g>>

Chunks == 0 .. MaxEdgeChunks - 1
Paths == {VertexCountPath}
             \cup {EdgeCountPath(vc) : vc \in VertexChunks}
             \cup {OffsetPath(vc) : vc \in VertexChunks}
             \cup {AdjListPath(vc, ec) : vc \in VertexChunks, ec \in Chunks}
             \cup {PropertyPath(g, vc, ec) : g \in Groups, vc \in VertexChunks, ec \in Chunks}

VARIABLES
    adj_list_type,   \* the type of the adjacency list
    dir              \* path -> the contents of the file

------------------------------------------------------------------------------
(* A plan is what a call writes, in order, and how it ends if every file    *)
(* can be written.                                                          *)

Done == [todo |-> <<>>, end |-> "OK"]
Refuse(status) == [todo |-> <<>>, end |-> status]
Write(path, data) == [todo |-> <<[path |-> path, data |-> data]>>, end |-> "OK"]

\* The second call is made only if the first returns OK.
Then(first, second) ==
    IF first.end # "OK" THEN first
    ELSE [todo |-> first.todo \o second.todo, end |-> second.end]

InOrder(plans) == FoldLeft(Then, Done, plans)

------------------------------------------------------------------------------
(* Tables.  missing are the columns a table lacks, mistyped those of a type *)
(* the edge info does not have: At, Other or a property group.          *)

At == -1      \* the column of the aligned endpoint
Other == 0    \* the column of the other one

Table(rows, missing, mistyped) == [rows |-> rows, missing |-> missing, mistyped |-> mistyped]

Slice(table, k) ==
    [table EXCEPT !.rows =
        SubSeq(@, k * ChunkSize + 1,
               IF (k + 1) * ChunkSize < Len(@) THEN (k + 1) * ChunkSize ELSE Len(@))]

\* The positions in the table of the slices that a loop over it takes.
Slices(table) == [k \in 1 .. ChunkNum(Len(table.rows), ChunkSize) |-> k - 1]

\* How the search for the columns of a chunk, and before it the validation, refuse a table.
ChunkStatus(table, columns, level) ==
    CASE level # "no_validate" /\ Len(table.rows) > ChunkSize -> "Invalid"
      [] columns \cap table.missing # {} -> "Invalid"
      [] level = "strong_validate" /\ columns \cap table.mistyped # {} -> "TypeError"
      [] OTHER -> "OK"

AdjListStatus(table, level) == ChunkStatus(table, {At, Other}, level)

PropertyStatus(table, g, level) == ChunkStatus(table, {g}, level)

\* Only a validated call finds out that an unordered list has no offsets.
OffsetTableStatus(offsets, level) ==
    IF level # "no_validate" /\ (\/ adj_list_type \notin OrderedTypes
                                 \/ Len(offsets) > VertexChunkSize + 1)
      THEN "Invalid" ELSE "OK"

------------------------------------------------------------------------------
(* The calls that write chunks and tables as they are.                      *)

WriteEdgesNum(vc, count) == Write(EdgeCountPath(vc), count)

WriteVerticesNum(count) == Write(VertexCountPath, count)

WriteOffsetChunk(offsets, vc, level) ==
    LET status == OffsetTableStatus(offsets, level)
    IN  IF status # "OK" THEN Refuse(status) ELSE Write(OffsetPath(vc), offsets)

WriteAdjListChunk(table, vc, ec, level) ==
    LET status == AdjListStatus(table, level)
    IN  IF status # "OK" THEN Refuse(status) ELSE Write(AdjListPath(vc, ec), table.rows)

WritePropertyChunk(table, g, vc, ec, level) ==
    LET status == PropertyStatus(table, g, level)
    IN  IF status # "OK" THEN Refuse(status)
        ELSE Write(PropertyPath(g, vc, ec), [i \in DOMAIN table.rows |-> table.rows[i].tag])

WritePropertyChunks(table, vc, ec, level) ==
    InOrder([g \in Groups |-> WritePropertyChunk(table, g, vc, ec, level)])

WriteChunk(table, vc, ec, level) ==
    Then(WriteAdjListChunk(table, vc, ec, level), WritePropertyChunks(table, vc, ec, level))

WriteAdjListTable(table, vc, start, level) ==
    InOrder([k \in DOMAIN Slices(table) |->
                WriteAdjListChunk(Slice(table, k - 1), vc, start + k - 1, level)])

WritePropertyTable(table, g, vc, start, level) ==
    InOrder([k \in DOMAIN Slices(table) |->
                WritePropertyChunk(Slice(table, k - 1), g, vc, start + k - 1, level)])

WritePropertyTables(table, vc, start, level) ==
    InOrder([k \in DOMAIN Slices(table) |->
                WritePropertyChunks(Slice(table, k - 1), vc, start + k - 1, level)])

WriteTable(table, vc, start, level) ==
    InOrder([k \in DOMAIN Slices(table) |->
                WriteChunk(Slice(table, k - 1), vc, start + k - 1, level)])

------------------------------------------------------------------------------
(* The calls that sort.  sorted is the table that sortTable gave.           *)

InputOrder(rows) == {rows}                           \* fault model: not sorted
\* sortTable: in any order of edges with the same endpoint.
SortedRows(rows) ==
    {s \in {[i \in DOMAIN rows |-> rows[p[i]]] : p \in Permutations(DOMAIN rows)} :
        \A i, j \in DOMAIN s : i <= j => s[i].at <= s[j].at}

EndsOnly(rows, vc) ==                                \* fault model: no leading zero
    [k \in 1 .. VertexChunkSize |->
        Cardinality({i \in DOMAIN rows : rows[i].at < vc * VertexChunkSize + k})]
\* getOffsetTable on sorted rows: 0, then for each vertex of the chunk the rows up to it.
\* Ids below the chunk count for its first vertex.
OffsetTable(rows, vc) ==
    [k \in 1 .. VertexChunkSize + 1 |->
        IF k = 1 THEN 0
        ELSE Cardinality({i \in DOMAIN rows : rows[i].at <= vc * VertexChunkSize + k - 2})]

WriteOffsets(sorted, vc, level) ==
    IF adj_list_type \in OrderedTypes
      THEN WriteOffsetChunk(OffsetTable(sorted.rows, vc), vc, level) ELSE Done

SortAndWriteAdjListTable(sorted, vc, start, level) ==
    Then(WriteOffsets(sorted, vc, level), WriteAdjListTable(sorted, vc, start, level))

SortAndWriteTable(sorted, vc, start, level) ==
    Then(WriteOffsets(sorted, vc, level), WriteTable(sorted, vc, start, level))

------------------------------------------------------------------------------
(* What a reader may rely on.                                               *)

Readable(path) == path \in Paths /\ dir[path] \notin {Missing, Torn}

\* The n rows behind an edge count are all there, in every file that belongs to them.
RowThere(path, i) == Readable(path) /\ (i % ChunkSize) + 1 <= Len(dir[path])
RowAt(path, i) == dir[path][(i % ChunkSize) + 1]

EdgeAt(vc, i) == RowAt(AdjListPath(vc, i \div ChunkSize), i)
TagAt(g, vc, i) == RowAt(PropertyPath(g, vc, i \div ChunkSize), i)

RowsThere(vc, n) ==
    \A i \in 0 .. n - 1 :
        /\ RowThere(AdjListPath(vc, i \div ChunkSize), i)
        /\ \A g \in Groups :
              /\ RowThere(PropertyPath(g, vc, i \div ChunkSize), i)
              /\ TagAt(g, vc, i) = EdgeAt(vc, i).tag

\* The offsets of a vertex chunk are those of its first n rows.
OffsetsThere(vc, n) ==
    adj_list_type \in OrderedTypes =>
        /\ Readable(OffsetPath(vc))
        /\ Len(dir[OffsetPath(vc)]) = VertexChunkSize + 1
        /\ \A k \in 1 .. VertexChunkSize :
              dir[OffsetPath(vc)][k] .. dir[OffsetPath(vc)][k + 1] - 1
                  = {i \in 0 .. n - 1 : EdgeAt(vc, i).at = vc * VertexChunkSize + k - 1}
==============================================================================
