--------------------------- MODULE EdgeChunkWriter ----------------------------
(****************************************************************************)
(* A client that writes the files of one adjacency list with an             *)
(* EdgeChunkWriter (cpp/src/graphar/arrow/chunk_writer.cc), one vertex      *)
(* chunk after the other, and the counts when it has written the edges they *)
(* count.  Any write may fail, and the process may crash at any moment;     *)
(* either may leave the file torn.                                          *)
(****************************************************************************)
EXTENDS EdgeFiles

CONSTANTS Tables,          \* vertex chunk -> the tables a client has for it
          Levels,          \* validate levels of calls
          StartChunks,     \* values of start_chunk_index
          MaxJobs,         \* bound: calls that write files
          MaxLoose         \* bound: a call out of order is one of the first MaxLoose

\* The edges of a table belong to its vertex chunk and are distinct.  The column to sort
\* by has the right type: the code casts it before any validation looks at it.
ASSUME WriterAssumption ==
    /\ DOMAIN Tables = VertexChunks
    /\ \A vc \in VertexChunks : \A table \in Tables[vc] :
          /\ table.rows \in Seq(Edges) /\ IsInjective(table.rows)
          /\ \A e \in Range(table.rows) : VertexChunkOf(e.at) = vc
          /\ table.missing \subseteq {At, Other} \cup Groups
          /\ table.mistyped \subseteq {Other} \cup Groups
    /\ Levels \subseteq {"no_validate", "weak_validate", "strong_validate"}
    /\ StartChunks \subseteq Nat
    /\ MaxJobs \in Nat /\ MaxLoose \in Nat

VARIABLES
    job,       \* the call that is writing files, or NoJob
    result,    \* the last call and how it ended
    orderly,   \* history: the client has kept to the order above
    jobs       \* history: calls that wrote files

writerVars == <<adj_list_type, dir, job, result, orderly, jobs>>

NoCall == [kind |-> "none", vc |-> 0, start |-> 0, rows |-> <<>>]
NoJob == [call |-> NoCall, todo |-> <<>>, end |-> "none"]
NoResult == [call |-> NoCall, status |-> "none"]

WriterInit ==
    /\ adj_list_type \in {"ordered_by_source", "unordered_by_dest"}
    /\ dir = [path \in Paths |-> Missing]
    /\ job = NoJob /\ result = NoResult
    /\ orderly = TRUE /\ jobs = 0

Idle == job = NoJob

\* Bounds: the client stops once it is out of order; the chunks stay below MaxEdgeChunks.
MayCall(in_order) == Idle /\ orderly /\ jobs < (IF in_order THEN MaxJobs ELSE MaxLoose)

Begin(call, plan, in_order) ==
    /\ MayCall(in_order)
    /\ \A i \in DOMAIN plan.todo : plan.todo[i].path \in Paths
    /\ job' = [call |-> call, todo |-> plan.todo, end |-> plan.end]
    /\ result' = NoResult
    /\ orderly' = in_order /\ jobs' = jobs + 1
    /\ UNCHANGED <<adj_list_type, dir>>

Call(kind, vc, start, rows) == [kind |-> kind, vc |-> vc, start |-> start, rows |-> rows]

\* An orderly client writes the edges of a vertex chunk from its first edge chunk, while
\* they have not been counted and those of the vertex chunks before it have.
Counted(vc) == Readable(EdgeCountPath(vc))
Due(vc) == ~Counted(vc) /\ \A before \in 0 .. vc - 1 : Counted(before)

\* Without the column to sort by there is no sorted table.  Bound: an ordered list is
\* not given an empty table, from whose column getOffsetTable reads a chunk that may not
\* be there.
Sorts(table) ==
    /\ At \notin table.missing
    /\ adj_list_type \in OrderedTypes => table.rows # <<>>
SortedTables(table) == {[table EXCEPT !.rows = rows] : rows \in SortedRows(table.rows)}

sort_and_write_table(table, vc, start, level) ==
    /\ Sorts(table) /\ MayCall(start = 0 /\ Due(vc))
    /\ \E sorted \in SortedTables(table) :
          Begin(Call("sorted", vc, start, table.rows), SortAndWriteTable(sorted, vc, start, level),
                start = 0 /\ Due(vc))

sort_and_write_adj_list_table(table, vc, start, level) ==
    /\ Sorts(table) /\ MayCall(FALSE)
    /\ \E sorted \in SortedTables(table) :
          Begin(Call("sorted_adj_list", vc, start, table.rows),
                SortAndWriteAdjListTable(sorted, vc, start, level), FALSE)

\* SortAndWritePropertyTable, for one group and for all.
sort_and_write_property_table(table, vc, start, level) ==
    /\ Sorts(table) /\ MayCall(FALSE)
    /\ \E sorted \in SortedTables(table) :
          \/ \E g \in Groups : Begin(Call("properties", vc, start, table.rows),
                                     WritePropertyTable(sorted, g, vc, start, level), FALSE)
          \/ Begin(Call("properties", vc, start, table.rows),
                   WritePropertyTables(sorted, vc, start, level), FALSE)

\* A sort that has no column to sort by fails before anything is written.
sort_fails(table, vc) ==
    /\ At \in table.missing
    /\ Begin(Call("unsorted", vc, 0, table.rows), Refuse("ArrowError"), orderly)

write_table(table, vc, start, level) ==
    \/ Begin(Call("table", vc, start, table.rows), WriteTable(table, vc, start, level), FALSE)
    \/ Begin(Call("table", vc, start, table.rows), WriteAdjListTable(table, vc, start, level), FALSE)
    \/ Begin(Call("table", vc, start, table.rows), WritePropertyTables(table, vc, start, level), FALSE)

write_chunk(table, vc, ec, level) ==
    Begin(Call("chunk", vc, ec, table.rows), WriteChunk(table, vc, ec, level), FALSE)

write_offset_chunk(table, vc, level) ==
    Begin(Call("offset", vc, 0, table.rows),
          WriteOffsetChunk(OffsetTable(table.rows, vc), vc, level), FALSE)

\* The count of the table that the last call has written for the vertex chunk.
write_edges_num(vc, count) ==
    Begin(Call("count", vc, 0, <<>>), WriteEdgesNum(vc, count),
          /\ result.status = "OK" /\ result.call.kind = "sorted" /\ result.call.vc = vc
          /\ count = Len(result.call.rows))

write_vertices_num ==
    Begin(Call("count", 0, 0, <<>>), WriteVerticesNum(VertexNum),
          \A vc \in VertexChunks : Counted(vc))

------------------------------------------------------------------------------
(* The progress of a call.                                                  *)

WriteNext ==
    /\ job.todo # <<>>
    /\ dir' = [dir EXCEPT ![Head(job.todo).path] = Head(job.todo).data]
    /\ job' = [job EXCEPT !.todo = Tail(@)]
    /\ UNCHANGED <<adj_list_type, result, orderly, jobs>>

Return ==
    /\ ~Idle /\ job.todo = <<>>
    /\ result' = [call |-> job.call, status |-> job.end]
    /\ job' = NoJob
    /\ UNCHANGED <<adj_list_type, dir, orderly, jobs>>

\* The write fails and the call returns its error, or the process ends: the client has
\* no result to act on.
WriteFails ==
    /\ job.todo # <<>>
    /\ dir' \in {dir, [dir EXCEPT ![Head(job.todo).path] = Torn]}
    /\ result' = NoResult
    /\ job' = NoJob
    /\ UNCHANGED <<adj_list_type, orderly, jobs>>

WriterNext ==
    \/ Idle /\ \E vc \in VertexChunks, level \in Levels : \E table \in Tables[vc] :
          \/ \E start \in StartChunks :
                \/ sort_and_write_table(table, vc, start, level)
                \/ sort_and_write_adj_list_table(table, vc, start, level)
                \/ sort_and_write_property_table(table, vc, start, level)
                \/ write_table(table, vc, start, level)
                \/ write_chunk(table, vc, start, level)
          \/ sort_fails(table, vc)
          \/ write_offset_chunk(table, vc, level)
          \/ write_edges_num(vc, Len(table.rows))
    \/ write_vertices_num
    \/ WriteNext \/ Return \/ WriteFails

WriterSpec == WriterInit /\ [][WriterNext]_writerVars

------------------------------------------------------------------------------
(* Properties.                                                              *)

\* The edges of the k-th vertex of a chunk among its first n rows, by the offsets if there
\* are any.
Found(vc, k, n) ==
    {EdgeAt(vc, i) : i \in (IF adj_list_type \in OrderedTypes
                              THEN dir[OffsetPath(vc)][k] .. dir[OffsetPath(vc)][k + 1] - 1
                              ELSE {j \in 0 .. n - 1 :
                                       EdgeAt(vc, j).at = vc * VertexChunkSize + k - 1})}

\* After SortAndWriteTable or SortAndWriteAdjListTable from the first edge chunk returned
\* OK, each vertex finds exactly its edges of the table, by the offsets if the list is
\* ordered, in whatever order they were given and whatever an earlier call left behind;
\* after SortAndWriteTable every property chunk has the tag of the edge in the same row.
SortedIsFound ==
    result.status = "OK" /\ result.call.start = 0
    /\ result.call.kind \in {"sorted", "sorted_adj_list"} =>
        LET vc == result.call.vc
            rows == result.call.rows
        IN  /\ \A i \in 0 .. Len(rows) - 1 : RowThere(AdjListPath(vc, i \div ChunkSize), i)
            /\ \A k \in 1 .. VertexChunkSize :
                  Found(vc, k, Len(rows))
                      = {e \in Range(rows) : e.at = vc * VertexChunkSize + k - 1}
            /\ result.call.kind = "sorted" => RowsThere(vc, Len(rows))

\* While the client keeps to its order, an edge count that can be read counts rows that
\* are there, each with its properties, and that the offsets describe: during every call,
\* after it failed or the process crashed, and after it was repeated with another table.
\* No edge chunk has more rows than readers look for in it.
CountsDescribe ==
    orderly => \A vc \in VertexChunks :
        /\ Readable(EdgeCountPath(vc)) =>
              /\ RowsThere(vc, dir[EdgeCountPath(vc)])
              /\ OffsetsThere(vc, dir[EdgeCountPath(vc)])
        /\ \A ec \in Chunks : Readable(AdjListPath(vc, ec)) =>
              Len(dir[AdjListPath(vc, ec)]) \in 1 .. ChunkSize
==============================================================================
