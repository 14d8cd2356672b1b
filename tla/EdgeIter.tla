------------------------------- MODULE EdgeIter -------------------------------
(****************************************************************************)
(* EdgeIter and the EdgesCollection that makes it (high-level/graph_reader  *)
(* under cpp/src/graphar): an iterator over the edges of a range of vertex  *)
(* chunks of one adjacency list.  It holds a reader of the edge chunks and  *)
(* a reader of a property group, and keeps a position of its own beside     *)
(* theirs: a global number of the edge chunk, the index of the vertex       *)
(* chunk, and an offset in the vertex chunk.                                *)
(*                                                                          *)
(* All files can be read.  The searches are those for the aligned endpoint: *)
(* first_src, next_src and find_src of the lists by source, first_dst,      *)
(* next_dst and find_dst of the lists by destination.                       *)
(****************************************************************************)
EXTENDS AdjListCursor, SequencesExt

CONSTANTS Payloads,           \* the adjacency lists a collection may be opened on
          EdgeAdjListTypes,   \* the types of adjacency list the edge info has
          Ranges,             \* the vertex chunks of a collection: <<first, behind>>
          NullRows,           \* the edges without a value: <<vertex chunk, row>>
          Null, Empty         \* no value; the empty string or list

ASSUME IterAssumption ==
    /\ Payloads \subseteq AdjLists
    /\ EdgeAdjListTypes \subseteq AdjListTypes
    /\ Ranges \subseteq VertexChunks \X (1 .. VertexChunkNum)
    /\ Null # Empty

PV == INSTANCE PropertyValues WITH NullValue <- Null

VARIABLES
    adj,             \* the payload
    adj_list_type,
    range,           \* the vertex chunks of the collection
    collection,      \* its members
    it,              \* the members of the iterator
    call             \* history: the last call that moves or searches, what it returned

vars == <<adj, adj_list_type, range, collection, it, call>>

IsOrdered == adj_list_type \in OrderedTypes

------------------------------------------------------------------------------
(* The collection: edge chunks are numbered across the vertex chunks.       *)

\* The constructor: the number of edge chunks of every vertex chunk, and where the
\* range begins and ends.
Collection(s, r) ==
    LET nums == [vc \in VertexChunks |-> EdgeChunkNum(s, vc)]
        ChunksBefore(vc) == Cardinality(UNION {{c} \X (1 .. nums[c]) : c \in 0 .. vc - 1})
    IN  [edge_chunk_nums |-> nums, chunk_begin |-> ChunksBefore(r[1]),
         chunk_end |-> ChunksBefore(r[2])]

\* IndexConverter::IndexPairToGlobalChunkIndex: as many edge chunks come before.
GlobalChunkIndex(vc, ec) ==
    LET nums == collection.edge_chunk_nums
    IN  Cardinality(UNION {{c} \X (1 .. nums[c]) : c \in 0 .. vc - 1}) + ec

\* Fault model: an index behind the last edge chunk of a vertex chunk is still in it.
ReachedVertexChunk(index) ==
    CHOOSE vc \in VertexChunks : /\ index <= GlobalChunkIndex(vc + 1, 0)
                                 /\ \A c \in 0 .. vc - 1 : index > GlobalChunkIndex(c + 1, 0)

\* IndexConverter::GlobalChunkIndexToIndexPair, of which the iterator uses the vertex
\* chunk: that of an index behind the last edge chunk is 0.
VertexChunkOfGlobal(index) ==
    LET holders == {vc \in VertexChunks : /\ GlobalChunkIndex(vc, 0) <= index
                                          /\ index < GlobalChunkIndex(vc + 1, 0)}
    IN  IF holders = {} THEN 0 ELSE CHOOSE vc \in holders : TRUE

------------------------------------------------------------------------------
(* The iterator.  broken says that a call has thrown an exception; unread   *)
(* is history: ++ has left an edge whose properties nobody looked for since *)
(* the property reader was last put in place.                               *)

\* The constructor.
IterAt(index, offset) ==
    LET vc == VertexChunkOfGlobal(index)
        at == SeekChunkIndex(adj, NewReader, vc, 0, NoFile).reader
    IN  [adj_list_reader |-> at, property_reader |-> at,
         global_chunk_index |-> index, vertex_chunk_index |-> vc, cur_offset |-> offset,
         num_row_of_chunk |-> 0, broken |-> FALSE, unread |-> FALSE]

begin == IterAt(collection.chunk_begin, 0)
end == IterAt(collection.chunk_end, 0)

IsEnd(i) == i.global_chunk_index >= collection.chunk_end

Equal(i, j) ==
    /\ i.global_chunk_index = j.global_chunk_index
    /\ i.cur_offset = j.cur_offset

CopyIter(i) == [i EXCEPT !.adj_list_reader = Copy(@), !.property_reader = Copy(@)]

\* Both readers ignore what seek answers.
SeekReader(i) ==
    [i EXCEPT !.adj_list_reader = Seek(adj, @, i.cur_offset, NoFile).reader]
SeekProperties(i) ==
    [i EXCEPT !.property_reader = Seek(adj, @, i.cur_offset, NoFile).reader]

\* The row that a reader which has loaded its table delivers first.
RowOf(r) ==
    <<r.chunk_table[1], (r.chunk_table[2] - r.chunk_index) * ChunkSize + r.seek_offset>>

\* GetChunk delivers a row: not an error, a null table, or a slice of length zero.
Delivers(got) ==
    got.status = "OK" /\ RowOf(got.reader)[2] < EdgeNum(adj, RowOf(got.reader)[1])

\* source, or destination: without a row it is broken.
Got(i, got) ==
    [i EXCEPT !.adj_list_reader = got.reader, !.broken = ~Delivers(got)]
GetRow(i) == Got(i, GetChunk(adj, i.adj_list_reader, NoFile))
Read(i) == GetRow(SeekReader(i))

\* property: an error is returned, not thrown.
GetProperty(i) ==
    [i EXCEPT !.property_reader = GetChunk(adj, @, NoFile).reader]
ReadProperty(i) == GetProperty(SeekProperties(i))

\* operator*: the edge and its properties.
GetEdge(i) ==
    [GetProperty(i) EXCEPT
        !.broken = @ \/ ~Delivers(GetChunk(adj, i.property_reader, NoFile))]
Dereference(i) == GetEdge(SeekProperties(Read(i)))

\* What source or destination returns.
VertexOf(i) ==
    LET row == RowOf(i.adj_list_reader) IN adj[row[1]][row[2] + 1]

Counted(i, got) ==
    IF got.status = "OK"
    THEN [i EXCEPT !.adj_list_reader = got.reader,
                   !.num_row_of_chunk = RowsOfChunk(adj, got.reader.chunk_table)]
    ELSE [i EXCEPT !.broken = TRUE]
CountRows(i) == Counted(i, GetRowNumOfChunk(adj, i.adj_list_reader, NoFile))

\* operator++ behind the last edge of a vertex chunk, where next_chunk has returned next.
\* vertex_chunk_index grows by one, over however many vertex chunks next_chunk moved.
MovedTo(i, next) ==
    [i EXCEPT !.adj_list_reader = next.reader, !.global_chunk_index = @ + 1,
              !.vertex_chunk_index = @ + 1]
EnterVertexChunkAlone(i, next) ==   \* fault model: the property reader stays
    IF next.status = "IndexError" THEN MovedTo(i, next) ELSE CountRows(MovedTo(i, next))
EnterVertexChunk(i, next) ==
    IF next.status = "IndexError"
    THEN MovedTo(i, next)
    ELSE [CountRows(MovedTo(i, next)) EXCEPT
             !.property_reader = NextChunk(adj, @, NoFile).reader]
LeaveVertexChunk(i) ==
    SeekReader([EnterVertexChunk(i, NextChunk(adj, i.adj_list_reader, NoFile)) EXCEPT
                   !.cur_offset = 0])

EnterChunkUncounted(i) == [i EXCEPT !.global_chunk_index = @ + 1]   \* fault model
EnterChunk(i) == [CountRows(i) EXCEPT !.global_chunk_index = @ + 1]

\* operator++ where the reader answers status at the next offset.  A vertex chunk is left
\* only from an edge chunk that is not full: behind a full one seek answers IndexError,
\* and operator++ looks for KeyError.
Settle(i, status) ==
    LET row == i.cur_offset % ChunkSize
        full == i.num_row_of_chunk = ChunkSize
    IN  IF status = "OK" /\ full /\ row = 0 THEN EnterChunk(i)
        ELSE IF status = "OK" /\ ~full /\ row >= i.num_row_of_chunk
        THEN LeaveVertexChunk(SeekReader(
                [i EXCEPT !.cur_offset = (@ \div ChunkSize + 1) * ChunkSize]))
        ELSE i

SettleAt(i, seek) == Settle([i EXCEPT !.adj_list_reader = seek.reader], seek.status)

Step(i) ==
    IF i.broken THEN i
    ELSE SettleAt([i EXCEPT
                      !.cur_offset = @ + 1,
                      !.unread = @ \/ i.property_reader.seek_offset # i.cur_offset],
                  Seek(adj, i.adj_list_reader, i.cur_offset + 1, NoFile))

\* operator++
Increment(i) == Step(IF i.num_row_of_chunk = 0 THEN CountRows(SeekReader(i)) ELSE i)

Refresh(i) ==
    LET vc == i.vertex_chunk_index
        moved == [i EXCEPT
                    !.adj_list_reader = SeekChunkIndex(adj, @, vc, 0, NoFile).reader,
                    !.property_reader = SeekChunkIndex(adj, @, vc, 0, NoFile).reader,
                    !.unread = FALSE]
    IN  CountRows(SeekReader(moved))

At(i, index, vc, offset) ==
    [i EXCEPT !.global_chunk_index = index, !.vertex_chunk_index = vc,
              !.cur_offset = offset]

ToBegin(i) ==
    LET index == collection.chunk_begin
    IN  Refresh(At(i, index, VertexChunkOfGlobal(index), 0))

------------------------------------------------------------------------------
(* Searches.  Each yields the iterator and whether it points to an edge of  *)
(* the vertex.                                                              *)

Found(i, found) == [it |-> i, found |-> found]

\* The edges of the vertex chunks of a set.
EdgesIn(chunks) == Cardinality(UNION {{vc} \X (1 .. EdgeNum(adj, vc)) : vc \in chunks})

\* Where the loops of an unordered list give up: behind a vertex chunk.
ChunkReached(i, vc) == i.vertex_chunk_index >= vc   \* fault model: > became >=
ChunkPassed(i, vc) == i.vertex_chunk_index > vc

\* The loop of find_src dereferences every edge on its way and compares with end(), the
\* others read the endpoint only and ask is_end().
Visit(loop, i) == IF loop = "find" THEN Dereference(i) ELSE Read(i)
AtEnd(loop, i) == IF loop = "find" THEN Equal(i, end) ELSE IsEnd(i)

\* The loops: visit the edge, stop at an edge of v or behind the vertex chunk last, else
\* ++.  No loop takes more rounds than there are edges.
Walk(i, v, loop, last) ==
    LET Over(j) == AtEnd(loop, j) \/ j.broken
        Look(j) == IF Over(j) THEN j ELSE Visit(loop, j)
        Hit(j) == ~Over(j) /\ VertexOf(j) = v
        Go(j) == IF Over(j) \/ Hit(j) \/ ChunkPassed(j, last) THEN j ELSE Look(Increment(j))
        walk[n \in Nat] == IF n = 0 THEN Look(i) ELSE Go(walk[n - 1])
        Verdict(j) == Found(j, Hit(j))
    IN  Verdict(walk[EdgesIn(VertexChunks)])

\* next_src(), from the edge that read has read: on an ordered list one step is enough.
NextOfRead(read) ==
    Walk(Increment(read), VertexOf(read), "search",
         IF IsOrdered THEN -1 ELSE read.vertex_chunk_index)
NextSame(i) == NextOfRead(Read(i))

\* first_src on an ordered list: the offset chunk has the rows of the vertex.
FirstOrdered(i, from, v) ==
    LET rows == OffsetsOfVertex(adj, v)
        vc == VertexChunkOf(v)
        first == GlobalChunkIndex(vc, rows[1] \div ChunkSize)
        last == GlobalChunkIndex(vc, rows[2] \div ChunkSize)
        index == from.global_chunk_index
        offset == from.cur_offset
        inside == first <= index /\ index <= last
    IN  IF rows[1] >= rows[2] \/ index > last \/ (inside /\ offset >= rows[2])
        THEN Found(i, FALSE)
        ELSE IF inside /\ rows[1] < offset
        THEN Found(Refresh(At(i, index, from.vertex_chunk_index, offset)), TRUE)
        ELSE Found(Refresh(At(i, first, vc, rows[1])), TRUE)

\* first_src on an unordered list: from the later of the position and the vertex chunk of v.
FirstUnordered(i, from, v) ==
    LET vc == VertexChunkOf(v)
        expect == GlobalChunkIndex(vc, 0)
        jumps == from.global_chunk_index < expect
        start == IF jumps THEN Refresh(At(i, expect, vc, 0))
                 ELSE IF from.global_chunk_index = i.global_chunk_index
                 THEN [i EXCEPT !.cur_offset = from.cur_offset]
                 ELSE Refresh(At(i, from.global_chunk_index,
                                 from.vertex_chunk_index, from.cur_offset))
    IN  IF expect > collection.chunk_end THEN Found(i, FALSE)
        ELSE Walk(start, v, "search", vc)

FirstOf(i, from, v) ==
    IF IsEnd(from) THEN Found(i, FALSE)
    ELSE IF IsOrdered THEN FirstOrdered(i, from, v)
    ELSE FirstUnordered(i, from, v)

\* next_src(id)
FirstOfSelf(i, v) == FirstOf(i, i, v)
NextOf(i, v) == FirstOfSelf(Increment(i), v)

\* find_src on an ordered list makes a new iterator.
FindOrdered(from, v) ==
    LET rows == OffsetsOfVertex(adj, v)
        vc == VertexChunkOf(v)
        first == GlobalChunkIndex(vc, rows[1] \div ChunkSize)
        last == GlobalChunkIndex(vc, rows[2] \div ChunkSize)
        index == from.global_chunk_index
        before == first > index \/ rows[1] > from.cur_offset
    IN  IF rows[1] >= rows[2] \/ last < index
           \/ (first <= index /\ rows[2] <= from.cur_offset)
        THEN end
        ELSE IF before THEN IterAt(first, rows[1])
        ELSE IterAt(index, from.cur_offset)

\* find_src on an unordered list dereferences every edge on its way.
FindUnordered(from, v) == Walk(CopyIter(from), v, "find", VertexChunkNum).it

Find(from, v) == IF IsOrdered THEN FindOrdered(from, v) ELSE FindUnordered(from, v)

------------------------------------------------------------------------------
(* The client has one iterator, and the one that begin() keeps.  It neither *)
(* moves behind the end nor calls an iterator that has thrown.  It looks    *)
(* for vertices up to the vertex chunks of the collection, and dereferences *)
(* the iterator, itself or by find, only while the property reader follows: *)
(* where that one was left behind, it may have no such row.                 *)

Init ==
    /\ adj \in Payloads
    /\ adj_list_type \in EdgeAdjListTypes
    /\ Aligned(adj)
    /\ IsOrdered => Ordered(adj)
    /\ range \in Ranges
    /\ collection = Collection(adj, range)
    /\ it = begin
    /\ call = [request |-> <<>>, found |-> TRUE]

Wanted == {v \in VertexIds : VertexChunkOf(v) < range[2]}

\* A call that reads, one that moves, and one that searches.
Reads(i) == it' = i /\ UNCHANGED <<adj, adj_list_type, range, collection, call>>
Returns(request, outcome) ==
    /\ it' = outcome.it
    /\ call' = [request |-> request, found |-> outcome.found]
    /\ UNCHANGED <<adj, adj_list_type, range, collection>>
Moves(request, i) == Returns(request, Found(i, TRUE))

Follows == ~it.unread

dereference == ~it.broken /\ Follows /\ ~IsEnd(it) /\ Reads(Dereference(it))
property == ~it.broken /\ ~IsEnd(it) /\ Reads(ReadProperty(it))
source == ~it.broken /\ ~IsEnd(it) /\ Reads(Read(it))
copy == ~it.broken /\ Reads(CopyIter(it))

increment == ~it.broken /\ ~IsEnd(it) /\ Moves(<<"increment">>, Increment(it))
to_begin == ~it.broken /\ Moves(<<"to_begin">>, ToBegin(it))

next_same ==
    /\ ~it.broken
    /\ Returns(<<"next">>, IF IsEnd(it) THEN Found(it, FALSE) ELSE NextSame(it))

next_of(v) ==
    /\ ~it.broken
    /\ Returns(<<"next", v>>, IF IsEnd(it) THEN Found(it, FALSE) ELSE NextOf(it, v))

\* A search begins at the iterator itself or at begin().
From(place) == IF place = "begin" THEN begin ELSE it

first_of(place, v) ==
    ~it.broken /\ Returns(<<"first", place, v>>, FirstOf(it, From(place), v))

Assigned(i) == Found(i, ~IsEnd(i))
find(place, v) ==
    /\ ~it.broken
    /\ place = "here" => Follows
    /\ Returns(<<"find", place, v>>, Assigned(Find(From(place), v)))

Next ==
    \/ dereference \/ property \/ source \/ copy \/ increment \/ to_begin \/ next_same
    \/ \E v \in Wanted :
          \/ next_of(v)
          \/ \E place \in {"here", "begin"} : first_of(place, v) \/ find(place, v)

Spec == Init /\ [][Next]_vars

------------------------------------------------------------------------------
(* Properties.                                                              *)

\* The iterator has the members the code declares.
TypeOK ==
    /\ it \in [adj_list_reader : Readers, property_reader : Readers,
               global_chunk_index : Nat, vertex_chunk_index : Nat, cur_offset : Nat,
               num_row_of_chunk : 0 .. ChunkSize, broken : BOOLEAN, unread : BOOLEAN]
    /\ call.found \in BOOLEAN

\* The three positions of the iterator (the number of the edge chunk, the vertex chunk
\* with the offset, the position of the reader) are the same place, and an edge is there.
PositionsAgree ==
    ~IsEnd(it) =>
        /\ it.vertex_chunk_index \in VertexChunks
        /\ it.cur_offset < EdgeNum(adj, it.vertex_chunk_index)
        /\ it.global_chunk_index =
             GlobalChunkIndex(it.vertex_chunk_index, it.cur_offset \div ChunkSize)
        /\ it.adj_list_reader.vertex_chunk_index = it.vertex_chunk_index

\* The number of rows by which ++ finds the end of a vertex chunk, once it has been
\* read, is that of the edge chunk the iterator is in.
CountIsCurrent ==
    ~IsEnd(it) /\ it.num_row_of_chunk # 0 =>
        it.num_row_of_chunk =
            RowsOfChunk(adj, <<it.vertex_chunk_index, it.cur_offset \div ChunkSize>>)

ValueOf(row) == IF row \in NullRows THEN Null ELSE row

\* What property returns is of the edge that the iterator points to, and for every type
\* the property may have it is the value written with this edge, or none where there was
\* none; as long as ++ has left no edge whose properties were not looked for: then it may
\* be of another vertex chunk (EdgeIter::property, operator*, Edge::property).
PropertiesFollow ==
    ~IsEnd(it) /\ ~it.broken /\ ~it.unread =>
        LET row   == RowOf(ReadProperty(it).property_reader)
            edge  == <<it.vertex_chunk_index, it.cur_offset>>
        IN  /\ row = edge
            /\ \A t \in PV!Scalars : \A file_type \in {"parquet", "orc"} :
                  LET column == PV!ReadColumn(t, ValueOf(row), file_type)
                  IN  PV!EdgeGives(t, column, ValueOf(edge)) /\ PV!IterGives(t, column, ValueOf(edge))

\* The edges of the collection, in storage order.
Edges == FlattenSeq([n \in 1 .. range[2] - range[1] |-> adj[range[1] + n - 1]])

\* The position in that sequence; -1 is no position.
Position ==
    LET vc == it.adj_list_reader.vertex_chunk_index
        before == {c \in VertexChunks : range[1] <= c /\ c < vc}
    IN  IF it.broken THEN -1
        ELSE IF IsEnd(it) THEN Len(Edges)
        ELSE IF vc \notin VertexChunks \/ it.cur_offset >= EdgeNum(adj, vc) THEN -1
        ELSE EdgesIn(before) + it.cur_offset

\* The iterator implements a position in the sequence of edges: ++ moves to the next one,
\* the end is reached behind the last one, a search stops at the first edge of its vertex
\* and at no other, and nothing throws.
Scan == INSTANCE EdgeScan WITH Vertices <- VertexIds, edges <- Edges, pos <- Position
Scans == Scan!Spec
==============================================================================
