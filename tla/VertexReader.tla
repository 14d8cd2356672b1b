----------------------------- MODULE VertexReader -----------------------------
(****************************************************************************)
(* VertexPropertyArrowChunkReader (cpp/src/graphar/arrow/chunk_reader.cc)   *)
(* and a client that calls its methods in any order on files that nobody    *)
(* writes meanwhile.  Any read of a chunk file may fail.                    *)
(*                                                                          *)
(* A table in memory is represented by what it was read from: the chunk,    *)
(* the filter that was pushed down and the columns.                         *)
(****************************************************************************)
EXTENDS VertexFiles, SequencesExt

CONSTANTS PropsOf,      \* property group -> the names of its properties
          CsvGroups,    \* the property groups that are not Parquet files
          Filters,      \* row filters: [on |-> property, keep |-> payloads]
          Selections,   \* sets of column names given to Select
          MadeFor,      \* sets of names a reader is made for, {} for all
          SeekIds       \* ids given to seek

IndexCol == "_graphArVertexIndex"
NoFilter == [on |-> IndexCol, keep |-> Values]
NoColumns == {}
Columns(g) == IF g = LabelGroup THEN declared ELSE {IndexCol} \cup PropsOf[g]

ASSUME ReaderAssumption ==
    /\ DOMAIN PropsOf = Groups
    /\ CsvGroups \subseteq Groups
    /\ \A f \in Filters : f.on # IndexCol /\ f.keep \subseteq Values
    /\ NoColumns \notin Selections
    /\ SeekIds \subseteq Nat

VARIABLES
    reader,    \* the reader's members, or NoReader
    got,       \* what the last GetChunk returned
    aim,       \* history: the id of the first row that the client may expect, or NoAim
    running    \* FALSE once a call has aborted the process

readerVars == <<reader, got, aim, running>>

NoReader == [group |-> 0]
NoTable == [chunk |-> -1, filter |-> NoFilter, cols |-> {}]
NoAim == -1
Nothing == [status |-> "none", table |-> NoTable, offset |-> 0]

------------------------------------------------------------------------------
(* The methods as functions of the reader's members.                        *)

\* The constructor reads the vertex count once; a missing count makes it throw.
NewReader(g, names) ==
    [group |-> g, names |-> names, chunk |-> 0, seek_id |-> 0,
     chunk_num |-> ChunkNum(dir[CountPath]), vertex_num |-> dir[CountPath],
     table |-> NoTable, filter |-> NoFilter, cols |-> NoColumns]

KeepTable(r, id) ==                                  \* fault model: cache not dropped
    [r EXCEPT !.seek_id = id, !.chunk = ChunkOf(id)]

\* seek: the members move before the range check.
Seek(r, id) ==
    [r EXCEPT !.seek_id = id, !.chunk = ChunkOf(id),
              !.table = IF ChunkOf(id) = r.chunk THEN @ ELSE NoTable]

SeekStatus(r, id) == IF ChunkOf(id) < r.chunk_num THEN "OK" ELSE "IndexError"

NextKeepsTable(r) ==                                 \* fault model: cache not dropped
    [r EXCEPT !.chunk = @ + 1, !.seek_id = (r.chunk + 1) * ChunkSize]

\* next_chunk: at the end only the chunk index has moved.
NextChunk(r) ==
    IF r.chunk + 1 < r.chunk_num
      THEN [r EXCEPT !.chunk = @ + 1, !.seek_id = (r.chunk + 1) * ChunkSize,
                     !.table = NoTable]
      ELSE [r EXCEPT !.chunk = @ + 1]

NextStatus(r) == IF r.chunk + 1 < r.chunk_num THEN "OK" ELSE "IndexError"

\* CheckFilterOptions, by GetChunkV1 in every call.
OptionsFit(r) ==
    /\ r.filter = NoFilter \/ r.filter.on \in PropsOf[r.group]
    /\ r.cols \subseteq PropsOf[r.group]

\* The columns to read.  A reader made for some properties refuses others; one made
\* for all projects to the selection only in GetChunkV1.
ColumnsFit(r) == r.names = {} \/ r.cols \subseteq r.names

ColumnsV1(r) ==
    IF r.cols # NoColumns THEN r.cols ELSE IF r.names # {} THEN r.names ELSE Columns(r.group)

ColumnsV2(r) ==
    IF r.names = {} THEN Columns(r.group) ELSE IF r.cols # NoColumns THEN r.cols ELSE r.names

\* Whether the file of the current chunk can be read: GetChunkV2 opens it as Parquet.
FileThere(r) == <<r.group, r.chunk>> \in Paths /\ Readable(<<r.group, r.chunk>>)

Fits(r, version) ==
    IF version = "V1" THEN OptionsFit(r) /\ (r.table = NoTable => ColumnsFit(r))
                      ELSE r.table = NoTable =>
                               /\ ColumnsFit(r)
                               /\ ColumnsV2(r) \subseteq Columns(r.group)
                               /\ r.group \notin CsvGroups

Load(r, version) ==
    [chunk  |-> r.chunk,
     filter |-> IF version = "V1" THEN r.filter ELSE NoFilter,
     cols   |-> IF version = "V1" THEN ColumnsV1(r) ELSE ColumnsV2(r)]

\* GetChunk: a table that is in memory is used as it is.
Cached(r, version) ==
    [r EXCEPT !.table = IF @ # NoTable THEN @ ELSE Load(r, version)]

Version(r, version) ==
    IF version # "AUTO" THEN version ELSE IF r.filter # NoFilter THEN "V1" ELSE "V2"

\* The rows of a table, and the slice that GetChunk returns of it.
Kept(rows, keep) ==
    FlattenSeq([i \in DOMAIN rows |-> IF rows[i].val \in keep THEN <<rows[i]>> ELSE <<>>])

TableRows(g, table) ==
    LET rows == dir[<<g, table.chunk>>]
    IN  IF table.filter = NoFilter THEN rows ELSE Kept(rows, table.filter.keep)

RowOffset(r) == r.seek_id - r.chunk * ChunkSize

\* Slicing behind the end aborts; before the start it is undefined, taken as an abort.
InTable(r, table) == RowOffset(r) \in 0 .. Len(TableRows(r.group, table))

------------------------------------------------------------------------------
(* The client.                                                              *)

ReaderInit ==
    /\ reader = NoReader /\ got = Nothing /\ aim = NoAim /\ running = TRUE

Opened == running /\ reader # NoReader

OpenReader(g, names) ==
    /\ reader = NoReader
    /\ Readable(CountPath)
    /\ reader' = NewReader(g, names)
    /\ aim' = IF dir[CountPath] > 0 THEN 0 ELSE NoAim
    /\ UNCHANGED <<got, running>>

seek(id) ==
    /\ Opened
    /\ reader' = Seek(reader, id)
    /\ aim' = IF SeekStatus(reader, id) = "OK" THEN id ELSE NoAim
    /\ got' = Nothing
    /\ UNCHANGED running

\* Bound: next_chunk is not called on a position that lies behind the end by more.
next_chunk ==
    /\ Opened
    /\ reader.chunk <= reader.chunk_num
    /\ reader' = NextChunk(reader)
    /\ aim' = IF NextStatus(reader) = "OK" THEN (reader.chunk + 1) * ChunkSize ELSE NoAim
    /\ got' = Nothing
    /\ UNCHANGED running

Refused(status) ==
    /\ got' = [Nothing EXCEPT !.status = status]
    /\ UNCHANGED <<reader, aim, running>>

Delivers(r) ==
    /\ reader' = r
    /\ got' = IF InTable(r, r.table)
                THEN [status |-> "OK", table |-> r.table, offset |-> RowOffset(r)]
                ELSE [Nothing EXCEPT !.status = "Abort"]
    /\ running' = InTable(r, r.table)
    /\ UNCHANGED aim

GetChunk(version) ==
    /\ Opened
    /\ LET v == Version(reader, version)
       IN  \/ ~Fits(reader, v) /\ Refused("Invalid")
           \/ /\ Fits(reader, v)
              /\ \/ reader.table = NoTable /\ Refused("IOError")
                 \/ /\ reader.table # NoTable \/ FileThere(reader)
                    /\ Delivers(Cached(reader, v))

\* Filter and Select leave the table in memory alone.
Filter(filter) ==
    /\ Opened
    /\ reader' = [reader EXCEPT !.filter = filter]
    /\ got' = Nothing
    /\ UNCHANGED <<aim, running>>

Select(cols) ==
    /\ Opened
    /\ reader' = [reader EXCEPT !.cols = cols]
    /\ got' = Nothing
    /\ UNCHANGED <<aim, running>>

ReaderNext ==
    \/ \E g \in Groups, names \in MadeFor : OpenReader(g, names)
    \/ \E id \in SeekIds : seek(id)
    \/ next_chunk
    \/ \E version \in {"AUTO", "V1", "V2"} : GetChunk(version)
    \/ \E filter \in Filters \cup {NoFilter} : Filter(filter)
    \/ \E cols \in Selections \cup {NoColumns} : Select(cols)

\* A reader on files that are never written.
ReaderSpec ==
    /\ ReaderInit /\ FilesTypeOK
    /\ [][ReaderNext /\ UNCHANGED <<declared, dir>>]_<<readerVars, declared, dir>>

------------------------------------------------------------------------------
(* Properties.                                                              *)

\* The rows that GetChunk returned.
Returned ==
    LET rows == TableRows(reader.group, got.table)
    IN  SubSeq(rows, got.offset + 1, Len(rows))

\* The rows of the files from vertex id to the end of its chunk.
RowsFrom(g, id) ==
    LET rows == dir[<<g, ChunkOf(id)>>] IN SubSeq(rows, RowOf(id), Len(rows))

\* Type invariant.  A position inside the vertex type is consistent: the row that seek_id
\* stands for lies in the current chunk (seek, next_chunk).
ReaderTypeOK ==
    /\ running \in BOOLEAN
    /\ got.status \in {"none", "OK", "Invalid", "IOError", "Abort"}
    /\ reader # NoReader =>
          /\ reader.group \in Groups
          /\ reader.chunk \in Nat /\ reader.seek_id \in Nat
          /\ reader.chunk_num \in Nat /\ reader.vertex_num \in Nat
          /\ reader.filter \in Filters \cup {NoFilter}
          /\ reader.cols \in Selections \cup {NoColumns}
          /\ reader.table = NoTable \/ reader.table.chunk \in Nat
          /\ reader.chunk < reader.chunk_num => RowOffset(reader) \in 0 .. ChunkSize - 1

\* The table in memory is that of the current chunk whenever the position is one
\* inside the vertex type: also after a next_chunk that ran off the end, which leaves
\* the table of the last chunk behind (seek, next_chunk, GetChunk).
TableIsCurrent ==
    reader # NoReader /\ reader.table # NoTable /\ reader.chunk < reader.chunk_num =>
        reader.table.chunk = reader.chunk

\* After any calls: if seek or next_chunk found the position and GetChunk returned an
\* unfiltered table, its rows are those of the vertex and of the ones behind it in its
\* chunk; the first is the vertex itself if the vertex count covers it (seek, next_chunk,
\* GetChunk).
SeekDeliversRow ==
    got.status = "OK" /\ aim # NoAim /\ got.table.filter = NoFilter =>
        /\ Returned = RowsFrom(reader.group, aim)
        /\ Described /\ aim < reader.vertex_num => Head(Returned).id = aim

\* A chunk that is scanned from its first row gives all rows that match the filter it
\* was read with (next_chunk, GetChunkV1).
ScanLosesNoRow ==
    got.status = "OK" /\ aim # NoAim /\ aim % ChunkSize = 0 =>
        Returned = TableRows(reader.group, [got.table EXCEPT !.chunk = ChunkOf(aim)])
==============================================================================
