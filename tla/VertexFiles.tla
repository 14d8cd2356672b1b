----------------------------- MODULE VertexFiles ------------------------------
(****************************************************************************)
(* The files of one vertex type, and the sequence of files that one call    *)
(* of VertexPropertyWriter (cpp/src/graphar/arrow/chunk_writer.cc) writes.  *)
(*                                                                          *)
(* A vertex type has a file with the number of vertices and, for every      *)
(* vertex chunk of ChunkSize ids, one file per property group and, when the *)
(* vertex info declares labels, one label file.  Vertex id i is row         *)
(* i % ChunkSize of chunk i \div ChunkSize.                                 *)
(*                                                                          *)
(* The properties of one vertex are one payload; every property group file  *)
(* holds, per row, the index column and its part of the payload.            *)
(****************************************************************************)
EXTENDS Integers, Sequences, FiniteSets

CONSTANTS ChunkSize,     \* VertexInfo: chunk_size
          GroupNum,      \* VertexInfo: the number of property groups
          MaxChunks,     \* bound: the vertex chunks that are ever written
          Payloads,      \* what a vertex may carry
          Null,          \* a slot of the builder that was never filled
          Labels,        \* the label names there are
          LabelsOf,      \* payload -> the labels named in its label column
          Missing, Torn  \* a file that does not exist, one cut short

Groups == 1 .. GroupNum
LabelGroup == GroupNum + 1
CountPath == <<0, 0>>
ChunkPaths == (1 .. LabelGroup) \X (0 .. MaxChunks - 1)
Paths == {CountPath} \cup ChunkPaths

ASSUME VertexFilesAssumption ==
    /\ ChunkSize \in Nat \ {0}
    /\ GroupNum \in Nat \ {0}
    /\ MaxChunks \in Nat \ {0}
    /\ Null \notin Payloads
    /\ DOMAIN LabelsOf = Payloads
    /\ {Missing, Torn} \cap
           (Nat \cup Seq(SUBSET Labels) \cup Seq([id : Nat, val : Payloads \cup {Null}])) = {}

VARIABLES
    declared,   \* the labels that the vertex info declares
    dir         \* path -> the contents of the file

\* The chunks that n rows fill.
ChunkNum(n) == (n + ChunkSize - 1) \div ChunkSize

ChunkOf(id) == id \div ChunkSize
RowOf(id) == (id % ChunkSize) + 1

------------------------------------------------------------------------------
(* Tables.  vals are the rows; has_index and has_label say whether the      *)
(* table brings an index column and a label column of its own; missing are  *)
(* the groups of which it lacks a column, mistyped those of which a column  *)
(* has another type than the property.                                      *)

Values == Payloads \cup {Null}

Table(vals, has_index, has_label, missing, mistyped) ==
    [vals |-> vals, has_index |-> has_index, has_label |-> has_label,
     missing |-> missing, mistyped |-> mistyped]

\* AddIndexColumn: ids count from the first id of the start chunk.
IndexFromZero(start, i) == i - 1                     \* fault model: start forgotten
AddIndexColumn(start, i) == start * ChunkSize + i - 1

\* GetLabelTable: names that are not declared are dropped, a null row has none.
LabelRow(val) == IF val = Null THEN {} ELSE LabelsOf[val] \cap declared

\* What file <<g, start + k>> gets of the table: at most ChunkSize rows.
Slice(vals, k) ==
    SubSeq(vals, k * ChunkSize + 1,
           IF (k + 1) * ChunkSize < Len(vals) THEN (k + 1) * ChunkSize ELSE Len(vals))

FileRows(table, start, g, k) ==
    LET slice == Slice(table.vals, k)
    IN  [i \in 1 .. Len(slice) |->
            IF g = LabelGroup
              THEN LabelRow(slice[i])
              ELSE [id |-> AddIndexColumn(start, k * ChunkSize + i), val |-> slice[i]]]

\* WriteChunk refuses the table of group g.  WriteTable(table) has always added an
\* index column: with a second one the column is not found by its name.
Refuses(table, level, g) ==
    \/ table.has_index
    \/ g \in table.missing
    \/ level = "strong_validate" /\ g \in table.mistyped

\* The groups that are written in full before the first refusal.
GoodGroups(table, level) ==
    {g \in Groups : \A h \in 1 .. g : ~Refuses(table, level, h)}

AllGood(table, level) == table.vals = <<>> \/ GoodGroups(table, level) = Groups

\* GetLabelTable asks for the label column after all groups have been written.
LabelsGood(table) == declared = {} \/ table.has_label

\* How VertexPropertyWriter::WriteTable ends when every file can be written.
TableStatus(table, level) ==
    IF ~AllGood(table, level) THEN "Invalid"
    ELSE IF ~LabelsGood(table) THEN "KeyError" ELSE "OK"

\* The files it writes until then, in order: group by group, chunk by chunk, then
\* the label chunks.
Families(table, level) ==
    IF TableStatus(table, level) = "OK" /\ declared # {}
      THEN LabelGroup ELSE Cardinality(GoodGroups(table, level))

WriteTable(table, start, level) ==
    LET n == ChunkNum(Len(table.vals))
    IN  [i \in 1 .. n * Families(table, level) |->
            LET g == (i - 1) \div n + 1
                k == (i - 1) % n
            IN  [path |-> <<g, start + k>>, data |-> FileRows(table, start, g, k)]]

WriteVerticesNum(count) == <<[path |-> CountPath, data |-> count]>>

------------------------------------------------------------------------------
(* What a reader may rely on.                                               *)

Readable(path) == dir[path] \notin {Missing, Torn}

FileContents(path) ==
    CASE path = CountPath       -> Nat
      [] path[1] = LabelGroup   -> Seq(SUBSET Labels)
      [] OTHER                  -> Seq([id : Nat, val : Values])

FilesTypeOK ==
    /\ declared \subseteq Labels
    /\ DOMAIN dir = Paths
    /\ \A path \in Paths : Readable(path) => dir[path] \in FileContents(path)

\* The row of vertex id in the files of group g.
HasRow(g, id) ==
    /\ <<g, ChunkOf(id)>> \in ChunkPaths
    /\ Readable(<<g, ChunkOf(id)>>)
    /\ RowOf(id) <= Len(dir[<<g, ChunkOf(id)>>])

RowAt(g, id) == dir[<<g, ChunkOf(id)>>][RowOf(id)]

\* Every id below the vertex count has its row in every file that belongs to it.
Described ==
    /\ Readable(CountPath)
    /\ \A id \in 0 .. dir[CountPath] - 1 :
          /\ \A g \in Groups : HasRow(g, id) /\ RowAt(g, id).id = id
          /\ declared # {} => HasRow(LabelGroup, id)
==============================================================================
