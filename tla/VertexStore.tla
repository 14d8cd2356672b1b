----------------------------- MODULE VertexStore ------------------------------
(****************************************************************************)
(* The life of one vertex type: a process writes its files with a           *)
(* VerticesBuilder and a VertexPropertyWriter, and ends; another process    *)
(* then reads them, with a chunk reader or through a VerticesCollection.    *)
(****************************************************************************)
EXTENDS VerticesBuilder, VerticesCollection

CONSTANTS HasValue,   \* payload -> the groups whose property it has a value for
          Empty       \* the empty string or list

ASSUME StoreAssumption ==
    /\ HasValue \in [Payloads -> SUBSET Groups]
    /\ Empty # Null

PV == INSTANCE PropertyValues WITH NullValue <- Null

VARIABLE reading   \* what the second process reads with, "none" while there is only the first

storeVars == <<builderVars, readerVars, collVars, reading>>

Init ==
    /\ BuilderInit /\ ReaderInit /\ CollInit
    /\ reading = "none"

\* The vertices that the last Dump has published, as its client knows them.
PublishedIds ==
    IF result.kind = "dump" /\ result.status = "OK" /\ clean /\ builder.saved
      THEN DOMAIN want ELSE {}

\* Bounds: the second process is started when the last call of the first one returned OK,
\* on files that are as their vertex count says, without rows behind it.
StartReading ==
    /\ reading = "none" /\ result.status = "OK" /\ Described /\ NoExcessRows
    /\ reading' \in {"chunks", "vertices"}
    /\ want' = IF reading' = "vertices" THEN [id \in PublishedIds |-> want[id]] ELSE NoIds
    /\ builder' = NewBuilder(0) /\ result' = NoResult
    /\ clean' = TRUE /\ orderly' = TRUE /\ jobs' = MaxJobs
    /\ UNCHANGED <<declared, dir, job, readerVars, collVars>>

Writes == reading = "none" /\ BuilderNext /\ UNCHANGED <<readerVars, collVars, reading>>

ReadsChunks ==
    reading = "chunks" /\ ReaderNext /\ UNCHANGED <<builderVars, collVars, reading>>

ReadsVertices ==
    reading = "vertices" /\ CollNext /\ UNCHANGED <<builderVars, reading>>

Next == Writes \/ StartReading \/ ReadsChunks \/ ReadsVertices

Spec == Init /\ [][Next]_storeVars

------------------------------------------------------------------------------

\* The type invariants of the builder and the reader.
TypeOK == BuilderTypeOK /\ ReaderTypeOK

\* The value of the property in group g, null in a slot that was never filled.
ValueIn(val, g) ==
    IF val # Null /\ g \in HasValue[val] THEN <<val, g>> ELSE Null

\* The column that a reader of group g delivers for a row, if the property has type t.
ColumnOf(t, row, g) ==
    {PV!ReadColumn(t, ValueIn(row.val, g), file_type) : file_type \in {"parquet", "orc"}}

\* The types that a builder can make columns of.
Built == PV!Scalars

\* What a client adds to a builder, and Dump publishes, is what the iterator of another
\* process shows under that id, in every property group; and for every type the property
\* may have, Vertex::property gives the value that was added, VertexIter::property the
\* same or none, and an absent value is no value, but for strings, which come back empty.
RoundTrip ==
    /\ seen.kind = "vertex" =>
          \A g \in Groups :
             /\ Id(it) \in DOMAIN want => seen.rows[g].val = want[Id(it)]
             /\ g \notin CsvGroups => \A t \in Built \cup PV!NumberLists :
                   \A column \in ColumnOf(t, seen.rows[g], g) :
                      /\ t \in Built /\ Id(it) \in DOMAIN want =>
                            PV!VertexGives(t, column, ValueIn(want[Id(it)], g))
                      /\ PV!VertexGives(t, column, ValueIn(RowAt(g, Id(it)).val, g))
    /\ seen.kind = "property" /\ Id(it) \in DOMAIN want =>
          /\ seen.row.val = want[Id(it)]
          /\ seen.group \notin CsvGroups => \A t \in Built :
                \A column \in ColumnOf(t, seen.row, seen.group) :
                   PV!IterGives(t, column, ValueIn(want[Id(it)], seen.group))
==============================================================================
