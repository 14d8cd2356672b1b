------------------------------- MODULE Importer -------------------------------
(****************************************************************************)
(* `graphar import` of the command line tool (cli/src): a configuration is  *)
(* completed and validated in Python (graphar_cli/config.py, importer.py),  *)
(* then DoImport (importer.h) reads the data sources of every vertex type,  *)
(* writes their chunks, remembers which key belongs to which vertex, and    *)
(* builds every adjacency list of every edge type through an EdgesBuilder.  *)
(*                                                                          *)
(* A configuration carries the data it names.  A source is the type of its  *)
(* file, a mapping of its columns to property names, a sequence of rows,    *)
(* and the kinds of its columns: "text" and "date64" are the Arrow types    *)
(* utf8 and date64, "unknown" is one that GraphAr has no type for, and      *)
(* "plain" is any other.  A cell is a value, Null, or Uncastable: a value   *)
(* that the property's type cannot hold.  Properties of edges are of types  *)
(* other than string.                                                       *)
(****************************************************************************)
EXTENDS Naturals, Sequences, FiniteSets, SequencesExt, FiniteSetsExt, Functions, Folds

CONSTANTS Configs,           \* the configurations the tool is started with
          MaxFailures,       \* bound: the writes that fail in one import
          Null, Uncastable,
          NoValue            \* an empty std::any

VARIABLES
    config,      \* the configuration; complete once it is validated
    pc,          \* the part of the import that comes next
    at,          \* <<vertex or edge type, property group or adjacency list>> in work
    table,       \* the merged vertex table: a sequence of columns
    index_of,    \* <<vertex type, property>> -> key -> vertex id
    counts,      \* vertex type -> number of its rows
    files,       \* file name -> contents, for the files that exist
    result,
    dropped      \* history: the calls whose error DoImport ignored

vars == <<config, pc, at, table, index_of, counts, files, result, dropped>>

Override(f, g) == [x \in DOMAIN f \cup DOMAIN g |-> IF x \in DOMAIN g THEN g[x] ELSE f[x]]
NumChunks(n, size) == (n + size - 1) \div size

------------------------------------------------------------------------------
(* The configuration.  A property is [name, primary, nullable]; nullable,   *)
(* chunk_size and lists may be left open.                                   *)

Props(x) == FlattenSeq([g \in DOMAIN x.groups |-> x.groups[g].props])
NameSeq(x) == [i \in DOMAIN Props(x) |-> Props(x)[i].name]
Names(x) == ToSet(NameSeq(x))
Mapped(x) == UNION {{s.columns[c] : c \in DOMAIN s.columns} : s \in ToSet(x.sources)}

\* check_nullable: a primary key is never nullable, another property is unless it says no.
Nullable(p) == ~p.primary /\ p.nullable # FALSE
Required(x) == {p.name : p \in {q \in ToSet(Props(x)) : ~Nullable(q)}}

\* check_none_types: the fields left open take the values of the graphar section.
Completed(c) ==
    LET Sized(x, size) == [x EXCEPT !.chunk_size = IF @ = Null THEN size ELSE @]
        Listed(e) == [e EXCEPT !.lists = IF @ = <<>> THEN <<c.adj_list_type>> ELSE @]
    IN  [c EXCEPT
            !.vertices = [i \in DOMAIN @ |-> Sized(@[i], c.vertex_chunk_size)],
            !.edges = [i \in DOMAIN @ |-> Listed(Sized(@[i], c.edge_chunk_size))]]

UniqueNames(x) == IsInjective(NameSeq(x))
TypesOf(c) == {v.type : v \in ToSet(c.vertices)}
VertexOf(c, type) == CHOOSE v \in ToSet(c.vertices) : v.type = type

\* What config.py and validate ask of a vertex type: as many source columns as properties,
\* one for each, and at most one primary key, not declared nullable.
VertexAccepted(v) ==
    /\ v.groups # <<>> /\ v.sources # <<>>
    /\ \A g \in DOMAIN v.groups : v.groups[g].props # <<>>
    /\ UniqueNames(v)
    /\ \A p \in ToSet(Props(v)) : p.primary => p.nullable # TRUE
    /\ Cardinality({p \in ToSet(Props(v)) : p.primary}) <= 1
    /\ Names(v) \subseteq Mapped(v)
    /\ FoldSeq(LAMBDA s, n : n + Cardinality(DOMAIN s.columns), 0, v.sources)
          = Cardinality(Names(v))


\* Of an edge type: its endpoints' types and keys exist, its properties are mapped to.  That
\* its sources have columns for the keys, and no others, is not asked.
EdgeAccepted(e, c) ==
    /\ e.sources # <<>>
    /\ {e.src_type, e.dst_type} \subseteq TypesOf(c)
    /\ e.src_prop \in Names(VertexOf(c, e.src_type))
    /\ e.dst_prop \in Names(VertexOf(c, e.dst_type))
    /\ UniqueNames(e)
    /\ \A p \in ToSet(Props(e)) : p.primary => p.nullable # TRUE
    /\ Names(e) \subseteq Mapped(e)

Accepted(c) ==
    /\ c.vertices # <<>>
    /\ IsInjective([i \in DOMAIN c.vertices |-> c.vertices[i].type])
    /\ IsInjective([i \in DOMAIN c.edges |-> c.edges[i].edge_type])
    /\ \A v \in ToSet(c.vertices) : VertexAccepted(v)
    /\ \A e \in ToSet(c.edges) : EdgeAccepted(e, c)

------------------------------------------------------------------------------
(* Tables: sequences of columns [name, kind, cells].                        *)

\* reversed_columns: when several columns map to one name, the map keeps one of them.
Reversals(source) ==
    LET names == {source.columns[c] : c \in DOMAIN source.columns}
    IN  {r \in [names -> DOMAIN source.columns] : \A n \in names : source.columns[r[n]] = n}

Cells(source, c) == [i \in DOMAIN source.rows |-> source.rows[i][c]]

\* ChangeNameAndDataType: the columns chosen for wanted names take these names and the types
\* of the properties; the others keep the names and the types they have in the source.
Renamed(source, reversed, wanted) ==
    LET columns == SetToSeq(DOMAIN source.columns)
        Chosen(c) == source.columns[c] \in wanted /\ reversed[source.columns[c]] = c
    IN  [i \in DOMAIN columns |->
            LET c == columns[i]
            IN  [name |-> IF Chosen(c) THEN source.columns[c] ELSE c,
                 kind |-> IF Chosen(c) THEN "plain" ELSE source.kinds[c],
                 cells |-> Cells(source, c)]]

\* GetColumnByName: the null pointer unless exactly one column has the name.
HasColumn(t, name) == Cardinality({i \in DOMAIN t : t[i].name = name}) = 1
Column(t, name) == t[CHOOSE i \in DOMAIN t : t[i].name = name]
CellsOf(t, name) == Column(t, name).cells

\* A column that must not be null is, or a cell cannot be cast: an exception.
BadCells(source, reversed, wanted, required) ==
    \E n \in wanted \cap DOMAIN reversed :
        LET cells == ToSet(Cells(source, reversed[n]))
        IN  Uncastable \in cells \/ (n \in required /\ Null \in cells)

\* The names that the source lacks share the key "" of column_prop_map, and the last of them
\* stays.  Its column is the null pointer, used when it must not be null.
NullColumnUsed(names, reversed, required) ==
    LET lost == SelectSeq(names, LAMBDA n : n \notin DOMAIN reversed)
    IN  lost # <<>> /\ Last(lost) \in required

\* MergeTables asks for as many rows in each.
SameLength(sources) == \A s, t \in ToSet(sources) : Len(s.rows) = Len(t.rows)

AllReversals(sources) ==
    {r \in [DOMAIN sources -> UNION {Reversals(s) : s \in ToSet(sources)}] :
        \A i \in DOMAIN sources : r[i] \in Reversals(sources[i])}

Merged(sources, reversed, wanted) ==
    FlattenSeq([i \in DOMAIN sources |-> Renamed(sources[i], reversed[i], wanted)])

------------------------------------------------------------------------------

V == config.vertices[at[1]]
E == config.edges[at[1]]
G == V.groups[at[2]]
L == E.lists[at[2]]
BySource == {"ordered_by_source", "unordered_by_source"}

FileTypes == {"csv", "parquet", "orc"}      \* those that can be written

Init ==
    /\ config \in Configs
    /\ pc = "validate" /\ at = <<1, 1>>
    /\ table = <<>> /\ index_of = <<>> /\ counts = <<>> /\ files = <<>>
    /\ result = "running" /\ dropped = 0

Ends(how) == result' = how /\ pc' = "done" /\ UNCHANGED <<at, table>>

\* An exception that the caller sees; a null pointer; Arrow's ValueOrDie of an error.
Stops(how) == Ends(how) /\ UNCHANGED <<config, index_of, counts, files, dropped>>
Throws == Stops("failed")
Crashes == Stops("crashed")
Aborts == Stops("aborted")

\* A file that cannot be read is an exception at most places, but ValueOrDie is asked for a
\* Parquet, ORC or JSON file that cannot be opened, and for the readers of the latter two.
MayAbort(source) == source.file_type # "csv"

\* What comes behind vertex type i: the next one, the edge types, the end.
AfterVertex(i) ==
    /\ at' = IF i < Len(config.vertices) THEN <<i + 1, 1>> ELSE <<1, 1>>
    /\ pc' = IF i < Len(config.vertices) THEN "describe_vertex"
             ELSE IF config.edges # <<>> THEN "describe_edge" ELSE "finish"

AfterList(i, l) ==
    /\ at' = IF l < Len(config.edges[i].lists) THEN <<i, l + 1>> ELSE <<i + 1, 1>>
    /\ pc' = IF l < Len(config.edges[i].lists) THEN "build_list"
             ELSE IF i < Len(config.edges) THEN "describe_edge" ELSE "finish"

Validate ==
    /\ pc = "validate"
    /\ IF Accepted(Completed(config))
       THEN /\ config' = Completed(config)
            /\ pc' = "describe_vertex" /\ UNCHANGED <<at, table, result>>
       ELSE Ends("rejected") /\ UNCHANGED config
    /\ UNCHANGED <<index_of, counts, files, dropped>>

\* A write may fail, its error is dropped.
WriteFails == dropped < MaxFailures /\ dropped' = dropped + 1

\* Save of an info returns an error when it is invalid or cannot be written; nobody looks.
SaveInfo(name, valid) ==
    \/ /\ valid
       /\ files' = Override(files, [f \in {name} |-> "info"])
       /\ UNCHANGED dropped
    \/ /\ IF valid THEN WriteFails ELSE dropped' = dropped + 1
       /\ UNCHANGED files

GroupsValid(x) == \A g \in DOMAIN x.groups : x.groups[g].file_type \in FileTypes

\* CreateVertexInfo gives the null pointer for a chunk size of 0, and Save is called on it.
DescribeVertex ==
    /\ pc = "describe_vertex"
    /\ \/ V.chunk_size = 0 /\ Crashes
       \/ /\ V.chunk_size > 0
          /\ SaveInfo(<<"vertex.yml", V.type>>, GroupsValid(V))
          /\ pc' = "read_vertices"
          /\ UNCHANGED <<config, at, table, index_of, counts, result>>

\* The sources are read, checked, cast, renamed and put side by side.  Any file may be
\* unreadable by the time it is opened.
ReadVertices ==
    /\ pc = "read_vertices"
    /\ \/ Throws
       \/ \E r \in AllReversals(V.sources) :
            LET Bad(i) == BadCells(V.sources[i], r[i], Names(V), Required(V))
                Lost(i) == NullColumnUsed(NameSeq(V), r[i], Required(V))
                Read(i) == ~Bad(i) /\ ~Lost(i)
            IN  \/ \E i \in DOMAIN V.sources :
                      /\ \A j \in 1 .. i - 1 : Read(j)
                      /\ (MayAbort(V.sources[i]) /\ Aborts) \/ (Lost(i) /\ Crashes)
                \/ /\ \A i \in DOMAIN V.sources : Read(i)
                   /\ SameLength(V.sources)
                   /\ table' = Merged(V.sources, r, Names(V))
                   /\ pc' = "write_group"
                   /\ UNCHANGED <<config, at, index_of, counts, files, result, dropped>>

TableRows == Len(table[1].cells)

GroupNames(group) == {group.props[i].name : i \in DOMAIN group.props}

VertexChunk(group, size, chunk) ==
    [n \in GroupNames(group) |->
        SubSeq(CellsOf(table, n), chunk * size + 1,
               IF (chunk + 1) * size < TableRows THEN (chunk + 1) * size ELSE TableRows)]

\* WriteTable of one property group, chunk by chunk, until the first that cannot be written.
WriteGroup ==
    /\ pc = "write_group"
    /\ \E k \in 0 .. NumChunks(TableRows, V.chunk_size) :
          /\ k > 0 => G.file_type \in FileTypes
          /\ files' = Override(files,
                [f \in {<<"chunk", V.type, at[2], c>> : c \in 0 .. k - 1} |->
                    VertexChunk(G, V.chunk_size, f[4])])
          /\ IF k = NumChunks(TableRows, V.chunk_size) THEN UNCHANGED dropped
             ELSE IF G.file_type \in FileTypes THEN WriteFails ELSE dropped' = dropped + 1
    /\ at' = IF at[2] < Len(V.groups) THEN <<at[1], at[2] + 1>> ELSE at
    /\ pc' = IF at[2] < Len(V.groups) THEN "write_group" ELSE "index"
    /\ UNCHANGED <<config, table, index_of, counts, result>>

\* The properties of a vertex type by which edges name their endpoints.
PropsInEdges(type) ==
    {e.src_prop : e \in {x \in ToSet(config.edges) : x.src_type = type}}
    \cup {e.dst_prop : e \in {x \in ToSet(config.edges) : x.dst_type = type}}

\* Fault model: ids are counted from 1.
RowsFromOne(cells) ==
    [key \in ToSet(cells) |-> CHOOSE i \in DOMAIN cells :
        cells[i] = key /\ \A j \in 1 .. i - 1 : cells[j] # key]

\* TableToUnorderedMap: emplace keeps the first vertex of a key.
TableToMap(cells) ==
    [key \in ToSet(cells) |-> (CHOOSE i \in DOMAIN cells :
        cells[i] = key /\ \A j \in 1 .. i - 1 : cells[j] # key) - 1]

IndexVertices ==
    /\ pc = "index"
    /\ \/ /\ \E n \in PropsInEdges(V.type) : Null \in ToSet(CellsOf(table, n))
          /\ Throws
       \/ /\ \A n \in PropsInEdges(V.type) : Null \notin ToSet(CellsOf(table, n))
          /\ index_of' = Override(index_of,
                [k \in {V.type} \X PropsInEdges(V.type) |-> TableToMap(CellsOf(table, k[2]))])
          /\ counts' = Override(counts, [t \in {V.type} |-> TableRows])
          /\ pc' = "count_vertices"
          /\ UNCHANGED <<config, at, table, files, result, dropped>>

CountVertices ==
    /\ pc = "count_vertices"
    /\ \/ /\ files' = Override(files, [f \in {<<"vertex_count", V.type>>} |-> counts[V.type]])
          /\ UNCHANGED dropped
       \/ WriteFails /\ UNCHANGED files
    /\ table' = <<>>
    /\ AfterVertex(at[1])
    /\ UNCHANGED <<config, index_of, counts, result>>

------------------------------------------------------------------------------
(* Edges.                                                                   *)

ChunkSizeOf(type) == VertexOf(config, type).chunk_size

\* CreateEdgeInfo, which gives the null pointer for a chunk size of 0, and Save.  An edge
\* info with one list twice is invalid.
DescribeEdge ==
    /\ pc = "describe_edge"
    /\ \/ E.chunk_size = 0 /\ Crashes
       \/ /\ E.chunk_size > 0
          /\ SaveInfo(<<"edge.yml", E.edge_type>>, GroupsValid(E) /\ IsInjective(E.lists))
          /\ pc' = "build_list"
          /\ UNCHANGED <<config, at, table, index_of, counts, result>>

AlignedType(e, list) == IF list \in BySource THEN e.src_type ELSE e.dst_type

Endpoints(e) == {e.src_prop, e.dst_prop}

\* An edge column must not be null when the edge's property must not, or, for the columns
\* of the endpoints, the vertices' property; the destination's has the last word.
EdgeRequired(e) ==
    LET Of(type, n) == n \in Required(VertexOf(config, type))
    IN  {n \in Names(e) \cup Endpoints(e) :
            IF n = e.dst_prop THEN Of(e.dst_type, n)
            ELSE IF n = e.src_prop THEN Of(e.src_type, n)
            ELSE n \in Required(e)}

\* TryToCastToAny is called without its last parameter: it takes row 0 of the column.
ValueRow(i) == 1

\* The builder::Edge of row i of a table without RowFaults; row is history.
EdgeOfRow(e, t, i) ==
    [row |-> i,
     src |-> index_of[<<e.src_type, e.src_prop>>][CellsOf(t, e.src_prop)[i]],
     dst |-> index_of[<<e.dst_type, e.dst_prop>>][CellsOf(t, e.dst_prop)[i]],
     props |-> [n \in {t[k].name : k \in DOMAIN t} \ Endpoints(e) |->
                   LET cell == CellsOf(t, n)[ValueRow(i)]
                   IN  IF cell = Null THEN NoValue ELSE cell]]

Rows(t) == IF t = <<>> THEN {} ELSE DOMAIN t[1].cells

\* Fault model: the vertices of the source, whatever the list.
NumSources(e, list) == counts[e.src_type]

\* The vertices on the side by which the list is aligned.
NumVertices(e, list) == counts[AlignedType(e, list)]

\* How the look-up of the endpoints of row i may go wrong: a column that is not there is a
\* null pointer, a key without a vertex an exception, and either endpoint may come first.
KeyFaults(e, t, i) ==
    LET Of(type, n) ==
            IF ~HasColumn(t, n) THEN {"crashed"}
            ELSE IF CellsOf(t, n)[i] \notin DOMAIN index_of[<<type, n>>] THEN {"failed"}
            ELSE {}
    IN  Of(e.src_type, e.src_prop) \cup Of(e.dst_type, e.dst_prop)

\* How taking a value from a column may go wrong.  A column name that occurs twice is a null
\* pointer.  So are text, which is cast to large text, and date64, cast to a timestamp, that
\* one only if the value is there.  ArrowDataTypeToDataType throws for types it does not know.
ValueFaults(t, n) ==
    IF ~HasColumn(t, n) THEN {"crashed"}
    ELSE LET column == Column(t, n)
         IN  CASE column.kind = "text" -> {"crashed"}
               [] column.kind = "date64" ->
                     IF column.cells[ValueRow(1)] = Null THEN {} ELSE {"crashed"}
               [] column.kind = "unknown" -> {"failed"}
               [] column.kind = "plain" -> {}

\* How the loop over the rows may end before its end: the endpoints of the first row, the
\* columns in whatever order the source has them, the endpoints of the other rows.
RowFaults(e, t) ==
    LET values == UNION {ValueFaults(t, n) : n \in {t[k].name : k \in DOMAIN t} \ Endpoints(e)}
    IN  IF Rows(t) = {} THEN {}
        ELSE IF KeyFaults(e, t, 1) # {} THEN KeyFaults(e, t, 1)
        ELSE IF values # {} THEN values
        ELSE UNION {KeyFaults(e, t, i) : i \in Rows(t)}

\* AddEdge refuses an edge only under strong validation: a property which the info does not
\* have, or without a value of its type.
Refused(e, edge) ==
    /\ e.validate_level = "strong"
    /\ \E n \in DOMAIN edge.props : n \notin Names(e) \/ edge.props[n] = NoValue

AlignedId(list, edge) == IF list \in BySource THEN edge.src ELSE edge.dst

\* convertToTable: a property that the edge does not have is null.
StoredEdge(e, edge) ==
    [row |-> edge.row, src |-> edge.src, dst |-> edge.dst,
     props |-> [n \in Names(e) |-> IF n \in DOMAIN edge.props THEN edge.props[n] ELSE Null]]

\* Dump: the counts, then the edges of each vertex chunk.  A value that is not there throws
\* when its chunk is converted; any other error is returned and dropped, and so is that of a
\* group whose file type cannot be written.
Dump(e, list, num, edges) ==
    LET size == ChunkSizeOf(AlignedType(e, list))
        In(vc) == {x \in edges : AlignedId(list, x) \div size = vc}
        Count == [f \in {<<"list_vertices", e.edge_type, list>>} |-> num]
        EdgeCounts == [f \in {<<"edge_count", e.edge_type, list, vc>> :
                                 vc \in 0 .. NumChunks(num, size) - 1} |-> Cardinality(In(f[4]))]
        Empty(x) == \E n \in DOMAIN x.props \cap Names(e) : x.props[n] = NoValue
        Filled == {AlignedId(list, x) \div size : x \in edges}
        Whole == {vc \in Filled : \A x \in In(vc) : ~Empty(x)}
        Tables(S) == [f \in {<<"edges", e.edge_type, list, vc>> : vc \in S} |->
                        {StoredEdge(e, x) : x \in In(f[4])}]
        Counted == Override(Override(files, Count), EdgeCounts)
    IN  \/ /\ Whole = Filled /\ (Filled # {} => GroupsValid(e))
           /\ files' = Override(Counted, Tables(Filled))
           /\ dropped' = dropped + Cardinality(Rows(table)) - Cardinality(edges)
           /\ AfterList(at[1], at[2])
           /\ UNCHANGED result
        \/ /\ \/ /\ WriteFails
                 /\ \/ files' = files
                    \/ \E S \in SUBSET DOMAIN EdgeCounts :
                          files' = Override(Override(files, Count), Restrict(EdgeCounts, S))
                    \/ \E S \in SUBSET Whole :
                          /\ S # Filled /\ (S # {} => GroupsValid(e))
                          /\ files' = Override(Counted, Tables(S))
              \/ /\ ~GroupsValid(e) /\ Whole # {}
                 /\ dropped' = dropped + 1 /\ files' = Counted
           /\ AfterList(at[1], at[2])
           /\ UNCHANGED result
        \/ /\ Whole # Filled
           /\ \E S \in SUBSET Whole :
                 (S = {} \/ GroupsValid(e)) /\ files' = Override(Counted, Tables(S))
           /\ result' = "failed" /\ pc' = "done" /\ UNCHANGED <<at, dropped>>

\* The sources of the edge type are read once per list.  Each must have the columns of both
\* endpoints.
ReadEdges ==
    /\ pc = "build_list"
    /\ \/ Throws
       \/ \E r \in AllReversals(E.sources) :
            LET names == NameSeq(E) \o <<E.src_prop, E.dst_prop>>
                Keys(i) == Endpoints(E) \ Names(E) \subseteq DOMAIN r[i]
                Bad(i) == BadCells(E.sources[i], r[i], ToSet(names), EdgeRequired(E))
                Lost(i) == NullColumnUsed(names, r[i], EdgeRequired(E))
                Read(i) == Keys(i) /\ ~Bad(i) /\ ~Lost(i)
            IN  \/ \E i \in DOMAIN E.sources :
                      /\ \A j \in 1 .. i - 1 : Read(j)
                      /\ (MayAbort(E.sources[i]) /\ Aborts) \/ (Keys(i) /\ Lost(i) /\ Crashes)
                \/ /\ \A i \in DOMAIN E.sources : Read(i)
                   /\ SameLength(E.sources)
                   /\ table' = Merged(E.sources, r, ToSet(names))
                   /\ pc' = "dump_list"
                   /\ UNCHANGED <<config, at, index_of, counts, files, result, dropped>>

\* The loop over the rows of the merged table, whose columns are looked up by name in every
\* round, and Dump.
DumpList ==
    /\ pc = "dump_list"
    /\ LET edges == {EdgeOfRow(E, table, i) : i \in Rows(table)}
       IN  \/ \E how \in RowFaults(E, table) : Stops(how)
           \/ /\ RowFaults(E, table) = {}
              /\ Dump(E, L, NumVertices(E, L), {x \in edges : ~Refused(E, x)})
              /\ table' = <<>>
              /\ UNCHANGED <<config, index_of, counts>>

Finish ==
    /\ pc = "finish"
    /\ Ends("Imported successfully!")
    /\ UNCHANGED <<config, index_of, counts, files, dropped>>

Next ==
    \/ Validate
    \/ DescribeVertex \/ ReadVertices \/ WriteGroup \/ IndexVertices \/ CountVertices
    \/ DescribeEdge \/ ReadEdges \/ DumpList
    \/ Finish

Spec == Init /\ [][Next]_vars

------------------------------------------------------------------------------
(* GetEdgeCount (main.cc): what `graphar show` says of the imported edges.  *)

ListOrder == <<"ordered_by_dest", "ordered_by_source", "unordered_by_dest", "unordered_by_source">>

\* The list that is asked: the first of ListOrder that there is.
AskedList(e) == SelectSeq(ListOrder, LAMBDA l : l \in ToSet(e.lists))[1]

\* The vertex chunks are counted by the source's chunk size whatever the list.
AskedChunks(e) ==
    0 .. NumChunks(files[<<"list_vertices", e.edge_type, AskedList(e)>>],
                   ChunkSizeOf(e.src_type)) - 1

\* A count that is not there is an exception.
CountShown(e, count) ==
    LET Name(vc) == <<"edge_count", e.edge_type, AskedList(e), vc>>
    IN  /\ \A vc \in AskedChunks(e) : Name(vc) \in DOMAIN files
        /\ count = FoldSet(LAMBDA vc, n : n + files[Name(vc)], 0, AskedChunks(e))

------------------------------------------------------------------------------
(* Properties.                                                              *)

\* One source, each column of which names one endpoint or one property, and none of these is
\* both.
Unambiguous(e) ==
    /\ Len(e.sources) = 1
    /\ IsInjective(e.sources[1].columns)
    /\ e.src_prop # e.dst_prop
    /\ Endpoints(e) \cap Names(e) = {}
    /\ Range(e.sources[1].columns) = Endpoints(e) \cup Names(e)

SourceCell(x, name, i) ==
    LET s == CHOOSE s \in ToSet(x.sources) : name \in Range(s.columns)
    IN  s.rows[i][CHOOSE c \in DOMAIN s.columns : s.columns[c] = name]

GroupWith(v, name) == CHOOSE g \in DOMAIN v.groups : name \in GroupNames(v.groups[g])

\* The vertex with an id, as far as its chunk is stored, has the value.
HasValue(type, name, id, value) ==
    LET v == VertexOf(config, type)
        chunk == <<"chunk", type, GroupWith(v, name), id \div v.chunk_size>>
    IN  /\ id < counts[type]
        /\ chunk \in DOMAIN files => files[chunk][name][(id % v.chunk_size) + 1] = value

EdgeTypeOf(name) == CHOOSE e \in ToSet(config.edges) : e.edge_type = name

\* At every moment, also after an import that failed: an edge in a list joins the two
\* vertices whose keys stand in its row of the source, as the vertex chunks show them, and
\* lies in the vertex chunk of its aligned endpoint.
EdgesJoinTheirVertices ==
    \A f \in DOMAIN files : f[1] = "edges" /\ Unambiguous(EdgeTypeOf(f[2])) =>
        LET e == EdgeTypeOf(f[2])
        IN  \A x \in files[f] :
                /\ HasValue(e.src_type, e.src_prop, x.src, SourceCell(e, e.src_prop, x.row))
                /\ HasValue(e.dst_type, e.dst_prop, x.dst, SourceCell(e, e.dst_prop, x.row))
                /\ f[4] = AlignedId(f[3], x) \div ChunkSizeOf(AlignedType(e, f[3]))
                /\ f[4] < NumChunks(files[<<"list_vertices", f[2], f[3]>>],
                                    ChunkSizeOf(AlignedType(e, f[3])))

VertexRows(v) == Len(v.sources[1].rows)

VertexImported(v) ==
    /\ <<"vertex.yml", v.type>> \in DOMAIN files
    /\ <<"vertex_count", v.type>> \in DOMAIN files
    /\ files[<<"vertex_count", v.type>>] = VertexRows(v)
    /\ \A i \in 1 .. VertexRows(v), n \in Names(v) :
          LET chunk == <<"chunk", v.type, GroupWith(v, n), (i - 1) \div v.chunk_size>>
          IN  /\ chunk \in DOMAIN files
              /\ files[chunk][n][((i - 1) % v.chunk_size) + 1] = SourceCell(v, n, i)

ListImported(e, list) ==
    LET In(vc) == <<"edges", e.edge_type, list, vc>>
        Stored(vc) == IF In(vc) \in DOMAIN files THEN files[In(vc)] ELSE {}
        num == files[<<"list_vertices", e.edge_type, list>>]
        chunks == 0 .. NumChunks(num, ChunkSizeOf(AlignedType(e, list))) - 1
    IN  /\ num = VertexRows(VertexOf(config, AlignedType(e, list)))
        /\ \A vc \in chunks :
              files[<<"edge_count", e.edge_type, list, vc>>] = Cardinality(Stored(vc))
        /\ UNION {{x.row : x \in Stored(vc)} : vc \in chunks} = DOMAIN e.sources[1].rows

\* An import that reports success, and in which no error was dropped, has stored every row of
\* every source: each vertex with all its groups under its id, each edge in every list, and
\* the counts.  The tool then shows the number of edges, if the list it asks is aligned by
\* source or both endpoints have one chunk size.
NothingLost ==
    result = "Imported successfully!" /\ dropped = 0 =>
        /\ \A v \in ToSet(config.vertices) : VertexImported(v)
        /\ \A e \in ToSet(config.edges) : Unambiguous(e) =>
              /\ <<"edge.yml", e.edge_type>> \in DOMAIN files
              /\ \A list \in ToSet(e.lists) : ListImported(e, list)
              /\ \/ AskedList(e) \in BySource
                 \/ ChunkSizeOf(e.src_type) = ChunkSizeOf(e.dst_type)
                 => CountShown(e, Len(e.sources[1].rows))

\* The columns of a source that may keep the names and types they have: of no wanted name, or
\* one of several.
LeftAside(source, wanted) ==
    LET columns == source.columns
    IN  {c \in DOMAIN columns : \/ columns[c] \notin wanted
                                \/ \E d \in DOMAIN columns \ {c} : columns[d] = columns[c]}

\* Whether the loop over the rows finds every column and can take a value from it.
ColumnsConvert(e) ==
    LET wanted == Names(e) \cup Endpoints(e)
        source == e.sources[1]
    IN  /\ Len(e.sources) = 1
        /\ \A c \in LeftAside(source, wanted) :
               c \notin wanted /\ source.kinds[c] \notin {"text", "date64"}


------------------------------------------------------------------------------
(* A statement of the tool's documentation that the code does not keep.     *)

\* "The columns dictionary maps column names in the data source to node or edge
\* properties": a stored edge has the properties of its row.
EdgesHaveTheirProperties ==
    \A f \in DOMAIN files : f[1] = "edges" /\ Unambiguous(EdgeTypeOf(f[2])) =>
        \A x \in files[f], n \in Names(EdgeTypeOf(f[2])) :
            x.props[n] = SourceCell(EdgeTypeOf(f[2]), n, x.row)
=============================================================================
