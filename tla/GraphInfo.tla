------------------------------ MODULE GraphInfo -------------------------------
(****************************************************************************)
(* PropertyGroup, AdjacentList, VertexInfo, EdgeInfo and GraphInfo          *)
(* (cpp/src/graphar/graph_info.cc): immutable descriptions of a graph, what *)
(* they accept, look up and refuse, the paths they give to the data files,  *)
(* and the YAML files they are saved in.                                    *)
(*                                                                          *)
(* A name is a sequence of words: the code joins names with "_", so "a_b"   *)
(* is <<"a", "b">>, and joining is concatenation.  A prefix is a sequence   *)
(* of directory names, empty for the default.                               *)
(****************************************************************************)
EXTENDS Integers, Sequences, FiniteSets, SequencesExt

CONSTANT Null   \* a null pointer

FileTypes == {"csv", "parquet", "orc"}
AdjListTypes == {"unordered_by_source", "ordered_by_source",
                 "unordered_by_dest", "ordered_by_dest"}
ListTypes == {"list<int32>", "list<int64>", "list<float>", "list<double>", "list<string>",
              "list<bool>"}

\* The type names that TypeNameToDataType knows: one of bool lists is not among them.
ParsedTypes == {"bool", "int32", "int64", "float", "double", "string", "date", "timestamp"}
                   \cup (ListTypes \ {"list<bool>"})

------------------------------------------------------------------------------
(* The constructors.                                                        *)

\* A primary key is never nullable.
Property(name, type, primary, nullable) ==
    [name |-> name, type |-> type, primary |-> primary, nullable |-> ~primary /\ nullable]

PropertyGroup(props, file_type, prefix) ==
    [props |-> props, file_type |-> file_type,
     prefix |-> IF prefix = <<>> /\ props # <<>>
                  THEN <<FlattenSeq([i \in DOMAIN props |-> props[i].name])>> ELSE prefix]

AdjacentList(type, file_type, prefix) ==
    [type |-> type, file_type |-> file_type,
     prefix |-> IF prefix = <<>> THEN <<<<type>>>> ELSE prefix]

VertexInfo(type, chunk_size, groups, labels, prefix, version) ==
    [type |-> type, chunk_size |-> chunk_size, groups |-> groups, labels |-> labels,
     prefix |-> IF prefix = <<>> THEN <<type>> ELSE prefix, version |-> version]

\* ConcatEdgeTriple: <<"a", "b">>, <<"c">> and <<"a">>, <<"b", "c">> give the same key.
ConcatEdgeTriple(triple) == triple[1] \o triple[2] \o triple[3]

\* triple is the source, edge and destination type, sizes the sizes of the edge
\* chunks and of the source and destination vertex chunks.
EdgeInfo(triple, sizes, directed, lists, groups, prefix, version) ==
    [triple |-> triple, sizes |-> sizes, directed |-> directed, lists |-> lists,
     groups |-> groups,
     prefix |-> IF prefix = <<>> THEN <<ConcatEdgeTriple(triple)>> ELSE prefix,
     version |-> version]

GraphInfo(name, vertices, edges, labels, prefix, version, extra) ==
    [name |-> name, vertices |-> vertices, edges |-> edges, labels |-> labels,
     prefix |-> prefix, version |-> version, extra |-> extra]

\* What the constructors give: a value that its own fields make again.
IsGroup(group) ==
    /\ group = PropertyGroup(group.props, group.file_type, group.prefix)
    /\ group.props \in Seq(Range(group.props))
    /\ \A i \in DOMAIN group.props :
          LET p == group.props[i] IN p = Property(p.name, p.type, p.primary, p.nullable)

AreGroups(groups) ==
    /\ groups \in Seq(Range(groups))
    /\ \A i \in DOMAIN groups : groups[i] # Null => IsGroup(groups[i])

IsList(list) == list = AdjacentList(list.type, list.file_type, list.prefix)

AreLists(lists) ==
    /\ lists \in Seq(Range(lists))
    /\ \A i \in DOMAIN lists : lists[i] # Null => IsList(lists[i])

------------------------------------------------------------------------------
(* Lookups.  The constructors fill maps from names to indices: of two       *)
(* properties with one name the first counts, of two adjacency lists,       *)
(* vertex infos or edge infos with one key the last.                        *)

NamesOf(group) == {group.props[i].name : i \in DOMAIN group.props}

FirstOfGroups(info, name) ==                         \* fault model: first property only
    {i \in DOMAIN info.groups : info.groups[i] # Null /\ name = info.groups[i].props[1].name}
GroupsWith(info, name) ==
    {i \in DOMAIN info.groups : info.groups[i] # Null /\ name \in NamesOf(info.groups[i])}

HasProperty(info, name) == GroupsWith(info, name) # {}

GetPropertyGroup(info, name) ==
    IF HasProperty(info, name) THEN info.groups[Min(GroupsWith(info, name))] ELSE Null

\* The property that GetPropertyType, IsPrimaryKey and IsNullableKey answer from.
PropertyOf(info, name) ==
    LET props == GetPropertyGroup(info, name).props
    IN  props[Min({i \in DOMAIN props : props[i].name = name})]

ListsOf(edge, type) ==
    {i \in DOMAIN edge.lists : edge.lists[i] # Null /\ edge.lists[i].type = type}

HasAdjacentListType(edge, type) == ListsOf(edge, type) # {}

GetAdjacentList(edge, type) ==
    IF HasAdjacentListType(edge, type) THEN edge.lists[Max(ListsOf(edge, type))] ELSE Null

VerticesOf(graph, type) ==
    {i \in DOMAIN graph.vertices : graph.vertices[i] # Null /\ graph.vertices[i].type = type}

GetVertexInfo(graph, type) ==
    IF VerticesOf(graph, type) # {} THEN graph.vertices[Max(VerticesOf(graph, type))] ELSE Null

EdgesOf(graph, triple) ==
    {i \in DOMAIN graph.edges :
        /\ graph.edges[i] # Null
        /\ ConcatEdgeTriple(graph.edges[i].triple) = ConcatEdgeTriple(triple)}

GetEdgeInfo(graph, triple) ==
    IF EdgesOf(graph, triple) # {} THEN graph.edges[Max(EdgesOf(graph, triple))] ELSE Null

------------------------------------------------------------------------------
(* IsValidated.                                                             *)

GroupValidated(group) ==
    /\ group # Null /\ group.prefix # <<>> /\ group.file_type \in FileTypes
    /\ group.props # <<>>
    /\ \A i \in DOMAIN group.props :
          /\ group.props[i].name # <<>> /\ group.props[i].type # Null
          /\ ~(group.props[i].type \in ListTypes /\ group.file_type = "csv")
    /\ \A i, j \in DOMAIN group.props : i # j => group.props[i].name # group.props[j].name

\* Every group is valid and no name occurs in two of them.
GroupsValidated(groups) ==
    /\ \A i \in DOMAIN groups : GroupValidated(groups[i])
    /\ \A i, j \in DOMAIN groups : i # j => NamesOf(groups[i]) \cap NamesOf(groups[j]) = {}

ListValidated(list) ==
    /\ list # Null /\ list.type \in AdjListTypes /\ list.prefix # <<>>
    /\ list.file_type \in FileTypes

VertexValidated(vertex) ==
    /\ vertex # Null
    /\ vertex.type # <<>> /\ vertex.chunk_size > 0 /\ vertex.prefix # <<>>
    /\ GroupsValidated(vertex.groups)

EdgeValidated(edge) ==
    /\ edge # Null
    /\ \A k \in 1 .. 3 : edge.triple[k] # <<>> /\ edge.sizes[k] > 0
    /\ edge.prefix # <<>> /\ edge.lists # <<>>
    /\ \A i \in DOMAIN edge.lists : ListValidated(edge.lists[i])
    /\ GroupsValidated(edge.groups)
    /\ \A i, j \in DOMAIN edge.lists : i # j => edge.lists[i].type # edge.lists[j].type

GraphValidated(graph) ==
    /\ graph # Null /\ graph.name # <<>> /\ graph.prefix # <<>>
    /\ \A i \in DOMAIN graph.vertices : VertexValidated(graph.vertices[i])
    /\ \A i \in DOMAIN graph.edges : EdgeValidated(graph.edges[i])
    /\ \A i, j \in DOMAIN graph.vertices :
          i # j => graph.vertices[i].type # graph.vertices[j].type
    /\ \A i, j \in DOMAIN graph.edges :
          i # j => ConcatEdgeTriple(graph.edges[i].triple) # ConcatEdgeTriple(graph.edges[j].triple)

------------------------------------------------------------------------------
(* The operations that make a larger info, Null when they return Invalid.   *)

\* VertexInfo::AddPropertyGroup, EdgeInfo::AddPropertyGroup.
AddUnchecked(info, group) ==                         \* fault model: names not compared
    IF group = Null THEN Null ELSE [info EXCEPT !.groups = Append(@, group)]

AddPropertyGroup(info, group) ==
    IF group = Null \/ \E i \in DOMAIN group.props : HasProperty(info, group.props[i].name)
      THEN Null ELSE [info EXCEPT !.groups = Append(@, group)]

AddAdjacentList(edge, list) ==
    IF list = Null \/ HasAdjacentListType(edge, list.type)
      THEN Null ELSE [edge EXCEPT !.lists = Append(@, list)]

\* The new graph has no extra info.
AddVertex(graph, vertex) ==
    IF vertex = Null \/ VerticesOf(graph, vertex.type) # {}
      THEN Null ELSE [graph EXCEPT !.vertices = Append(@, vertex), !.extra = {}]

AddEdge(graph, edge) ==
    IF edge = Null \/ EdgesOf(graph, edge.triple) # {}
      THEN Null ELSE [graph EXCEPT !.edges = Append(@, edge), !.extra = {}]

------------------------------------------------------------------------------
(* Paths of data files: directory names, then the numbered file.            *)

\* VertexInfo::GetVerticesNumFilePath, GetFilePath and the label chunks.
VertexCountPath(vertex) == <<vertex.prefix, <<"vertex_count">>>>
VertexChunkPath(vertex, i, chunk) ==
    <<vertex.prefix \o vertex.groups[i].prefix, <<"chunk", chunk>>>>
LabelChunkPath(vertex, chunk) == <<vertex.prefix \o <<<<"labels">>>>, <<"chunk", chunk>>>>

VertexPaths(vertex, chunks) ==
    [f \in {<<"count">>} \cup ({"group"} \X (DOMAIN vertex.groups) \X chunks)
           \cup (IF vertex.labels = <<>> THEN {} ELSE {"labels"} \X chunks) |->
        CASE f[1] = "count"  -> VertexCountPath(vertex)
          [] f[1] = "group"  -> VertexChunkPath(vertex, f[2], f[3])
          [] f[1] = "labels" -> LabelChunkPath(vertex, f[2])]

\* EdgeInfo::GetVerticesNumFilePath, GetEdgesNumFilePath, GetAdjListFilePath,
\* GetAdjListOffsetFilePath and GetPropertyFilePath, for adjacency list l.
ListDirectory(edge, l) == edge.prefix \o edge.lists[l].prefix
EdgeChunk(part, chunk) == <<"part", part, chunk>>

SharedPropertyPath(edge, l, i, part, chunk) ==       \* fault model: list forgotten
    <<edge.prefix \o edge.groups[i].prefix, EdgeChunk(part, chunk)>>
PropertyPath(edge, l, i, part, chunk) ==
    <<ListDirectory(edge, l) \o edge.groups[i].prefix, EdgeChunk(part, chunk)>>

EdgePaths(edge, chunks) ==
    LET l(f) == f[2]
    IN  [f \in ({"count"} \X (DOMAIN edge.lists))
               \cup ({"edge_count", "offset"} \X (DOMAIN edge.lists) \X chunks)
               \cup ({"adj_list"} \X (DOMAIN edge.lists) \X chunks \X chunks)
               \cup ({"group"} \X (DOMAIN edge.lists) \X chunks \X chunks \X (DOMAIN edge.groups)) |->
            CASE f[1] = "count"      -> <<ListDirectory(edge, l(f)), <<"vertex_count">>>>
              [] f[1] = "edge_count" -> <<ListDirectory(edge, l(f)), <<"edge_count", f[3]>>>>
              [] f[1] = "offset"     -> <<ListDirectory(edge, l(f)) \o <<<<"offset">>>>,
                                          <<"chunk", f[3]>>>>
              [] f[1] = "adj_list"   -> <<ListDirectory(edge, l(f)) \o <<<<"adj", "list">>>>,
                                          EdgeChunk(f[3], f[4])>>
              [] f[1] = "group"      -> PropertyPath(edge, l(f), f[5], f[3], f[4])]

------------------------------------------------------------------------------
(* Dump and Load.  A node holds what Dump writes; Load runs the             *)
(* constructors on it.                                                      *)

DumpGroup(group) ==
    [prefix |-> group.prefix, file_type |-> group.file_type,
     properties |-> [i \in DOMAIN group.props |->
        [name |-> group.props[i].name, data_type |-> group.props[i].type,
         is_primary |-> group.props[i].primary, is_nullable |-> group.props[i].nullable]]]

LoadGroup(node) ==
    PropertyGroup(
        [i \in DOMAIN node.properties |->
            Property(node.properties[i].name, node.properties[i].data_type,
                     node.properties[i].is_primary, node.properties[i].is_nullable)],
        node.file_type, node.prefix)

DumpGroups(groups) == [i \in DOMAIN groups |-> DumpGroup(groups[i])]
LoadGroups(nodes) == [i \in DOMAIN nodes |-> LoadGroup(nodes[i])]

\* Load throws on a type name it does not know.
GroupsParse(nodes) ==
    \A i \in DOMAIN nodes : \A j \in DOMAIN nodes[i].properties :
        nodes[i].properties[j].data_type \in ParsedTypes

DumpUnlabelled(vertex) ==                            \* fault model: labels not written
    [type |-> vertex.type, chunk_size |-> vertex.chunk_size, prefix |-> vertex.prefix,
     labels |-> <<>>, property_groups |-> DumpGroups(vertex.groups),
     version |-> vertex.version]
DumpVertex(vertex) ==
    [type |-> vertex.type, chunk_size |-> vertex.chunk_size, prefix |-> vertex.prefix,
     labels |-> vertex.labels, property_groups |-> DumpGroups(vertex.groups),
     version |-> vertex.version]

LoadVertex(node) ==
    VertexInfo(node.type, node.chunk_size, LoadGroups(node.property_groups), node.labels,
               node.prefix, node.version)

\* An adjacency list is written as a flag and the name of an endpoint.
OrderedAligned(type) ==
    CASE type = "unordered_by_source" -> <<FALSE, "src">>
      [] type = "ordered_by_source"   -> <<TRUE, "src">>
      [] type = "ordered_by_dest"     -> <<TRUE, "dst">>
      [] OTHER                        -> <<FALSE, "dst">>

AdjListTypeOf(ordered, aligned) ==
    CASE ordered /\ aligned = "src"  -> "ordered_by_source"
      [] ordered /\ aligned # "src"  -> "ordered_by_dest"
      [] ~ordered /\ aligned = "src" -> "unordered_by_source"
      [] OTHER                       -> "unordered_by_dest"

DumpList(list) ==
    [ordered |-> OrderedAligned(list.type)[1], aligned_by |-> OrderedAligned(list.type)[2],
     prefix |-> list.prefix, file_type |-> list.file_type]

LoadList(node) ==
    AdjacentList(AdjListTypeOf(node.ordered, node.aligned_by), node.file_type, node.prefix)

DumpEdge(edge) ==
    [triple |-> edge.triple, sizes |-> edge.sizes, directed |-> edge.directed,
     prefix |-> edge.prefix, adj_lists |-> [i \in DOMAIN edge.lists |-> DumpList(edge.lists[i])],
     property_groups |-> DumpGroups(edge.groups), version |-> edge.version]

LoadEdge(node) ==
    EdgeInfo(node.triple, node.sizes, node.directed,
             [i \in DOMAIN node.adj_lists |-> LoadList(node.adj_lists[i])],
             LoadGroups(node.property_groups), node.prefix, node.version)

\* The names under which a graph expects the files of its parts.
VertexFile(vertex) == <<"vertex", vertex.type>>
EdgeFileByType(edge) == <<"edge", edge.triple[2]>>   \* fault model: endpoints left out
EdgeFile(edge) == <<"edge", ConcatEdgeTriple(edge.triple)>>

\* A graph file names the files of its parts.
DumpGraph(graph) ==
    [name |-> graph.name, prefix |-> graph.prefix, labels |-> graph.labels,
     version |-> graph.version, extra_info |-> graph.extra,
     vertices |-> [i \in DOMAIN graph.vertices |-> VertexFile(graph.vertices[i])],
     edges |-> [i \in DOMAIN graph.edges |-> EdgeFile(graph.edges[i])]]

\* ConstructGraphInfo, from the files in store.
LoadGraph(node, store) ==
    GraphInfo(node.name,
              [i \in DOMAIN node.vertices |-> LoadVertex(store[node.vertices[i]])],
              [i \in DOMAIN node.edges |-> LoadEdge(store[node.edges[i]])],
              node.labels, node.prefix, node.version, node.extra_info)

PartsOf(node) == Range(node.vertices) \cup Range(node.edges)
==============================================================================
