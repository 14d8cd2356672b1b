--------------------------- MODULE InfoStore_proofs ---------------------------
(****************************************************************************)
(* Theorems about InfoStore, for all arguments of the constructors and any  *)
(* number of calls: what is built, saved and loaded is typed, stays valid   *)
(* and is found under its names, and of a plain graph no two files share a  *)
(* path and every reader and writer goes to the files of its part.          *)
(****************************************************************************)
EXTENDS InfoAccess, BasicFacts

------------------------------------------------------------------------------
(* Parts: what Load makes of what Dump wrote.                               *)

\* LoadGroup undoes DumpGroup, also on a group that is not valid.
LEMMA GroupAgain ==
    ASSUME NEW group, IsGroup(group)
    PROVE  LoadGroup(DumpGroup(group)) = group
<1>. DEFINE props == group.props
            read  == [i \in DOMAIN props |->
                        Property(props[i].name, props[i].type, props[i].primary,
                                 props[i].nullable)]
<1>1. props = [i \in DOMAIN props |-> props[i]]
  BY SequenceShape DEF IsGroup, IsSequence
<1>2. read = props
  BY <1>1 DEF IsGroup
<1>3. LoadGroup(DumpGroup(group)) = PropertyGroup(read, group.file_type, group.prefix)
  BY DEF LoadGroup, DumpGroup
<1>. QED BY <1>2, <1>3 DEF IsGroup

\* A list of groups, none of them null, is read back as it was.
LEMMA GroupsAgain ==
    ASSUME NEW groups, AreGroups(groups), \A i \in DOMAIN groups : groups[i] # Null
    PROVE  LoadGroups(DumpGroups(groups)) = groups
<1>1. groups = [i \in DOMAIN groups |-> groups[i]]
  BY SequenceShape DEF AreGroups, IsSequence
<1>2. \A i \in DOMAIN groups : LoadGroup(DumpGroup(groups[i])) = groups[i]
  BY GroupAgain DEF AreGroups
<1>3. LoadGroups(DumpGroups(groups))
          = [i \in DOMAIN groups |-> LoadGroup(DumpGroup(groups[i]))]
  BY DEF LoadGroups, DumpGroups
<1>. QED BY <1>1, <1>2, <1>3

\* The flag and the endpoint name the type of an adjacency list again.
LEMMA ListAgain ==
    ASSUME NEW list, IsList(list), list.type \in AdjListTypes
    PROVE  LoadList(DumpList(list)) = list
<1>1. AdjListTypeOf(OrderedAligned(list.type)[1], OrderedAligned(list.type)[2]) = list.type
  BY DEF AdjListTypes, OrderedAligned, AdjListTypeOf
<1>2. LoadList(DumpList(list)) = AdjacentList(list.type, list.file_type, list.prefix)
  BY <1>1 DEF LoadList, DumpList
<1>. QED BY <1>2 DEF IsList

\* So are the adjacency lists of an edge info.
LEMMA ListsAgain ==
    ASSUME NEW lists, AreLists(lists), \A i \in DOMAIN lists : ListValidated(lists[i])
    PROVE  [i \in DOMAIN lists |-> LoadList(DumpList(lists[i]))] = lists
<1>1. lists = [i \in DOMAIN lists |-> lists[i]]
  BY SequenceShape DEF AreLists, IsSequence
<1>2. \A i \in DOMAIN lists : LoadList(DumpList(lists[i])) = lists[i]
  BY ListAgain DEF AreLists, ListValidated
<1>. QED BY <1>1, <1>2

------------------------------------------------------------------------------
(* Infos.                                                                   *)

IsVertex(v) ==
    /\ v = VertexInfo(v.type, v.chunk_size, v.groups, v.labels, v.prefix, v.version)
    /\ AreGroups(v.groups)
    /\ VertexFile(v) \in VertexFiles

IsEdge(e) ==
    /\ e = EdgeInfo(e.triple, e.sizes, e.directed, e.lists, e.groups, e.prefix, e.version)
    /\ AreGroups(e.groups) /\ AreLists(e.lists)
    /\ EdgeFile(e) \in EdgeFiles

IsGraph(g) ==
    /\ g = GraphInfo(g.name, g.vertices, g.edges, g.labels, g.prefix, g.version, g.extra)
    /\ IsSequence(g.vertices) /\ IsSequence(g.edges)
    /\ \A i \in DOMAIN g.vertices : g.vertices[i] # Null => IsVertex(g.vertices[i])
    /\ \A i \in DOMAIN g.edges : g.edges[i] # Null => IsEdge(g.edges[i])

\* LoadVertex undoes DumpVertex on what Save accepts.
LEMMA VertexAgain ==
    ASSUME NEW v, IsVertex(v), VertexValidated(v)
    PROVE  LoadVertex(DumpVertex(v)) = v
<1>1. \A i \in DOMAIN v.groups : v.groups[i] # Null
  BY DEF VertexValidated, GroupsValidated, GroupValidated
<1>2. LoadGroups(DumpGroups(v.groups)) = v.groups
  BY <1>1, GroupsAgain DEF IsVertex
<1>3. LoadVertex(DumpVertex(v))
          = VertexInfo(v.type, v.chunk_size, v.groups, v.labels, v.prefix, v.version)
  BY <1>2 DEF LoadVertex, DumpVertex
<1>. QED BY <1>3 DEF IsVertex

\* LoadEdge undoes DumpEdge on what Save accepts.
LEMMA EdgeAgain ==
    ASSUME NEW e, IsEdge(e), EdgeValidated(e)
    PROVE  LoadEdge(DumpEdge(e)) = e
<1>1. \A i \in DOMAIN e.groups : e.groups[i] # Null
  BY DEF EdgeValidated, GroupsValidated, GroupValidated
<1>2. LoadGroups(DumpGroups(e.groups)) = e.groups
  BY <1>1, GroupsAgain DEF IsEdge
<1>3. [i \in DOMAIN e.lists |-> LoadList(DumpList(e.lists[i]))] = e.lists
  BY ListsAgain DEF IsEdge, EdgeValidated
<1>4. LoadEdge(DumpEdge(e))
          = EdgeInfo(e.triple, e.sizes, e.directed, e.lists, e.groups, e.prefix, e.version)
  BY <1>2, <1>3 DEF LoadEdge, DumpEdge
<1>. QED BY <1>4 DEF IsEdge

\* A valid group that brings new names keeps the groups valid.
LEMMA GroupsGrow ==
    ASSUME NEW info, AreGroups(info.groups), GroupsValidated(info.groups),
           NEW group, GroupValidated(group), AddPropertyGroup(info, group) # Null
    PROVE  GroupsValidated(Append(info.groups, group))
<1>. DEFINE groups == info.groups
            longer == Append(groups, group)
            n == Len(groups) + 1
<1>1. \A i \in DOMAIN group.props : ~HasProperty(info, group.props[i].name)
  BY DEF AddPropertyGroup
<1>2. \A i \in DOMAIN groups : groups[i] # Null
  BY DEF GroupsValidated, GroupValidated
<1>3. \A i \in DOMAIN groups : NamesOf(groups[i]) \cap NamesOf(group) = {}
  BY <1>1, <1>2 DEF HasProperty, GroupsWith, NamesOf
<1>4. /\ DOMAIN longer = (DOMAIN groups) \cup {n} /\ n \notin DOMAIN groups
      /\ \A i \in DOMAIN groups : longer[i] = groups[i]
      /\ longer[n] = group
  BY AppendShape DEF AreGroups, IsSequence
<1>5. \A i \in DOMAIN longer : GroupValidated(longer[i])
  <2>. HIDE DEF longer, n
  <2>. QED BY <1>4 DEF GroupsValidated
<1>6. \A i, j \in DOMAIN longer : i # j => NamesOf(longer[i]) \cap NamesOf(longer[j]) = {}
  <2>. HIDE DEF longer, n
  <2>. QED BY <1>3, <1>4 DEF GroupsValidated
<1>. QED BY <1>5, <1>6 DEF GroupsValidated

\* Appending what the constructors give keeps a list of groups.
LEMMA AreGroupsGrow ==
    ASSUME NEW groups, AreGroups(groups), NEW group, group # Null => IsGroup(group)
    PROVE  AreGroups(Append(groups, group))
<1>. DEFINE longer == Append(groups, group)
<1>1. /\ IsSequence(longer)
      /\ DOMAIN longer = (DOMAIN groups) \cup {Len(groups) + 1}
      /\ \A i \in DOMAIN groups : longer[i] = groups[i]
      /\ longer[Len(groups) + 1] = group
  BY AppendShape DEF AreGroups, IsSequence
<1>2. AreGroups(longer)
  <2>. HIDE DEF longer
  <2>. QED BY <1>1 DEF AreGroups, IsSequence
<1>. QED BY <1>2

\* The same of a list of adjacency lists.
LEMMA AreListsGrow ==
    ASSUME NEW lists, AreLists(lists), NEW list, list # Null => IsList(list)
    PROVE  AreLists(Append(lists, list))
<1>. DEFINE longer == Append(lists, list)
<1>1. /\ IsSequence(longer)
      /\ DOMAIN longer = (DOMAIN lists) \cup {Len(lists) + 1}
      /\ \A i \in DOMAIN lists : longer[i] = lists[i]
      /\ longer[Len(lists) + 1] = list
  BY AppendShape DEF AreLists, IsSequence
<1>2. AreLists(longer)
  <2>. HIDE DEF longer
  <2>. QED BY <1>1 DEF AreLists, IsSequence
<1>. QED BY <1>2

\* A valid list of a new type keeps the edge info valid.
LEMMA ListsGrow ==
    ASSUME NEW edge_, IsEdge(edge_), EdgeValidated(edge_),
           NEW list, ListValidated(list), AddAdjacentList(edge_, list) # Null
    PROVE  EdgeValidated([edge_ EXCEPT !.lists = Append(@, list)])
<1>. DEFINE lists == edge_.lists
            longer == Append(lists, list)
            new == [edge_ EXCEPT !.lists = longer]
            n == Len(lists) + 1
<1>1. ~HasAdjacentListType(edge_, list.type)
  BY DEF AddAdjacentList
<1>2. \A i \in DOMAIN lists : lists[i].type # list.type
  BY <1>1 DEF HasAdjacentListType, ListsOf, EdgeValidated, ListValidated
<1>3. /\ DOMAIN longer = (DOMAIN lists) \cup {n} /\ n \notin DOMAIN lists
      /\ \A i \in DOMAIN lists : longer[i] = lists[i]
      /\ longer[n] = list
  BY AppendShape DEF IsEdge, AreLists, IsSequence
<1>4. longer # <<>>
  <2>. HIDE DEF longer
  <2>. QED BY <1>3
<1>5. /\ new.lists = longer /\ new.triple = edge_.triple /\ new.sizes = edge_.sizes
      /\ new.prefix = edge_.prefix /\ new.groups = edge_.groups
  BY DEF IsEdge, EdgeInfo
<1>6. new # Null
  BY <1>1 DEF AddAdjacentList, ListValidated
<1>7. \A i \in DOMAIN longer : ListValidated(longer[i])
  <2>. HIDE DEF longer, n
  <2>. QED BY <1>3 DEF EdgeValidated
<1>8. \A i, j \in DOMAIN longer : i # j => longer[i].type # longer[j].type
  <2>. HIDE DEF longer, n
  <2>. QED BY <1>2, <1>3 DEF EdgeValidated
<1>. HIDE DEF longer, new
<1>9. EdgeValidated(new)
  BY <1>4, <1>5, <1>6, <1>7, <1>8 DEF EdgeValidated
<1>. QED BY <1>9 DEF new, longer

\* A name is found in the one group that has it.
LEMMA GroupsAreFound ==
    ASSUME NEW info, AreGroups(info.groups), GroupsValidated(info.groups)
    PROVE  GroupsFound(info)
<1>. SUFFICES ASSUME NEW i \in DOMAIN info.groups, NEW name \in NamesOf(info.groups[i])
              PROVE  /\ GetPropertyGroup(info, name) = info.groups[i]
                     /\ PropertyOf(info, name) \in Range(info.groups[i].props)
                     /\ PropertyOf(info, name).name = name
  BY DEF GroupsFound
<1>. DEFINE group == info.groups[i]
<1>0. GroupValidated(group) /\ IsGroup(group) /\ i \in Nat
  BY SequenceShape DEF GroupsValidated, GroupValidated, AreGroups, IsSequence
<1>1. GroupsWith(info, name) = {i}
  BY <1>0 DEF GroupsWith, GroupsValidated, GroupValidated
<1>2. GetPropertyGroup(info, name) = group
  BY <1>0, <1>1, SingletonMinMax DEF GetPropertyGroup, HasProperty
<1>3. PICK j \in DOMAIN group.props : group.props[j].name = name
  BY DEF NamesOf
<1>4. j \in Nat
  BY <1>0, SequenceShape DEF IsGroup, IsSequence
<1>5. {k \in DOMAIN group.props : group.props[k].name = name} = {j}
  BY <1>0, <1>3 DEF GroupValidated
<1>6. PropertyOf(info, name) = group.props[j]
  <2>. HIDE DEF group
  <2>1. PropertyOf(info, name) = group.props[Min({k \in DOMAIN group.props : group.props[k].name = name})]
    BY <1>2 DEF PropertyOf
  <2>. QED BY <2>1, <1>4, <1>5, SingletonMinMax
<1>. QED BY <1>2, <1>3, <1>6 DEF Range

\* An adjacency list is found by its type.
LEMMA ListsAreFound ==
    ASSUME NEW e, AreLists(e.lists), EdgeValidated(e), NEW i \in DOMAIN e.lists
    PROVE  GetAdjacentList(e, e.lists[i].type) = e.lists[i]
<1>1. i \in Nat
  BY SequenceShape DEF AreLists, IsSequence
<1>2. ListsOf(e, e.lists[i].type) = {i}
  BY DEF ListsOf, EdgeValidated, ListValidated
<1>. QED BY <1>1, <1>2, SingletonMinMax DEF GetAdjacentList, HasAdjacentListType

\* A vertex info of a graph is found by its type.
LEMMA VerticesAreFound ==
    ASSUME NEW g, IsGraph(g), GraphValidated(g), NEW v \in Range(g.vertices)
    PROVE  GetVertexInfo(g, v.type) = v
<1>1. PICK i \in DOMAIN g.vertices : v = g.vertices[i]
  BY DEF Range
<1>2. i \in Nat
  BY SequenceShape DEF IsGraph
<1>3. VerticesOf(g, v.type) = {i}
  BY <1>1 DEF VerticesOf, GraphValidated, VertexValidated
<1>. QED BY <1>1, <1>2, <1>3, SingletonMinMax DEF GetVertexInfo

\* An edge info of a graph is found by its three types.
LEMMA EdgesAreFound ==
    ASSUME NEW g, IsGraph(g), GraphValidated(g), NEW e \in Range(g.edges)
    PROVE  GetEdgeInfo(g, e.triple) = e
<1>1. PICK i \in DOMAIN g.edges : e = g.edges[i]
  BY DEF Range
<1>2. i \in Nat
  BY SequenceShape DEF IsGraph
<1>3. EdgesOf(g, e.triple) = {i}
  BY <1>1 DEF EdgesOf, GraphValidated, EdgeValidated
<1>. QED BY <1>1, <1>2, <1>3, SingletonMinMax DEF GetEdgeInfo

------------------------------------------------------------------------------
(* The inductive invariant.                                                 *)

\* What a whole file holds: a part that is valid and has the name of the file, or a
\* graph that names each of its parts once.
VertexFits(file, node) ==
    LET v == LoadVertex(node)
    IN  IsVertex(v) /\ VertexValidated(v) /\ node = DumpVertex(v) /\ file = VertexFile(v)

EdgeFits(file, node) ==
    LET e == LoadEdge(node)
    IN  IsEdge(e) /\ EdgeValidated(e) /\ node = DumpEdge(e) /\ file = EdgeFile(e)

GraphFits(node) ==
    /\ node = [name |-> node.name, prefix |-> node.prefix, labels |-> node.labels,
               version |-> node.version, extra_info |-> node.extra_info,
               vertices |-> node.vertices, edges |-> node.edges]
    /\ node.name # <<>> /\ node.prefix # <<>>
    /\ IsSequence(node.vertices) /\ IsInjective(node.vertices)
    /\ IsSequence(node.edges) /\ IsInjective(node.edges)
    /\ Range(node.vertices) \subseteq VertexFiles /\ Range(node.edges) \subseteq EdgeFiles

Fits(file, node) ==
    /\ file \in VertexFiles => VertexFits(file, node)
    /\ file \in EdgeFiles => EdgeFits(file, node)
    /\ file = GraphFile => GraphFits(node)

Stored(d) ==
    /\ DOMAIN d = Files
    /\ \A file \in Files : d[file] \notin {Missing, Torn} => Fits(file, d[file])

\* The infos the client holds come from the constructors.
Held ==
    /\ vertex # Null => IsVertex(vertex)
    /\ edge # Null => IsEdge(edge)
    /\ graph # Null => IsGraph(graph)

\* The files hold exactly the graph g.
OnDisk(g, d) ==
    /\ d[GraphFile] = DumpGraph(g)
    /\ \A v \in Range(g.vertices) : d[VertexFile(v)] = DumpVertex(v)
    /\ \A e \in Range(g.edges) : d[EdgeFile(e)] = DumpEdge(e)

LoadedFits ==
    loaded.status = "OK" =>
        IsGraph(loaded.graph) /\ GraphValidated(loaded.graph) /\ OnDisk(loaded.graph, disk)

\* A file that is not pending holds the graph or a part of it with this file.
SavedFits ==
    graph # Null =>
        /\ GraphFile \notin pending => GraphValidated(graph) /\ disk[GraphFile] = DumpGraph(graph)
        /\ \A v \in Range(graph.vertices) \ {Null} :
              VertexFile(v) \notin pending =>
                  \E w \in Range(graph.vertices) \ {Null} :
                      VertexFile(w) = VertexFile(v) /\ disk[VertexFile(v)] = DumpVertex(w)
        /\ \A e \in Range(graph.edges) \ {Null} :
              EdgeFile(e) \notin pending =>
                  \E w \in Range(graph.edges) \ {Null} :
                      EdgeFile(w) = EdgeFile(e) /\ disk[EdgeFile(e)] = DumpEdge(w)

Bounded ==
    /\ loaded.status \in {"none", "OK", "IOError", "Damaged", "Throws"}
    /\ sound \subseteq {"vertex", "edge", "graph"}
    /\ pending \subseteq Files
    /\ adds \in 0 .. MaxAdds /\ saves \in 0 .. MaxSaves

Inv == Bounded /\ Held /\ Stored(disk) /\ LoadedFits /\ SavedFits /\ BuiltIsValid /\ LoadedIsSaved

------------------------------------------------------------------------------
(* Files.                                                                   *)

\* A name tells what its file describes.
LEMMA FilesApart ==
    /\ VertexFiles \cap EdgeFiles = {}
    /\ GraphFile \notin VertexFiles /\ GraphFile \notin EdgeFiles
    /\ \A v, w : VertexFile(v) = VertexFile(w) <=> v.type = w.type
    /\ \A e, f : EdgeFile(e) = EdgeFile(f)
                    <=> ConcatEdgeTriple(e.triple) = ConcatEdgeTriple(f.triple)
BY DEF VertexFiles, EdgeFiles, GraphFile, VertexFile, EdgeFile

\* What Save writes fits its file.
LEMMA SavedVertexFits ==
    ASSUME NEW v, IsVertex(v), VertexValidated(v)
    PROVE  VertexFile(v) \in Files /\ Fits(VertexFile(v), DumpVertex(v))
<1>1. VertexFile(v) \in VertexFiles
  BY DEF IsVertex
<1>2. VertexFits(VertexFile(v), DumpVertex(v))
  BY VertexAgain DEF VertexFits
<1>. QED BY <1>1, <1>2, FilesApart DEF Files, Fits

\* The same of an edge info.
LEMMA SavedEdgeFits ==
    ASSUME NEW e, IsEdge(e), EdgeValidated(e)
    PROVE  EdgeFile(e) \in Files /\ Fits(EdgeFile(e), DumpEdge(e))
<1>1. EdgeFile(e) \in EdgeFiles
  BY DEF IsEdge
<1>2. EdgeFits(EdgeFile(e), DumpEdge(e))
  BY EdgeAgain DEF EdgeFits
<1>. QED BY <1>1, <1>2, FilesApart DEF Files, Fits

\* The same of a graph info: since no two of its parts have one type, no two files
\* that it names are the same.
LEMMA SavedGraphFits ==
    ASSUME NEW g, IsGraph(g), GraphValidated(g)
    PROVE  GraphFile \in Files /\ Fits(GraphFile, DumpGraph(g))
<1>. DEFINE node == DumpGraph(g)
            vs == [i \in DOMAIN g.vertices |-> VertexFile(g.vertices[i])]
            es == [i \in DOMAIN g.edges |-> EdgeFile(g.edges[i])]
<1>1. /\ node.name = g.name /\ node.prefix = g.prefix
      /\ node.vertices = vs /\ node.edges = es
      /\ node = [name |-> node.name, prefix |-> node.prefix, labels |-> node.labels,
                 version |-> node.version, extra_info |-> node.extra_info,
                 vertices |-> node.vertices, edges |-> node.edges]
  BY DEF DumpGraph
<1>2. IsSequence(vs) /\ DOMAIN vs = DOMAIN g.vertices
  BY SameDomain DEF IsGraph
<1>3. IsSequence(es) /\ DOMAIN es = DOMAIN g.edges
  BY SameDomain DEF IsGraph
<1>4. IsInjective(vs)
  BY FilesApart DEF IsInjective, GraphValidated
<1>5. IsInjective(es)
  BY FilesApart DEF IsInjective, GraphValidated
<1>6. Range(vs) \subseteq VertexFiles
  BY DEF Range, IsGraph, IsVertex, GraphValidated, VertexValidated
<1>7. Range(es) \subseteq EdgeFiles
  BY DEF Range, IsGraph, IsEdge, GraphValidated, EdgeValidated
<1>8. GraphFits(node)
  <2>. HIDE DEF node, vs, es
  <2>. QED BY <1>1, <1>2, <1>3, <1>4, <1>5, <1>6, <1>7 DEF GraphFits, GraphValidated
<1>. QED BY <1>8, FilesApart DEF Files, Fits

\* A file that is written, or cut short, leaves every other file as it was.
LEMMA Overwritten ==
    ASSUME NEW d, Stored(d), NEW file \in Files, NEW node, node = Torn \/ Fits(file, node)
    PROVE  Stored([d EXCEPT ![file] = node])
BY DEF Stored

\* A graph is loaded if no part of it fails to.
LEMMA AllPartsLoad ==
    ASSUME NEW node, node = disk[GraphFile], GraphFits(node), LoadStatus = "OK"
    PROVE  \A file \in PartsOf(node) : PartStatus(file) = "OK"
<1>. DEFINE parts == node.vertices \o node.edges
            bad == {i \in DOMAIN parts : PartStatus(parts[i]) # "OK"}
<1>1. /\ Len(parts) \in Nat /\ DOMAIN parts = 1 .. Len(parts)
      /\ Range(parts) = PartsOf(node)
  BY JoinShape DEF GraphFits, PartsOf
<1>2. node \notin {Missing, Torn}
  BY DEF LoadStatus
<1>3. LoadStatus = IF bad = {} THEN "OK" ELSE PartStatus(parts[Min(bad)])
  BY <1>2 DEF LoadStatus
<1>4. bad = {}
  <2>1. SUFFICES ASSUME bad # {} PROVE FALSE
    OBVIOUS
  <2>2. bad \subseteq Nat
    <3>. HIDE DEF parts
    <3>. QED BY <1>1
  <2>3. Min(bad) \in bad
    <3>. HIDE DEF bad
    <3>. QED BY <2>1, <2>2, MinElement
  <2>. QED BY <1>3, <2>1, <2>3
<1>. QED BY <1>1, <1>4 DEF Range

------------------------------------------------------------------------------
(* Load.  A constant may have any value, so the theorems about loading say  *)
(* what the code's types say: a null pointer is no graph info, and a file   *)
(* that is missing or cut short holds no node that Dump writes.             *)

NullIsNoGraph ==
    \A name, vertices, edges, labels, prefix, version, extra :
        GraphInfo(name, vertices, edges, labels, prefix, version, extra) # Null

MarksAreNoNodes ==
    \A info : {DumpVertex(info), DumpEdge(info), DumpGraph(info)} \cap {Missing, Torn} = {}

\* Whatever files there are, a graph that is loaded is valid and they hold it.
LEMMA LoadGivesGraph ==
    ASSUME NullIsNoGraph, Stored(disk), LoadStatus = "OK",
           NEW g, g = LoadGraph(disk[GraphFile], disk)
    PROVE  IsGraph(g) /\ GraphValidated(g) /\ OnDisk(g, disk)
<1>. DEFINE node == disk[GraphFile]
<1>0. node \notin {Missing, Torn} /\ GraphFits(node)
  BY FilesApart DEF LoadStatus, Stored, Files, Fits
<1>1. \A file \in PartsOf(node) : PartStatus(file) = "OK"
  BY <1>0, AllPartsLoad
<1>2. \A file \in PartsOf(node) : disk[file] \notin {Missing, Torn}
  BY <1>1 DEF PartStatus
<1>3. /\ g.name = node.name /\ g.prefix = node.prefix /\ g.labels = node.labels
      /\ g.version = node.version /\ g.extra = node.extra_info
      /\ g.vertices = [i \in DOMAIN node.vertices |-> LoadVertex(disk[node.vertices[i]])]
      /\ g.edges = [i \in DOMAIN node.edges |-> LoadEdge(disk[node.edges[i]])]
      /\ g = GraphInfo(g.name, g.vertices, g.edges, g.labels, g.prefix, g.version, g.extra)
      /\ g # Null
  BY DEF LoadGraph, GraphInfo, NullIsNoGraph
<1>4. /\ IsSequence(node.vertices) /\ IsInjective(node.vertices)
      /\ IsSequence(node.edges) /\ IsInjective(node.edges)
  BY <1>0 DEF GraphFits
<1>5. /\ IsSequence(g.vertices) /\ DOMAIN g.vertices = DOMAIN node.vertices
      /\ IsSequence(g.edges) /\ DOMAIN g.edges = DOMAIN node.edges
  <2>1. IsSequence(g.vertices) /\ DOMAIN g.vertices = DOMAIN node.vertices
    BY <1>3, <1>4, SameDomain
  <2>2. IsSequence(g.edges) /\ DOMAIN g.edges = DOMAIN node.edges
    BY <1>3, <1>4, SameDomain
  <2>. QED BY <2>1, <2>2
<1>6. \A i \in DOMAIN g.vertices : VertexFits(node.vertices[i], disk[node.vertices[i]])
  <2>. SUFFICES ASSUME NEW i \in DOMAIN g.vertices
                PROVE  VertexFits(node.vertices[i], disk[node.vertices[i]])
    OBVIOUS
  <2>1. node.vertices[i] \in VertexFiles /\ node.vertices[i] \in PartsOf(node)
    BY <1>0, <1>5 DEF GraphFits, PartsOf, Range
  <2>. QED BY <2>1, <1>2 DEF Stored, Files, Fits
<1>7. \A i \in DOMAIN g.edges : EdgeFits(node.edges[i], disk[node.edges[i]])
  <2>. SUFFICES ASSUME NEW i \in DOMAIN g.edges
                PROVE  EdgeFits(node.edges[i], disk[node.edges[i]])
    OBVIOUS
  <2>1. node.edges[i] \in EdgeFiles /\ node.edges[i] \in PartsOf(node)
    BY <1>0, <1>5 DEF GraphFits, PartsOf, Range
  <2>. QED BY <2>1, <1>2 DEF Stored, Files, Fits
<1>. HIDE DEF node
<1>8. \A i \in DOMAIN g.vertices :
        /\ IsVertex(g.vertices[i]) /\ VertexValidated(g.vertices[i])
        /\ node.vertices[i] = VertexFile(g.vertices[i])
        /\ disk[node.vertices[i]] = DumpVertex(g.vertices[i])
  BY <1>3, <1>5, <1>6 DEF VertexFits
<1>9. \A i \in DOMAIN g.edges :
        /\ IsEdge(g.edges[i]) /\ EdgeValidated(g.edges[i])
        /\ node.edges[i] = EdgeFile(g.edges[i])
        /\ disk[node.edges[i]] = DumpEdge(g.edges[i])
  BY <1>3, <1>5, <1>7 DEF EdgeFits
<1>10. IsGraph(g)
  BY <1>3, <1>5, <1>8, <1>9 DEF IsGraph
<1>11. \A i, j \in DOMAIN g.vertices : i # j => g.vertices[i].type # g.vertices[j].type
  BY <1>4, <1>5, <1>8, FilesApart DEF IsInjective
<1>12. \A i, j \in DOMAIN g.edges :
         i # j => ConcatEdgeTriple(g.edges[i].triple) # ConcatEdgeTriple(g.edges[j].triple)
  BY <1>4, <1>5, <1>9, FilesApart DEF IsInjective
<1>13. g.name # <<>> /\ g.prefix # <<>>
  BY <1>0, <1>3 DEF GraphFits
<1>14. GraphValidated(g)
  BY <1>3, <1>8, <1>9, <1>11, <1>12, <1>13 DEF GraphValidated
<1>15. DumpGraph(g) = node
  <2>1. [i \in DOMAIN g.vertices |-> VertexFile(g.vertices[i])] = node.vertices
    <3>1. node.vertices = [i \in DOMAIN node.vertices |-> node.vertices[i]]
      BY <1>4, SequenceShape
    <3>. QED BY <3>1, <1>5, <1>8
  <2>2. [i \in DOMAIN g.edges |-> EdgeFile(g.edges[i])] = node.edges
    <3>1. node.edges = [i \in DOMAIN node.edges |-> node.edges[i]]
      BY <1>4, SequenceShape
    <3>. QED BY <3>1, <1>5, <1>9
  <2>. QED BY <1>0, <1>3, <2>1, <2>2 DEF DumpGraph, GraphFits
<1>16. \A v \in Range(g.vertices) : disk[VertexFile(v)] = DumpVertex(v)
  BY <1>8 DEF Range
<1>17. \A e \in Range(g.edges) : disk[EdgeFile(e)] = DumpEdge(e)
  BY <1>9 DEF Range
<1>. QED BY <1>10, <1>14, <1>15, <1>16, <1>17 DEF OnDisk, node

\* Files that hold a graph give it back, or Load throws on a type it cannot read.
LEMMA LoadGivesSaved ==
    ASSUME MarksAreNoNodes, NEW g, IsGraph(g), GraphValidated(g), OnDisk(g, disk)
    PROVE  IF TypesParse(g) THEN LoadStatus = "OK" /\ LoadGraph(disk[GraphFile], disk) = g
                            ELSE LoadStatus = "Throws"
<1>. DEFINE node  == disk[GraphFile]
            parts == node.vertices \o node.edges
            bad   == {i \in DOMAIN parts : PartStatus(parts[i]) # "OK"}
<1>1. /\ node \notin {Missing, Torn}
      /\ node.name = g.name /\ node.prefix = g.prefix /\ node.labels = g.labels
      /\ node.version = g.version /\ node.extra_info = g.extra
      /\ node.vertices = [i \in DOMAIN g.vertices |-> VertexFile(g.vertices[i])]
      /\ node.edges = [i \in DOMAIN g.edges |-> EdgeFile(g.edges[i])]
  <2>1. node = DumpGraph(g)
    BY DEF OnDisk
  <2>2. DumpGraph(g) \notin {Missing, Torn}
    BY DEF MarksAreNoNodes
  <2>3. node \notin {Missing, Torn}
    BY <2>1, <2>2
  <2>. QED BY <2>1, <2>3 DEF DumpGraph
<1>2. /\ IsSequence(node.vertices) /\ IsSequence(node.edges)
      /\ DOMAIN node.vertices = DOMAIN g.vertices /\ DOMAIN node.edges = DOMAIN g.edges
  <2>. HIDE DEF node
  <2>. QED BY <1>1, SameDomain DEF IsGraph
<1>3. /\ Len(parts) \in Nat /\ DOMAIN parts = 1 .. Len(parts)
      /\ Range(parts) = Range(node.vertices) \cup Range(node.edges)
  BY <1>2, JoinShape
<1>. HIDE DEF node, parts
<1>4. LoadStatus = IF bad = {} THEN "OK" ELSE PartStatus(parts[Min(bad)])
  BY <1>1 DEF LoadStatus, node, parts
<1>5. \A v \in Range(g.vertices) :
        PartStatus(VertexFile(v)) = IF GroupsParse(DumpGroups(v.groups)) THEN "OK" ELSE "Throws"
  <2>. SUFFICES ASSUME NEW v \in Range(g.vertices)
                PROVE  PartStatus(VertexFile(v))
                           = IF GroupsParse(DumpGroups(v.groups)) THEN "OK" ELSE "Throws"
    OBVIOUS
  <2>1. disk[VertexFile(v)] = DumpVertex(v) /\ DumpVertex(v) \notin {Missing, Torn}
    BY DEF OnDisk, MarksAreNoNodes
  <2>2. DumpVertex(v).property_groups = DumpGroups(v.groups)
    BY DEF DumpVertex
  <2>. QED BY <2>1, <2>2 DEF PartStatus
<1>6. \A e \in Range(g.edges) :
        PartStatus(EdgeFile(e)) = IF GroupsParse(DumpGroups(e.groups)) THEN "OK" ELSE "Throws"
  <2>. SUFFICES ASSUME NEW e \in Range(g.edges)
                PROVE  PartStatus(EdgeFile(e))
                           = IF GroupsParse(DumpGroups(e.groups)) THEN "OK" ELSE "Throws"
    OBVIOUS
  <2>1. disk[EdgeFile(e)] = DumpEdge(e) /\ DumpEdge(e) \notin {Missing, Torn}
    BY DEF OnDisk, MarksAreNoNodes
  <2>2. DumpEdge(e).property_groups = DumpGroups(e.groups)
    BY DEF DumpEdge
  <2>. QED BY <2>1, <2>2 DEF PartStatus
<1>7. /\ Range(node.vertices) = {VertexFile(v) : v \in Range(g.vertices)}
      /\ Range(node.edges) = {EdgeFile(e) : e \in Range(g.edges)}
  BY <1>1, <1>2 DEF Range
<1>8. \A i \in DOMAIN parts : PartStatus(parts[i]) \in {"OK", "Throws"}
  <2>1. \A file \in Range(parts) : PartStatus(file) \in {"OK", "Throws"}
    BY <1>3, <1>5, <1>6, <1>7
  <2>. QED BY <2>1 DEF Range
<1>9. bad = {} <=> TypesParse(g)
  <2>1. bad = {} <=> \A file \in Range(parts) : PartStatus(file) = "OK"
    BY DEF Range
  <2>2. TypesParse(g) <=> /\ \A v \in Range(g.vertices) : GroupsParse(DumpGroups(v.groups))
                          /\ \A e \in Range(g.edges) : GroupsParse(DumpGroups(e.groups))
    BY DEF TypesParse
  <2>. HIDE DEF bad
  <2>. QED BY <2>1, <2>2, <1>3, <1>5, <1>6, <1>7
<1>10. CASE TypesParse(g)
  <2>1. \A i \in DOMAIN g.vertices : LoadVertex(disk[node.vertices[i]]) = g.vertices[i]
    <3>. SUFFICES ASSUME NEW i \in DOMAIN g.vertices
                  PROVE  LoadVertex(disk[node.vertices[i]]) = g.vertices[i]
      OBVIOUS
    <3>1. IsVertex(g.vertices[i]) /\ VertexValidated(g.vertices[i])
      BY DEF IsGraph, GraphValidated, VertexValidated
    <3>2. disk[node.vertices[i]] = DumpVertex(g.vertices[i])
      BY <1>1 DEF OnDisk, Range
    <3>. QED BY <3>1, <3>2, VertexAgain
  <2>2. \A i \in DOMAIN g.edges : LoadEdge(disk[node.edges[i]]) = g.edges[i]
    <3>. SUFFICES ASSUME NEW i \in DOMAIN g.edges
                  PROVE  LoadEdge(disk[node.edges[i]]) = g.edges[i]
      OBVIOUS
    <3>1. IsEdge(g.edges[i]) /\ EdgeValidated(g.edges[i])
      BY DEF IsGraph, GraphValidated, EdgeValidated
    <3>2. disk[node.edges[i]] = DumpEdge(g.edges[i])
      BY <1>1 DEF OnDisk, Range
    <3>. QED BY <3>1, <3>2, EdgeAgain
  <2>3. g.vertices = [i \in DOMAIN g.vertices |-> g.vertices[i]]
    BY SequenceShape DEF IsGraph
  <2>4. g.edges = [i \in DOMAIN g.edges |-> g.edges[i]]
    BY SequenceShape DEF IsGraph
  <2>5. LoadGraph(node, disk)
            = GraphInfo(g.name, g.vertices, g.edges, g.labels, g.prefix, g.version, g.extra)
    BY <1>1, <1>2, <2>1, <2>2, <2>3, <2>4 DEF LoadGraph
  <2>6. LoadGraph(node, disk) = g
    BY <2>5 DEF IsGraph
  <2>. QED BY <1>4, <1>9, <1>10, <2>6 DEF node
<1>11. CASE ~TypesParse(g)
  <2>1. bad \subseteq Nat /\ bad # {}
    BY <1>3, <1>9, <1>11
  <2>2. Min(bad) \in bad
    <3>. HIDE DEF bad
    <3>. QED BY <2>1, MinElement
  <2>3. PartStatus(parts[Min(bad)]) = "Throws"
    BY <1>8, <2>2
  <2>. QED BY <1>4, <1>11, <2>1, <2>3
<1>. QED BY <1>10, <1>11

------------------------------------------------------------------------------
(* Calls that build.                                                        *)

\* A vertex info with a group more is a vertex info, and valid if both are.
LEMMA VertexGrows ==
    ASSUME NEW v, IsVertex(v), NEW group, group # Null => IsGroup(group),
           AddPropertyGroup(v, group) # Null
    PROVE  /\ IsVertex(AddPropertyGroup(v, group))
           /\ VertexValidated(v) /\ GroupValidated(group)
                  => VertexValidated(AddPropertyGroup(v, group))
<1>. DEFINE longer == Append(v.groups, group)
            new == AddPropertyGroup(v, group)
<1>1. new = [v EXCEPT !.groups = longer] /\ new # Null
  BY DEF AddPropertyGroup
<1>2. AreGroups(longer)
  BY AreGroupsGrow DEF IsVertex
<1>3. VertexValidated(v) /\ GroupValidated(group) => GroupsValidated(longer)
  BY GroupsGrow DEF IsVertex, VertexValidated
<1>. HIDE DEF longer, new
<1>4. /\ new.groups = longer /\ new.type = v.type /\ new.chunk_size = v.chunk_size
      /\ new.prefix = v.prefix /\ new.labels = v.labels /\ new.version = v.version
      /\ new = [type |-> v.type, chunk_size |-> v.chunk_size, groups |-> longer,
                labels |-> v.labels, prefix |-> v.prefix, version |-> v.version]
  BY <1>1 DEF IsVertex, VertexInfo
<1>5. v.prefix # <<>>
  BY DEF IsVertex, VertexInfo
<1>6. VertexFile(new) = VertexFile(v)
  BY <1>4, FilesApart
<1>7. IsVertex(new)
  BY <1>2, <1>4, <1>5, <1>6 DEF IsVertex, VertexInfo
<1>8. VertexValidated(v) /\ GroupValidated(group) => VertexValidated(new)
  BY <1>1, <1>3, <1>4 DEF VertexValidated
<1>. QED BY <1>7, <1>8 DEF new

\* The same of an edge info and a group.
LEMMA EdgeGrows ==
    ASSUME NEW e, IsEdge(e), NEW group, group # Null => IsGroup(group),
           AddPropertyGroup(e, group) # Null
    PROVE  /\ IsEdge(AddPropertyGroup(e, group))
           /\ EdgeValidated(e) /\ GroupValidated(group)
                  => EdgeValidated(AddPropertyGroup(e, group))
<1>. DEFINE longer == Append(e.groups, group)
            new == AddPropertyGroup(e, group)
<1>1. new = [e EXCEPT !.groups = longer] /\ new # Null
  BY DEF AddPropertyGroup
<1>2. AreGroups(longer)
  BY AreGroupsGrow DEF IsEdge
<1>3. EdgeValidated(e) /\ GroupValidated(group) => GroupsValidated(longer)
  BY GroupsGrow DEF IsEdge, EdgeValidated
<1>. HIDE DEF longer, new
<1>4. /\ new.groups = longer /\ new.triple = e.triple /\ new.sizes = e.sizes
      /\ new.directed = e.directed /\ new.lists = e.lists
      /\ new.prefix = e.prefix /\ new.version = e.version
      /\ new = [triple |-> e.triple, sizes |-> e.sizes, directed |-> e.directed,
                lists |-> e.lists, groups |-> longer, prefix |-> e.prefix,
                version |-> e.version]
  BY <1>1 DEF IsEdge, EdgeInfo
<1>5. e.prefix # <<>>
  BY DEF IsEdge, EdgeInfo
<1>6. EdgeFile(new) = EdgeFile(e)
  BY <1>4, FilesApart
<1>7. IsEdge(new)
  BY <1>2, <1>4, <1>5, <1>6 DEF IsEdge, EdgeInfo
<1>8. EdgeValidated(e) /\ GroupValidated(group) => EdgeValidated(new)
  BY <1>1, <1>3, <1>4 DEF EdgeValidated
<1>. QED BY <1>7, <1>8 DEF new

\* The same of an edge info and an adjacency list.
LEMMA EdgeGainsList ==
    ASSUME NEW e, IsEdge(e), NEW list, list # Null => IsList(list),
           AddAdjacentList(e, list) # Null
    PROVE  /\ IsEdge(AddAdjacentList(e, list))
           /\ EdgeValidated(e) /\ ListValidated(list)
                  => EdgeValidated(AddAdjacentList(e, list))
<1>. DEFINE longer == Append(e.lists, list)
            new == AddAdjacentList(e, list)
<1>1. new = [e EXCEPT !.lists = longer] /\ new # Null
  BY DEF AddAdjacentList
<1>2. AreLists(longer)
  BY AreListsGrow DEF IsEdge
<1>3. EdgeValidated(e) /\ ListValidated(list) => EdgeValidated(new)
  BY <1>1, ListsGrow
<1>. HIDE DEF longer, new
<1>4. /\ new.groups = e.groups /\ new.triple = e.triple /\ new.sizes = e.sizes
      /\ new.directed = e.directed /\ new.lists = longer
      /\ new.prefix = e.prefix /\ new.version = e.version
      /\ new = [triple |-> e.triple, sizes |-> e.sizes, directed |-> e.directed,
                lists |-> longer, groups |-> e.groups, prefix |-> e.prefix,
                version |-> e.version]
  BY <1>1 DEF IsEdge, EdgeInfo
<1>5. e.prefix # <<>>
  BY DEF IsEdge, EdgeInfo
<1>6. EdgeFile(new) = EdgeFile(e)
  BY <1>4, FilesApart
<1>7. IsEdge(new)
  BY <1>2, <1>4, <1>5, <1>6 DEF IsEdge, EdgeInfo
<1>. QED BY <1>3, <1>7 DEF new

\* A graph info with a vertex info more.
LEMMA GraphGainsVertex ==
    ASSUME NEW g, IsGraph(g), NEW v, IsVertex(v), AddVertex(g, v) # Null, v # Null
    PROVE  /\ IsGraph(AddVertex(g, v))
           /\ Range(AddVertex(g, v).vertices) = Range(g.vertices) \cup {v}
           /\ AddVertex(g, v).edges = g.edges
           /\ GraphValidated(g) /\ VertexValidated(v) => GraphValidated(AddVertex(g, v))
<1>. DEFINE longer == Append(g.vertices, v)
            new == AddVertex(g, v)
            n == Len(g.vertices) + 1
<1>1. /\ new = [g EXCEPT !.vertices = longer, !.extra = {}]
      /\ new # Null /\ VerticesOf(g, v.type) = {}
  BY DEF AddVertex
<1>2. /\ IsSequence(longer)
      /\ DOMAIN longer = (DOMAIN g.vertices) \cup {n} /\ n \notin DOMAIN g.vertices
      /\ \A i \in DOMAIN g.vertices : longer[i] = g.vertices[i]
      /\ longer[n] = v
      /\ Range(longer) = Range(g.vertices) \cup {v}
  BY AppendShape DEF IsGraph
<1>. HIDE DEF longer, new, n
<1>3. /\ new.vertices = longer /\ new.edges = g.edges
      /\ new.name = g.name /\ new.prefix = g.prefix
      /\ new = GraphInfo(new.name, new.vertices, new.edges, new.labels, new.prefix,
                         new.version, new.extra)
  BY <1>1 DEF IsGraph, GraphInfo
<1>4. IsGraph(new)
  BY <1>2, <1>3 DEF IsGraph
<1>5. ASSUME GraphValidated(g), VertexValidated(v)
      PROVE  GraphValidated(new)
  <2>1. \A i \in DOMAIN g.vertices : g.vertices[i] # Null /\ g.vertices[i].type # v.type
    BY <1>1, <1>5 DEF VerticesOf, GraphValidated, VertexValidated
  <2>2. \A i \in DOMAIN longer : VertexValidated(longer[i])
    BY <1>2, <1>5 DEF GraphValidated
  <2>3. \A i, j \in DOMAIN longer : i # j => longer[i].type # longer[j].type
    BY <1>2, <1>5, <2>1 DEF GraphValidated
  <2>. QED BY <1>1, <1>3, <1>5, <2>2, <2>3 DEF GraphValidated
<1>. QED BY <1>2, <1>3, <1>4, <1>5 DEF new

\* A graph info with an edge info more.
LEMMA GraphGainsEdge ==
    ASSUME NEW g, IsGraph(g), NEW e, IsEdge(e), AddEdge(g, e) # Null, e # Null
    PROVE  /\ IsGraph(AddEdge(g, e))
           /\ Range(AddEdge(g, e).edges) = Range(g.edges) \cup {e}
           /\ AddEdge(g, e).vertices = g.vertices
           /\ GraphValidated(g) /\ EdgeValidated(e) => GraphValidated(AddEdge(g, e))
<1>. DEFINE longer == Append(g.edges, e)
            new == AddEdge(g, e)
            n == Len(g.edges) + 1
<1>1. /\ new = [g EXCEPT !.edges = longer, !.extra = {}]
      /\ new # Null /\ EdgesOf(g, e.triple) = {}
  BY DEF AddEdge
<1>2. /\ IsSequence(longer)
      /\ DOMAIN longer = (DOMAIN g.edges) \cup {n} /\ n \notin DOMAIN g.edges
      /\ \A i \in DOMAIN g.edges : longer[i] = g.edges[i]
      /\ longer[n] = e
      /\ Range(longer) = Range(g.edges) \cup {e}
  BY AppendShape DEF IsGraph
<1>. HIDE DEF longer, new, n
<1>3. /\ new.edges = longer /\ new.vertices = g.vertices
      /\ new.name = g.name /\ new.prefix = g.prefix
      /\ new = GraphInfo(new.name, new.vertices, new.edges, new.labels, new.prefix,
                         new.version, new.extra)
  BY <1>1 DEF IsGraph, GraphInfo
<1>4. IsGraph(new)
  BY <1>2, <1>3 DEF IsGraph
<1>5. ASSUME GraphValidated(g), EdgeValidated(e)
      PROVE  GraphValidated(new)
  <2>1. \A i \in DOMAIN g.edges :
          /\ g.edges[i] # Null
          /\ ConcatEdgeTriple(g.edges[i].triple) # ConcatEdgeTriple(e.triple)
    BY <1>1, <1>5 DEF EdgesOf, GraphValidated, EdgeValidated
  <2>2. \A i \in DOMAIN longer : EdgeValidated(longer[i])
    BY <1>2, <1>5 DEF GraphValidated
  <2>3. \A i, j \in DOMAIN longer :
          i # j => ConcatEdgeTriple(longer[i].triple) # ConcatEdgeTriple(longer[j].triple)
    BY <1>2, <1>5, <2>1 DEF GraphValidated
  <2>. QED BY <1>1, <1>3, <1>5, <2>2, <2>3 DEF GraphValidated
<1>. QED BY <1>2, <1>3, <1>4, <1>5 DEF new

------------------------------------------------------------------------------
(* Steps.                                                                   *)

\* The invariant holds before anything is built.
LEMMA InitInv == Init => Inv
<1>. SUFFICES ASSUME Init PROVE Inv
  OBVIOUS
<1>1. Bounded
  BY InfoStoreAssumption DEF Init, Bounded, NotLoaded
<1>2. Stored(disk)
  BY DEF Init, Stored
<1>3. LoadedFits /\ LoadedIsSaved
  BY DEF Init, LoadedFits, LoadedIsSaved, NotLoaded
<1>4. Held /\ SavedFits /\ BuiltIsValid
  BY DEF Init, Held, SavedFits, BuiltIsValid
<1>. QED BY <1>1, <1>2, <1>3, <1>4 DEF Inv

\* A call that builds leaves the files alone and forgets what was loaded.
LEMMA BuildsKeep ==
    ASSUME Inv, Builds
    PROVE  /\ Stored(disk)' /\ LoadedFits' /\ LoadedIsSaved'
           /\ loaded'.status = "none"
           /\ adds' \in 0 .. MaxAdds /\ saves' \in 0 .. MaxSaves
BY InfoStoreAssumption
   DEF Inv, Bounded, Builds, Stored, LoadedFits, LoadedIsSaved, NotLoaded

\* A call that builds and leaves the graph alone keeps what is known of its files.
LEMMA GraphKept ==
    ASSUME Inv, UNCHANGED <<graph, disk, pending>>
    PROVE  SavedFits'
BY DEF Inv, SavedFits

\* The arguments of Create are those of some vertex info.
LEMMA CreateVertexInfoKeeps ==
    ASSUME Inv, NEW args \in VertexArgs, CreateVertexInfo(args)
    PROVE  Inv'
<1>. USE DEF CreateVertexInfo
<1>1. vertex' # Null => IsVertex(vertex')
  <2>. SUFFICES ASSUME vertex' # Null PROVE IsVertex(vertex')
    OBVIOUS
  <2>1. vertex' = VertexInfo(args.type, args.chunk_size, args.groups, args.labels,
                             args.prefix, args.version)
    OBVIOUS
  <2>2. AreGroups(args.groups)
    BY InfoStoreAssumption
  <2>3. VertexFile(vertex') \in VertexFiles
    BY <2>1 DEF VertexInfo, VertexFile, VertexFiles
  <2>. QED BY <2>1, <2>2, <2>3 DEF VertexInfo, IsVertex
<1>2. Held'
  BY <1>1 DEF Inv, Held
<1>3. Bounded' /\ BuiltIsValid'
  BY BuildsKeep DEF Inv, Bounded, BuiltIsValid, Sound
<1>4. SavedFits'
  BY GraphKept DEF Builds
<1>. QED BY <1>2, <1>3, <1>4, BuildsKeep DEF Inv

\* So are those of an edge info.
LEMMA CreateEdgeInfoKeeps ==
    ASSUME Inv, NEW args \in EdgeArgs, CreateEdgeInfo(args)
    PROVE  Inv'
<1>. USE DEF CreateEdgeInfo
<1>1. edge' # Null => IsEdge(edge')
  <2>. SUFFICES ASSUME edge' # Null PROVE IsEdge(edge')
    OBVIOUS
  <2>1. edge' = EdgeInfo(args.triple, args.sizes, args.directed, args.lists,
                         args.groups, args.prefix, args.version)
    OBVIOUS
  <2>2. AreGroups(args.groups) /\ AreLists(args.lists)
    BY InfoStoreAssumption
  <2>3. EdgeFile(edge') \in EdgeFiles
    BY <2>1 DEF EdgeInfo, EdgeFile, EdgeFiles
  <2>. QED BY <2>1, <2>2, <2>3 DEF EdgeInfo, IsEdge
<1>2. Held'
  BY <1>1 DEF Inv, Held
<1>3. Bounded' /\ BuiltIsValid'
  BY BuildsKeep DEF Inv, Bounded, BuiltIsValid, Sound
<1>4. SavedFits'
  BY GraphKept DEF Builds
<1>. QED BY <1>2, <1>3, <1>4, BuildsKeep DEF Inv

\* Every file of a graph is one of the client's files.
LEMMA FilesOfGraph ==
    ASSUME NEW g, IsGraph(g)
    PROVE  FilesOf(g) \subseteq Files
BY DEF FilesOf, Files, IsGraph, IsVertex, IsEdge, Range

\* A new graph info may hold null pointers; all its files are pending.
LEMMA CreateGraphInfoKeeps ==
    ASSUME Inv, NEW args \in GraphArgs, NEW n \in 0 .. 2, NEW m \in 0 .. 1,
           CreateGraphInfo(args, [i \in 1 .. n |-> vertex], [i \in 1 .. m |-> edge])
    PROVE  Inv'
<1>. DEFINE vs == [i \in 1 .. n |-> vertex]
            es == [i \in 1 .. m |-> edge]
<1>. USE DEF CreateGraphInfo
<1>1. graph' # Null => IsGraph(graph')
  <2>. SUFFICES ASSUME graph' # Null PROVE IsGraph(graph')
    OBVIOUS
  <2>1. graph' = GraphInfo(args.name, vs, es, args.labels, args.prefix, args.version,
                           args.extra)
    OBVIOUS
  <2>2. IsSequence(vs) /\ IsSequence(es)
    BY FunctionIsSequence
  <2>3. /\ \A i \in DOMAIN vs : vs[i] # Null => IsVertex(vs[i])
        /\ \A i \in DOMAIN es : es[i] # Null => IsEdge(es[i])
    BY DEF Inv, Held
  <2>. HIDE DEF vs, es
  <2>. QED BY <2>1, <2>2, <2>3 DEF GraphInfo, IsGraph
<1>2. Held'
  BY <1>1 DEF Inv, Held
<1>3. pending' \subseteq Files
  BY <1>1, FilesOfGraph
<1>4. Bounded' /\ BuiltIsValid'
  BY <1>3, BuildsKeep DEF Inv, Bounded, BuiltIsValid, Sound
<1>5. SavedFits'
  BY DEF SavedFits, FilesOf
<1>. QED BY <1>2, <1>4, <1>5, BuildsKeep DEF Inv

\* A group that is added is one that its constructor gave.
LEMMA AddGroupToVertexKeeps ==
    ASSUME Inv, NEW group \in GroupOffers, AddGroupToVertex(group)
    PROVE  Inv'
<1>. USE DEF AddGroupToVertex
<1>1. /\ IsVertex(vertex')
      /\ VertexValidated(vertex) /\ GroupValidated(group) => VertexValidated(vertex')
  BY InfoStoreAssumption, VertexGrows DEF Inv, Held
<1>2. Held'
  BY <1>1 DEF Inv, Held
<1>3. Bounded' /\ BuiltIsValid'
  BY <1>1, BuildsKeep DEF Inv, Bounded, BuiltIsValid, Sound
<1>4. SavedFits'
  BY GraphKept DEF Builds
<1>. QED BY <1>2, <1>3, <1>4, BuildsKeep DEF Inv

\* The same for an edge info.
LEMMA AddGroupToEdgeKeeps ==
    ASSUME Inv, NEW group \in GroupOffers, AddGroupToEdge(group)
    PROVE  Inv'
<1>. USE DEF AddGroupToEdge
<1>1. /\ IsEdge(edge')
      /\ EdgeValidated(edge) /\ GroupValidated(group) => EdgeValidated(edge')
  BY InfoStoreAssumption, EdgeGrows DEF Inv, Held
<1>2. Held'
  BY <1>1 DEF Inv, Held
<1>3. Bounded' /\ BuiltIsValid'
  BY <1>1, BuildsKeep DEF Inv, Bounded, BuiltIsValid, Sound
<1>4. SavedFits'
  BY GraphKept DEF Builds
<1>. QED BY <1>2, <1>3, <1>4, BuildsKeep DEF Inv

\* The same for an adjacency list.
LEMMA AddListToEdgeKeeps ==
    ASSUME Inv, NEW list \in ListOffers, AddListToEdge(list)
    PROVE  Inv'
<1>. USE DEF AddListToEdge
<1>1. /\ IsEdge(edge')
      /\ EdgeValidated(edge) /\ ListValidated(list) => EdgeValidated(edge')
  BY InfoStoreAssumption, EdgeGainsList DEF Inv, Held
<1>2. Held'
  BY <1>1 DEF Inv, Held
<1>3. Bounded' /\ BuiltIsValid'
  BY <1>1, BuildsKeep DEF Inv, Bounded, BuiltIsValid, Sound
<1>4. SavedFits'
  BY GraphKept DEF Builds
<1>. QED BY <1>2, <1>3, <1>4, BuildsKeep DEF Inv

\* The files of the new part and of the graph are pending now, the others as before.
LEMMA AddVertexToGraphKeeps ==
    ASSUME Inv, AddVertexToGraph
    PROVE  Inv'
<1>. USE DEF AddVertexToGraph
<1>1. vertex # Null /\ IsVertex(vertex) /\ IsGraph(graph)
  BY DEF Inv, Held, AddVertex
<1>2. /\ IsGraph(graph')
      /\ Range(graph'.vertices) = Range(graph.vertices) \cup {vertex}
      /\ graph'.edges = graph.edges
      /\ GraphValidated(graph) /\ VertexValidated(vertex) => GraphValidated(graph')
  BY <1>1, GraphGainsVertex
<1>3. Held'
  BY <1>2 DEF Inv, Held
<1>4. Bounded' /\ BuiltIsValid'
  <2>1. {GraphFile, VertexFile(vertex)} \subseteq Files
    BY <1>1 DEF IsVertex, Files
  <2>. QED BY <2>1, <1>2, BuildsKeep DEF Inv, Bounded, BuiltIsValid, Sound
<1>5. SavedFits'
  BY <1>2 DEF Inv, SavedFits, Builds
<1>. QED BY <1>3, <1>4, <1>5, BuildsKeep DEF Inv

\* The same for an edge info.
LEMMA AddEdgeToGraphKeeps ==
    ASSUME Inv, AddEdgeToGraph
    PROVE  Inv'
<1>. USE DEF AddEdgeToGraph
<1>1. edge # Null /\ IsEdge(edge) /\ IsGraph(graph)
  BY DEF Inv, Held, AddEdge
<1>2. /\ IsGraph(graph')
      /\ Range(graph'.edges) = Range(graph.edges) \cup {edge}
      /\ graph'.vertices = graph.vertices
      /\ GraphValidated(graph) /\ EdgeValidated(edge) => GraphValidated(graph')
  BY <1>1, GraphGainsEdge
<1>3. Held'
  BY <1>2 DEF Inv, Held
<1>4. Bounded' /\ BuiltIsValid'
  <2>1. {GraphFile, EdgeFile(edge)} \subseteq Files
    BY <1>1 DEF IsEdge, Files
  <2>. QED BY <2>1, <1>2, BuildsKeep DEF Inv, Bounded, BuiltIsValid, Sound
<1>5. SavedFits'
  BY <1>2 DEF Inv, SavedFits, Builds
<1>. QED BY <1>3, <1>4, <1>5, BuildsKeep DEF Inv

\* What was loaded is what the files hold, so nothing of it is pending.
LEMMA TakeLoadedKeeps ==
    ASSUME Inv, TakeLoaded
    PROVE  Inv'
<1>. USE DEF TakeLoaded
<1>1. IsGraph(graph') /\ GraphValidated(graph') /\ OnDisk(graph', disk)
  BY DEF Inv, LoadedFits
<1>2. Held'
  BY <1>1 DEF Inv, Held
<1>3. Bounded' /\ BuiltIsValid'
  BY <1>1, BuildsKeep DEF Inv, Bounded, BuiltIsValid, Sound
<1>4. SavedFits'
  BY <1>1 DEF SavedFits, OnDisk, Builds
<1>. QED BY <1>2, <1>3, <1>4, BuildsKeep DEF Inv

\* A call of Save that fails leaves a file as it was or cut short; it is pending then,
\* unless the client has lost its infos.
LEMMA NotWrittenKeeps ==
    ASSUME Inv, NEW file \in Files, NotWritten(file)
    PROVE  Held' /\ Stored(disk)' /\ SavedFits' /\ BuiltIsValid' /\ pending' \subseteq Files
<1>1. Stored(disk')
  BY Overwritten DEF Inv, NotWritten
<1>2. Held' /\ BuiltIsValid'
  BY DEF Inv, Held, BuiltIsValid, NotWritten, infoVars
<1>3. pending' \subseteq Files
  BY DEF Inv, Bounded, NotWritten, Pending
<1>4. SavedFits'
  <2>. SUFFICES ASSUME graph' # Null PROVE SavedFits'
    BY DEF SavedFits
  <2>1. graph' = graph /\ pending' = pending \cup ({file} \cap FilesOf(graph))
    BY DEF NotWritten, Pending, infoVars
  <2>2. \A other \in FilesOf(graph) :
          other \notin pending' => other \notin pending /\ disk'[other] = disk[other]
    BY <2>1, FilesOfGraph DEF Inv, Stored, Held, NotWritten
  <2>3. /\ GraphFile \in FilesOf(graph)
        /\ \A v \in Range(graph.vertices) \ {Null} : VertexFile(v) \in FilesOf(graph)
        /\ \A e \in Range(graph.edges) \ {Null} : EdgeFile(e) \in FilesOf(graph)
    BY DEF FilesOf
  <2>. QED BY <2>1, <2>2, <2>3 DEF Inv, SavedFits
<1>. QED BY <1>1, <1>2, <1>3, <1>4

\* Any call of Save, if what it writes fits the file and the graph's files.
LEMMA SaveKeeps ==
    ASSUME Inv, NEW file \in Files, NEW node, Fits(file, node), NEW part,
           Save(file, node, part), Written(file, node, part) => SavedFits'
    PROVE  Inv'
<1>1. /\ LoadedFits' /\ LoadedIsSaved' /\ loaded'.status = "none"
      /\ adds' \in 0 .. MaxAdds /\ saves' \in 0 .. MaxSaves
  BY InfoStoreAssumption
     DEF Inv, Bounded, Save, LoadedFits, LoadedIsSaved, NotLoaded
<1>2. Held' /\ Stored(disk)' /\ SavedFits' /\ BuiltIsValid' /\ pending' \subseteq Files
  <2>1. CASE Written(file, node, part)
    <3>1. Stored(disk')
      BY <2>1, Overwritten DEF Inv, Written
    <3>2. Held' /\ BuiltIsValid' /\ pending' \subseteq Files
      BY <2>1 DEF Inv, Bounded, Held, BuiltIsValid, Written, Pending, infoVars
    <3>. QED BY <2>1, <3>1, <3>2
  <2>2. CASE NotWritten(file)
    BY <2>2, NotWrittenKeeps
  <2>. QED BY <2>1, <2>2 DEF Save
<1>3. sound' \subseteq {"vertex", "edge", "graph"}
  BY DEF Inv, Bounded, Save, Written, NotWritten
<1>. QED BY <1>1, <1>2, <1>3 DEF Inv, Bounded

\* A vertex file that is written holds the info that was saved, of the graph or not.
LEMMA SaveVertexKeeps ==
    ASSUME Inv, NEW v \in VerticesHeld, SaveVertex(v)
    PROVE  Inv'
<1>. DEFINE file == VertexFile(v)
            part == graph # Null /\ v \in Range(graph.vertices)
<1>1. VertexValidated(v) /\ v # Null /\ Save(file, DumpVertex(v), part)
  BY DEF SaveVertex, VertexValidated
<1>2. IsVertex(v)
  BY <1>1 DEF Inv, Held, VerticesHeld, IsGraph, Range
<1>3. file \in Files /\ Fits(file, DumpVertex(v)) /\ file \notin EdgeFiles /\ file # GraphFile
  BY <1>1, <1>2, SavedVertexFits, FilesApart DEF IsVertex
<1>4. ASSUME Written(file, DumpVertex(v), part)
      PROVE  SavedFits'
  <2>. SUFFICES ASSUME graph # Null PROVE SavedFits'
    BY <1>4 DEF SavedFits, Written, infoVars
  <2>1. graph' = graph /\ disk' = [disk EXCEPT ![file] = DumpVertex(v)]
    BY <1>4 DEF Written, infoVars
  <2>2. /\ disk'[file] = DumpVertex(v)
        /\ \A other \in Files \ {file} : disk'[other] = disk[other]
    BY <1>3, <2>1 DEF Inv, Stored
  <2>3. IsGraph(graph)
    BY DEF Inv, Held
  <2>4. \A other \in FilesOf(graph) \ {file} : other \notin pending' => other \notin pending
    BY <1>4 DEF Written, Pending
  <2>5. GraphFile \notin pending' =>
            GraphValidated(graph) /\ disk'[GraphFile] = DumpGraph(graph)
    BY <1>3, <2>2, <2>4 DEF Inv, SavedFits, FilesOf, Files
  <2>6. \A e \in Range(graph.edges) \ {Null} :
          EdgeFile(e) \notin pending' =>
              \E w \in Range(graph.edges) \ {Null} :
                  EdgeFile(w) = EdgeFile(e) /\ disk'[EdgeFile(e)] = DumpEdge(w)
    <3>. SUFFICES ASSUME NEW e \in Range(graph.edges) \ {Null}, EdgeFile(e) \notin pending'
                  PROVE  \E w \in Range(graph.edges) \ {Null} :
                            EdgeFile(w) = EdgeFile(e) /\ disk'[EdgeFile(e)] = DumpEdge(w)
      OBVIOUS
    <3>1. EdgeFile(e) \in EdgeFiles /\ EdgeFile(e) \in FilesOf(graph)
      BY <2>3 DEF IsGraph, IsEdge, Range, FilesOf
    <3>2. EdgeFile(e) \notin pending /\ disk'[EdgeFile(e)] = disk[EdgeFile(e)]
      BY <1>3, <2>2, <2>4, <3>1 DEF Files
    <3>. QED BY <3>2 DEF Inv, SavedFits
  <2>7. \A u \in Range(graph.vertices) \ {Null} :
          VertexFile(u) \notin pending' =>
              \E w \in Range(graph.vertices) \ {Null} :
                  VertexFile(w) = VertexFile(u) /\ disk'[VertexFile(u)] = DumpVertex(w)
    <3>. SUFFICES ASSUME NEW u \in Range(graph.vertices) \ {Null}, VertexFile(u) \notin pending'
                  PROVE  \E w \in Range(graph.vertices) \ {Null} :
                            VertexFile(w) = VertexFile(u) /\ disk'[VertexFile(u)] = DumpVertex(w)
      OBVIOUS
    <3>1. VertexFile(u) \in Files /\ VertexFile(u) \in FilesOf(graph)
      BY <2>3 DEF IsGraph, IsVertex, Range, FilesOf, Files
    <3>2. CASE VertexFile(u) # file
      <4>1. VertexFile(u) \notin pending /\ disk'[VertexFile(u)] = disk[VertexFile(u)]
        BY <2>2, <2>4, <3>1, <3>2
      <4>. QED BY <4>1 DEF Inv, SavedFits
    <3>3. CASE VertexFile(u) = file
      <4>1. part
        BY <1>4, <3>1, <3>3 DEF Written, Pending
      <4>. QED BY <1>1, <2>2, <3>3, <4>1
    <3>. QED BY <3>2, <3>3
  <2>. QED BY <2>1, <2>5, <2>6, <2>7 DEF SavedFits
<1>. HIDE DEF file, part
<1>. QED BY <1>1, <1>3, <1>4, SaveKeeps

\* So does an edge file.
LEMMA SaveEdgeKeeps ==
    ASSUME Inv, NEW e \in EdgesHeld, SaveEdge(e)
    PROVE  Inv'
<1>. DEFINE file == EdgeFile(e)
            part == graph # Null /\ e \in Range(graph.edges)
<1>1. EdgeValidated(e) /\ e # Null /\ Save(file, DumpEdge(e), part)
  BY DEF SaveEdge, EdgeValidated
<1>2. IsEdge(e)
  BY <1>1 DEF Inv, Held, EdgesHeld, IsGraph, Range
<1>3. file \in Files /\ Fits(file, DumpEdge(e)) /\ file \notin VertexFiles /\ file # GraphFile
  BY <1>1, <1>2, SavedEdgeFits, FilesApart DEF IsEdge
<1>4. ASSUME Written(file, DumpEdge(e), part)
      PROVE  SavedFits'
  <2>. SUFFICES ASSUME graph # Null PROVE SavedFits'
    BY <1>4 DEF SavedFits, Written, infoVars
  <2>1. graph' = graph /\ disk' = [disk EXCEPT ![file] = DumpEdge(e)]
    BY <1>4 DEF Written, infoVars
  <2>2. /\ disk'[file] = DumpEdge(e)
        /\ \A other \in Files \ {file} : disk'[other] = disk[other]
    BY <1>3, <2>1 DEF Inv, Stored
  <2>3. IsGraph(graph)
    BY DEF Inv, Held
  <2>4. \A other \in FilesOf(graph) \ {file} : other \notin pending' => other \notin pending
    BY <1>4 DEF Written, Pending
  <2>5. GraphFile \notin pending' =>
            GraphValidated(graph) /\ disk'[GraphFile] = DumpGraph(graph)
    BY <1>3, <2>2, <2>4 DEF Inv, SavedFits, FilesOf, Files
  <2>6. \A v \in Range(graph.vertices) \ {Null} :
          VertexFile(v) \notin pending' =>
              \E w \in Range(graph.vertices) \ {Null} :
                  VertexFile(w) = VertexFile(v) /\ disk'[VertexFile(v)] = DumpVertex(w)
    <3>. SUFFICES ASSUME NEW v \in Range(graph.vertices) \ {Null}, VertexFile(v) \notin pending'
                  PROVE  \E w \in Range(graph.vertices) \ {Null} :
                            VertexFile(w) = VertexFile(v) /\ disk'[VertexFile(v)] = DumpVertex(w)
      OBVIOUS
    <3>1. VertexFile(v) \in VertexFiles /\ VertexFile(v) \in FilesOf(graph)
      BY <2>3 DEF IsGraph, IsVertex, Range, FilesOf
    <3>2. VertexFile(v) \notin pending /\ disk'[VertexFile(v)] = disk[VertexFile(v)]
      BY <1>3, <2>2, <2>4, <3>1 DEF Files
    <3>. QED BY <3>2 DEF Inv, SavedFits
  <2>7. \A u \in Range(graph.edges) \ {Null} :
          EdgeFile(u) \notin pending' =>
              \E w \in Range(graph.edges) \ {Null} :
                  EdgeFile(w) = EdgeFile(u) /\ disk'[EdgeFile(u)] = DumpEdge(w)
    <3>. SUFFICES ASSUME NEW u \in Range(graph.edges) \ {Null}, EdgeFile(u) \notin pending'
                  PROVE  \E w \in Range(graph.edges) \ {Null} :
                            EdgeFile(w) = EdgeFile(u) /\ disk'[EdgeFile(u)] = DumpEdge(w)
      OBVIOUS
    <3>1. EdgeFile(u) \in Files /\ EdgeFile(u) \in FilesOf(graph)
      BY <2>3 DEF IsGraph, IsEdge, Range, FilesOf, Files
    <3>2. CASE EdgeFile(u) # file
      <4>1. EdgeFile(u) \notin pending /\ disk'[EdgeFile(u)] = disk[EdgeFile(u)]
        BY <2>2, <2>4, <3>1, <3>2
      <4>. QED BY <4>1 DEF Inv, SavedFits
    <3>3. CASE EdgeFile(u) = file
      <4>1. part
        BY <1>4, <3>1, <3>3 DEF Written, Pending
      <4>. QED BY <1>1, <2>2, <3>3, <4>1
    <3>. QED BY <3>2, <3>3
  <2>. QED BY <2>1, <2>5, <2>6, <2>7 DEF SavedFits
<1>. HIDE DEF file, part
<1>. QED BY <1>1, <1>3, <1>4, SaveKeeps

\* A graph file that is written names the files of the graph, each of them once.
LEMMA SaveGraphKeeps ==
    ASSUME Inv, SaveGraph
    PROVE  Inv'
<1>1. GraphValidated(graph) /\ graph # Null /\ Save(GraphFile, DumpGraph(graph), TRUE)
  BY DEF SaveGraph, GraphValidated
<1>2. IsGraph(graph)
  BY <1>1 DEF Inv, Held
<1>3. GraphFile \in Files /\ Fits(GraphFile, DumpGraph(graph))
  BY <1>1, <1>2, SavedGraphFits
<1>4. ASSUME Written(GraphFile, DumpGraph(graph), TRUE)
      PROVE  SavedFits'
  <2>1. /\ graph' = graph /\ pending' = pending \ {GraphFile}
        /\ disk' = [disk EXCEPT ![GraphFile] = DumpGraph(graph)]
    BY <1>1, <1>4 DEF Written, Pending, infoVars
  <2>2. /\ disk'[GraphFile] = DumpGraph(graph)
        /\ \A file \in VertexFiles \cup EdgeFiles : disk'[file] = disk[file]
    BY <2>1, FilesApart DEF Inv, Stored, Files
  <2>3. /\ \A v \in Range(graph.vertices) \ {Null} : VertexFile(v) \in VertexFiles
        /\ \A e \in Range(graph.edges) \ {Null} : EdgeFile(e) \in EdgeFiles
    BY <1>2 DEF IsGraph, IsVertex, IsEdge, Range
  <2>. QED BY <1>1, <2>1, <2>2, <2>3, FilesApart DEF Inv, SavedFits
<1>. QED BY <1>1, <1>3, <1>4, SaveKeeps

\* Load is where the files meet what the client knows of them.
LEMMA LoadKeeps ==
    ASSUME NullIsNoGraph, MarksAreNoNodes, Inv, Load
    PROVE  Inv'
<1>. DEFINE g == LoadGraph(disk[GraphFile], disk)
<1>1. /\ UNCHANGED <<vertex, edge, graph, disk, sound, pending, adds, saves>>
      /\ loaded' = [status |-> LoadStatus, graph |-> IF LoadStatus = "OK" THEN g ELSE Null]
  BY DEF Load, infoVars
<1>2. LoadStatus \in {"OK", "IOError", "Damaged", "Throws"}
  BY DEF LoadStatus, PartStatus
<1>3. Bounded' /\ Held' /\ Stored(disk)' /\ SavedFits' /\ BuiltIsValid'
  <2>1. loaded'.status = LoadStatus
    BY <1>1
  <2>. QED BY <1>1, <1>2, <2>1 DEF Inv, Bounded, Held, Stored, SavedFits, BuiltIsValid
<1>4. LoadedFits'
  <2>. SUFFICES ASSUME LoadStatus = "OK"
                PROVE  IsGraph(loaded'.graph) /\ GraphValidated(loaded'.graph)
                       /\ OnDisk(loaded'.graph, disk')
    BY <1>1 DEF LoadedFits
  <2>1. loaded'.graph = g
    BY <1>1
  <2>. QED BY <1>1, <2>1, LoadGivesGraph DEF Inv
<1>5. LoadedIsSaved'
  <2>. SUFFICES ASSUME graph # Null, pending = {}
                PROVE  IF TypesParse(graph) THEN loaded' = [status |-> "OK", graph |-> graph]
                                            ELSE loaded'.status = "Throws"
    BY <1>1 DEF LoadedIsSaved
  <2>1. IsGraph(graph) /\ GraphValidated(graph) /\ disk[GraphFile] = DumpGraph(graph)
    BY DEF Inv, Held, SavedFits
  <2>2. \A v \in Range(graph.vertices) : disk[VertexFile(v)] = DumpVertex(v)
    <3>. SUFFICES ASSUME NEW v \in Range(graph.vertices)
                  PROVE  disk[VertexFile(v)] = DumpVertex(v)
      OBVIOUS
    <3>1. v # Null
      BY <2>1 DEF GraphValidated, VertexValidated, Range
    <3>2. PICK w \in Range(graph.vertices) \ {Null} :
             VertexFile(w) = VertexFile(v) /\ disk[VertexFile(v)] = DumpVertex(w)
      BY <3>1 DEF Inv, SavedFits
    <3>3. w = v
      BY <2>1, <3>2, FilesApart DEF GraphValidated, Range
    <3>. QED BY <3>2, <3>3
  <2>3. \A e \in Range(graph.edges) : disk[EdgeFile(e)] = DumpEdge(e)
    <3>. SUFFICES ASSUME NEW e \in Range(graph.edges)
                  PROVE  disk[EdgeFile(e)] = DumpEdge(e)
      OBVIOUS
    <3>1. e # Null
      BY <2>1 DEF GraphValidated, EdgeValidated, Range
    <3>2. PICK w \in Range(graph.edges) \ {Null} :
             EdgeFile(w) = EdgeFile(e) /\ disk[EdgeFile(e)] = DumpEdge(w)
      BY <3>1 DEF Inv, SavedFits
    <3>3. w = e
      BY <2>1, <3>2, FilesApart DEF GraphValidated, Range
    <3>. QED BY <3>2, <3>3
  <2>4. IF TypesParse(graph) THEN LoadStatus = "OK" /\ g = graph
                             ELSE LoadStatus = "Throws"
    BY <2>1, <2>2, <2>3, LoadGivesSaved DEF OnDisk
  <2>. QED BY <1>1, <2>4
<1>. QED BY <1>3, <1>4, <1>5 DEF Inv

\* Every step keeps the invariant.
LEMMA NextInv ==
    ASSUME NullIsNoGraph, MarksAreNoNodes, Inv, [Next]_vars
    PROVE  Inv'
<1>1. CASE \E args \in VertexArgs : CreateVertexInfo(args)
  BY <1>1, CreateVertexInfoKeeps
<1>2. CASE \E args \in EdgeArgs : CreateEdgeInfo(args)
  BY <1>2, CreateEdgeInfoKeeps
<1>3. CASE \E args \in GraphArgs, n \in 0 .. 2, m \in 0 .. 1 :
              CreateGraphInfo(args, [i \in 1 .. n |-> vertex], [i \in 1 .. m |-> edge])
  <2>. PICK args \in GraphArgs, n \in 0 .. 2, m \in 0 .. 1 :
              CreateGraphInfo(args, [i \in 1 .. n |-> vertex], [i \in 1 .. m |-> edge])
    BY <1>3
  <2>. QED BY CreateGraphInfoKeeps
<1>4. CASE \E group \in GroupOffers : AddGroupToVertex(group) \/ AddGroupToEdge(group)
  BY <1>4, AddGroupToVertexKeeps, AddGroupToEdgeKeeps
<1>5. CASE \E list \in ListOffers : AddListToEdge(list)
  BY <1>5, AddListToEdgeKeeps
<1>6. CASE AddVertexToGraph
  BY <1>6, AddVertexToGraphKeeps
<1>7. CASE AddEdgeToGraph
  BY <1>7, AddEdgeToGraphKeeps
<1>8. CASE \E v \in VerticesHeld : SaveVertex(v)
  BY <1>8, SaveVertexKeeps
<1>9. CASE \E e \in EdgesHeld : SaveEdge(e)
  BY <1>9, SaveEdgeKeeps
<1>10. CASE SaveGraph
  BY <1>10, SaveGraphKeeps
<1>11. CASE Load
  BY <1>11, LoadKeeps
<1>12. CASE TakeLoaded
  BY <1>12, TakeLoadedKeeps
<1>13. CASE UNCHANGED vars
  BY <1>13 DEF vars, infoVars, Inv, Bounded, Held, Stored, LoadedFits, OnDisk, SavedFits,
               BuiltIsValid, LoadedIsSaved
<1>. QED BY <1>1, <1>2, <1>3, <1>4, <1>5, <1>6, <1>7, <1>8, <1>9, <1>10, <1>11, <1>12, <1>13
         DEF Next

------------------------------------------------------------------------------
(* Directories.                                                             *)

\* The elements of two sequences joined, in their order.
LEMMA JoinedElements ==
    ASSUME NEW S, NEW s \in Seq(S), NEW t \in Seq(S)
    PROVE  /\ s \o t \in Seq(S) /\ Len(s \o t) = Len(s) + Len(t)
           /\ \A i \in 1 .. Len(s) : (s \o t)[i] = s[i]
           /\ \A i \in 1 .. Len(t) : (s \o t)[Len(s) + i] = t[i]
OBVIOUS

\* Directory names one behind the other.
LEMMA Directories ==
    ASSUME NEW a, NEW b
    PROVE  /\ <<a>> \o <<b>> = <<a, b>>
           /\ \A c : <<a, b>> \o <<c>> = <<a, b, c>>
<1>1. <<a>> \o <<b>> = <<a, b>>
  <2>. DEFINE S == {a, b}
              s == <<a>>
              t == <<b>>
              u == <<a, b>>
  <2>1. /\ s \in Seq(S) /\ Len(s) = 1 /\ s[1] = a
        /\ t \in Seq(S) /\ Len(t) = 1 /\ t[1] = b
        /\ u \in Seq(S) /\ Len(u) = 2 /\ u[1] = a /\ u[2] = b
    OBVIOUS
  <2>. HIDE DEF S, s, t, u
  <2>2. /\ s \o t \in Seq(S) /\ Len(s \o t) = 2
        /\ (s \o t)[1] = a /\ (s \o t)[2] = b
    <3>1. /\ s \o t \in Seq(S) /\ Len(s \o t) = Len(s) + Len(t)
          /\ \A i \in 1 .. Len(s) : (s \o t)[i] = s[i]
          /\ \A i \in 1 .. Len(t) : (s \o t)[Len(s) + i] = t[i]
      <4>1. s \in Seq(S) /\ t \in Seq(S)
        BY <2>1
      <4>. QED BY <4>1, JoinedElements
    <3>. DEFINE r == s \o t
    <3>. HIDE DEF r
    <3>2. r[1] = s[1] /\ r[1 + 1] = t[1]
      BY <2>1, <3>1 DEF r
    <3>. QED BY <2>1, <3>1, <3>2 DEF r
  <2>. DEFINE r == s \o t
  <2>3. r \in Seq(S) /\ Len(r) = 2 /\ r[1] = a /\ r[2] = b
    BY <2>2
  <2>. HIDE DEF r
  <2>4. r = u
    <3>1. \A q \in Seq(S) : q = [i \in 1 .. Len(q) |-> q[i]]
      OBVIOUS
    <3>2. Len(r) = Len(u) /\ \A i \in 1 .. Len(u) : r[i] = u[i]
      BY <2>1, <2>3
    <3>. QED BY <2>1, <2>3, <3>1, <3>2
  <2>. QED BY <2>4 DEF r, s, t, u
<1>2. ASSUME NEW c PROVE <<a, b>> \o <<c>> = <<a, b, c>>
  <2>. DEFINE S == {a, b, c}
              s == <<a, b>>
              t == <<c>>
              u == <<a, b, c>>
  <2>1. /\ s \in Seq(S) /\ Len(s) = 2 /\ s[1] = a /\ s[2] = b
        /\ t \in Seq(S) /\ Len(t) = 1 /\ t[1] = c
        /\ u \in Seq(S) /\ Len(u) = 3 /\ u[1] = a /\ u[2] = b /\ u[3] = c
    OBVIOUS
  <2>. HIDE DEF S, s, t, u
  <2>2. /\ s \o t \in Seq(S) /\ Len(s \o t) = 3
        /\ (s \o t)[1] = a /\ (s \o t)[2] = b /\ (s \o t)[3] = c
    <3>1. /\ s \o t \in Seq(S) /\ Len(s \o t) = Len(s) + Len(t)
          /\ \A i \in 1 .. Len(s) : (s \o t)[i] = s[i]
          /\ \A i \in 1 .. Len(t) : (s \o t)[Len(s) + i] = t[i]
      <4>1. s \in Seq(S) /\ t \in Seq(S)
        BY <2>1
      <4>. QED BY <4>1, JoinedElements
    <3>. DEFINE r == s \o t
    <3>. HIDE DEF r
    <3>2. /\ Len(s) = 2 /\ Len(t) = 1
          /\ \A i \in 1 .. Len(s) : r[i] = s[i]
          /\ \A i \in 1 .. Len(t) : r[Len(s) + i] = t[i]
      BY <2>1, <3>1 DEF r
    <3>3. (\A i \in 1 .. 2 : r[i] = s[i]) /\ (\A i \in 1 .. 1 : r[2 + i] = t[i])
      BY <3>2
    <3>4. r[1] = s[1] /\ r[2] = s[2] /\ r[2 + 1] = t[1]
      BY <3>3
    <3>. QED BY <2>1, <3>1, <3>4 DEF r
  <2>. DEFINE r == s \o t
  <2>3. r \in Seq(S) /\ Len(r) = 3 /\ r[1] = a /\ r[2] = b /\ r[3] = c
    BY <2>2
  <2>. HIDE DEF r
  <2>4. r = u
    <3>1. \A q \in Seq(S) : q = [i \in 1 .. Len(q) |-> q[i]]
      OBVIOUS
    <3>2. Len(r) = Len(u) /\ \A i \in 1 .. Len(u) : r[i] = u[i]
      BY <2>1, <2>3
    <3>. QED BY <2>1, <2>3, <3>1, <3>2
  <2>. QED BY <2>4 DEF r, s, t, u
<1>. QED BY <1>1, <1>2

\* What a directory of a property group is called: its first word is the name of a
\* property of the group.
Called(group, dir) ==
    group.prefix = <<dir>> /\ IsSequence(dir) /\ dir # <<>> /\ <<dir[1]>> \in NamesOf(group)

\* The default prefix of a group of properties with names of one word.
LEMMA GroupDirectory ==
    ASSUME NEW group, IsGroup(group), GroupValidated(group),
           group = PropertyGroup(group.props, group.file_type, <<>>),
           \A name \in NamesOf(group) : name = <<name[1]>>
    PROVE  \E dir : Called(group, dir)
<1>. DEFINE props == group.props
            n == Len(props)
            S == {props[i].name[1] : i \in DOMAIN props}
            seqs == [i \in DOMAIN props |-> props[i].name]
<1>1. n \in Nat /\ DOMAIN props = 1 .. n /\ props # <<>>
  BY SequenceShape DEF IsGroup, IsSequence, GroupValidated
<1>2. n \in Nat \ {0} /\ 1 \in 1 .. n
  <2>1. n # 0
    BY <1>1, SequenceShape DEF IsGroup, IsSequence
  <2>. QED BY <1>1, <2>1
<1>3. \A i \in 1 .. n : props[i].name = <<props[i].name[1]>> /\ props[i].name \in NamesOf(group)
  BY <1>1 DEF NamesOf
<1>4. seqs \in [1 .. n -> Seq(S)]
  <2>1. \A i \in 1 .. n : props[i].name[1] \in S
    BY <1>1
  <2>. HIDE DEF S, n, props
  <2>2. \A i \in 1 .. n : <<props[i].name[1]>> \in Seq(S)
    BY <2>1
  <2>3. \A i \in 1 .. n : props[i].name \in Seq(S)
    BY <1>3, <2>2, Zenon
  <2>. QED BY <1>1, <2>3
<1>5. group.prefix = <<FlattenSeq(seqs)>>
  BY <1>1 DEF PropertyGroup
<1>. HIDE DEF S, n
<1>6. PICK F \in [0 .. n -> Seq(S)] : Joins(F, n, seqs)
  <2>. HIDE DEF seqs
  <2>. QED BY <1>2, <1>4, FlattenShape
<1>. DEFINE w == props[1].name[1]
            Begun == {k \in Nat : k + 1 \in 1 .. n => F[k + 1] # <<>> /\ F[k + 1][1] = w}
<1>7. \A i \in 1 .. n : seqs[i] = <<props[i].name[1]>> /\ seqs[i] \in Seq(S)
  BY <1>1, <1>3, <1>4
<1>. HIDE DEF seqs
<1>8. 0 \in Begun
  <2>1. F[1] = F[0] \o seqs[1] /\ F[0] = <<>>
    <3>1. F[1] = F[1 - 1] \o seqs[1]
      BY <1>2, <1>6 DEF Joins
    <3>2. 1 - 1 = 0 /\ F[0] = <<>>
      BY <1>6 DEF Joins
    <3>. QED BY <3>1, <3>2
  <2>2. <<>> \o seqs[1] = seqs[1]
    BY <1>2, <1>7
  <2>3. F[1] = <<w>>
    BY <1>2, <1>7, <2>1, <2>2
  <2>. HIDE DEF w
  <2>. QED BY <2>3
<1>9. ASSUME NEW k \in Nat, k \in Begun PROVE k + 1 \in Begun
  <2>. SUFFICES ASSUME (k + 1) + 1 \in 1 .. n
                PROVE  F[(k + 1) + 1] # <<>> /\ F[(k + 1) + 1][1] = w
    OBVIOUS
  <2>. DEFINE m == k + 1
  <2>1. m \in 1 .. n /\ m + 1 \in 1 .. n /\ (m + 1) - 1 = m /\ m \in 0 .. n
    BY <1>2
  <2>2. F[m] # <<>> /\ F[m][1] = w /\ F[m] \in Seq(S)
    BY <1>9, <2>1
  <2>3. F[m + 1] = F[m] \o seqs[m + 1]
    <3>. HIDE DEF m
    <3>. QED BY <1>6, <2>1 DEF Joins
  <2>4. seqs[m + 1] \in Seq(S)
    BY <1>7, <2>1
  <2>. HIDE DEF m, w
  <2>5. F[m + 1] # <<>> /\ F[m + 1][1] = w
    <3>. DEFINE s == F[m]
                t == seqs[m + 1]
    <3>1. s \in Seq(S) /\ t \in Seq(S) /\ s # <<>> /\ s[1] = w
      BY <2>2, <2>4
    <3>. HIDE DEF s, t
    <3>2. Len(s) \in Nat \ {0} /\ Len(s \o t) = Len(s) + Len(t) /\ Len(t) \in Nat
      BY <3>1
    <3>3. 1 \in 1 .. Len(s)
      BY <3>2
    <3>4. (s \o t)[1] = s[1] /\ s \o t # <<>>
      BY <3>1, <3>2, <3>3
    <3>. QED BY <2>3, <3>1, <3>4 DEF s, t
  <2>. QED BY <2>5 DEF m
<1>10. Nat \subseteq Begun
  <2>. HIDE DEF Begun
  <2>. QED BY <1>8, <1>9, SetInduction
<1>11. F[n] # <<>> /\ F[n][1] = w /\ F[n] \in Seq(S)
  <2>1. n - 1 \in Nat /\ (n - 1) + 1 = n /\ n \in 1 .. n /\ n \in 0 .. n
    BY <1>2
  <2>2. n - 1 \in Begun
    <3>. HIDE DEF Begun
    <3>. QED BY <1>10, <2>1
  <2>. QED BY <2>1, <2>2
<1>12. <<w>> \in NamesOf(group)
  BY <1>2, <1>3
<1>13. FlattenSeq(seqs) = F[n]
  BY <1>6 DEF Joins
<1>14. IsSequence(F[n])
  <2>. DEFINE s == F[n]
  <2>1. s \in Seq(S)
    BY <1>11
  <2>. HIDE DEF s
  <2>2. Len(s) \in Nat /\ s = [i \in 1 .. Len(s) |-> s[i]]
    BY <2>1
  <2>3. IsSequence(s)
    BY <2>2, FunctionIsSequence
  <2>. QED BY <2>3 DEF s
<1>15. Called(group, F[n])
  BY <1>5, <1>11, <1>12, <1>13, <1>14 DEF Called
<1>. QED BY <1>15

Directory(groups, i) == groups[i].prefix[1]

\* The groups of a valid info with plain names have directories of their own, none of
\* them the reserved one.
LEMMA GroupDirectories ==
    ASSUME NEW groups, NEW reserved, AreGroups(groups), GroupsValidated(groups),
           PlainGroups(groups, reserved)
    PROVE  /\ \A i \in DOMAIN groups :
                 /\ groups[i].prefix = <<Directory(groups, i)>>
                 /\ Directory(groups, i) # reserved
           /\ \A i, j \in DOMAIN groups : i # j => Directory(groups, i) # Directory(groups, j)
<1>1. \A i \in DOMAIN groups : Called(groups[i], Directory(groups, i))
  <2>. SUFFICES ASSUME NEW i \in DOMAIN groups
                PROVE  Called(groups[i], Directory(groups, i))
    OBVIOUS
  <2>. DEFINE group == groups[i]
  <2>1. /\ IsGroup(group) /\ GroupValidated(group)
        /\ group = PropertyGroup(group.props, group.file_type, <<>>)
        /\ \A name \in NamesOf(group) : name = <<name[1]>>
    BY DEF AreGroups, GroupsValidated, GroupValidated, PlainGroups
  <2>. HIDE DEF group
  <2>2. PICK dir : Called(group, dir)
    BY <2>1, GroupDirectory
  <2>3. dir = group.prefix[1]
    BY <2>2 DEF Called
  <2>. QED BY <2>2, <2>3 DEF group, Directory
<1>2. ASSUME NEW i \in DOMAIN groups
      PROVE  groups[i].prefix = <<Directory(groups, i)>> /\ Directory(groups, i) # reserved
  BY <1>1 DEF Called, PlainGroups
<1>3. ASSUME NEW i \in DOMAIN groups, NEW j \in DOMAIN groups, i # j
      PROVE  Directory(groups, i) # Directory(groups, j)
  <2>1. /\ <<Directory(groups, i)[1]>> \in NamesOf(groups[i])
        /\ <<Directory(groups, j)[1]>> \in NamesOf(groups[j])
    BY <1>1 DEF Called
  <2>2. NamesOf(groups[i]) \cap NamesOf(groups[j]) = {}
    BY <1>3 DEF GroupsValidated
  <2>. QED BY <2>1, <2>2
<1>. QED BY <1>2, <1>3

------------------------------------------------------------------------------
(* The files of a vertex info.                                              *)

\* The files that a vertex info has, each with its path.
VertexPath(v, f, path) ==
    \/ f = <<"count">> /\ path = <<<<v.type>>, <<"vertex_count">>>>
    \/ \E i \in DOMAIN v.groups, chunk \in Chunks :
          /\ f = <<"group", i, chunk>>
          /\ path = <<<<v.type, Directory(v.groups, i)>>, <<"chunk", chunk>>>>
    \/ \E chunk \in Chunks :
          f = <<"labels", chunk>> /\ path = <<<<v.type, <<"labels">>>>, <<"chunk", chunk>>>>

\* Every file of a vertex info is one of these (GetVerticesNumFilePath, GetFilePath).
LEMMA VertexPathIs ==
    ASSUME NEW v, IsVertex(v), VertexValidated(v), PlainVertex(v),
           NEW f \in DOMAIN VertexPaths(v, Chunks)
    PROVE  VertexPath(v, f, VertexPaths(v, Chunks)[f])
<1>. DEFINE paths == VertexPaths(v, Chunks)
<1>0. /\ v.prefix = <<v.type>>
      /\ \A i \in DOMAIN v.groups : v.groups[i].prefix = <<Directory(v.groups, i)>>
  BY GroupDirectories DEF IsVertex, VertexValidated, PlainVertex
<1>1. /\ f \in {<<"count">>} \cup ({"group"} \X (DOMAIN v.groups) \X Chunks)
                  \cup (IF v.labels = <<>> THEN {} ELSE {"labels"} \X Chunks)
      /\ paths[f] = CASE f[1] = "count"  -> VertexCountPath(v)
                      [] f[1] = "group"  -> VertexChunkPath(v, f[2], f[3])
                      [] f[1] = "labels" -> LabelChunkPath(v, f[2])
  BY DEF VertexPaths
<1>. HIDE DEF paths
<1>2. CASE f = <<"count">>
  <2>1. paths[f] = VertexCountPath(v)
    BY <1>1, <1>2
  <2>. QED BY <1>0, <1>2, <2>1 DEF VertexCountPath, VertexPath, paths
<1>3. CASE f \in {"group"} \X (DOMAIN v.groups) \X Chunks
  <2>1. PICK i \in DOMAIN v.groups, chunk \in Chunks : f = <<"group", i, chunk>>
    BY <1>3
  <2>2. paths[f] = VertexChunkPath(v, i, chunk)
    BY <1>1, <2>1
  <2>3. v.prefix \o v.groups[i].prefix = <<v.type, Directory(v.groups, i)>>
    BY <1>0, Directories
  <2>. QED BY <2>1, <2>2, <2>3 DEF VertexChunkPath, VertexPath, paths
<1>4. CASE f \in {"labels"} \X Chunks
  <2>1. PICK chunk \in Chunks : f = <<"labels", chunk>>
    BY <1>4
  <2>2. paths[f] = LabelChunkPath(v, chunk)
    BY <1>1, <2>1
  <2>3. v.prefix \o <<<<"labels">>>> = <<v.type, <<"labels">>>>
    BY <1>0, Directories
  <2>. QED BY <2>1, <2>2, <2>3 DEF LabelChunkPath, VertexPath, paths
<1>. QED BY <1>1, <1>2, <1>3, <1>4

\* They are different, and in a directory named after the type.
LEMMA VertexPathsApart ==
    ASSUME NEW v, IsVertex(v), VertexValidated(v), PlainVertex(v)
    PROVE  /\ IsInjective(VertexPaths(v, Chunks))
           /\ \A path \in Range(VertexPaths(v, Chunks)) : path[1][1] = v.type
<1>. DEFINE paths == VertexPaths(v, Chunks)
<1>1. \A f \in DOMAIN paths : VertexPath(v, f, paths[f])
  BY VertexPathIs
<1>2. /\ \A i \in DOMAIN v.groups : Directory(v.groups, i) # <<"labels">>
      /\ \A i, j \in DOMAIN v.groups :
            i # j => Directory(v.groups, i) # Directory(v.groups, j)
  BY GroupDirectories DEF IsVertex, VertexValidated, PlainVertex
<1>. HIDE DEF paths
<1>3. ASSUME NEW f, NEW h, NEW path, VertexPath(v, f, path), VertexPath(v, h, path)
      PROVE  f = h
  <2>1. CASE f = <<"count">> /\ path = <<<<v.type>>, <<"vertex_count">>>>
    BY <1>3, <2>1 DEF VertexPath
  <2>2. CASE \E i \in DOMAIN v.groups, chunk \in Chunks :
                /\ f = <<"group", i, chunk>>
                /\ path = <<<<v.type, Directory(v.groups, i)>>, <<"chunk", chunk>>>>
    BY <1>2, <1>3, <2>2 DEF VertexPath
  <2>3. CASE \E chunk \in Chunks :
                f = <<"labels", chunk>> /\ path = <<<<v.type, <<"labels">>>>, <<"chunk", chunk>>>>
    BY <1>2, <1>3, <2>3 DEF VertexPath
  <2>. QED BY <1>3, <2>1, <2>2, <2>3 DEF VertexPath
<1>4. IsInjective(paths)
  BY <1>1, <1>3, Zenon DEF IsInjective
<1>5. ASSUME NEW path \in Range(paths) PROVE path[1][1] = v.type
  <2>1. PICK f \in DOMAIN paths : path = paths[f]
    BY <1>5 DEF Range
  <2>2. VertexPath(v, f, path)
    BY <1>1, <2>1
  <2>. QED BY <2>2 DEF VertexPath
<1>. QED BY <1>4, <1>5 DEF paths

------------------------------------------------------------------------------
(* The files of an edge info.                                               *)

\* The files that an edge info has, each with its path, in directories under k for the
\* info and one for each adjacency list.
EdgePath(e, k, f, path) ==
    \/ \E l \in DOMAIN e.lists :
          f = <<"count", l>> /\ path = <<<<k, <<e.lists[l].type>>>>, <<"vertex_count">>>>
    \/ \E l \in DOMAIN e.lists, part \in Chunks :
          /\ f = <<"edge_count", l, part>>
          /\ path = <<<<k, <<e.lists[l].type>>>>, <<"edge_count", part>>>>
    \/ \E l \in DOMAIN e.lists, part \in Chunks :
          /\ f = <<"offset", l, part>>
          /\ path = <<<<k, <<e.lists[l].type>>, <<"offset">>>>, <<"chunk", part>>>>
    \/ \E l \in DOMAIN e.lists, part, chunk \in Chunks :
          /\ f = <<"adj_list", l, part, chunk>>
          /\ path = <<<<k, <<e.lists[l].type>>, <<"adj", "list">>>>, <<"part", part, chunk>>>>
    \/ \E l \in DOMAIN e.lists, part, chunk \in Chunks, i \in DOMAIN e.groups :
          /\ f = <<"group", l, part, chunk, i>>
          /\ path = <<<<k, <<e.lists[l].type>>, Directory(e.groups, i)>>, <<"part", part, chunk>>>>

\* Every file of an edge info is one of these (the path functions of EdgeInfo).
LEMMA EdgePathIs ==
    ASSUME NEW e, IsEdge(e), EdgeValidated(e), PlainEdge(e),
           NEW f \in DOMAIN EdgePaths(e, Chunks)
    PROVE  EdgePath(e, ConcatEdgeTriple(e.triple), f, EdgePaths(e, Chunks)[f])
<1>. DEFINE paths == EdgePaths(e, Chunks)
            k == ConcatEdgeTriple(e.triple)
            L == DOMAIN e.lists
            G == DOMAIN e.groups

<1>1. /\ e.prefix = <<k>>
      /\ \A l \in L : e.lists[l].prefix = <<<<e.lists[l].type>>>>
      /\ \A i \in G : e.groups[i].prefix = <<Directory(e.groups, i)>>
  BY GroupDirectories DEF IsEdge, EdgeValidated, PlainEdge, Range
<1>2. \A l \in L : ListDirectory(e, l) = <<k, <<e.lists[l].type>>>>
  BY <1>1, Directories DEF ListDirectory
<1>0. ASSUME NEW l \in L, NEW d PROVE ListDirectory(e, l) \o <<d>> = <<k, <<e.lists[l].type>>, d>>
  <2>. DEFINE x == <<e.lists[l].type>>
  <2>1. ListDirectory(e, l) = <<k, x>>
    BY <1>2
  <2>. HIDE DEF x, k
  <2>2. <<k, x>> \o <<d>> = <<k, x, d>>
    BY Directories
  <2>. QED BY <2>1, <2>2 DEF x
<1>3. /\ f \in ({"count"} \X L) \cup ({"edge_count", "offset"} \X L \X Chunks)
                  \cup ({"adj_list"} \X L \X Chunks \X Chunks)
                  \cup ({"group"} \X L \X Chunks \X Chunks \X G)
      /\ paths[f] =
            CASE f[1] = "count"      -> <<ListDirectory(e, f[2]), <<"vertex_count">>>>
              [] f[1] = "edge_count" -> <<ListDirectory(e, f[2]), <<"edge_count", f[3]>>>>
              [] f[1] = "offset"     -> <<ListDirectory(e, f[2]) \o <<<<"offset">>>>,
                                          <<"chunk", f[3]>>>>
              [] f[1] = "adj_list"   -> <<ListDirectory(e, f[2]) \o <<<<"adj", "list">>>>,
                                          EdgeChunk(f[3], f[4])>>
              [] f[1] = "group"      -> PropertyPath(e, f[2], f[5], f[3], f[4])
  BY DEF EdgePaths
<1>. HIDE DEF paths, k, L, G
<1>4. CASE f \in {"count"} \X L
  <2>1. PICK l \in L : f = <<"count", l>>
    BY <1>4
  <2>2. paths[f] = <<ListDirectory(e, l), <<"vertex_count">>>>
    BY <1>3, <2>1
  <2>. QED BY <1>2, <2>1, <2>2 DEF EdgePath, paths, k, L
<1>5. CASE f \in {"edge_count", "offset"} \X L \X Chunks
  <2>1. PICK name \in {"edge_count", "offset"}, l \in L, part \in Chunks : f = <<name, l, part>>
    BY <1>5
  <2>2. CASE name = "edge_count"
    <3>1. paths[f] = <<ListDirectory(e, l), <<"edge_count", part>>>>
      BY <1>3, <2>1, <2>2
    <3>. QED BY <1>2, <2>1, <2>2, <3>1 DEF EdgePath, paths, k, L
  <2>3. CASE name = "offset"
    <3>1. paths[f] = <<ListDirectory(e, l) \o <<<<"offset">>>>, <<"chunk", part>>>>
      BY <1>3, <2>1, <2>3
    <3>2. ListDirectory(e, l) \o <<<<"offset">>>> = <<k, <<e.lists[l].type>>, <<"offset">>>>
      BY <1>0
    <3>. QED BY <2>1, <2>3, <3>1, <3>2 DEF EdgePath, paths, k, L
  <2>. QED BY <2>1, <2>2, <2>3
<1>6. CASE f \in {"adj_list"} \X L \X Chunks \X Chunks
  <2>1. PICK l \in L, part \in Chunks, chunk \in Chunks : f = <<"adj_list", l, part, chunk>>
    BY <1>6
  <2>2. paths[f] = <<ListDirectory(e, l) \o <<<<"adj", "list">>>>, EdgeChunk(part, chunk)>>
    BY <1>3, <2>1
  <2>3. ListDirectory(e, l) \o <<<<"adj", "list">>>>
            = <<k, <<e.lists[l].type>>, <<"adj", "list">>>>
    BY <1>0
  <2>. QED BY <2>1, <2>2, <2>3 DEF EdgePath, EdgeChunk, paths, k, L
<1>7. CASE f \in {"group"} \X L \X Chunks \X Chunks \X G
  <2>1. PICK l \in L, part \in Chunks, chunk \in Chunks, i \in G :
            f = <<"group", l, part, chunk, i>>
    BY <1>7
  <2>2. paths[f] = PropertyPath(e, l, i, part, chunk)
    BY <1>3, <2>1
  <2>3. ListDirectory(e, l) \o e.groups[i].prefix
            = <<k, <<e.lists[l].type>>, Directory(e.groups, i)>>
    BY <1>0, <1>1
  <2>. QED BY <2>1, <2>2, <2>3 DEF EdgePath, PropertyPath, EdgeChunk, paths, k, L, G
<1>. QED BY <1>3, <1>4, <1>5, <1>6, <1>7 DEF paths, k

\* They are different, and in a directory named after the three types.
LEMMA EdgePathsApart ==
    ASSUME NEW e, IsEdge(e), EdgeValidated(e), PlainEdge(e)
    PROVE  /\ IsInjective(EdgePaths(e, Chunks))
           /\ \A path \in Range(EdgePaths(e, Chunks)) :
                 path[1][1] = ConcatEdgeTriple(e.triple)
<1>. DEFINE paths == EdgePaths(e, Chunks)
            k == ConcatEdgeTriple(e.triple)
<1>1. \A f \in DOMAIN paths : EdgePath(e, k, f, paths[f])
  BY EdgePathIs
<1>2. /\ \A i \in DOMAIN e.groups : Directory(e.groups, i) # <<"adj", "list">>
      /\ \A i, j \in DOMAIN e.groups :
            i # j => Directory(e.groups, i) # Directory(e.groups, j)
  BY GroupDirectories DEF IsEdge, EdgeValidated, PlainEdge
<1>3. \A l, m \in DOMAIN e.lists : <<e.lists[l].type>> = <<e.lists[m].type>> => l = m
  BY DEF EdgeValidated
<1>. HIDE DEF paths, k
<1>4. ASSUME NEW f, NEW h, NEW path, EdgePath(e, k, f, path), EdgePath(e, k, h, path)
      PROVE  f = h
  <2>1. CASE \E l \in DOMAIN e.lists :
          f = <<"count", l>> /\ path = <<<<k, <<e.lists[l].type>>>>, <<"vertex_count">>>>
    BY <1>3, <1>4, <2>1 DEF EdgePath
  <2>2. CASE \E l \in DOMAIN e.lists, part \in Chunks :
          /\ f = <<"edge_count", l, part>>
          /\ path = <<<<k, <<e.lists[l].type>>>>, <<"edge_count", part>>>>
    BY <1>3, <1>4, <2>2 DEF EdgePath
  <2>3. CASE \E l \in DOMAIN e.lists, part \in Chunks :
          /\ f = <<"offset", l, part>>
          /\ path = <<<<k, <<e.lists[l].type>>, <<"offset">>>>, <<"chunk", part>>>>
    BY <1>3, <1>4, <2>3 DEF EdgePath
  <2>4. CASE \E l \in DOMAIN e.lists, part, chunk \in Chunks :
          /\ f = <<"adj_list", l, part, chunk>>
          /\ path = <<<<k, <<e.lists[l].type>>, <<"adj", "list">>>>, <<"part", part, chunk>>>>
    BY <1>2, <1>3, <1>4, <2>4 DEF EdgePath
  <2>5. CASE \E l \in DOMAIN e.lists, part, chunk \in Chunks, i \in DOMAIN e.groups :
          /\ f = <<"group", l, part, chunk, i>>
          /\ path = <<<<k, <<e.lists[l].type>>, Directory(e.groups, i)>>, <<"part", part, chunk>>>>
    BY <1>2, <1>3, <1>4, <2>5 DEF EdgePath
  <2>. QED BY <1>4, <2>1, <2>2, <2>3, <2>4, <2>5 DEF EdgePath
<1>5. IsInjective(paths)
  BY <1>1, <1>4, Zenon DEF IsInjective
<1>6. ASSUME NEW path \in Range(paths) PROVE path[1][1] = k
  <2>1. PICK f \in DOMAIN paths : path = paths[f]
    BY <1>6 DEF Range
  <2>2. EdgePath(e, k, f, path)
    BY <1>1, <2>1
  <2>. QED BY <2>2 DEF EdgePath
<1>. QED BY <1>5, <1>6 DEF paths, k

\* The three types of a plain edge info, one behind the other.
LEMMA PlainKey ==
    ASSUME NEW triple, triple = [k \in 1 .. 3 |-> <<triple[k][1]>>]
    PROVE  ConcatEdgeTriple(triple) = <<triple[1][1], triple[2][1], triple[3][1]>>
<1>1. triple[1] = <<triple[1][1]>> /\ triple[2] = <<triple[2][1]>> /\ triple[3] = <<triple[3][1]>>
  <2>. DEFINE w == [k \in 1 .. 3 |-> triple[k][1]]
  <2>1. \A k \in 1 .. 3 : triple[k] = <<w[k]>>
    OBVIOUS
  <2>2. w[1] = triple[1][1] /\ w[2] = triple[2][1] /\ w[3] = triple[3][1]
    OBVIOUS
  <2>. HIDE DEF w
  <2>. QED BY <2>1, <2>2
<1>. DEFINE a == triple[1][1]
            b == triple[2][1]
            c == triple[3][1]
<1>2. ConcatEdgeTriple(triple) = (<<a>> \o <<b>>) \o <<c>>
  BY <1>1 DEF ConcatEdgeTriple
<1>. HIDE DEF a, b, c
<1>3. <<a>> \o <<b>> = <<a, b>> /\ <<a, b>> \o <<c>> = <<a, b, c>>
  BY Directories
<1>. QED BY <1>2, <1>3 DEF a, b, c

\* Of triples without an empty type the plain one is found by its key.
LEMMA PlainTriple ==
    ASSUME NEW plain, plain = [k \in 1 .. 3 |-> <<plain[k][1]>>],
           NEW triple, triple = [k \in 1 .. 3 |-> triple[k]],
           \A k \in 1 .. 3 : IsSequence(triple[k]) /\ triple[k] # <<>>,
           ConcatEdgeTriple(plain) = ConcatEdgeTriple(triple)
    PROVE  plain = triple
<1>. DEFINE x == triple[1]
            y == triple[2]
            z == triple[3]
            S == Range(x) \cup Range(y) \cup Range(z)
<1>1. IsSequence(x) /\ IsSequence(y) /\ IsSequence(z) /\ x # <<>> /\ y # <<>> /\ z # <<>>
  OBVIOUS
<1>2. ConcatEdgeTriple(triple) = (x \o y) \o z
  BY DEF ConcatEdgeTriple
<1>3. triple = <<x, y, z>>
  OBVIOUS
<1>. DEFINE a == plain[1][1]
            b == plain[2][1]
            c == plain[3][1]
<1>4. plain = <<<<a>>, <<b>>, <<c>>>>
  <2>. DEFINE w == [k \in 1 .. 3 |-> plain[k][1]]
  <2>1. plain = [k \in 1 .. 3 |-> <<w[k]>>]
    OBVIOUS
  <2>2. w[1] = a /\ w[2] = b /\ w[3] = c
    OBVIOUS
  <2>. HIDE DEF w, a, b, c
  <2>3. plain = [k \in 1 .. 3 |-> IF k = 1 THEN <<a>> ELSE IF k = 2 THEN <<b>> ELSE <<c>>]
    BY <2>1, <2>2
  <2>. QED BY <2>3
<1>5. ConcatEdgeTriple(plain) = <<a, b, c>>
  BY PlainKey
<1>. HIDE DEF a, b, c, x, y, z
<1>6. x \in Seq(S) /\ y \in Seq(S) /\ z \in Seq(S)
  <2>1. ASSUME NEW s, IsSequence(s), Range(s) \subseteq S PROVE s \in Seq(S)
    <3>1. Len(s) \in Nat /\ s = [i \in 1 .. Len(s) |-> s[i]] /\ DOMAIN s = 1 .. Len(s)
      BY <2>1, SequenceShape
    <3>2. \A i \in 1 .. Len(s) : s[i] \in S
      BY <2>1, <3>1 DEF Range
    <3>. HIDE DEF S
    <3>3. s \in [1 .. Len(s) -> S]
      BY <3>1, <3>2
    <3>. DEFINE n == Len(s)
    <3>4. n \in Nat /\ s \in [1 .. n -> S]
      BY <3>1, <3>3
    <3>. HIDE DEF n
    <3>. QED BY <3>4
  <2>2. Range(x) \subseteq S /\ Range(y) \subseteq S /\ Range(z) \subseteq S
    OBVIOUS
  <2>. HIDE DEF S
  <2>. QED BY <1>1, <2>1, <2>2
<1>. HIDE DEF S
<1>7. /\ Len(x) \in Nat \ {0} /\ Len(y) \in Nat \ {0} /\ Len(z) \in Nat \ {0}
  BY <1>1, <1>6
<1>8. /\ x \o y \in Seq(S) /\ Len(x \o y) = Len(x) + Len(y)
      /\ \A i \in 1 .. Len(x) : (x \o y)[i] = x[i]
      /\ \A i \in 1 .. Len(y) : (x \o y)[Len(x) + i] = y[i]
  BY <1>6, JoinedElements
<1>. DEFINE xy == x \o y
<1>9. /\ Len(xy \o z) = Len(xy) + Len(z)
      /\ \A i \in 1 .. Len(xy) : (xy \o z)[i] = xy[i]
      /\ \A i \in 1 .. Len(z) : (xy \o z)[Len(xy) + i] = z[i]
  <2>1. xy \in Seq(S)
    BY <1>8
  <2>. HIDE DEF xy
  <2>. QED BY <1>6, <2>1, JoinedElements
<1>10. xy \o z = <<a, b, c>>
  BY <1>2, <1>5
<1>11. Len(xy) = Len(x) + Len(y)
  BY <1>8
<1>12. Len(x) = 1 /\ Len(y) = 1 /\ Len(z) = 1
  <2>. DEFINE lx == Len(x)
              ly == Len(y)
              lz == Len(z)
  <2>1. Len(xy \o z) = 3
    BY <1>10
  <2>2. lx + ly + lz = 3
    <3>. HIDE DEF xy
    <3>. QED BY <1>9, <1>11, <2>1
  <2>3. lx \in Nat \ {0} /\ ly \in Nat \ {0} /\ lz \in Nat \ {0}
    BY <1>7
  <2>. HIDE DEF lx, ly, lz
  <2>4. lx = 1 /\ ly = 1 /\ lz = 1
    BY <2>2, <2>3
  <2>. QED BY <2>4 DEF lx, ly, lz
<1>13. xy[1] = x[1] /\ xy[1 + 1] = y[1]
  <2>. DEFINE u == x \o y
  <2>1. (\A i \in 1 .. Len(x) : u[i] = x[i]) /\ (\A i \in 1 .. Len(y) : u[Len(x) + i] = y[i])
    BY <1>8
  <2>. HIDE DEF u
  <2>2. u[1] = x[1] /\ u[1 + 1] = y[1]
    BY <1>12, <2>1
  <2>. QED BY <2>2 DEF u
<1>14. x[1] = a /\ y[1] = b /\ z[1] = c
  <2>. DEFINE t == <<a, b, c>>
  <2>1. /\ \A i \in 1 .. 2 : t[i] = xy[i]
        /\ \A i \in 1 .. 1 : t[2 + i] = z[i]
    <3>. HIDE DEF xy, t
    <3>1. xy \o z = t /\ Len(xy) = 2
      BY <1>10, <1>11, <1>12 DEF t
    <3>. QED BY <1>9, <1>12, <3>1
  <2>2. t[1] = xy[1] /\ t[2] = xy[2] /\ t[2 + 1] = z[1]
    <3>. HIDE DEF xy, t
    <3>. QED BY <2>1
  <2>3. t[1] = a /\ t[2] = b /\ t[3] = c
    OBVIOUS
  <2>. HIDE DEF xy, t
  <2>4. 1 + 1 = 2 /\ 2 + 1 = 3
    OBVIOUS
  <2>. QED BY <1>13, <2>2, <2>3, <2>4
<1>15. x = <<a>> /\ y = <<b>> /\ z = <<c>>
  <2>1. ASSUME NEW s \in Seq(S), Len(s) = 1 PROVE s = <<s[1]>>
    BY <2>1
  <2>. QED BY <1>6, <1>12, <1>14, <2>1
<1>. QED BY <1>3, <1>4, <1>15

\* No file of an info is one of another info.
LEMMA NoneShared ==
    ASSUME NEW g, IsGraph(g), GraphValidated(g), PlainGraph(g)
    PROVE  NoPathShared(g)
<1>. DEFINE vs == [i \in DOMAIN g.vertices |-> VertexPaths(g.vertices[i], Chunks)]
            es == [i \in DOMAIN g.edges |-> EdgePaths(g.edges[i], Chunks)]
            all == AllPaths(g)
            n == Len(g.vertices)
            m == Len(g.edges)
<1>1. /\ n \in Nat /\ m \in Nat
      /\ DOMAIN g.vertices = 1 .. n /\ DOMAIN g.edges = 1 .. m
  BY SequenceShape DEF IsGraph
<1>2. \A i \in 1 .. n : LET v == g.vertices[i]
                        IN  IsVertex(v) /\ VertexValidated(v) /\ PlainVertex(v)
  BY <1>1 DEF IsGraph, GraphValidated, VertexValidated, PlainGraph, Range
<1>3. \A i \in 1 .. m : LET e == g.edges[i]
                        IN  IsEdge(e) /\ EdgeValidated(e) /\ PlainEdge(e)
  BY <1>1 DEF IsGraph, GraphValidated, EdgeValidated, PlainGraph, Range
<1>. HIDE DEF n, m
<1>4. /\ DOMAIN all = 1 .. n + m
      /\ \A i \in 1 .. n : all[i] = VertexPaths(g.vertices[i], Chunks)
      /\ \A i \in 1 .. m : all[n + i] = EdgePaths(g.edges[i], Chunks)
  <2>. DEFINE S == {vs[i] : i \in 1 .. n} \cup {es[i] : i \in 1 .. m}
  <2>1. vs \in [1 .. n -> S] /\ es \in [1 .. m -> S]
    BY <1>1
  <2>2. /\ \A i \in 1 .. n : vs[i] = VertexPaths(g.vertices[i], Chunks)
        /\ \A i \in 1 .. m : es[i] = EdgePaths(g.edges[i], Chunks)
    BY <1>1
  <2>3. all = vs \o es
    BY DEF AllPaths
  <2>. HIDE DEF S, vs, es, all
  <2>4. vs \in Seq(S) /\ es \in Seq(S) /\ Len(vs) = n /\ Len(es) = m
    BY <1>1, <2>1
  <2>5. /\ vs \o es \in Seq(S) /\ Len(vs \o es) = n + m
        /\ \A i \in 1 .. n : (vs \o es)[i] = vs[i]
        /\ \A i \in 1 .. m : (vs \o es)[n + i] = es[i]
    <3>1. vs \in Seq(S) /\ es \in Seq(S)
      BY <2>4
    <3>2. /\ vs \o es \in Seq(S) /\ Len(vs \o es) = Len(vs) + Len(es)
          /\ \A i \in 1 .. Len(vs) : (vs \o es)[i] = vs[i]
          /\ \A i \in 1 .. Len(es) : (vs \o es)[Len(vs) + i] = es[i]
      BY <3>1, JoinedElements
    <3>3. Len(vs) = n /\ Len(es) = m
      BY <2>4
    <3>. QED BY <3>2, <3>3, Zenon
  <2>6. DOMAIN all = 1 .. n + m
    BY <2>3, <2>5
  <2>. QED BY <2>2, <2>3, <2>5, <2>6
<1>. DEFINE key == [i \in 1 .. n + m |-> IF i <= n THEN g.vertices[i].type
                                         ELSE ConcatEdgeTriple(g.edges[i - n].triple)]
<1>5. \A i \in 1 .. n + m : IsInjective(all[i]) /\ \A path \in Range(all[i]) : path[1][1] = key[i]
  <2>. SUFFICES ASSUME NEW i \in 1 .. n + m
                PROVE  IsInjective(all[i]) /\ \A path \in Range(all[i]) : path[1][1] = key[i]
    OBVIOUS
  <2>1. CASE i <= n
    <3>1. i \in 1 .. n /\ key[i] = g.vertices[i].type
      BY <1>1, <2>1
    <3>2. all[i] = VertexPaths(g.vertices[i], Chunks)
      BY <1>4, <3>1
    <3>. QED BY <1>2, <3>1, <3>2, VertexPathsApart
  <2>2. CASE ~(i <= n)
    <3>1. i - n \in 1 .. m /\ n + (i - n) = i
          /\ key[i] = ConcatEdgeTriple(g.edges[i - n].triple)
      BY <1>1, <2>2
    <3>2. all[i] = EdgePaths(g.edges[i - n], Chunks)
      BY <1>4, <3>1
    <3>. QED BY <1>3, <3>1, <3>2, EdgePathsApart
  <2>. QED BY <2>1, <2>2
<1>6. ASSUME NEW i \in 1 .. n + m, NEW j \in 1 .. n + m, i < j PROVE key[i] # key[j]
  <2>1. CASE j <= n
    <3>1. i \in 1 .. n /\ j \in 1 .. n /\ i # j
      BY <1>1, <1>6, <2>1
    <3>. QED BY <1>1, <2>1, <3>1 DEF GraphValidated
  <2>2. CASE ~(j <= n) /\ i <= n
    <3>1. i \in 1 .. n /\ j - n \in 1 .. m
      BY <1>1, <2>2
    <3>2. g.vertices[i].type = <<g.vertices[i].type[1]>>
      BY <1>2, <3>1 DEF PlainVertex
    <3>. DEFINE t == g.edges[j - n].triple
    <3>3. t = [k \in 1 .. 3 |-> <<t[k][1]>>]
      BY <1>3, <3>1 DEF PlainEdge
    <3>. HIDE DEF t
    <3>4. ConcatEdgeTriple(t) = <<t[1][1], t[2][1], t[3][1]>>
      BY <3>3, PlainKey
    <3>5. key[i] = g.vertices[i].type /\ key[j] = ConcatEdgeTriple(t)
      BY <2>2 DEF t
    <3>6. \A a, b, c, d : <<a>> # <<b, c, d>>
      OBVIOUS
    <3>. QED BY <3>2, <3>4, <3>5, <3>6
  <2>3. CASE ~(j <= n) /\ ~(i <= n)
    <3>1. i - n \in 1 .. m /\ j - n \in 1 .. m /\ i - n # j - n
      BY <1>1, <1>6, <2>3
    <3>2. ConcatEdgeTriple(g.edges[i - n].triple) # ConcatEdgeTriple(g.edges[j - n].triple)
      BY <1>1, <3>1 DEF GraphValidated
    <3>. QED BY <2>3, <3>2
  <2>. QED BY <2>1, <2>2, <2>3
<1>. HIDE DEF all, key
<1>7. ASSUME NEW i \in 1 .. n + m, NEW j \in 1 .. n + m, i # j
      PROVE  Range(all[i]) \cap Range(all[j]) = {}
  <2>1. key[i] # key[j]
    BY <1>1, <1>6, <1>7
  <2>. QED BY <1>5, <2>1
<1>. QED BY <1>4, <1>5, <1>7 DEF NoPathShared, all

------------------------------------------------------------------------------
(* What is made from a graph info.                                          *)

\* A name that a group has leads to this group.
LEMMA GroupIsFound ==
    ASSUME NEW info, AreGroups(info.groups), GroupsValidated(info.groups),
           NEW i \in DOMAIN info.groups, NEW name \in NamesOf(info.groups[i])
    PROVE  HasProperty(info, name) /\ GroupIndex(info, name) = i
<1>1. i \in Nat
  BY SequenceShape DEF AreGroups, IsSequence
<1>2. GroupsWith(info, name) = {i}
  BY DEF GroupsWith, GroupsValidated, GroupValidated
<1>. QED BY <1>1, <1>2, SingletonMinMax DEF GroupIndex, HasProperty

\* A name that an info has is that of a property of a group.
LEMMA GroupOfName ==
    ASSUME NEW info, NEW name, HasProperty(info, name)
    PROVE  \E i \in DOMAIN info.groups : name \in NamesOf(info.groups[i])
BY DEF HasProperty, GroupsWith

\* The vertex info of a type, and Null where there is none.
LEMMA VertexIsFound ==
    ASSUME NEW g, IsGraph(g), GraphValidated(g), NEW type
    PROVE  /\ \A v \in Range(g.vertices) : IsVertex(v) /\ VertexValidated(v)
           /\ \A v \in Range(g.vertices) : v.type = type => GetVertexInfo(g, type) = v
           /\ (\A v \in Range(g.vertices) : v.type # type) => GetVertexInfo(g, type) = Null
<1>1. \A v \in Range(g.vertices) : IsVertex(v) /\ VertexValidated(v)
  BY DEF IsGraph, GraphValidated, VertexValidated, Range
<1>2. (\A v \in Range(g.vertices) : v.type # type) => GetVertexInfo(g, type) = Null
  BY DEF GetVertexInfo, VerticesOf, Range
<1>. QED BY <1>1, <1>2, VerticesAreFound

\* The path of a chunk of a group.
LEMMA VertexChunkIs ==
    ASSUME NEW v, NEW i \in DOMAIN v.groups, NEW chunk \in Chunks
    PROVE  VertexPaths(v, Chunks)[<<"group", i, chunk>>] = VertexChunkPath(v, i, chunk)
<1>. DEFINE f == <<"group", i, chunk>>
<1>1. f \in DOMAIN VertexPaths(v, Chunks) /\ f[1] = "group" /\ f[2] = i /\ f[3] = chunk
  BY DEF VertexPaths
<1>. QED BY <1>1 DEF VertexPaths

\* What the chunk info writer accepts, and where it copies to.
LEMMA VertexCopies ==
    ASSUME NEW g, IsGraph(g), GraphValidated(g), NEW v \in Range(g.vertices)
    PROVE  VertexCopiesFound(g, v)
<1>0. IsVertex(v) /\ VertexValidated(v) /\ v # Null /\ GetVertexInfo(g, v.type) = v
  BY VertexIsFound DEF VertexValidated
<1>. SUFFICES ASSUME NEW group \in GroupsHeld(v), NEW chunk \in Chunks \cup {-1},
                     NEW level \in LevelsOf(VertexWriterLevels)
              PROVE  LET written == WriteVertexChunk(v, group, chunk, level)
                     IN  /\ level # "no_validate" =>
                               (written.status = "OK")
                                   = (group \in Range(v.groups) /\ chunk \in Chunks)
                         /\ written.status = "OK" /\ group \in Range(v.groups) =>
                               \A name \in NamesOf(group) :
                                  written.path
                                     = VertexReaderPath(MakeVertexReader(g, v.type, name), chunk)
  BY DEF VertexCopiesFound
<1>. DEFINE written == WriteVertexChunk(v, group, chunk, level)
<1>1. Null \notin Range(v.groups)
  BY <1>0 DEF VertexValidated, GroupsValidated, GroupValidated, Range
<1>2. (chunk < 0) = (chunk \notin Chunks)
  BY DEF Chunks
<1>3. ASSUME level # "no_validate"
      PROVE  (written.status = "OK") = (group \in Range(v.groups) /\ chunk \in Chunks)
  BY <1>1, <1>2, <1>3
     DEF WriteVertexChunk, ValidateVertexChunk, HasPropertyGroup, Refused, CopiedTo
<1>4. ASSUME written.status = "OK", group \in Range(v.groups), NEW name \in NamesOf(group)
      PROVE  written.path = VertexReaderPath(MakeVertexReader(g, v.type, name), chunk)
  <2>1. PICK i \in DOMAIN v.groups : group = v.groups[i]
    BY <1>4 DEF Range
  <2>2. HasProperty(v, name) /\ GroupIndex(v, name) = i
    BY <1>0, <1>4, <2>1, GroupIsFound DEF IsVertex, VertexValidated
  <2>3. MakeVertexReader(g, v.type, name) = Made(v, Null, i)
    BY <1>0, <2>2 DEF MakeVertexReader
  <2>4. VertexReaderPath(MakeVertexReader(g, v.type, name), chunk) = VertexChunkPath(v, i, chunk)
    BY <2>3 DEF VertexReaderPath, Made
  <2>5. written.path = <<v.prefix \o group.prefix, <<"chunk", chunk>>>>
    BY <1>4 DEF WriteVertexChunk, Refused, CopiedTo
  <2>. QED BY <2>1, <2>4, <2>5 DEF VertexChunkPath
<1>. QED BY <1>3, <1>4

\* A vertex part is found where it is, or refused.
LEMMA VertexParts ==
    ASSUME NEW g, IsGraph(g), GraphValidated(g), NEW type, NEW name
    PROVE  VerticesReached(g, type, name)
<1>. DEFINE made == MakeVertexReader(g, type, name)
            has == {v \in Range(g.vertices) : v.type = type /\ HasProperty(v, name)}
<1>0. \A v \in Range(g.vertices) : IsVertex(v) /\ VertexValidated(v) /\ v # Null
  BY VertexIsFound DEF VertexValidated
<1>1. (made.status = "OK") = (has # {})
  <2>1. CASE \A v \in Range(g.vertices) : v.type # type
    <3>1. GetVertexInfo(g, type) = Null
      BY <2>1, VertexIsFound
    <3>2. made = Refusal("KeyError")
      BY <3>1 DEF MakeVertexReader
    <3>. QED BY <2>1, <3>2 DEF Refusal
  <2>2. ASSUME NEW v \in Range(g.vertices), v.type = type
        PROVE  (made.status = "OK") = (has # {})
    <3>1. GetVertexInfo(g, type) = v /\ v # Null
      BY <1>0, <2>2, VertexIsFound
    <3>2. CASE HasProperty(v, name)
      <4>1. made.status = "OK"
        BY <3>1, <3>2 DEF MakeVertexReader, Made
      <4>. QED BY <2>2, <3>2, <4>1
    <3>3. CASE ~HasProperty(v, name)
      <4>1. made.status # "OK"
        BY <3>1, <3>3 DEF MakeVertexReader, Refusal
      <4>2. \A w \in Range(g.vertices) : w.type = type => w = v
        BY <3>1, VertexIsFound
      <4>. QED BY <3>3, <4>1, <4>2
    <3>. QED BY <3>2, <3>3
  <2>. QED BY <2>1, <2>2
<1>2. ASSUME NEW v \in {MakeVertexWriter(g, type), MakeVertices(g, type)}
      PROVE  IF \E i \in DOMAIN g.vertices : g.vertices[i].type = type
               THEN v.status = "OK" /\ v.info \in Range(g.vertices) /\ v.info.type = type
               ELSE v.status # "OK"
  <2>1. CASE \E i \in DOMAIN g.vertices : g.vertices[i].type = type
    <3>1. PICK w \in Range(g.vertices) : w.type = type
      BY <2>1 DEF Range
    <3>2. GetVertexInfo(g, type) = w /\ w # Null
      BY <1>0, <3>1, VertexIsFound
    <3>3. v = Made(w, Null, 0)
      BY <1>2, <3>2 DEF MakeVertexWriter, MakeVertices
    <3>. QED BY <2>1, <3>1, <3>3 DEF Made
  <2>2. CASE ~\E i \in DOMAIN g.vertices : g.vertices[i].type = type
    <3>1. \A w \in Range(g.vertices) : w.type # type
      BY <2>2 DEF Range
    <3>2. GetVertexInfo(g, type) = Null
      BY <3>1, VertexIsFound
    <3>3. v \in {Refusal("KeyError"), Refusal("Abort")}
      BY <1>2, <3>2 DEF MakeVertexWriter, MakeVertices
    <3>. QED BY <2>2, <3>3 DEF Refusal
  <2>. QED BY <2>1, <2>2
<1>3. ASSUME NEW v \in has, NEW i \in DOMAIN v.groups, name \in NamesOf(v.groups[i]),
             NEW chunk \in Chunks
      PROVE  VertexReaderPath(made, chunk) = VertexPaths(v, Chunks)[<<"group", i, chunk>>]
  <2>1. GetVertexInfo(g, type) = v /\ v # Null
    BY <1>0, VertexIsFound
  <2>2. HasProperty(v, name) /\ GroupIndex(v, name) = i
    BY <1>0, <1>3, GroupIsFound DEF IsVertex, VertexValidated
  <2>3. made = Made(v, Null, i)
    BY <2>1, <2>2 DEF MakeVertexReader
  <2>4. VertexReaderPath(made, chunk) = VertexChunkPath(v, i, chunk)
    BY <2>3 DEF VertexReaderPath, Made
  <2>. QED BY <2>4, VertexChunkIs
<1>4. \A v \in has : VertexCopiesFound(g, v)
  BY VertexCopies
<1>. HIDE DEF made, has
<1>. QED BY <1>1, <1>2, <1>3, <1>4 DEF VerticesReached, made, has

\* The edge info of three types, and Null where there is none: where names have one word,
\* no other triple has the same key.
LEMMA EdgeIsFound ==
    ASSUME NEW g, IsGraph(g), GraphValidated(g), PlainGraph(g), NEW triple \in TriplesAsked
    PROVE  /\ \A e \in Range(g.edges) : IsEdge(e) /\ EdgeValidated(e) /\ e # Null
           /\ \A e \in Range(g.edges) : e.triple = triple => GetEdgeInfo(g, triple) = e
           /\ (\A e \in Range(g.edges) : e.triple # triple) => GetEdgeInfo(g, triple) = Null
<1>1. \A e \in Range(g.edges) : IsEdge(e) /\ EdgeValidated(e) /\ e # Null
  BY DEF IsGraph, GraphValidated, EdgeValidated, Range
<1>2. ASSUME \A e \in Range(g.edges) : e.triple # triple PROVE GetEdgeInfo(g, triple) = Null
  <2>1. /\ triple = [k \in 1 .. 3 |-> triple[k]]
        /\ \A k \in 1 .. 3 : IsSequence(triple[k]) /\ triple[k] # <<>>
    <3>1. PICK args \in EdgeArgs : triple = args.triple
      BY DEF TriplesAsked
    <3>. QED BY <3>1, InfoAccessAssumption DEF TriplesAsked, IsSequence
  <2>2. ASSUME NEW i \in DOMAIN g.edges
        PROVE  ConcatEdgeTriple(g.edges[i].triple) # ConcatEdgeTriple(triple)
    <3>. DEFINE plain == g.edges[i].triple
    <3>1. plain = [k \in 1 .. 3 |-> <<plain[k][1]>>] /\ plain # triple
      BY <1>2 DEF PlainGraph, PlainEdge, Range
    <3>. HIDE DEF plain
    <3>2. ConcatEdgeTriple(plain) # ConcatEdgeTriple(triple)
      BY <2>1, <3>1, PlainTriple
    <3>. QED BY <3>2 DEF plain
  <2>3. EdgesOf(g, triple) = {}
    BY <2>2 DEF EdgesOf
  <2>. QED BY <2>3 DEF GetEdgeInfo
<1>. QED BY <1>1, <1>2, EdgesAreFound

\* A type of list leads to the adjacency list that has it.
LEMMA ListIsFound ==
    ASSUME NEW e, IsEdge(e), EdgeValidated(e), NEW l \in DOMAIN e.lists
    PROVE  /\ HasAdjacentListType(e, e.lists[l].type)
           /\ Max(ListsOf(e, e.lists[l].type)) = l
           /\ GetAdjacentList(e, e.lists[l].type) = e.lists[l]
<1>1. l \in Nat
  BY SequenceShape DEF IsEdge, AreLists, IsSequence
<1>2. ListsOf(e, e.lists[l].type) = {l}
  BY DEF ListsOf, EdgeValidated, ListValidated
<1>. QED BY <1>1, <1>2, SingletonMinMax, ListsAreFound DEF HasAdjacentListType, IsEdge

\* A type that an edge info has is that of a list.
LEMMA ListOfType ==
    ASSUME NEW e, NEW type, HasAdjacentListType(e, type)
    PROVE  \E l \in DOMAIN e.lists : e.lists[l].type = type
BY DEF HasAdjacentListType, ListsOf

\* What is made for a list of an edge info.
LEMMA ListIsMade ==
    ASSUME NEW e, IsEdge(e), EdgeValidated(e), NEW l \in DOMAIN e.lists
    PROVE  /\ MakeForList(e, e.lists[l].type) = Made(e, e.lists[l], 0)
           /\ \A i : ListIndex(Made(e, e.lists[l], i)) = l
BY ListIsFound DEF MakeForList, ListIndex, Made

\* The chunks of a list and its offsets are where they should be.
ListFiles(e, chunks, l, part, chunk) ==
    /\ EdgePaths(e, chunks)[<<"adj_list", l, part, chunk>>]
          = <<ListDirectory(e, l) \o <<<<"adj", "list">>>>, EdgeChunk(part, chunk)>>
    /\ EdgePaths(e, chunks)[<<"offset", l, part>>]
          = <<ListDirectory(e, l) \o <<<<"offset">>>>, <<"chunk", part>>>>

\* So they are, for any numbers of chunks.
LEMMA EdgeChunksAre ==
    ASSUME NEW e, NEW chunks, NEW l \in DOMAIN e.lists, NEW part \in chunks, NEW chunk \in chunks
    PROVE  ListFiles(e, chunks, l, part, chunk)
<1>1. /\ <<"adj_list", l, part, chunk>> \in DOMAIN EdgePaths(e, chunks)
      /\ <<"offset", l, part>> \in DOMAIN EdgePaths(e, chunks)
  BY DEF EdgePaths
<1>2. EdgePaths(e, chunks)[<<"adj_list", l, part, chunk>>]
                 = <<ListDirectory(e, l) \o <<<<"adj", "list">>>>, EdgeChunk(part, chunk)>>
  <2>. DEFINE f == <<"adj_list", l, part, chunk>>
  <2>1. f \in DOMAIN EdgePaths(e, chunks) /\ f[1] = "adj_list" /\ f[2] = l /\ f[3] = part /\ f[4] = chunk
    BY <1>1
  <2>. HIDE DEF f
  <2>2. EdgePaths(e, chunks)[f]
            = <<ListDirectory(e, l) \o <<<<"adj", "list">>>>, EdgeChunk(part, chunk)>>
    BY <2>1 DEF EdgePaths
  <2>. QED BY <2>2 DEF f
<1>3. EdgePaths(e, chunks)[<<"offset", l, part>>]
                 = <<ListDirectory(e, l) \o <<<<"offset">>>>, <<"chunk", part>>>>
  <2>. DEFINE f == <<"offset", l, part>>
  <2>1. f \in DOMAIN EdgePaths(e, chunks) /\ f[1] = "offset" /\ f[2] = l /\ f[3] = part
    BY <1>1
  <2>. HIDE DEF f
  <2>2. EdgePaths(e, chunks)[f] = <<ListDirectory(e, l) \o <<<<"offset">>>>, <<"chunk", part>>>>
    BY <2>1 DEF EdgePaths
  <2>. QED BY <2>2 DEF f
<1>. QED BY <1>2, <1>3 DEF ListFiles

\* What is made by three types and a type of list: the list of the one edge info with
\* these types, or nothing.
LEMMA ListOrNothing ==
    ASSUME NEW g, IsGraph(g), GraphValidated(g), PlainGraph(g), NEW triple \in TriplesAsked,
           NEW type
    PROVE  /\ \A e \in Range(g.edges) : \A l \in DOMAIN e.lists :
                 e.triple = triple /\ e.lists[l].type = type =>
                    /\ MakeAdjListReader(g, triple, type) = Made(e, e.lists[l], 0)
                    /\ MakeEdges(g, triple, type) = Made(e, e.lists[l], 0)
           /\ (\A e \in Range(g.edges) : ~(e.triple = triple /\ HasAdjacentListType(e, type)))
                 => /\ MakeAdjListReader(g, triple, type).status # "OK"
                    /\ MakeEdges(g, triple, type).status # "OK"
<1>1. ASSUME NEW e \in Range(g.edges), NEW l \in DOMAIN e.lists,
             e.triple = triple, e.lists[l].type = type
      PROVE  /\ MakeAdjListReader(g, triple, type) = Made(e, e.lists[l], 0)
             /\ MakeEdges(g, triple, type) = Made(e, e.lists[l], 0)
  <2>1. IsEdge(e) /\ EdgeValidated(e) /\ e # Null /\ GetEdgeInfo(g, triple) = e
    BY <1>1, EdgeIsFound
  <2>2. MakeForList(e, type) = Made(e, e.lists[l], 0) /\ HasAdjacentListType(e, type)
    BY <1>1, <2>1, ListIsMade, ListIsFound
  <2>. QED BY <2>1, <2>2 DEF MakeAdjListReader, MakeEdges
<1>2. ASSUME \A e \in Range(g.edges) : ~(e.triple = triple /\ HasAdjacentListType(e, type))
      PROVE  /\ MakeAdjListReader(g, triple, type).status # "OK"
             /\ MakeEdges(g, triple, type).status # "OK"
  <2>1. CASE \A e \in Range(g.edges) : e.triple # triple
    <3>1. GetEdgeInfo(g, triple) = Null
      BY <2>1, EdgeIsFound
    <3>. QED BY <3>1 DEF MakeAdjListReader, MakeEdges, Refusal
  <2>2. ASSUME NEW e \in Range(g.edges), e.triple = triple
        PROVE  /\ MakeAdjListReader(g, triple, type).status # "OK"
               /\ MakeEdges(g, triple, type).status # "OK"
    <3>1. GetEdgeInfo(g, triple) = e /\ e # Null /\ ~HasAdjacentListType(e, type)
      BY <1>2, <2>2, EdgeIsFound
    <3>. QED BY <3>1 DEF MakeAdjListReader, MakeEdges, MakeForList, Refusal
  <2>. QED BY <2>1, <2>2
<1>. QED BY <1>1, <1>2

\* The reader of a property of a list goes to the group that has it, or nothing is made.
LEMMA PropertyParts ==
    ASSUME NEW g, IsGraph(g), GraphValidated(g), PlainGraph(g), NEW triple \in TriplesAsked,
           NEW type, NEW name
    PROVE  PropertyReached(g, triple, type, name,
               {e \in Range(g.edges) : e.triple = triple /\ HasAdjacentListType(e, type)})
<1>. DEFINE has == {e \in Range(g.edges) : e.triple = triple /\ HasAdjacentListType(e, type)}
            property == MakePropertyReader(g, triple, name, type)
<1>1. MakePropertyChunkReader(g, triple, name, type) = property
  BY DEF MakePropertyChunkReader
<1>2. (property.status = "OK") = (\E e \in has : HasProperty(e, name))
  <2>1. CASE \A e \in Range(g.edges) : e.triple # triple
    <3>1. GetEdgeInfo(g, triple) = Null
      BY <2>1, EdgeIsFound
    <3>2. property = Refusal("KeyError")
      BY <3>1 DEF MakePropertyReader
    <3>3. property.status # "OK"
      BY <3>2 DEF Refusal
    <3>4. has = {}
      BY <2>1
    <3>. HIDE DEF property, has
    <3>. QED BY <3>3, <3>4
  <2>2. ASSUME NEW e \in Range(g.edges), e.triple = triple
        PROVE  (property.status = "OK") = (\E w \in has : HasProperty(w, name))
    <3>1. GetEdgeInfo(g, triple) = e /\ e # Null
      BY <2>2, EdgeIsFound
    <3>2. \A w \in has : w = e
      BY <3>1, EdgeIsFound
    <3>3. (\E w \in has : HasProperty(w, name))
              <=> HasAdjacentListType(e, type) /\ HasProperty(e, name)
      BY <2>2, <3>2
    <3>4. CASE ~HasProperty(e, name)
      <4>1. property = Refusal("KeyError")
        BY <3>1, <3>4 DEF MakePropertyReader
      <4>2. property.status # "OK"
        BY <4>1 DEF Refusal
      <4>. HIDE DEF property, has
      <4>. QED BY <3>3, <3>4, <4>2
    <3>5. CASE HasProperty(e, name)
      <4>1. property.status = MakeForList(e, type).status
        BY <3>1, <3>5 DEF MakePropertyReader, MakeForList, Made, Refusal
      <4>2. MakeForList(e, type).status = "OK" <=> HasAdjacentListType(e, type)
        BY DEF MakeForList, Made, Refusal
      <4>. HIDE DEF property, has
      <4>. QED BY <3>3, <3>5, <4>1, <4>2
    <3>. QED BY <3>4, <3>5
  <2>. QED BY <2>1, <2>2
<1>3. ASSUME NEW e \in has, NEW l \in DOMAIN e.lists, NEW i \in DOMAIN e.groups,
             e.lists[l].type = type, name \in NamesOf(e.groups[i]),
             NEW part \in Chunks, NEW chunk \in Chunks
      PROVE  PropertyReaderPath(property, part, chunk) = PropertyPath(e, l, i, part, chunk)
  <2>1. IsEdge(e) /\ EdgeValidated(e) /\ e # Null /\ GetEdgeInfo(g, triple) = e
    BY EdgeIsFound
  <2>2. HasProperty(e, name) /\ GroupIndex(e, name) = i
    BY <1>3, <2>1, GroupIsFound DEF IsEdge, EdgeValidated
  <2>3. MakeForList(e, type) = Made(e, e.lists[l], 0)
    BY <1>3, <2>1, ListIsMade
  <2>4. property = Made(e, e.lists[l], i)
    BY <2>1, <2>2, <2>3 DEF MakePropertyReader, Made
  <2>5. ListIndex(property) = l
    BY <2>1, <2>4, ListIsMade
  <2>. QED BY <2>4, <2>5 DEF PropertyReaderPath, Made
<1>. HIDE DEF has, property
<1>4. PropertyReached(g, triple, type, name, has)
  BY <1>1, <1>2, <1>3 DEF PropertyReached, property
<1>. QED BY <1>4 DEF has

\* A property chunk that the chunk info writer copies goes to the chunk's path.
CopiedToChunk(e, l, i, part, chunk, level) ==
    LET copy == WritePropertyChunk(e, e.lists[l].type, e.groups[i], part, chunk, level)
    IN  copy.status = "OK" => copy.path = PropertyPath(e, l, i, part, chunk)

\* So it does for every list and group of the info.
LEMMA CopiedProperty ==
    ASSUME NEW e, IsEdge(e), EdgeValidated(e), NEW l \in DOMAIN e.lists,
           NEW i \in DOMAIN e.groups, NEW part, NEW chunk, NEW level
    PROVE  CopiedToChunk(e, l, i, part, chunk, level)
<1>. DEFINE type == e.lists[l].type
            group == e.groups[i]
            copy == CopyInto(e, type, "OK", group.prefix, EdgeChunk(part, chunk))
            written == WritePropertyChunk(e, type, group, part, chunk, level)
<1>1. HasAdjacentListType(e, type) /\ GetAdjacentList(e, type) = e.lists[l]
  BY ListIsFound
<1>2. written.status = "OK" => written = copy
  BY DEF WritePropertyChunk, Refused
<1>3. copy.path = <<e.prefix \o e.lists[l].prefix \o group.prefix, EdgeChunk(part, chunk)>>
  BY <1>1 DEF CopyInto, CopiedTo
<1>. HIDE DEF copy, written
<1>4. written.status = "OK" => written.path = PropertyPath(e, l, i, part, chunk)
  BY <1>2, <1>3 DEF PropertyPath, ListDirectory
<1>. QED BY <1>4 DEF CopiedToChunk, written

\* What the chunk info writer accepts, and where it copies to.
LEMMA EdgeCopies ==
    ASSUME NEW g, IsGraph(g), GraphValidated(g), PlainGraph(g), NEW triple \in TriplesAsked,
           NEW type, NEW e \in Range(g.edges), e.triple = triple, HasAdjacentListType(e, type)
    PROVE  EdgeCopiesFound(g, e, type)
<1>. DEFINE list == MakeAdjListReader(g, e.triple, type)
            offsets == MakeOffsetReader(g, e.triple, type)
<1>0. /\ IsEdge(e) /\ EdgeValidated(e) /\ e # Null /\ GetEdgeInfo(g, triple) = e
  BY EdgeIsFound
<1>1. PICK l \in DOMAIN e.lists : e.lists[l].type = type
  BY ListOfType
<1>2. list = Made(e, e.lists[l], 0) /\ ListIndex(list) = l
  <2>1. list = Made(e, e.lists[l], 0)
    BY <1>1, ListOrNothing
  <2>. QED BY <1>0, <2>1, ListIsMade
<1>3. GetAdjacentList(e, type) = e.lists[l]
  BY <1>0, <1>1, ListIsFound
<1>4. offsets.status = "OK" => offsets = list
  BY DEF MakeOffsetReader, Refusal
<1>5. Null \notin Range(e.groups)
  BY <1>0 DEF EdgeValidated, GroupsValidated, GroupValidated, Range
<1>. SUFFICES ASSUME NEW part \in Chunks \cup {-1}, NEW chunk \in Chunks \cup {-1},
                     NEW level \in LevelsOf(EdgeWriterLevels)
              PROVE
            LET edges  == WriteAdjListChunk(e, type, part, chunk, level)
                offset == WriteOffsetChunk(e, type, part, level)
                checks == level # "no_validate"
            IN  /\ (edges.status = "OK") = (checks => {part, chunk} \subseteq Chunks)
                /\ (offset.status = "OK") = (checks => part \in Chunks)
                /\ edges.status = "OK" => edges.path = AdjListReaderPath(list, part, chunk)
                /\ offset.status = "OK" /\ offsets.status = "OK" =>
                       offset.path = OffsetReaderPath(offsets, part)
                /\ \A group \in GroupsHeld(e) :
                      LET copy == WritePropertyChunk(e, type, group, part, chunk, level)
                      IN  /\ checks => (copy.status = "OK")
                                         = (edges.status = "OK" /\ group \in Range(e.groups))
                          /\ copy.status = "OK" /\ group \in Range(e.groups) =>
                               \A name \in NamesOf(group) :
                                  copy.path = PropertyReaderPath(
                                      MakePropertyReader(g, e.triple, name, type), part, chunk)
  <2>. HIDE DEF list, offsets
  <2>. QED BY DEF EdgeCopiesFound, list, offsets
<1>. DEFINE edges == WriteAdjListChunk(e, type, part, chunk, level)
            offset == WriteOffsetChunk(e, type, part, level)
            checks == level # "no_validate"
<1>6. (part < 0) = (part \notin Chunks) /\ (chunk < 0) = (chunk \notin Chunks) /\ ~(0 < 0)
  BY DEF Chunks
<1>7. (edges.status = "OK") = (checks => {part, chunk} \subseteq Chunks)
  BY <1>6 DEF WriteAdjListChunk, ValidateAdjList, CopyInto, Refused, CopiedTo
<1>8. (offset.status = "OK") = (checks => part \in Chunks)
  BY <1>6 DEF WriteOffsetChunk, ValidateAdjList, CopyInto, Refused, CopiedTo
<1>9. ASSUME edges.status = "OK" PROVE edges.path = AdjListReaderPath(list, part, chunk)
  <2>1. edges.path = <<e.prefix \o e.lists[l].prefix \o <<<<"adj", "list">>>>, EdgeChunk(part, chunk)>>
    BY <1>3, <1>9 DEF WriteAdjListChunk, CopyInto, Refused, CopiedTo
  <2>2. AdjListReaderPath(list, part, chunk)
            = EdgePaths(e, {part, chunk})[<<"adj_list", l, part, chunk>>]
    BY <1>2 DEF AdjListReaderPath, Made
  <2>3. EdgePaths(e, {part, chunk})[<<"adj_list", l, part, chunk>>]
            = <<ListDirectory(e, l) \o <<<<"adj", "list">>>>, EdgeChunk(part, chunk)>>
    <3>. DEFINE chunks == {part, chunk}
    <3>1. part \in chunks /\ chunk \in chunks
      OBVIOUS
    <3>. HIDE DEF chunks
    <3>2. ListFiles(e, chunks, l, part, chunk)
      BY <3>1, EdgeChunksAre
    <3>. QED BY <3>2 DEF ListFiles, chunks
  <2>. QED BY <2>1, <2>2, <2>3 DEF ListDirectory
<1>10. ASSUME offset.status = "OK", offsets.status = "OK"
       PROVE  offset.path = OffsetReaderPath(offsets, part)
  <2>1. offset.path = <<e.prefix \o e.lists[l].prefix \o <<<<"offset">>>>, <<"chunk", part>>>>
    BY <1>3, <1>10 DEF WriteOffsetChunk, CopyInto, Refused, CopiedTo
  <2>2. OffsetReaderPath(offsets, part) = EdgePaths(e, {part})[<<"offset", l, part>>]
    BY <1>2, <1>4, <1>10 DEF OffsetReaderPath, Made
  <2>3. EdgePaths(e, {part})[<<"offset", l, part>>]
            = <<ListDirectory(e, l) \o <<<<"offset">>>>, <<"chunk", part>>>>
    <3>. DEFINE chunks == {part}
    <3>1. part \in chunks
      OBVIOUS
    <3>. HIDE DEF chunks
    <3>2. ListFiles(e, chunks, l, part, part)
      BY <3>1, EdgeChunksAre
    <3>. QED BY <3>2 DEF ListFiles, chunks
  <2>. QED BY <2>1, <2>2, <2>3 DEF ListDirectory
<1>11. ASSUME NEW group \in GroupsHeld(e)
       PROVE  LET copy == WritePropertyChunk(e, type, group, part, chunk, level)
              IN  /\ checks => (copy.status = "OK")
                                 = (edges.status = "OK" /\ group \in Range(e.groups))
                  /\ copy.status = "OK" /\ group \in Range(e.groups) =>
                        \A name \in NamesOf(group) :
                           copy.path = PropertyReaderPath(
                               MakePropertyReader(g, e.triple, name, type), part, chunk)
  <2>. DEFINE copy == WritePropertyChunk(e, type, group, part, chunk, level)
  <2>1. ASSUME checks
        PROVE  (copy.status = "OK") = (edges.status = "OK" /\ group \in Range(e.groups))
    <3>1. copy.status = "OK" =>
             ValidateAdjList(e, type, part, chunk, level) = "OK" /\ group \in Range(e.groups)
      BY <2>1 DEF WritePropertyChunk, ValidateProperty, HasPropertyGroup, Refused
    <3>2. ValidateAdjList(e, type, part, chunk, level) = "OK" /\ group \in Range(e.groups)
             => copy.status = "OK"
      BY <1>5, <2>1
         DEF WritePropertyChunk, ValidateProperty, HasPropertyGroup, CopyInto, CopiedTo
    <3>3. (edges.status = "OK") = (ValidateAdjList(e, type, part, chunk, level) = "OK")
      BY DEF WriteAdjListChunk, CopyInto, Refused, CopiedTo
    <3>. HIDE DEF copy, edges
    <3>. QED BY <3>1, <3>2, <3>3
  <2>2. ASSUME copy.status = "OK", group \in Range(e.groups), NEW name \in NamesOf(group)
        PROVE  copy.path = PropertyReaderPath(
                               MakePropertyReader(g, e.triple, name, type), part, chunk)
    <3>1. PICK i \in DOMAIN e.groups : group = e.groups[i]
      BY <2>2 DEF Range
    <3>2. copy.path = PropertyPath(e, l, i, part, chunk)
      <4>1. copy = WritePropertyChunk(e, e.lists[l].type, e.groups[i], part, chunk, level)
        BY <1>1, <3>1
      <4>2. CopiedToChunk(e, l, i, part, chunk, level)
        BY <1>0, CopiedProperty
      <4>. HIDE DEF copy
      <4>. QED BY <2>2, <4>1, <4>2 DEF CopiedToChunk
    <3>3. HasProperty(e, name) /\ GroupIndex(e, name) = i
      BY <1>0, <2>2, <3>1, GroupIsFound DEF IsEdge, EdgeValidated
    <3>4. MakeForList(e, type) = Made(e, e.lists[l], 0)
      BY <1>0, <1>1, ListIsMade
    <3>5. MakePropertyReader(g, e.triple, name, type) = Made(e, e.lists[l], i)
      BY <1>0, <3>3, <3>4 DEF MakePropertyReader, Made
    <3>6. ListIndex(Made(e, e.lists[l], i)) = l
      BY <1>0, <1>1, ListIsMade
    <3>. QED BY <3>2, <3>5, <3>6 DEF PropertyReaderPath, Made
  <2>. HIDE DEF copy
  <2>. QED BY <2>1, <2>2 DEF copy
<1>. HIDE DEF list, offsets, edges, offset
<1>. QED BY <1>7, <1>8, <1>9, <1>10, <1>11 DEF edges, offset

\* An edge part is found where it is, or refused.
LEMMA EdgeParts ==
    ASSUME NEW g, IsGraph(g), GraphValidated(g), PlainGraph(g), NEW triple \in TriplesAsked,
           NEW type
    PROVE  EdgesReached(g, triple, type)
<1>. DEFINE edges == MakeAdjListReader(g, triple, type)
            offsets == MakeOffsetReader(g, triple, type)
            others == {MakeEdgesBuilder(g, triple, type), MakeEdgeWriter(g, triple, type),
                       MakeEdges(g, triple, type)}
            has == {e \in Range(g.edges) : e.triple = triple /\ HasAdjacentListType(e, type)}
<1>1. ASSUME NEW e \in has, NEW l \in DOMAIN e.lists, e.lists[l].type = type
      PROVE  /\ edges = Made(e, e.lists[l], 0) /\ MakeEdges(g, triple, type) = Made(e, e.lists[l], 0)
             /\ ListIndex(edges) = l
  <2>1. /\ edges = Made(e, e.lists[l], 0) /\ MakeEdges(g, triple, type) = Made(e, e.lists[l], 0)
    BY <1>1, ListOrNothing
  <2>2. IsEdge(e) /\ EdgeValidated(e)
    BY EdgeIsFound
  <2>3. ListIndex(Made(e, e.lists[l], 0)) = l
    BY <2>2, ListIsMade
  <2>. HIDE DEF edges, has
  <2>. QED BY <2>1, <2>3
<1>2. \A made \in {edges} \cup others :
         made = edges \/ made = MakeEdges(g, triple, type)
  BY DEF MakeEdgesBuilder, MakeEdgeWriter
<1>3. ASSUME NEW made \in {edges} \cup others
      PROVE  IF has = {} THEN made.status # "OK"
             ELSE made.status = "OK" /\ made.info \in has /\ made.list.type = type
  <2>1. CASE has = {}
    <3>1. edges.status # "OK" /\ MakeEdges(g, triple, type).status # "OK"
      BY <2>1, ListOrNothing
    <3>. HIDE DEF edges, others, has
    <3>. QED BY <1>2, <2>1, <3>1
  <2>2. CASE has # {}
    <3>1. PICK e \in has : TRUE
      BY <2>2
    <3>2. PICK l \in DOMAIN e.lists : e.lists[l].type = type
      BY <3>1, ListOfType
    <3>3. made = Made(e, e.lists[l], 0)
      BY <1>1, <1>2, <3>2
    <3>. HIDE DEF edges, others, has
    <3>. QED BY <2>2, <3>1, <3>2, <3>3 DEF Made
  <2>. QED BY <2>1, <2>2
<1>4. MakeOffsetChunkReader(g, triple, type) = offsets
  BY DEF MakeOffsetChunkReader
<1>5. (edges.status = "OK") = (has # {})
  <2>. HIDE DEF has, others, edges
  <2>. QED BY <1>3
<1>6. (offsets.status = "OK") = (has # {} /\ type \in Ordered)
  <2>. HIDE DEF has
  <2>. QED BY <1>5 DEF MakeOffsetReader, Refusal
<1>7. ASSUME NEW e \in has, NEW l \in DOMAIN e.lists, e.lists[l].type = type,
             NEW part \in Chunks, NEW chunk \in Chunks
      PROVE  LET path == EdgePaths(e, Chunks)
             IN  /\ AdjListReaderPath(edges, part, chunk) = path[<<"adj_list", l, part, chunk>>]
                 /\ type \in Ordered => OffsetReaderPath(offsets, part) = path[<<"offset", l, part>>]
  <2>1. edges = Made(e, e.lists[l], 0) /\ ListIndex(edges) = l
    BY <1>1, <1>7
  <2>2. AdjListReaderPath(edges, part, chunk)
            = EdgePaths(e, {part, chunk})[<<"adj_list", l, part, chunk>>]
    BY <2>1 DEF AdjListReaderPath, Made
  <2>3. type \in Ordered => offsets = edges
    BY <2>1 DEF MakeOffsetReader
  <2>4. type \in Ordered =>
            OffsetReaderPath(offsets, part) = EdgePaths(e, {part})[<<"offset", l, part>>]
    BY <2>1, <2>3 DEF OffsetReaderPath, Made
  <2>5. ASSUME NEW chunks, part \in chunks, NEW other \in chunks, other \in Chunks
        PROVE  /\ EdgePaths(e, chunks)[<<"adj_list", l, part, other>>]
                      = EdgePaths(e, Chunks)[<<"adj_list", l, part, other>>]
               /\ EdgePaths(e, chunks)[<<"offset", l, part>>]
                      = EdgePaths(e, Chunks)[<<"offset", l, part>>]
    <3>1. ListFiles(e, chunks, l, part, other) /\ ListFiles(e, Chunks, l, part, other)
      BY <2>5, EdgeChunksAre
    <3>. QED BY <3>1 DEF ListFiles
  <2>6. part \in {part, chunk} /\ chunk \in {part, chunk} /\ part \in {part}
    OBVIOUS
  <2>7. EdgePaths(e, {part, chunk})[<<"adj_list", l, part, chunk>>]
            = EdgePaths(e, Chunks)[<<"adj_list", l, part, chunk>>]
    BY <2>5, <2>6
  <2>8. EdgePaths(e, {part})[<<"offset", l, part>>] = EdgePaths(e, Chunks)[<<"offset", l, part>>]
    BY <2>5, <2>6
  <2>. QED BY <2>2, <2>4, <2>7, <2>8
<1>8. \A name \in Names : PropertyReached(g, triple, type, name, has)
  BY PropertyParts
<1>9. \A e \in has : EdgeCopiesFound(g, e, type)
  BY EdgeCopies
<1>. HIDE DEF edges, offsets, others, has
<1>. QED BY <1>3, <1>4, <1>6, <1>7, <1>8, <1>9 DEF EdgesReached, edges, offsets, others, has

\* Every path of a plain and valid graph.
LEMMA PathsOfGraph ==
    ASSUME Inv
    PROVE  PathsApart
<1>. SUFFICES ASSUME GraphValidated(graph), PlainGraph(graph)
              PROVE  NoPathShared(graph) /\ PartsReached(graph)
  BY DEF PathsApart
<1>1. IsGraph(graph)
  BY DEF Inv, Held, GraphValidated
<1>2. NoPathShared(graph)
  BY <1>1, NoneShared
<1>3. PartsReached(graph)
  BY <1>1, VertexParts, EdgeParts DEF PartsReached
<1>. QED BY <1>2, <1>3

------------------------------------------------------------------------------
(* The theorems.                                                            *)

\* What the invariant says of one state.
LEMMA InvImplies ==
    ASSUME Inv
    PROVE  TypeOK /\ BuiltIsValid /\ LookupsFollow /\ LoadedIsValid /\ LoadedIsSaved
<1>1. TypeOK
  <2>1. \A file \in VertexFiles :
          disk[file] \notin {Missing, Torn} => file = <<"vertex", disk[file].type>>
    <3>. SUFFICES ASSUME NEW file \in VertexFiles, disk[file] \notin {Missing, Torn}
                  PROVE  file = <<"vertex", disk[file].type>>
      OBVIOUS
    <3>1. VertexFits(file, disk[file])
      BY DEF Inv, Stored, Files, Fits
    <3>. QED BY <3>1 DEF VertexFits, VertexFile, DumpVertex
  <2>2. \A file \in EdgeFiles :
          disk[file] \notin {Missing, Torn} =>
              file = <<"edge", ConcatEdgeTriple(disk[file].triple)>>
    <3>. SUFFICES ASSUME NEW file \in EdgeFiles, disk[file] \notin {Missing, Torn}
                  PROVE  file = <<"edge", ConcatEdgeTriple(disk[file].triple)>>
      OBVIOUS
    <3>1. EdgeFits(file, disk[file])
      BY DEF Inv, Stored, Files, Fits
    <3>. QED BY <3>1 DEF EdgeFits, EdgeFile, DumpEdge
  <2>3. disk[GraphFile] \notin {Missing, Torn} => PartsOf(disk[GraphFile]) \subseteq Files
    BY DEF Inv, Stored, Files, Fits, GraphFits, PartsOf
  <2>. QED BY <2>1, <2>2, <2>3 DEF Inv, Bounded, Stored, TypeOK
<1>2. LookupsFollow
  <2>1. VertexValidated(vertex) => GroupsFound(vertex)
    BY GroupsAreFound DEF Inv, Held, IsVertex, VertexValidated
  <2>2. EdgeValidated(edge) =>
          /\ GroupsFound(edge)
          /\ \A i \in DOMAIN edge.lists :
                GetAdjacentList(edge, edge.lists[i].type) = edge.lists[i]
    BY GroupsAreFound, ListsAreFound DEF Inv, Held, IsEdge, EdgeValidated
  <2>3. GraphValidated(graph) =>
          /\ \A v \in Range(graph.vertices) : GetVertexInfo(graph, v.type) = v
          /\ \A e \in Range(graph.edges) : GetEdgeInfo(graph, e.triple) = e
    BY VerticesAreFound, EdgesAreFound DEF Inv, Held, GraphValidated
  <2>. QED BY <2>1, <2>2, <2>3 DEF LookupsFollow
<1>3. LoadedIsValid
  BY DEF Inv, LoadedFits, LoadedIsValid
<1>. QED BY <1>1, <1>2, <1>3 DEF Inv

\* The invariant holds in every reachable state.
LEMMA InvHolds ==
    ASSUME NullIsNoGraph, MarksAreNoNodes
    PROVE  Spec => []Inv
<1>1. Init => Inv
  BY InitInv
<1>2. Inv /\ [Next]_vars => Inv'
  BY NextInv
<1>. QED BY <1>1, <1>2, PTL DEF Spec

\* Whatever is saved over what and wherever a call fails, each file that is whole holds
\* what its name says (graph_info.cc, Save and the file names of Dump).
THEOREM TypeCorrect ==
    ASSUME NullIsNoGraph, MarksAreNoNodes
    PROVE  Spec => []TypeOK
<1>1. Inv => TypeOK
  BY InvImplies
<1>. QED BY <1>1, InvHolds, PTL

\* The calls that add a valid part to a valid info never make an invalid one: the
\* checks of AddPropertyGroup, AddAdjacentList, AddVertex and AddEdge are enough.
THEOREM BuiltCorrect ==
    ASSUME NullIsNoGraph, MarksAreNoNodes
    PROVE  Spec => []BuiltIsValid
<1>1. Inv => BuiltIsValid
  BY InvImplies
<1>. QED BY <1>1, InvHolds, PTL

\* Every part of a valid info is found under its name: IsValidated excludes exactly the
\* duplicates for which the index maps would answer with another part.
THEOREM LookupsCorrect ==
    ASSUME NullIsNoGraph, MarksAreNoNodes
    PROVE  Spec => []LookupsFollow
<1>1. Inv => LookupsFollow
  BY InvImplies
<1>. QED BY <1>1, InvHolds, PTL

\* A graph that Load gives is valid, for files saved by any graphs in any order.
THEOREM LoadedCorrect ==
    ASSUME NullIsNoGraph, MarksAreNoNodes
    PROVE  Spec => []LoadedIsValid
<1>1. Inv => LoadedIsValid
  BY InvImplies
<1>. QED BY <1>1, InvHolds, PTL

\* Load undoes Save: once no file is pending it gives the graph that was saved.
THEOREM RoundTripCorrect ==
    ASSUME NullIsNoGraph, MarksAreNoNodes
    PROVE  Spec => []LoadedIsSaved
<1>1. Inv => LoadedIsSaved
  BY InvImplies
<1>. QED BY <1>1, InvHolds, PTL

\* In a valid graph with plain names no two data files have the same path, and what is made
\* by type, property name and list goes to the files of that part and no other (the Make
\* functions, the path functions and the chunk info writers), whatever was built and loaded.
THEOREM PathsCorrect ==
    ASSUME NullIsNoGraph, MarksAreNoNodes
    PROVE  Spec => []PathsApart
<1>1. Inv => PathsApart
  BY PathsOfGraph
<1>. QED BY <1>1, InvHolds, PTL
==============================================================================
