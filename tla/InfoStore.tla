------------------------------ MODULE InfoStore -------------------------------
(****************************************************************************)
(* A client that builds vertex, edge and graph infos, saves them in one     *)
(* directory and loads the graph from it (cpp/src/graphar/graph_info.cc).   *)
(* Every file is written by a call of its own, which may fail or be cut     *)
(* short by a crash; infos of several graphs may be saved over each other.  *)
(****************************************************************************)
EXTENDS GraphInfo

CONSTANTS VertexArgs, EdgeArgs, GraphArgs,  \* arguments of the Create functions
          GroupOffers, ListOffers,          \* parts that may be added, Null among them
          Missing, Torn,                    \* a file that does not exist, one cut short
          MaxAdds, MaxSaves                 \* bounds: calls that build, calls that save

\* The parts in the arguments come from their constructors.
ASSUME InfoStoreAssumption ==
    /\ \A args \in VertexArgs : AreGroups(args.groups)
    /\ \A args \in EdgeArgs : AreGroups(args.groups) /\ AreLists(args.lists)
    /\ \A group \in GroupOffers : group # Null => IsGroup(group)
    /\ \A list \in ListOffers : list # Null => IsList(list)
    /\ MaxAdds \in Nat /\ MaxSaves \in Nat

VARIABLES
    vertex, edge,  \* the vertex and the edge info the client works on, or Null
    graph,         \* its graph info, or Null
    disk,          \* file name -> node, Missing or Torn
    loaded,        \* what the last call of Load gave
    sound,         \* history: which of its infos are built from valid parts alone
    pending,       \* history: the files not saved since graph changed
    adds, saves    \* history: calls so far

infoVars == <<vertex, edge, graph>>
vars == <<infoVars, disk, loaded, sound, pending, adds, saves>>

GraphFile == <<"graph">>
VertexFiles == {<<"vertex", args.type>> : args \in VertexArgs}
EdgeFiles == {<<"edge", ConcatEdgeTriple(args.triple)>> : args \in EdgeArgs}
Files == {GraphFile} \cup VertexFiles \cup EdgeFiles

NotLoaded == [status |-> "none", graph |-> Null]

Init ==
    /\ vertex = Null /\ edge = Null /\ graph = Null
    /\ disk = [file \in Files |-> Missing]
    /\ loaded = NotLoaded
    /\ sound = {} /\ pending = {}
    /\ adds = 0 /\ saves = 0

\* The files that describe a graph.
FilesOf(g) ==
    {GraphFile} \cup {VertexFile(v) : v \in Range(g.vertices) \ {Null}}
                \cup {EdgeFile(e) : e \in Range(g.edges) \ {Null}}

\* Whether a part is sound after a call.
Sound(part, valid) == IF valid THEN sound \cup {part} ELSE sound \ {part}

------------------------------------------------------------------------------
(* Building.                                                                *)

Builds ==
    /\ adds < MaxAdds /\ adds' = adds + 1
    /\ loaded' = NotLoaded
    /\ UNCHANGED <<disk, saves>>

\* The Create functions give a null pointer for arguments that no info can have.
CreateVertexInfo(args) ==
    /\ Builds
    /\ vertex' = IF args.type = <<>> \/ args.chunk_size <= 0 THEN Null
                 ELSE VertexInfo(args.type, args.chunk_size, args.groups, args.labels,
                                 args.prefix, args.version)
    /\ sound' = Sound("vertex", VertexValidated(vertex'))
    /\ UNCHANGED <<edge, graph, pending>>

CreateEdgeInfo(args) ==
    /\ Builds
    /\ edge' = IF (\E k \in 1 .. 3 : args.triple[k] = <<>> \/ args.sizes[k] <= 0)
                     \/ args.lists = <<>> THEN Null
               ELSE EdgeInfo(args.triple, args.sizes, args.directed, args.lists,
                             args.groups, args.prefix, args.version)
    /\ sound' = Sound("edge", EdgeValidated(edge'))
    /\ UNCHANGED <<vertex, graph, pending>>

\* With any infos the client has, null pointers and duplicates included.
CreateGraphInfo(args, vertices, edges) ==
    /\ Builds
    /\ graph' = IF args.name = <<>> THEN Null
                ELSE GraphInfo(args.name, vertices, edges, args.labels, args.prefix,
                               args.version, args.extra)
    /\ pending' = IF graph' = Null THEN {} ELSE FilesOf(graph')
    /\ sound' = Sound("graph", GraphValidated(graph'))
    /\ UNCHANGED <<vertex, edge>>

\* A call that returns Invalid leaves the client with the info it had.
AddGroupToVertex(group) ==
    /\ Builds /\ vertex # Null
    /\ AddPropertyGroup(vertex, group) # Null
    /\ vertex' = AddPropertyGroup(vertex, group)
    /\ sound' = Sound("vertex", "vertex" \in sound /\ GroupValidated(group))
    /\ UNCHANGED <<edge, graph, pending>>

AddGroupToEdge(group) ==
    /\ Builds /\ edge # Null
    /\ AddPropertyGroup(edge, group) # Null
    /\ edge' = AddPropertyGroup(edge, group)
    /\ sound' = Sound("edge", "edge" \in sound /\ GroupValidated(group))
    /\ UNCHANGED <<vertex, graph, pending>>

AddListToEdge(list) ==
    /\ Builds /\ edge # Null
    /\ AddAdjacentList(edge, list) # Null
    /\ edge' = AddAdjacentList(edge, list)
    /\ sound' = Sound("edge", "edge" \in sound /\ ListValidated(list))
    /\ UNCHANGED <<vertex, graph, pending>>

AddVertexToGraph ==
    /\ Builds /\ graph # Null
    /\ AddVertex(graph, vertex) # Null
    /\ graph' = AddVertex(graph, vertex)
    /\ pending' = pending \cup {GraphFile, VertexFile(vertex)}
    /\ sound' = Sound("graph", "graph" \in sound /\ "vertex" \in sound)
    /\ UNCHANGED <<vertex, edge>>

AddEdgeToGraph ==
    /\ Builds /\ graph # Null
    /\ AddEdge(graph, edge) # Null
    /\ graph' = AddEdge(graph, edge)
    /\ pending' = pending \cup {GraphFile, EdgeFile(edge)}
    /\ sound' = Sound("graph", "graph" \in sound /\ "edge" \in sound)
    /\ UNCHANGED <<vertex, edge>>

------------------------------------------------------------------------------
(* Saving.  The client saves an info under the name that graphs expect.     *)

\* What a write to file is to the client's graph: part says that it is the graph's own.
Pending(file, part) ==
    IF graph = Null THEN {}
    ELSE IF part THEN pending \ {file}
    ELSE pending \cup ({file} \cap FilesOf(graph))

Written(file, node, part) ==
    /\ disk' = [disk EXCEPT ![file] = node]
    /\ pending' = Pending(file, part)
    /\ UNCHANGED <<infoVars, sound>>

\* The call fails or the process ends: the file is as it was, or cut short.
NotWritten(file) ==
    /\ disk' \in {disk, [disk EXCEPT ![file] = Torn]}
    /\ \/ /\ pending' = Pending(file, FALSE)
          /\ UNCHANGED <<infoVars, sound>>
       \/ /\ vertex' = Null /\ edge' = Null /\ graph' = Null
          /\ sound' = {} /\ pending' = {}

Save(file, node, part) ==
    /\ saves < MaxSaves /\ saves' = saves + 1
    /\ loaded' = NotLoaded
    /\ Written(file, node, part) \/ NotWritten(file)
    /\ UNCHANGED adds

\* Save refuses an info that is not valid.
SaveVertex(v) ==
    /\ VertexValidated(v)
    /\ Save(VertexFile(v), DumpVertex(v), graph # Null /\ v \in Range(graph.vertices))

SaveEdge(e) ==
    /\ EdgeValidated(e)
    /\ Save(EdgeFile(e), DumpEdge(e), graph # Null /\ e \in Range(graph.edges))

SaveParts ==                                         \* fault model: types not compared
    /\ graph # Null
    /\ \A v \in Range(graph.vertices) : VertexValidated(v)
    /\ \A e \in Range(graph.edges) : EdgeValidated(e)
    /\ Save(GraphFile, DumpGraph(graph), TRUE)
SaveGraph ==
    /\ GraphValidated(graph)
    /\ Save(GraphFile, DumpGraph(graph), TRUE)

VerticesHeld == {vertex} \cup (IF graph = Null THEN {} ELSE Range(graph.vertices))
EdgesHeld == {edge} \cup (IF graph = Null THEN {} ELSE Range(graph.edges))

------------------------------------------------------------------------------
(* Loading.                                                                 *)

\* What comes of a file that is cut short is not followed: YAML cut at a line may well
\* be YAML again.
PartStatus(file) ==
    CASE disk[file] = Missing -> "IOError"
      [] disk[file] = Torn    -> "Damaged"
      [] disk[file] \notin {Missing, Torn} ->
            IF GroupsParse(disk[file].property_groups) THEN "OK" ELSE "Throws"

\* The files are read in order, up to the first that fails.
LoadStatus ==
    CASE disk[GraphFile] = Missing -> "IOError"
      [] disk[GraphFile] = Torn    -> "Damaged"
      [] OTHER ->
            LET parts == disk[GraphFile].vertices \o disk[GraphFile].edges
                bad   == {i \in DOMAIN parts : PartStatus(parts[i]) # "OK"}
            IN  IF bad = {} THEN "OK" ELSE PartStatus(parts[Min(bad)])

Load ==
    /\ loaded' = [status |-> LoadStatus,
                  graph  |-> IF LoadStatus = "OK" THEN LoadGraph(disk[GraphFile], disk) ELSE Null]
    /\ UNCHANGED <<infoVars, disk, sound, pending, adds, saves>>

\* The client goes on with the graph that it has loaded.
TakeLoaded ==
    /\ Builds
    /\ loaded.status = "OK"
    /\ graph' = loaded.graph /\ pending' = {}
    /\ sound' = Sound("graph", GraphValidated(loaded.graph))
    /\ UNCHANGED <<vertex, edge>>

Next ==
    \/ \E args \in VertexArgs : CreateVertexInfo(args)
    \/ \E args \in EdgeArgs : CreateEdgeInfo(args)
    \/ \E args \in GraphArgs, n \in 0 .. 2, m \in 0 .. 1 :
          CreateGraphInfo(args, [i \in 1 .. n |-> vertex], [i \in 1 .. m |-> edge])
    \/ \E group \in GroupOffers : AddGroupToVertex(group) \/ AddGroupToEdge(group)
    \/ \E list \in ListOffers : AddListToEdge(list)
    \/ AddVertexToGraph \/ AddEdgeToGraph
    \/ \E v \in VerticesHeld : SaveVertex(v)
    \/ \E e \in EdgesHeld : SaveEdge(e)
    \/ SaveGraph
    \/ Load \/ TakeLoaded

Spec == Init /\ [][Next]_vars

------------------------------------------------------------------------------
(* Properties.                                                              *)

\* Type invariant: a file holds what its name says, however often it was written.
TypeOK ==
    /\ DOMAIN disk = Files
    /\ \A file \in VertexFiles :
          disk[file] \notin {Missing, Torn} => file = <<"vertex", disk[file].type>>
    /\ \A file \in EdgeFiles :
          disk[file] \notin {Missing, Torn} =>
              file = <<"edge", ConcatEdgeTriple(disk[file].triple)>>
    /\ disk[GraphFile] \notin {Missing, Torn} => PartsOf(disk[GraphFile]) \subseteq Files
    /\ loaded.status \in {"none", "OK", "IOError", "Damaged", "Throws"}
    /\ sound \subseteq {"vertex", "edge", "graph"}
    /\ pending \subseteq Files
    /\ adds \in 0 .. MaxAdds /\ saves \in 0 .. MaxSaves

\* An info that starts valid stays valid through every call that adds a valid part to
\* it, whatever it holds already (AddPropertyGroup, AddAdjacentList, AddVertex, AddEdge
\* against IsValidated).
BuiltIsValid ==
    /\ "vertex" \in sound => VertexValidated(vertex)
    /\ "edge" \in sound => EdgeValidated(edge)
    /\ "graph" \in sound => GraphValidated(graph)

GroupsFound(info) ==
    \A i \in DOMAIN info.groups : \A name \in NamesOf(info.groups[i]) :
        /\ GetPropertyGroup(info, name) = info.groups[i]
        /\ PropertyOf(info, name) \in Range(info.groups[i].props)
        /\ PropertyOf(info, name).name = name

\* A valid info finds every part it has by its name, although the index maps keep the
\* first of two properties and the last of two lists, vertex infos or edge infos; and
\* where types have no "_" a graph never answers with an edge info of other types.
LookupsFollow ==
    /\ VertexValidated(vertex) => GroupsFound(vertex)
    /\ EdgeValidated(edge) =>
          /\ GroupsFound(edge)
          /\ \A i \in DOMAIN edge.lists :
                GetAdjacentList(edge, edge.lists[i].type) = edge.lists[i]
    /\ GraphValidated(graph) =>
          /\ \A v \in Range(graph.vertices) : GetVertexInfo(graph, v.type) = v
          /\ \A e \in Range(graph.edges) : GetEdgeInfo(graph, e.triple) = e

\* Whatever was saved over what, by which graph and in which order: if no file is cut
\* short, a graph that is loaded is valid, since Save refuses every info that is not and
\* every file is found under the name that its contents give (Save, Dump, Load).
LoadedIsValid ==
    loaded.status = "OK" => GraphValidated(loaded.graph)

TypesParse(g) ==
    \A info \in Range(g.vertices) \cup Range(g.edges) : GroupsParse(DumpGroups(info.groups))

\* Once every file of the graph has been saved since the graph or the file last changed,
\* Load gives exactly this graph, whatever failed before; it throws only on a property
\* whose type name cannot be read back (Save, Dump, Load).
LoadedIsSaved ==
    loaded # NotLoaded /\ graph # Null /\ pending = {} =>
        IF TypesParse(graph) THEN loaded = [status |-> "OK", graph |-> graph]
                             ELSE loaded.status = "Throws"
==============================================================================
