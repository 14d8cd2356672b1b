------------------------------ MODULE InfoAccess ------------------------------
(****************************************************************************)
(* What the readers, writers, builders and collections that a client makes  *)
(* from a graph info (the Make functions under cpp/src/graphar) are made    *)
(* for: the part of the graph they find, or the status with which Make      *)
(* refuses, and the files they go to.                                       *)
(****************************************************************************)
EXTENDS InfoStore, ChunkInfoWriters

CONSTANT Names   \* property names a client asks for

\* The three types of an edge info are names.
ASSUME InfoAccessAssumption ==
    \A args \in EdgeArgs :
        /\ args.triple = [k \in 1 .. 3 |-> args.triple[k]]
        /\ \A k \in 1 .. 3 : args.triple[k] \in Seq(Range(args.triple[k]))

\* The outcome of Make: the index of a property group is 0 where there is none.
Refusal(status) == [status |-> status, info |-> Null, list |-> Null, group |-> 0]
Made(info, list, group) == [status |-> "OK", info |-> info, list |-> list, group |-> group]

GroupIndex(info, name) == IF HasProperty(info, name) THEN Min(GroupsWith(info, name)) ELSE 0

------------------------------------------------------------------------------
(* Vertices.                                                                *)

\* VertexPropertyChunkInfoReader and VertexPropertyArrowChunkReader by property name.
MakeVertexReader(g, type, name) ==
    LET info == GetVertexInfo(g, type)
    IN  IF info = Null \/ ~HasProperty(info, name) THEN Refusal("KeyError")
        ELSE Made(info, Null, GroupIndex(info, name))

\* VertexPropertyWriter: for all groups of the type.
MakeVertexWriter(g, type) ==
    IF GetVertexInfo(g, type) = Null THEN Refusal("KeyError")
    ELSE Made(GetVertexInfo(g, type), Null, 0)

\* VerticesCollection asks the info for its labels before it looks whether there is one.
MakeVertices(g, type) ==
    IF GetVertexInfo(g, type) = Null THEN Refusal("Abort")
    ELSE Made(GetVertexInfo(g, type), Null, 0)

------------------------------------------------------------------------------
(* Edges.                                                                   *)

MakeForList(info, type) ==
    IF ~HasAdjacentListType(info, type) THEN Refusal("KeyError")
    ELSE Made(info, GetAdjacentList(info, type), 0)

\* AdjListChunkInfoReader, EdgesBuilder and EdgeChunkWriter.
MakeAdjListReader(g, triple, type) ==
    IF GetEdgeInfo(g, triple) = Null THEN Refusal("KeyError")
    ELSE MakeForList(GetEdgeInfo(g, triple), type)
MakeEdgesBuilder(g, triple, type) == MakeAdjListReader(g, triple, type)
MakeEdgeWriter(g, triple, type) == MakeAdjListReader(g, triple, type)

\* AdjListOffsetChunkInfoReader and AdjListOffsetArrowChunkReader: the constructors throw
\* for a list that has no offsets.
Ordered == {"ordered_by_source", "ordered_by_dest"}
MakeOffsetReader(g, triple, type) ==
    LET made == MakeAdjListReader(g, triple, type)
    IN  IF made.status = "OK" /\ type \notin Ordered THEN Refusal("Throws") ELSE made
MakeOffsetChunkReader(g, triple, type) == MakeOffsetReader(g, triple, type)

\* AdjListPropertyChunkInfoReader and AdjListPropertyArrowChunkReader by property name,
\* which is looked up before the adjacency list.
MakePropertyReader(g, triple, name, type) ==
    LET info == GetEdgeInfo(g, triple)
    IN  IF info = Null \/ ~HasProperty(info, name) THEN Refusal("KeyError")
        ELSE [MakeForList(info, type) EXCEPT
                 !.group = IF MakeForList(info, type).status = "OK"
                             THEN GroupIndex(info, name) ELSE 0]
MakePropertyChunkReader(g, triple, name, type) == MakePropertyReader(g, triple, name, type)

\* EdgesCollection.
MakeEdges(g, triple, type) ==
    LET info == GetEdgeInfo(g, triple)
    IN  IF info = Null THEN Refusal("KeyError")
        ELSE IF ~HasAdjacentListType(info, type) THEN Refusal("Invalid")
        ELSE MakeForList(info, type)

------------------------------------------------------------------------------
(* The files.                                                               *)

ListIndex(made) == Max(ListsOf(made.info, made.list.type))

\* GetChunk of the readers of paths, in a vertex chunk and an edge chunk.
VertexReaderPath(made, chunk) == VertexChunkPath(made.info, made.group, chunk)
AdjListReaderPath(made, part, chunk) ==
    EdgePaths(made.info, {part, chunk})[<<"adj_list", ListIndex(made), part, chunk>>]
OffsetReaderPath(made, part) ==
    EdgePaths(made.info, {part})[<<"offset", ListIndex(made), part>>]
PropertyReaderPath(made, part, chunk) ==
    PropertyPath(made.info, ListIndex(made), made.group, part, chunk)

------------------------------------------------------------------------------
(* Properties.                                                              *)

\* Names of one word and default prefixes, for which the directories that the code makes
\* from names are unambiguous, unless a property group has one that the code gives to
\* other files: the labels of a vertex info, the endpoints of an adjacency list.
PlainGroups(groups, reserved) ==
    \A i \in DOMAIN groups :
        /\ \A name \in NamesOf(groups[i]) : name = <<name[1]>>
        /\ groups[i] = PropertyGroup(groups[i].props, groups[i].file_type, <<>>)
        /\ groups[i].prefix # <<reserved>>
PlainVertex(v) ==
    v.type = <<v.type[1]>> /\ v.prefix = <<v.type>> /\ PlainGroups(v.groups, <<"labels">>)
PlainEdge(e) ==
    /\ e.triple = [k \in 1 .. 3 |-> <<e.triple[k][1]>>]
    /\ e.prefix = <<ConcatEdgeTriple(e.triple)>> /\ PlainGroups(e.groups, <<"adj", "list">>)
    /\ \A l \in Range(e.lists) : l.prefix = <<<<l.type>>>>
PlainGraph(g) ==
    (\A v \in Range(g.vertices) : PlainVertex(v)) /\ (\A e \in Range(g.edges) : PlainEdge(e))

Chunks == 0 .. 1

\* The files of each vertex info, then those of each edge info.
AllPaths(g) ==
    [i \in DOMAIN g.vertices |-> VertexPaths(g.vertices[i], Chunks)]
        \o [i \in DOMAIN g.edges |-> EdgePaths(g.edges[i], Chunks)]

\* The levels that a call of a chunk info writer can have.
LevelsOf(own) == {LevelOf(level, asked) : level \in own, asked \in ValidateLevels}

\* The groups a client may hold: those of the info, and any other.
GroupsHeld(info) == Range(info.groups) \cup GroupOffers

\* A chunk info writer that validates takes exactly the groups of the info and chunks from 0;
\* a file of a group of the info that it copies, validating or not, is the one that the
\* reader of every property of the group reads.
VertexCopiesFound(g, v) ==
    \A group \in GroupsHeld(v), chunk \in Chunks \cup {-1},
       level \in LevelsOf(VertexWriterLevels) :
        LET written == WriteVertexChunk(v, group, chunk, level)
        IN  /\ level # "no_validate" =>
                  (written.status = "OK") = (group \in Range(v.groups) /\ chunk \in Chunks)
            /\ written.status = "OK" /\ group \in Range(v.groups) =>
                  \A name \in NamesOf(group) :
                     written.path = VertexReaderPath(MakeVertexReader(g, v.type, name), chunk)

\* The same for an edge info and a type of list: the files of the list, its properties, and,
\* where it has a reader of offsets, its offsets.
EdgeCopiesFound(g, e, type) ==
    LET list    == MakeAdjListReader(g, e.triple, type)
        offsets == MakeOffsetReader(g, e.triple, type)
        has     == HasAdjacentListType(e, type)
    IN  \A part, chunk \in Chunks \cup {-1}, level \in LevelsOf(EdgeWriterLevels) :
            LET edges  == WriteAdjListChunk(e, type, part, chunk, level)
                offset == WriteOffsetChunk(e, type, part, level)
                checks == level # "no_validate"
            IN  /\ (edges.status = "OK") = (has /\ (checks => {part, chunk} \subseteq Chunks))
                /\ (offset.status = "OK") = (has /\ (checks => part \in Chunks))
                /\ has => /\ edges.status = "OK" =>
                              edges.path = AdjListReaderPath(list, part, chunk)
                          /\ offset.status = "OK" /\ offsets.status = "OK" =>
                              offset.path = OffsetReaderPath(offsets, part)
                /\ \A group \in GroupsHeld(e) :
                      LET copy == WritePropertyChunk(e, type, group, part, chunk, level)
                      IN  /\ checks => (copy.status = "OK")
                                         = (edges.status = "OK" /\ group \in Range(e.groups))
                          /\ copy.status = "OK" /\ group \in Range(e.groups) =>
                               \A name \in NamesOf(group) :
                                  copy.path = PropertyReaderPath(
                                      MakePropertyReader(g, e.triple, name, type), part, chunk)

\* What is made for a name of group i goes to the files of group i, and nothing is made
\* for a type or a name that the graph does not have.
VerticesReached(g, type, name) ==
    LET made == MakeVertexReader(g, type, name)
        has  == {v \in Range(g.vertices) : v.type = type /\ HasProperty(v, name)}
    IN  /\ (made.status = "OK") = (has # {})
        /\ \A v \in {MakeVertexWriter(g, type), MakeVertices(g, type)} :
              IF \E i \in DOMAIN g.vertices : g.vertices[i].type = type
                THEN v.status = "OK" /\ v.info \in Range(g.vertices) /\ v.info.type = type
                ELSE v.status # "OK"
        /\ \A v \in has : \A i \in DOMAIN v.groups : name \in NamesOf(v.groups[i]) =>
              \A chunk \in Chunks :
                 VertexReaderPath(made, chunk) = VertexPaths(v, Chunks)[<<"group", i, chunk>>]
        /\ \A v \in has : VertexCopiesFound(g, v)

\* The same of the readers of a property, for the edge infos that have the list.
PropertyReached(g, triple, type, name, has) ==
    LET property == MakePropertyReader(g, triple, name, type)
    IN  /\ MakePropertyChunkReader(g, triple, name, type) = property
        /\ (property.status = "OK") = (\E e \in has : HasProperty(e, name))
        /\ \A e \in has : \A l \in DOMAIN e.lists, i \in DOMAIN e.groups :
              e.lists[l].type = type /\ name \in NamesOf(e.groups[i]) =>
                 \A part, chunk \in Chunks :
                    PropertyReaderPath(property, part, chunk)
                        = PropertyPath(e, l, i, part, chunk)

\* The same of the readers of an adjacency list, its offsets and its properties; offsets
\* only of an ordered list.
EdgesReached(g, triple, type) ==
    LET edges    == MakeAdjListReader(g, triple, type)
        offsets  == MakeOffsetReader(g, triple, type)
        others   == {MakeEdgesBuilder(g, triple, type), MakeEdgeWriter(g, triple, type),
                     MakeEdges(g, triple, type)}
        has      == {e \in Range(g.edges) : e.triple = triple /\ HasAdjacentListType(e, type)}
    IN  /\ \A made \in {edges} \cup others :
              IF has = {} THEN made.status # "OK"
              ELSE made.status = "OK" /\ made.info \in has /\ made.list.type = type
        /\ MakeOffsetChunkReader(g, triple, type) = offsets
        /\ (offsets.status = "OK") = (has # {} /\ type \in Ordered)
        /\ \A e \in has : \A l \in DOMAIN e.lists : e.lists[l].type = type =>
              \A part, chunk \in Chunks :
                 LET path == EdgePaths(e, Chunks)
                 IN  /\ AdjListReaderPath(edges, part, chunk) = path[<<"adj_list", l, part, chunk>>]
                     /\ type \in Ordered =>
                           OffsetReaderPath(offsets, part) = path[<<"offset", l, part>>]
        /\ \A name \in Names : PropertyReached(g, triple, type, name, has)
        /\ \A e \in has : EdgeCopiesFound(g, e, type)

\* No two data files of a graph share a path, neither of one info nor of two.
NoPathShared(g) ==
    LET all == AllPaths(g)
    IN  \A i, j \in DOMAIN all :
            IF i = j THEN IsInjective(all[i]) ELSE Range(all[i]) \cap Range(all[j]) = {}

\* The types of an edge that a client asks for, none of them empty.
TriplesAsked == {t \in {args.triple : args \in EdgeArgs} : \A k \in 1 .. 3 : t[k] # <<>>}

PartsReached(g) ==
    /\ \A args \in VertexArgs, name \in Names : VerticesReached(g, args.type, name)
    /\ \A triple \in TriplesAsked, type \in AdjListTypes : EdgesReached(g, triple, type)

\* In a valid graph with such names no two data files share a path, whatever groups and
\* lists the infos have, neither of one info nor of two; and a reader made by type,
\* property name and list goes to the files of that part and no other, or is refused when
\* the graph has no such part (the Make functions, the path functions and the chunk info
\* writers).
PathsApart ==
    GraphValidated(graph) /\ PlainGraph(graph) => NoPathShared(graph) /\ PartsReached(graph)
==============================================================================
