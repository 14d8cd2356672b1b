------------------------------- MODULE InfoText -------------------------------
(****************************************************************************)
(* The files of infos as text: what VertexInfo::Dump, EdgeInfo::Dump and    *)
(* GraphInfo::Dump write (cpp/src/graphar/graph_info.cc), what of it is in  *)
(* the file when the writer stops or dies (WriteValueToFile of              *)
(* filesystem.cc is not atomic), and the tree and the version that a reader *)
(* of the file gets.  InfoStore models what infos are and what is loaded    *)
(* from a tree; here they are only what is dumped.                          *)
(****************************************************************************)
EXTENDS Yaml

CONSTANTS Infos,     \* the infos that may be dumped
          NoVersion  \* an info without a version (a null pointer)

VARIABLES info,    \* the info that is being saved, or None before
          text,    \* its whole text
          file,    \* the part of the text that is in the file
          loaded   \* the tree and the version loaded from the file, or NotLoaded

vars == <<info, text, file, loaded>>

------------------------------------------------------------------------------
(* Versions.  The only version there is has the number 1.                   *)

SupportedVersions == {"1"}

Joined(strings) == FoldLeft(LAMBDA s, t : IF s = "" THEN t ELSE s \o "," \o t, "", strings)

VersionText(version) ==
    "gar/v" \o version.number
        \o IF version.types = <<>> THEN "" ELSE " (" \o Joined(version.types) \o ")"

Trim(s) == IF Filled(s) = {} THEN "" ELSE TrimEnd(From(s, Min(Filled(s))))

\* What is between the commas, trimmed, where there is something.
Split(s) ==
    LET ends == SetToSortSeq(Positions(s, {","}) \cup {Len(s) + 1}, <)
        Part(i) == Trim(SubSeq(s, IF i = 1 THEN 1 ELSE ends[i - 1] + 1, ends[i] - 1))
    IN  SelectSeq([i \in DOMAIN ends |-> Part(i)], LAMBDA part : part # "")

\* InfoVersion::Parse: "gar/v", the number and the types between parentheses.
ParseVersion(s) ==
    LET digits == Positions(s, {"0", "1", "2", "3", "4", "5", "6", "7", "8", "9"})
        end == Min({i \in 6 .. Len(s) + 1 : i \notin digits} \cup {Len(s) + 1})
        open == FirstOf(Behind(Filled(s), end - 1))
        close == IF open = 0 THEN {} ELSE Behind(Positions(s, {")"}), open)
        typed == open # 0 /\ Char(s, open) = "(" /\ close # {}
    IN  IF \/ Len(s) < 6 \/ SubSeq(s, 1, 5) # "gar/v"
           \/ SubSeq(s, 6, end - 1) \notin SupportedVersions
          THEN [status |-> "Invalid", version |-> NoVersion]
          ELSE [status |-> "OK",
                version |-> [number |-> SubSeq(s, 6, end - 1),
                             types |-> IF typed THEN Split(SubSeq(s, open + 1, Max(close) - 1))
                                       ELSE <<>>]]

------------------------------------------------------------------------------
(* Dump.                                                                    *)

Bool(b) == Scalar(IF b THEN "true" ELSE "false")
NodesOf(items, Node(_)) ==
    IF items = <<>> THEN None ELSE SequenceOf([i \in DOMAIN items |-> Node(items[i])])
Names(names) == NodesOf(names, Scalar)
VersionNode(version) ==
    IF version = NoVersion THEN None ELSE Scalar(VersionText(version))

PropertyNode(p) ==
    MapOf([name |-> Scalar(p.name), data_type |-> Scalar(p.type),
           is_primary |-> Bool(p.primary), is_nullable |-> Bool(p.nullable)])

GroupNode(group) ==
    MapOf([prefix |-> IF group.prefix = "" THEN None ELSE Scalar(group.prefix),
           file_type |-> Scalar(group.file_type),
           properties |-> NodesOf(group.properties, PropertyNode)])

ListNode(list) ==
    MapOf([ordered |-> Bool(list.ordered), aligned_by |-> Scalar(list.aligned_by),
           prefix |-> Scalar(list.prefix), file_type |-> Scalar(list.file_type)])

VertexNode(vertex) ==
    MapOf([type |-> Scalar(vertex.type), chunk_size |-> Scalar(vertex.chunk_size),
           prefix |-> Scalar(vertex.prefix), labels |-> Names(vertex.labels),
           property_groups |-> NodesOf(vertex.groups, GroupNode),
           version |-> VersionNode(vertex.version)])

EdgeNode(edge) ==
    MapOf([src_type |-> Scalar(edge.src_type), edge_type |-> Scalar(edge.edge_type),
           dst_type |-> Scalar(edge.dst_type), chunk_size |-> Scalar(edge.chunk_size),
           src_chunk_size |-> Scalar(edge.src_chunk_size),
           dst_chunk_size |-> Scalar(edge.dst_chunk_size),
           prefix |-> Scalar(edge.prefix), directed |-> Bool(edge.directed),
           adj_lists |-> NodesOf(edge.lists, ListNode),
           property_groups |-> NodesOf(edge.groups, GroupNode),
           version |-> VersionNode(edge.version)])

ExtraNode(extra) == MapOf([key |-> Scalar(extra[1]), value |-> Scalar(extra[2])])

GraphNode(graph) ==
    MapOf([name |-> Scalar(graph.name), prefix |-> Scalar(graph.prefix),
           vertices |-> Names([i \in DOMAIN graph.vertices |-> graph.vertices[i] \o ".vertex.yaml"]),
           edges |-> Names([i \in DOMAIN graph.edges |-> graph.edges[i] \o ".edge.yaml"]),
           labels |-> Names(graph.labels), version |-> VersionNode(graph.version),
           extra_info |-> NodesOf(graph.extra, ExtraNode)])

Dump(i) == CASE i.kind = "vertex" -> VertexNode(i)
             [] i.kind = "edge" -> EdgeNode(i)
             [] i.kind = "graph" -> GraphNode(i)

------------------------------------------------------------------------------
(* The file.                                                                *)

NotLoaded == [status |-> "NotLoaded"]

Init == info = None /\ text = <<>> /\ file = <<>> /\ loaded = NotLoaded

\* Save: dump an info and open the file.
Save == /\ info = None
        /\ info' \in Infos
        /\ text' = Serialize(Dump(info'))
        /\ UNCHANGED <<file, loaded>>

\* One more character of the text gets into the file; spaces in front count as one.
Write ==
    /\ file # text
    /\ LET n == Len(file)
           line == file[n]
           whole == text[n]
       IN  file' = IF n = 0 \/ line = whole
                     THEN Append(file, Line(text[n + 1].offset, ""))
                     ELSE [file EXCEPT ![n].data = SubSeq(whole.data, 1, Len(line.data) + 1)]
    /\ loaded' = NotLoaded
    /\ UNCHANGED <<info, text>>

\* The version of a root that was parsed.
VersionOf(root) ==
    IF root.kind = "map" /\ "version" \in DOMAIN root.entries
          /\ root.entries["version"].kind = "scalar"
      THEN ParseVersion(root.entries["version"].value)
      ELSE [status |-> "OK", version |-> NoVersion]

Loaded(parsed, found) ==
    [status |-> IF parsed.status = "OK" THEN found.status ELSE parsed.status,
     root |-> parsed.root, version |-> found.version]

\* Load the file, which the writer may have left at any point.
Load ==
    /\ info # None
    /\ \E parsed \in {Parse(file)} : loaded' = Loaded(parsed, VersionOf(parsed.root))
    /\ UNCHANGED <<info, text, file>>

Next == Save \/ Write \/ Load

Spec == Init /\ [][Next]_vars

------------------------------------------------------------------------------
(* Properties.                                                              *)

\* The scalars of a tree with the way to each of them.
RECURSIVE Leaves(_)
Leaves(node) ==
    LET Under(step, child) == {<<<<step>> \o leaf[1], leaf[2]>> : leaf \in Leaves(child)}
    IN  CASE node.kind = "none" -> {}
          [] node.kind = "scalar" -> {<<<<>>, node.value>>}
          [] node.kind = "sequence" ->
                UNION {Under(ToString(i), node.items[i]) : i \in DOMAIN node.items}
          [] node.kind = "map" ->
                UNION {Under(key, node.entries[key]) : key \in DOMAIN node.entries}

\* The values that a text keeps: no quotes and no characters that Parse refuses, no spaces
\* at the ends, no backslash before a closing quote, at most one colon and one hash, and
\* in a value of several lines no hash and no gap.
Survives(value) ==
    /\ Filled(value) # {} /\ {1, Len(value)} \subseteq Filled(value)
    /\ Positions(value, {"~", "'", "\""}) = {}
    /\ ShouldBeCited(value) => Char(value, Len(value)) # "\\"
    /\ Cardinality(Positions(value, {":"})) <= 1
    /\ Cardinality(Positions(value, {"#"})) <= 1
    /\ Len(LineFolding(value)) > 1 =>
         /\ Positions(value, {"#"}) = {}
         /\ \A i \in Positions(value, {" "}) : i + 1 \in Filled(value)

IsPlain(i) == \A leaf \in Leaves(Dump(i)) : Survives(leaf[2])

\* Types of a version are not cut or trimmed.
HasPlainVersion(i) ==
    i.version # NoVersion =>
        \A t \in DOMAIN i.version.types :
            LET type == i.version.types[t]
            IN  type # "" /\ Positions(type, {","}) = {} /\ Trim(type) = type

\* Save and Load of an info (the tests of test_info.cc for Dump and Load): from the whole
\* text of an info all of whose values survive, a reader gets every value back at its
\* place, and nothing else, and the version with its types.
LoadedIsDumped ==
    /\ info # None /\ loaded # NotLoaded /\ file = text
    /\ IsPlain(info)
    => /\ loaded.status = "OK"
       /\ Leaves(loaded.root) = Leaves(Dump(info))
       /\ HasPlainVersion(info) => loaded.version = info.version

\* The way to the last scalar of a tree.  Entries of maps are in the order of their keys; a
\* key that is none of them is an item of a list, cut behind a colon, and stands last.
RECURSIVE LastLeaf(_)
LastLeaf(node) ==
    CASE node.kind \in {"none", "scalar"} -> <<>>
      [] node.kind = "sequence" ->
            <<ToString(Len(node.items))>> \o LastLeaf(Last(node.items))
      [] node.kind = "map" ->
            LET cut == DOMAIN node.entries \ ToSet(Keys)
                key == IF cut # {} THEN CHOOSE k \in cut : TRUE
                       ELSE Last(SelectSeq(Keys, LAMBDA k : k \in DOMAIN node.entries))
            IN  <<key>> \o LastLeaf(node.entries[key])

\* Load after a Save that did not end (WriteValueToFile has no second file to rename): a
\* text that is cut anywhere is refused, or it is a part of the info, in which no value but
\* the last may be another than the saved one.
TornIsPart ==
    /\ info # None /\ loaded # NotLoaded
    /\ loaded.status = "OK" /\ IsPlain(info)
    => \A leaf \in Leaves(loaded.root) \ Leaves(Dump(info)) : leaf[1] = LastLeaf(loaded.root)
==============================================================================
