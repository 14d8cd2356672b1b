------------------------------ MODULE MCInfoText ------------------------------
(****************************************************************************)
(* A small instance of InfoText for TLC.  Every name that may go wrong on   *)
(* its way through the text is tried at the places of infos for names.      *)
(****************************************************************************)
EXTENDS InfoText

AllKeys ==
    <<"adj_lists", "aligned_by", "chunk_size", "data_type", "directed", "dst_chunk_size",
      "dst_type", "edge_type", "edges", "extra_info", "file_type", "is_nullable", "is_primary",
      "key", "labels", "name", "ordered", "prefix", "properties", "property_groups",
      "src_chunk_size", "src_type", "type", "value", "version", "vertices">>

SomeNames ==
    {"person", "a b", "a:b", ":", "#1", "a #b", "- a", "a-", "[a, b]", "> a", "{}", "a\\",
     "the long name of it", "long names, cut in two: two", "long  gap and more",
     "it's", "a:b:c", " a", "~", "C:\\"}

Group(id, name, prefix) ==
    [prefix |-> prefix, file_type |-> "parquet",
     properties |-> <<[name |-> id, type |-> "int64", primary |-> TRUE, nullable |-> FALSE],
                      [name |-> name, type |-> "list<int32>", primary |-> FALSE,
                       nullable |-> TRUE]>>]

NoTypes == [number |-> "1", types |-> <<>>]
Types(name) == [number |-> "1", types |-> <<"t", name>>]

Vertex(type, labels, groups, version) ==
    [kind |-> "vertex", type |-> type, chunk_size |-> "100", prefix |-> type \o "/",
     labels |-> labels, groups |-> groups, version |-> version]

Edge(name, version) ==
    [kind |-> "edge", src_type |-> "person", edge_type |-> name, dst_type |-> name,
     chunk_size |-> "1024", src_chunk_size |-> "100", dst_chunk_size |-> "100",
     prefix |-> "person_" \o name, directed |-> TRUE,
     lists |-> <<[ordered |-> FALSE, aligned_by |-> "src", prefix |-> "unordered_by_source/",
                  file_type |-> "csv"]>>,
     groups |-> <<Group("id", name, "id_" \o name)>>, version |-> version]

Graph(name, labels, extra) ==
    [kind |-> "graph", name |-> "g", prefix |-> name, vertices |-> <<"person", name>>,
     edges |-> <<"person_" \o name \o "_person">>, labels |-> labels, version |-> NoTypes,
     extra |-> extra]

SomeInfos ==
    UNION {{Vertex(name, <<name, "l">>, <<Group("id", "x", name)>>, Types(name)),
            Graph(name, <<"l", name>>, <<<<"k", name>>, <<name, "v">>>>)} : name \in SomeNames}
        \cup {Edge(name, Types("u")) : name \in {"person", "a:b", "long, cut in two: two"}}
        \cup {Vertex("person", <<>>, <<Group("id", "x", "id_x/"), Group("y", "z", "y_z/")>>, NoVersion),
              Vertex("person", <<"">>, <<>>, NoTypes),
              [Graph("dir/", <<>>, <<<<"k", "">>>>) EXCEPT !.edges = <<>>, !.vertices = <<>>]}
==============================================================================
