----------------------------- MODULE MCInfoStore ------------------------------
(****************************************************************************)
(* A small instance of InfoStore for TLC.  Types may have two words, and    *)
(* two edge types have the same key.                                        *)
(****************************************************************************)
EXTENDS InfoAccess

a == <<"a">>
b == <<"b">>

SmallNames == {a, b}

Group(names, type, file_type) ==
    PropertyGroup([i \in DOMAIN names |-> Property(names[i], type, i = 1, TRUE)], file_type, <<>>)

SmallGroups ==
    {Group(<<a>>, "int64", "csv"), Group(<<a, b>>, "list<bool>", "parquet"),
     Group(<<b>>, "list<int32>", "csv"), Null}

SmallLists ==
    {AdjacentList("ordered_by_source", "parquet", <<>>),
     AdjacentList("unordered_by_dest", "csv", <<>>), Null}

VertexArg(type, groups, labels, prefix) ==
    [type |-> type, chunk_size |-> 2, groups |-> groups, labels |-> labels,
     prefix |-> prefix, version |-> Null]

SmallVertexArgs ==
    {VertexArg(<<"p">>, <<>>, <<"l">>, <<>>),
     VertexArg(<<"p">>, <<Null>>, <<>>, <<>>),
     VertexArg(<<"q">>, <<Group(<<<<"labels">>>>, "string", "csv")>>, <<>>, <<<<"x">>>>)}

EdgeArg(triple, lists) ==
    [triple |-> triple, sizes |-> <<4, 2, 2>>, directed |-> FALSE, lists |-> lists,
     groups |-> <<>>, prefix |-> <<>>, version |-> "gar/v1"]

SmallEdgeArgs ==
    {EdgeArg(<<<<"p">>, <<"e">>, <<"p">>>>, <<AdjacentList("ordered_by_dest", "csv", <<>>)>>),
     EdgeArg(<<<<"p">>, <<"e", "p">>, <<"q">>>>, <<AdjacentList("ordered_by_dest", "csv", <<>>)>>),
     EdgeArg(<<<<"p", "e">>, <<"p">>, <<"q">>>>, <<AdjacentList("ordered_by_source", "csv", <<>>)>>)}

SmallGraphArgs ==
    {[name |-> <<"g">>, labels |-> <<"l">>, prefix |-> <<<<"dir">>>>, version |-> Null,
      extra |-> {"key"}]}
==============================================================================
