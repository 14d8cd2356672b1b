------------------------------ MODULE MCImporter ------------------------------
(****************************************************************************)
(* A small instance of Importer for TLC: vertices of a type "a" with a key  *)
(* and a value, in two groups, and of a type "b" with a key; edges from "a" *)
(* to "b", or inside "a".  Around one plain configuration, each of the      *)
(* others changes one thing that a user may write.                          *)
(****************************************************************************)
EXTENDS Importer

Prop(name, primary, nullable) == [name |-> name, primary |-> primary, nullable |-> nullable]
Group(props) == [file_type |-> "parquet", props |-> props]
Source(columns, rows) ==
    [file_type |-> "csv", columns |-> columns, rows |-> rows,
     kinds |-> [c \in DOMAIN columns |-> "plain"]]

Key == Prop("key", TRUE, Null)
Val == Prop("val", FALSE, Null)
Name == Prop("name", FALSE, FALSE)
Weight == Prop("weight", FALSE, Null)

VertexA(rows) ==
    [type |-> "a", chunk_size |-> 1, groups |-> <<Group(<<Key>>), Group(<<Val>>)>>,
     sources |-> <<Source([key_col |-> "key", val_col |-> "val"], rows)>>]
VertexB(rows) ==
    [type |-> "b", chunk_size |-> Null, groups |-> <<Group(<<Name>>)>>,
     sources |-> <<Source([name_col |-> "name"], rows)>>]

EdgeAB(rows) ==
    [edge_type |-> "e", src_type |-> "a", src_prop |-> "key", dst_type |-> "b",
     dst_prop |-> "name", chunk_size |-> Null, validate_level |-> "weak",
     lists |-> <<"unordered_by_source", "ordered_by_dest">>, groups |-> <<Group(<<Weight>>)>>,
     sources |-> <<Source([from |-> "key", to |-> "name", weight |-> "weight"], rows)>>]

A(k, v) == [key_col |-> k, val_col |-> v]
B(n) == [name_col |-> n]
Row(f, t, w) == [from |-> f, to |-> t, weight |-> w]

Config(a, b, edges) ==
    [vertex_chunk_size |-> 2, edge_chunk_size |-> 2, adj_list_type |-> "ordered_by_source",
     vertices |-> <<a, b>>, edges |-> edges]

------------------------------------------------------------------------------
(* The plain configuration with many data: none, repeated, missing and      *)
(* unusable keys and values.                                                *)

ARows == {<<>>, <<A(1, 1)>>, <<A(1, 1), A(2, Null)>>, <<A(2, 1), A(1, 2)>>, <<A(1, 1), A(1, 2)>>,
          <<A(1, 1), A(Null, 2)>>, <<A(1, 1), A(2, Uncastable)>>, <<A(1, 1), A(2, 2), A(1, 1)>>}
BRows == {<<>>, <<B(2)>>, <<B(2), B(1)>>, <<B(1), B(1), B(2)>>, <<B(Null)>>}
ERows == {<<>>} \cup {<<Row(f, 2, w)>> : f \in {1, 2}, w \in {1, Null}}
         \cup {<<Row(1, 1, 1), Row(f, 2, w)>> : f \in {1, 2}, w \in {1, 2}}
         \cup {<<Row(2, 1, 2), Row(1, 2, 1), Row(1, 1, Null)>>,
               <<Row(1, 2, 1), Row(Null, 2, 1)>>, <<Row(1, 2, Uncastable)>>}

Plain == {Config(VertexA(a), VertexB(b), <<EdgeAB(e)>>) : a \in ARows, b \in BRows, e \in ERows}

------------------------------------------------------------------------------
(* Other configurations, with fixed data.                                   *)

a1 == VertexA(<<A(1, 2), A(2, 1), A(3, Null)>>)
a2 == VertexA(<<A(1, 2), A(2, 1)>>)
b1 == VertexB(<<B(1), B(2), B(3)>>)
e1 == EdgeAB(<<Row(1, 2, 1), Row(2, 3, 1), Row(1, 3, 1)>>)

OtherVertices ==
    {<<[a1 EXCEPT !.chunk_size = 0], b1>>,
     <<[a1 EXCEPT !.chunk_size = 2], [b1 EXCEPT !.chunk_size = 1]>>,
     <<a1, [b1 EXCEPT !.type = "a"]>>,
     <<[a1 EXCEPT !.groups = <<Group(<<Key, Val>>)>>], b1>>,
     <<[a1 EXCEPT !.groups = <<Group(<<Key, Val>>), Group(<<Val>>)>>], b1>>,
     <<[a1 EXCEPT !.groups[2].file_type = "json"], b1>>,
     <<[a1 EXCEPT !.groups[2].props[1].primary = TRUE], b1>>,
     <<[a1 EXCEPT !.groups[2].props[1].nullable = FALSE], b1>>,
     <<[a1 EXCEPT !.sources[1].columns = [key_col |-> "other", val_col |-> "val"]], b1>>,
     <<[a1 EXCEPT !.sources = <<[@[1] EXCEPT !.columns = [key_col |-> "key"]],
                                [@[1] EXCEPT !.columns = [val_col |-> "val"]]>>], b1>>,
     <<[a1 EXCEPT !.groups = <<Group(<<Prop("key", FALSE, Null)>>), Group(<<Val>>)>>,
                  !.sources = <<[@[1] EXCEPT !.columns = [key_col |-> "key"]],
                                [@[1] EXCEPT !.columns = [val_col |-> "val"]]>>], b1>>,
     <<[a1 EXCEPT !.sources[1].file_type = "parquet"], b1>>}

\* Edges from a source that has one more column.
Wider(rows, column, name, kind, cell) ==
    LET plain == e1.sources[1].columns
        more == [i \in DOMAIN rows |-> Override(rows[i], [c \in {column} |-> cell])]
    IN  [e1 EXCEPT !.sources = <<[Source(Override(plain, [c \in {column} |-> name]), more)
                                    EXCEPT !.kinds[column] = kind]>>]

OtherEdges ==
    {[e1 EXCEPT !.lists = <<>>],
     [e1 EXCEPT !.lists = <<"ordered_by_dest", "ordered_by_dest">>],
     [e1 EXCEPT !.chunk_size = 0],
     [e1 EXCEPT !.src_prop = "name"],
     [e1 EXCEPT !.groups = <<>>],
     [e1 EXCEPT !.groups = <<>>, !.validate_level = "strong"],
     [e1 EXCEPT !.validate_level = "strong"],
     [e1 EXCEPT !.validate_level = "strong", !.sources[1].rows[1].weight = Null],
     [e1 EXCEPT !.groups[1].file_type = "json"],
     [e1 EXCEPT !.groups[1].props[1].nullable = FALSE],
     [e1 EXCEPT !.groups = <<Group(<<Weight, Prop("len", FALSE, FALSE)>>)>>],
     [e1 EXCEPT !.groups = <<Group(<<Prop("key", FALSE, Null)>>)>>],
     [e1 EXCEPT !.sources[1].columns = [from |-> "key", weight |-> "weight"]],
     [e1 EXCEPT !.sources[1].columns = [from |-> "key", to |-> "key", weight |-> "name"],
                !.groups = <<>>],
     [e1 EXCEPT !.sources = <<@[1], @[1]>>],
     [e1 EXCEPT !.dst_type = "a", !.dst_prop = "val",
                !.sources[1].columns = [from |-> "key", to |-> "val", weight |-> "weight"]],
     [e1 EXCEPT !.dst_type = "a", !.dst_prop = "key",
                !.sources[1].columns = [from |-> "key", to |-> "key", weight |-> "weight"]],
     [e1 EXCEPT !.sources[1].file_type = "json"],
     Wider(<<>>, "note", "note", "text", 1),
     Wider(<<Row(Null, 2, 1)>>, "note", "note", "text", 1),
     Wider(<<Row(1, 2, 1)>>, "key", "note", "plain", 1),
     Wider(<<Row(1, 2, 1)>>, "weight", "weight", "text", 1),
     Wider(<<Row(1, 2, 1), Row(2, 3, 1)>>, "note", "weight", "plain", 2)}
    \cup {Wider(<<Row(1, 2, 1), Row(2, 3, 1)>>, "note", name, kind, cell) :
             name \in {"note", "name"}, kind \in {"plain", "text", "date64", "unknown"},
             cell \in {1, Null}}

SmallConfigs ==
    Plain
    \cup {Config(v[1], v[2], <<e1>>) : v \in OtherVertices}
    \cup {Config(a, b1, <<e>>) : a \in {a1, a2}, e \in OtherEdges}
    \cup {Config(a1, b1, <<e1, [e1 EXCEPT !.edge_type = t]>>) : t \in {"e", "f"}}
    \cup {Config(a1, b1, <<>>)}
=============================================================================
