---------------------------- MODULE MCVertexStore -----------------------------
(****************************************************************************)
(* A small instance of VertexStore for TLC: two property groups, the second *)
(* in CSV files, two labels, chunks of two rows.                            *)
(****************************************************************************)
EXTENDS VertexStore, TLC

CONSTANTS a, b   \* a vertex with label l, and one with both and an unknown property

SmallLabelsOf == (a :> {"l"}) @@ (b :> {"l", "m", "undeclared"})

SmallHasValue == (a :> {2}) @@ (b :> {1})

SmallOffers == [n \in 0 .. MaxRows |-> IF n = 0 THEN {a, b} ELSE IF n = 1 THEN {b} ELSE {a}]

\* A labelled table, one without a label column, one that lacks a column of the second
\* group, one with a column of another type, one with an index column of its own.
SmallTables ==
    {Table(<<a, b, a>>, FALSE, TRUE, {}, {}),
     Table(<<b, a>>, FALSE, FALSE, {}, {}),
     Table(<<a>>, FALSE, TRUE, {2}, {}),
     Table(<<b>>, FALSE, TRUE, {}, {1}),
     Table(<<a>>, TRUE, TRUE, {}, {})}

SmallPropsOf == <<{"p", "q"}, {"r"}>>

SmallFilters == {[on |-> "p", keep |-> {b}], [on |-> "r", keep |-> {a}]}

SmallMadeFor == {{}, {IndexCol, "p"}}
==============================================================================
