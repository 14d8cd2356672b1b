----------------------------- MODULE MCEdgeStore ------------------------------
(****************************************************************************)
(* A small instance of EdgeStore for TLC: four vertices in two vertex       *)
(* chunks, edge chunks of two rows, two property groups.                    *)
(****************************************************************************)
EXTENDS EdgeStore

CONSTANTS a, b

Edge(at, tag) == [at |-> at, tag |-> tag]

\* The first vertex chunk: a table out of order with a tie, a smaller one, one without a
\* column of the second group, one without the other endpoint or with a wrong type for
\* it, one without the column to sort by, and none at all.
SmallTables ==
    0 :> {Table(<<Edge(1, a), Edge(0, a), Edge(1, b)>>, {}, {}),
          Table(<<Edge(1, b)>>, {}, {}),
          Table(<<Edge(0, b), Edge(0, a)>>, {2}, {Other}),
          Table(<<Edge(0, a)>>, {At}, {}),
          Table(<<>>, {}, {})}
    @@ 1 :> {Table(<<Edge(3, a), Edge(2, a)>>, {}, {})}
==============================================================================
