--------------------------- MODULE MCEdgesBuilder ----------------------------
(****************************************************************************)
(* A small instance of EdgesBuilder for TLC: edges of the vertices of two   *)
(* vertex chunks, and of one vertex behind them.                            *)
(****************************************************************************)
EXTENDS EdgesBuilder

\* Vertex 0 has one edge, vertex 1 two, vertex 2 one.  Vertex 4 does not exist: it
\* would lie in the vertex chunk behind the last one.
SmallEdges == {<<0, 1>>, <<1, 1>>, <<1, 2>>, <<4, 1>>}
==============================================================================
