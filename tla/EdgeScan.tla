------------------------------ MODULE EdgeScan ------------------------------
(****************************************************************************)
(* What the iterator over a collection of edges promises: a position in the *)
(* sequence of its edges.  An edge is represented by its aligned endpoint,  *)
(* the vertex that first_src, next_src and find_src look for.  Positions    *)
(* count from 0; the position behind the last edge is the end.              *)
(****************************************************************************)
EXTENDS Integers, Sequences

CONSTANT Vertices

VARIABLES edges,    \* the collection, in storage order
          pos,      \* where the iterator is
          call      \* its last call that moves or searches, and what that returned

vars == <<edges, pos, call>>

End == Len(edges)
IsEnd == pos = End
EdgeAt(p) == edges[p + 1]

Returns(request, found) == call' = [request |-> request, found |-> found]

Init ==
    /\ edges \in Seq(Vertices)
    /\ pos = 0
    /\ call = [request |-> <<>>, found |-> TRUE]

\* The first edge of v at or after a position is the place to stop.
Hits(from, v) ==
    LET all == edges IN {p \in from .. Len(all) - 1 : all[p + 1] = v}

Reaches(request, from, v) ==
    /\ Returns(request, TRUE)
    /\ LET hits == Hits(from, v)
       IN  pos' \in hits /\ \A p \in hits : pos' <= p

\* There is none: the iterator stays or stops anywhere behind.
Misses(request, from, v) ==
    /\ Returns(request, FALSE)
    /\ Hits(from, v) = {}
    /\ pos' \in {pos} \cup (from .. End)

Search(request, from, v) == Reaches(request, from, v) \/ Misses(request, from, v)

\* ++it
Advance ==
    /\ ~IsEnd
    /\ pos' = pos + 1
    /\ Returns(<<"increment">>, TRUE)
    /\ UNCHANGED edges

\* it.to_begin()
Rewind ==
    /\ pos' = 0
    /\ Returns(<<"to_begin">>, TRUE)
    /\ UNCHANGED edges

\* it.next_src(): the next edge with the same endpoint.  At the end there is none.
NextSame ==
    /\ \/ ~IsEnd /\ Search(<<"next">>, pos + 1, EdgeAt(pos))
       \/ IsEnd /\ Returns(<<"next">>, FALSE) /\ UNCHANGED pos
    /\ UNCHANGED edges

\* it.next_src(v): the next edge of v.
NextOf(v) ==
    /\ \/ ~IsEnd /\ Search(<<"next", v>>, pos + 1, v)
       \/ IsEnd /\ Returns(<<"next", v>>, FALSE) /\ UNCHANGED pos
    /\ UNCHANGED edges

\* Searches begin at the iterator itself or at the first edge.
From(place) == IF place = "begin" THEN 0 ELSE pos

\* it.first_src(from, v)
FirstOf(place, v) ==
    /\ Search(<<"first", place, v>>, From(place), v)
    /\ UNCHANGED edges

\* it = edges.find_src(v, from): the end stands for "not found".
Find(place, v) ==
    /\ \/ Reaches(<<"find", place, v>>, From(place), v)
       \/ Misses(<<"find", place, v>>, From(place), v) /\ pos' = End
    /\ UNCHANGED edges

Next ==
    \/ Advance \/ Rewind \/ NextSame
    \/ \E v \in Vertices :
          \/ NextOf(v)
          \/ \E place \in {"here", "begin"} : FirstOf(place, v) \/ Find(place, v)

Spec == Init /\ [][Next]_vars
==============================================================================
