-------------------------- MODULE VerticesCollection --------------------------
(****************************************************************************)
(* VerticesCollection and VertexIter (cpp/src/graphar/high-level/           *)
(* graph_reader): a client narrows a collection of vertices by labels and   *)
(* property filters, each filter giving a new collection, and walks over    *)
(* the result, on files that nobody writes meanwhile.                       *)
(*                                                                          *)
(* A filtered collection keeps the ids it found and, for the next filter,   *)
(* the vertex chunks in which it found any.  The order of the ids is that   *)
(* of a hash set, so it is any order.                                       *)
(****************************************************************************)
EXTENDS VertexReader

CONSTANTS LabelQueries   \* sets of labels that a client asks for

ASSUME CollectionAssumption == \A L \in LabelQueries : L \subseteq Labels /\ L # {}

VARIABLES
    coll,     \* the collection's members, or NoColl
    it,       \* the iterator's members, or NoIter
    seen,     \* what the last access through the iterator gave
    expect    \* history: the ids that satisfy every filter so far

collVars == <<coll, it, seen, expect>>

NoColl == [filtered |-> FALSE, ids |-> {}, valid |-> {-1}, sound |-> FALSE]
NoIter == [cur |-> -1]
NotSeen == [kind |-> "none"]

------------------------------------------------------------------------------
(* The filters.                                                             *)

AllIds == 0 .. dir[CountPath] - 1
AllChunks == 0 .. ChunkNum(dir[CountPath]) - 1
IdsOf(c) == {id \in AllIds : ChunkOf(id) = c}

HasLabels(L, id) == L \subseteq RowAt(LabelGroup, id)
Satisfies(f, id) == RowAt(f.group, id).val \in f.keep

\* What filter scans: a filtered collection only the chunks it found something in.
Scanned(c) == IF c.filtered THEN c.valid ELSE AllChunks

\* filter(labels): the rows up to the vertex count.
LabelHits(c, L) ==
    {id \in UNION {IdsOf(k) : k \in Scanned(c)} : HasLabels(L, id)}

\* filter(property, expression): the index column of the rows that the chunk reader
\* delivers from the first row of a chunk.
PropertyHits(c, f) ==
    UNION {{dir[<<f.group, k>>][i].id :
              i \in {j \in 1 .. Len(dir[<<f.group, k>>]) : dir[<<f.group, k>>][j].val \in f.keep}} :
           k \in Scanned(c)}

Chunks(ids) == {ChunkOf(id) : id \in ids}

\* A collection on which no filter has run; sound is history (below).
Fresh == [filtered |-> FALSE, ids |-> {}, valid |-> {}, sound |-> TRUE]

\* The overloads that take a graph info.
FromGraph(hits) ==
    [filtered |-> TRUE, ids |-> hits, valid |-> Chunks(hits), sound |-> TRUE]

\* The ...byAcero overloads count the matching rows and return no id.
FromGraphByAcero ==
    [filtered |-> TRUE, ids |-> {}, valid |-> {}, sound |-> FALSE]

ForgetOld(c, hits, valid) ==                         \* fault model: no intersection
    [filtered |-> c.filtered, ids |-> hits, valid |-> valid, sound |-> c.sound]

\* The overloads that take a collection: on one that is not filtered the result is not
\* marked as filtered either.
Narrow(c, hits, valid) ==
    [filtered |-> c.filtered,
     ids      |-> IF c.filtered THEN hits \cap c.ids ELSE hits,
     valid    |-> valid,
     sound    |-> c.sound /\ c.filtered]

\* verticesWithLabel scans all chunks again with the new collection; the others scan
\* with the old one.
WithLabel(c, l) ==
    LET hits == LabelHits(Fresh, {l}) IN Narrow(c, hits, Chunks(hits))

WithHits(c, hits) ==
    Narrow(c, hits, IF c.filtered THEN Chunks(hits) ELSE {})

------------------------------------------------------------------------------
(* The iterator: a reader per property group and one for the labels.        *)

IterAt(cur, filtered, order) ==
    [cur |-> cur, filtered |-> filtered, order |-> order,
     readers |-> [g \in 1 .. LabelGroup |-> NewReader(g, {})]]

Size(c) == IF c.filtered THEN Cardinality(c.ids) ELSE dir[CountPath]

\* VertexIter::id and the vertex that operator*, property and label go to.
Id(i) == IF i.filtered THEN i.order[i.cur + 1] ELSE i.cur

\* What is in sight: the row that reader g delivers first after a seek to id.
Go(i, gs, id) ==
    [i EXCEPT !.readers = [g \in DOMAIN @ |->
        IF g \in gs THEN Cached(Seek(@[g], id), "V1") ELSE @[g]]]

Row(i, g) == TableRows(g, i.readers[g].table)[RowOffset(i.readers[g]) + 1]

\* property reads the groups in their order up to the one that has the property.
GroupsUpTo(g) == 1 .. g

------------------------------------------------------------------------------
(* The client.                                                              *)

CollInit == coll = NoColl /\ it = NoIter /\ seen = NotSeen /\ expect = {}

HasColl == coll # NoColl
NoneYet == coll = NoColl /\ it = NoIter /\ reader = NoReader

Collects(c, ids) ==
    /\ coll' = c /\ expect' = ids
    /\ UNCHANGED <<it, seen, readerVars>>

Satisfying(L) == {id \in AllIds : HasLabels(L, id)}
Keeping(f) == {id \in AllIds : Satisfies(f, id)}

MakeCollection ==
    /\ NoneYet
    /\ Readable(CountPath)
    /\ Collects(Fresh, AllIds)

\* verticesWithLabel, verticesWithMultipleLabels, ...byAcero, verticesWithProperty.
QueryLabels(L) ==
    /\ NoneYet
    /\ L \subseteq declared /\ Readable(CountPath)
    /\ \/ Collects(FromGraph(LabelHits(Fresh, L)), Satisfying(L))
       \/ Collects(FromGraphByAcero, Satisfying(L))

QueryProperty(f) ==
    /\ NoneYet
    /\ Readable(CountPath)
    /\ Collects(FromGraph(PropertyHits(Fresh, f)), Keeping(f))

NarrowByLabel(l) ==
    /\ HasColl /\ l \in declared
    /\ Collects(WithLabel(coll, l), expect \cap Satisfying({l}))

NarrowByLabels(L) ==
    /\ HasColl /\ L \subseteq declared
    /\ Collects(WithHits(coll, LabelHits(coll, L)), expect \cap Satisfying(L))

NarrowByProperty(f) ==
    /\ HasColl
    /\ Collects(WithHits(coll, PropertyHits(coll, f)), expect \cap Keeping(f))

Orders(ids) ==
    {o \in [1 .. Cardinality(ids) -> ids] : \A i, j \in DOMAIN o : i # j => o[i] # o[j]}

\* The iterator has a copy of what it needs; the client drops the collection.
Iterates(i) ==
    /\ it' = i
    /\ coll' = NoColl /\ expect' = {}
    /\ UNCHANGED <<seen, readerVars>>

begin ==
    /\ HasColl
    /\ \E o \in Orders(IF coll.filtered THEN coll.ids ELSE {}) :
          Iterates(IterAt(0, coll.filtered, o))

\* find ignores the filter.
find(id) ==
    /\ HasColl /\ id \in AllIds
    /\ Iterates(IterAt(id, FALSE, <<>>))

InRange == running /\ it # NoIter /\ it.cur < (IF it.filtered THEN Len(it.order) ELSE dir[CountPath])

Sees(i, what) ==
    /\ it' = i /\ seen' = what
    /\ UNCHANGED <<coll, expect, readerVars>>

\* operator*: the vertex is given the offset in the collection as its id.
Deref ==
    /\ InRange
    /\ LET i == Go(it, Groups, Id(it))
       IN  Sees(i, [kind |-> "vertex", id |-> it.cur, rows |-> [g \in Groups |-> Row(i, g)]])

property(g) ==
    /\ InRange
    /\ LET i == Go(it, GroupsUpTo(g), Id(it))
       IN  Sees(i, [kind |-> "property", group |-> g, row |-> Row(i, g)])

\* label seeks the vertex, hasLabel the offset in the collection.
label ==
    /\ InRange /\ declared # {}
    /\ LET i == Go(it, {LabelGroup}, Id(it))
       IN  Sees(i, [kind |-> "label", labels |-> Row(i, LabelGroup)])

hasLabel(l) ==
    /\ InRange /\ l \in declared
    /\ LET i == Go(it, {LabelGroup}, it.cur)
       IN  Sees(i, [kind |-> "has_label", label |-> l, has |-> l \in Row(i, LabelGroup)])

\* ++ and += move the offset alone, so the readers keep the table of another vertex.
Advance(n) ==
    /\ it # NoIter
    /\ it.cur + n <= (IF it.filtered THEN Len(it.order) ELSE dir[CountPath])
    /\ Sees([it EXCEPT !.cur = @ + n], NotSeen)

CollNext ==
    \/ MakeCollection
    \/ \E L \in LabelQueries : QueryLabels(L) \/ NarrowByLabels(L)
    \/ \E l \in Labels : NarrowByLabel(l)
    \/ \E g \in Groups, f \in Filters :
          /\ f.on \in PropsOf[g]
          /\ \/ QueryProperty([group |-> g, keep |-> f.keep])
             \/ NarrowByProperty([group |-> g, keep |-> f.keep])
    \/ begin
    \/ \E id \in SeekIds : find(id)
    \/ Deref
    \/ \E g \in Groups : property(g)
    \/ label
    \/ \E l \in Labels : hasLabel(l)
    \/ \E n \in 1 .. 2 : Advance(n)

------------------------------------------------------------------------------
(* Properties.                                                              *)

\* No file has rows behind the vertex count.
NoExcessRows ==
    \A g \in Groups, c \in AllChunks :
        \A i \in 1 .. Len(dir[<<g, c>>]) : dir[<<g, c>>][i].id \in AllIds

\* A chain of filters that starts with a query on the graph gives exactly the ids that
\* satisfy every filter of the chain, although every filter but the first scans only
\* the chunks that the one before it found something in (filter, verticesWith...).
FilterIsExact ==
    coll # NoColl /\ coll.sound /\ coll.filtered =>
        coll.ids = expect /\ Chunks(coll.ids) \subseteq coll.valid

\* What an iterator shows is read from the files of the vertex it stands on, whatever
\* it was used for before; the id of a vertex is right if the collection is not
\* filtered, and so is the answer of hasLabel (VertexIter).
IterShowsVertex ==
    /\ seen.kind = "vertex" =>
          /\ \A g \in Groups : seen.rows[g] = RowAt(g, Id(it)) /\ seen.rows[g].id = Id(it)
          /\ ~it.filtered => seen.id = Id(it)
    /\ seen.kind = "property" => seen.row = RowAt(seen.group, Id(it))
    /\ seen.kind = "label" => seen.labels = RowAt(LabelGroup, Id(it))
    /\ seen.kind = "has_label" /\ ~it.filtered =>
          seen.has = (seen.label \in RowAt(LabelGroup, Id(it)))
==============================================================================
