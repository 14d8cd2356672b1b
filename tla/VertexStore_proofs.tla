-------------------------- MODULE VertexStore_proofs --------------------------
(****************************************************************************)
(* Proofs about VertexStore: the invariant of the builder, that of the      *)
(* chunk reader and that of the collections and iterators, put together     *)
(* over the life of a vertex type, and the properties that follow: types, a *)
(* Dump which returned OK has published its vertices, a readable vertex     *)
(* count describes files that are there, and readers, filters and iterators *)
(* give what was written.                                                   *)
(****************************************************************************)
EXTENDS VertexStore, BasicFacts

------------------------------------------------------------------------------
(* The inductive invariant of the builder, in four parts.                   *)

\* A chunk file has at most ChunkSize rows, and the index column counts them from the
\* first id of the chunk.
Numbered(path, data) ==
    path \in ChunkPaths =>
        /\ Len(data) <= ChunkSize
        /\ path[1] \in Groups =>
              \A i \in 1 .. Len(data) : data[i].id = path[2] * ChunkSize + i - 1

Proper(path, data) == data \in FileContents(path) /\ Numbered(path, data)

FilesInv ==
    /\ declared \subseteq Labels
    /\ dir = [path \in Paths |-> dir[path]]
    /\ \A path \in Paths : Readable(path) => Proper(path, dir[path])

Kinds == {"idle", "dump", "table", "count"}
Contents == Nat \cup Seq(SUBSET Labels) \cup Seq([id : Nat, val : Values])
Entries == {w \in [path : Paths, data : Contents] : Proper(w.path, w.data)}

Builders == [start : Nat, level : Levels, slots : Seq(Values), num : Nat, saved : BOOLEAN]
Filled(slots) == {i \in DOMAIN slots : slots[i] # Null}

MembersInv ==
    /\ builder \in Builders
    /\ Cardinality(Filled(builder.slots)) <= builder.num
    /\ builder.slots # <<>> =>
          ChunkOf(builder.start) + ChunkNum(Len(builder.slots)) <= MaxChunks

JobInv ==
    /\ job \in [kind : Kinds, todo : Seq(Entries), end : Statuses, rows : Nat]
    /\ result \in [kind : Kinds, status : Statuses, rows : Nat]
    /\ job # NoJob => result = NoResult /\ job.kind # "idle"

\* What the file of path may hold when the entries of todo have been written.
Landing(todo, path) ==
    LET pending == {i \in DOMAIN todo : todo[i].path = path}
    IN  IF pending = {} THEN {dir[path]} ELSE {todo[i].data : i \in pending}

WillHaveRow(todo, g, id) ==
    /\ <<g, ChunkOf(id)>> \in ChunkPaths
    /\ \A data \in Landing(todo, <<g, ChunkOf(id)>>) :
          data \notin {Missing, Torn} /\ RowOf(id) <= Len(data)

WillHold(todo, g, id, val) ==
    /\ WillHaveRow(todo, g, id)
    /\ \A data \in Landing(todo, <<g, ChunkOf(id)>>) :
          data[RowOf(id)] = [id |-> id, val |-> val]

Holds(g, id, val) == HasRow(g, id) /\ RowAt(g, id) = [id |-> id, val |-> val]

\* A builder whose client keeps to the contract has in its slots what the client asked
\* for, until a Dump has put that into the files.
Collected ==
    clean =>
        /\ DOMAIN want = builder.start .. builder.start + builder.num - 1
        /\ ~builder.saved =>
              /\ Len(builder.slots) = builder.num
              /\ \A i \in 1 .. builder.num : builder.slots[i] = want[builder.start + i - 1]
              /\ builder.num > 0 => builder.start % ChunkSize = 0
        /\ builder.saved =>
              /\ builder.slots = <<>>
              /\ \A id \in DOMAIN want : \A g \in Groups : Holds(g, id, want[id])

Published ==
    clean =>
        /\ job.kind \in {"idle", "dump"}
        /\ job.kind = "dump" /\ builder.saved =>
              \A i \in DOMAIN job.todo : job.todo[i].path = CountPath
        /\ job.kind = "dump" /\ job.end = "OK" =>
              /\ \A id \in DOMAIN want : \A g \in Groups : WillHold(job.todo, g, id, want[id])
              /\ Landing(job.todo, CountPath) = {builder.start + builder.num}
        /\ result.kind = "dump" /\ result.status = "OK" =>
              builder.saved /\ dir[CountPath] = builder.start + builder.num

\* The first n ids have their rows.
Covers(n) ==
    \A id \in 0 .. n - 1 :
        /\ \A g \in Groups : HasRow(g, id)
        /\ declared # {} => HasRow(LabelGroup, id)

WillCover(todo, n) ==
    \A id \in 0 .. n - 1 :
        /\ \A g \in Groups : WillHaveRow(todo, g, id)
        /\ declared # {} => WillHaveRow(todo, LabelGroup, id)

\* The chunks below the first of a Dump are not written, and the count is written last.
InOrder ==
    orderly =>
        /\ Readable(CountPath) => Covers(dir[CountPath])
        /\ job.kind = "dump" /\ job.todo # <<>> /\ Readable(CountPath) =>
              dir[CountPath] = builder.start
        /\ job.kind = "dump" =>
              \A i \in DOMAIN job.todo :
                 IF job.todo[i].path = CountPath
                   THEN /\ i = Len(job.todo)
                        /\ job.todo[i].data = builder.start + builder.num
                        /\ WillCover(job.todo, builder.start + builder.num)
                   ELSE /\ ChunkOf(builder.start) <= job.todo[i].path[2]
                        /\ builder.start % ChunkSize = 0
        /\ job.kind = "table" =>
              /\ ~Readable(CountPath)
              /\ \A i \in DOMAIN job.todo : job.todo[i].path # CountPath
              /\ job.end = "OK" => WillCover(job.todo, job.rows)
        /\ job.kind = "count" =>
              /\ \A i \in DOMAIN job.todo :
                    job.todo[i].path = CountPath /\ job.todo[i].data = job.rows
              /\ Covers(job.rows)
        /\ result.kind = "table" /\ result.status = "OK" => Covers(result.rows)

BuilderInv == FilesInv /\ MembersInv /\ JobInv /\ Collected /\ Published /\ InOrder
------------------------------------------------------------------------------
(* Ids, chunks and rows.                                                    *)

\* The row r of chunk k has the id k * ChunkSize + r - 1, and no other row has.
LEMMA IdOfRow ==
    /\ \A id \in Nat :
          /\ ChunkOf(id) \in Nat /\ RowOf(id) \in 1 .. ChunkSize
          /\ id = ChunkOf(id) * ChunkSize + RowOf(id) - 1
    /\ \A k \in Nat, r \in 1 .. ChunkSize :
          /\ k * ChunkSize + r - 1 \in Nat
          /\ ChunkOf(k * ChunkSize + r - 1) = k
          /\ RowOf(k * ChunkSize + r - 1) = r
<1>0. ChunkSize \in Nat \ {0}
  BY VertexFilesAssumption
<1>1. ASSUME NEW id \in Nat
      PROVE  /\ ChunkOf(id) \in Nat /\ RowOf(id) \in 1 .. ChunkSize
             /\ id = ChunkOf(id) * ChunkSize + RowOf(id) - 1
  BY <1>0 DEF ChunkOf, RowOf
<1>2. ASSUME NEW k \in Nat, NEW r \in 1 .. ChunkSize
      PROVE  /\ k * ChunkSize + r - 1 \in Nat
             /\ ChunkOf(k * ChunkSize + r - 1) = k
             /\ RowOf(k * ChunkSize + r - 1) = r
  BY <1>0 DEF ChunkOf, RowOf
<1>. QED BY <1>1, <1>2

\* Ids below the first id of a chunk are in chunks below it.
LEMMA ChunkBelow ==
    ASSUME NEW id \in Nat, NEW start \in Nat, start % ChunkSize = 0, id < start
    PROVE  ChunkOf(id) < ChunkOf(start)
BY VertexFilesAssumption DEF ChunkOf

\* n rows fill the chunks up to that of the last row.
LEMMA ChunkNumType ==
    ASSUME NEW n \in Nat
    PROVE  /\ ChunkNum(n) \in Nat
           /\ ChunkNum(0) = 0
           /\ \A k \in Nat : k < ChunkNum(n) <=> k * ChunkSize < n
           /\ \A i \in 0 .. n - 1 : ChunkOf(i) < ChunkNum(n)
<1>0. ChunkSize \in Nat \ {0}
  BY VertexFilesAssumption
<1>1. /\ ChunkNum(n) \in Nat
      /\ \A k \in Nat : k < ChunkNum(n) <=> k * ChunkSize < n
  BY <1>0, SMT DEF ChunkNum
<1>2. ChunkNum(0) = 0
  BY <1>0 DEF ChunkNum
<1>3. ASSUME NEW i \in 0 .. n - 1
      PROVE  ChunkOf(i) < ChunkNum(n)
  <2>1. ChunkOf(i) \in Nat /\ ChunkOf(i) * ChunkSize <= i
    BY DivType, <1>0 DEF ChunkOf
  <2>. QED BY <1>0, <1>1, <2>1
<1>. QED BY <1>1, <1>2, <1>3

------------------------------------------------------------------------------
(* What a call of the writer writes.                                        *)

\* Row r of the slice for chunk k is row k * ChunkSize + r of the table.
LEMMA SliceShape ==
    ASSUME NEW S, NEW vals \in Seq(S), NEW k \in Nat, k < ChunkNum(Len(vals))
    PROVE  /\ Slice(vals, k) \in Seq(S)
           /\ Len(Slice(vals, k)) \in 1 .. ChunkSize
           /\ \A r \in 1 .. ChunkSize :
                 r <= Len(Slice(vals, k)) <=> k * ChunkSize + r <= Len(vals)
           /\ \A r \in 1 .. Len(Slice(vals, k)) : Slice(vals, k)[r] = vals[k * ChunkSize + r]
<1>. DEFINE first == k * ChunkSize + 1
            last == IF (k + 1) * ChunkSize < Len(vals) THEN (k + 1) * ChunkSize ELSE Len(vals)
<1>0. ChunkSize \in Nat \ {0} /\ Len(vals) \in Nat
  BY VertexFilesAssumption
<1>1. k * ChunkSize < Len(vals)
  BY <1>0, ChunkNumType
<1>2. (k + 1) * ChunkSize = k * ChunkSize + ChunkSize /\ k * ChunkSize \in Nat
  BY <1>0
<1>3. first \in 1 .. Len(vals) /\ last \in first .. Len(vals) /\ last - first + 1 <= ChunkSize
  BY <1>0, <1>1, <1>2
<1>4. \A r \in 1 .. ChunkSize : r <= last - first + 1 <=> k * ChunkSize + r <= Len(vals)
  BY <1>0, <1>1, <1>2
<1>5. Slice(vals, k) = SubSeq(vals, first, last)
  BY DEF Slice
<1>6. k * ChunkSize + 1 = first
  OBVIOUS
<1>. HIDE DEF last
<1>7. /\ SubSeq(vals, first, last) \in Seq(S)
      /\ Len(SubSeq(vals, first, last)) = last - first + 1
      /\ \A r \in 1 .. last - first + 1 : SubSeq(vals, first, last)[r] = vals[first + r - 1]
  <2>. HIDE DEF first
  <2>. QED BY <1>3
<1>. QED BY <1>0, <1>2, <1>3, <1>4, <1>5, <1>7

NumberedRows(table, start, k, rows) ==
    \A r \in 1 .. Len(rows) :
        rows[r] = [id |-> (start + k) * ChunkSize + r - 1, val |-> table.vals[k * ChunkSize + r]]

\* A chunk file holds the rows of its chunk in order, with their ids.
LEMMA FileRowsShape ==
    ASSUME NEW table, table.vals \in Seq(Values), NEW start \in Nat, NEW g \in 1 .. LabelGroup,
           NEW k \in Nat, k < ChunkNum(Len(table.vals)), declared \subseteq Labels,
           <<g, start + k>> \in ChunkPaths
    PROVE  /\ Proper(<<g, start + k>>, FileRows(table, start, g, k))
           /\ Len(FileRows(table, start, g, k)) = Len(Slice(table.vals, k))
           /\ g \in Groups => NumberedRows(table, start, k, FileRows(table, start, g, k))
<1>. DEFINE slice == Slice(table.vals, k)
            rows == FileRows(table, start, g, k)
            n == Len(slice)
<1>0. ChunkSize \in Nat \ {0} /\ GroupNum \in Nat
  BY VertexFilesAssumption
<1>1. /\ slice \in Seq(Values)
      /\ n \in 1 .. ChunkSize
      /\ \A r \in 1 .. n : slice[r] = table.vals[k * ChunkSize + r]
  BY SliceShape
<1>2. \A r \in 1 .. n : AddIndexColumn(start, k * ChunkSize + r) = (start + k) * ChunkSize + r - 1
  BY <1>0, <1>1 DEF AddIndexColumn
<1>. HIDE DEF slice, n
<1>3. CASE g = LabelGroup
  <2>1. rows = [r \in 1 .. n |-> LabelRow(slice[r])]
    BY <1>3 DEF FileRows, slice, n
  <2>2. \A r \in 1 .. n : LabelRow(slice[r]) \in SUBSET Labels
    BY DEF LabelRow
  <2>3. rows \in Seq(SUBSET Labels) /\ Len(rows) = n
    BY <1>1, <2>1, <2>2
  <2>4. g \notin Groups /\ <<g, start + k>>[1] = LabelGroup /\ <<g, start + k>> # CountPath
    BY <1>0, <1>3 DEF Groups, LabelGroup, CountPath
  <2>. QED BY <1>1, <2>3, <2>4 DEF Proper, FileContents, Numbered, n, slice
<1>4. CASE g # LabelGroup
  <2>1. rows = [r \in 1 .. n |-> [id |-> AddIndexColumn(start, k * ChunkSize + r), val |-> slice[r]]]
    BY <1>4 DEF FileRows, slice, n
  <2>2. \A r \in 1 .. n : (start + k) * ChunkSize + r - 1 \in Nat /\ slice[r] \in Values
    <3>. DEFINE first == (start + k) * ChunkSize
    <3>1. first \in Nat /\ \A r \in 1 .. n : r \in Nat \ {0}
      BY <1>0, <1>1
    <3>2. \A r \in 1 .. n : slice[r] \in Values
      BY <1>1 DEF n
    <3>. HIDE DEF first
    <3>3. \A r \in 1 .. n : first + r - 1 \in Nat
      BY <3>1
    <3>. QED BY <3>2, <3>3 DEF first
  <2>3. /\ rows \in Seq([id : Nat, val : Values])
        /\ Len(rows) = n
        /\ \A r \in 1 .. n : rows[r] = [id |-> (start + k) * ChunkSize + r - 1,
                                        val |-> table.vals[k * ChunkSize + r]]
    <3>1. \A r \in 1 .. n : rows[r] = [id |-> (start + k) * ChunkSize + r - 1, val |-> slice[r]]
      BY <1>2, <2>1
    <3>2. \A r \in 1 .. n : rows[r] \in [id : Nat, val : Values]
      <4>. TAKE r \in 1 .. n
      <4>. DEFINE id == (start + k) * ChunkSize + r - 1
      <4>1. id \in Nat /\ slice[r] \in Values
        BY <2>2
      <4>2. rows[r] = [id |-> id, val |-> slice[r]]
        BY <3>1
      <4>. HIDE DEF id, rows
      <4>. QED BY <4>1, <4>2
    <3>3. rows \in Seq([id : Nat, val : Values]) /\ Len(rows) = n
      <4>1. rows = [r \in 1 .. n |-> rows[r]]
        BY <2>1
      <4>2. n \in Nat
        BY <1>0, <1>1
      <4>. DEFINE RowRecords == [id : Nat, val : Values]
      <4>. HIDE DEF rows, RowRecords
      <4>3. \A r \in 1 .. n : rows[r] \in RowRecords
        BY <3>2 DEF RowRecords
      <4>4. rows \in Seq(RowRecords) /\ Len(rows) = n
        <5>1. rows \in [1 .. n -> RowRecords]
          BY Zenon, <4>1, <4>3
        <5>. QED BY <4>2, <5>1
      <4>. QED BY <4>4 DEF RowRecords
    <3>. QED BY ZenonT(60), <1>1, <3>1, <3>3
  <2>4. <<g, start + k>> # CountPath /\ <<g, start + k>>[1] = g /\ <<g, start + k>>[2] = start + k
    BY DEF CountPath
  <2>5. FileContents(<<g, start + k>>) = Seq([id : Nat, val : Values])
    BY <1>4, <2>4 DEF FileContents
  <2>6. Proper(<<g, start + k>>, rows)
    BY <1>1, <2>2, <2>3, <2>4, <2>5 DEF Proper, Numbered
  <2>. QED BY <2>3, <2>6 DEF n, slice, NumberedRows
<1>. QED BY <1>3, <1>4

\* A call that returns OK writes the files of all groups, and the label files if there
\* are labels.
LEMMA FamiliesType ==
    ASSUME NEW table, NEW level
    PROVE  /\ Families(table, level) \in 0 .. LabelGroup
           /\ TableStatus(table, level) = "OK" => LabelsGood(table)
           /\ TableStatus(table, level) = "OK" /\ table.vals # <<>> =>
                 GroupNum <= Families(table, level)
           /\ TableStatus(table, level) = "OK" /\ declared # {} =>
                 Families(table, level) = LabelGroup
<1>0. GroupNum \in Nat /\ LabelGroup = GroupNum + 1 /\ Groups = 1 .. GroupNum
  BY VertexFilesAssumption DEF LabelGroup, Groups
<1>1. GoodGroups(table, level) \in SUBSET (1 .. GroupNum)
  BY <1>0 DEF GoodGroups
<1>2. /\ Cardinality(GoodGroups(table, level)) \in 0 .. GroupNum
      /\ Cardinality(1 .. GroupNum) = GroupNum
  BY <1>0, <1>1, SubsetOfInterval
<1>3. Families(table, level) \in 0 .. LabelGroup
  BY <1>0, <1>2 DEF Families
<1>4. ASSUME TableStatus(table, level) = "OK"
      PROVE  AllGood(table, level) /\ LabelsGood(table)
  BY <1>4 DEF TableStatus
<1>5. ASSUME TableStatus(table, level) = "OK", table.vals # <<>>
      PROVE  GroupNum <= Families(table, level)
  <2>1. GoodGroups(table, level) = 1 .. GroupNum
    BY <1>0, <1>4, <1>5 DEF AllGood
  <2>. QED BY <1>0, <1>2, <1>5, <2>1 DEF Families
<1>6. ASSUME TableStatus(table, level) = "OK", declared # {}
      PROVE  Families(table, level) = LabelGroup
  BY <1>6 DEF Families
<1>. QED BY <1>3, <1>4, <1>5, <1>6

\* Row i of the plan is for group (i - 1) \div n + 1 and the chunk (i - 1) % n: every pair of
\* a group and a chunk has its row.
LEMMA GroupByGroup ==
    ASSUME NEW n \in Nat, NEW f \in Nat
    PROVE  /\ n * f \in Nat
           /\ \A i \in 1 .. n * f : (i - 1) \div n + 1 \in 1 .. f /\ (i - 1) % n \in 0 .. n - 1
           /\ \A g \in 1 .. f, k \in 0 .. n - 1 :
                 LET i == (g - 1) * n + k + 1
                 IN  i \in 1 .. n * f /\ (i - 1) \div n + 1 = g /\ (i - 1) % n = k
<1>0. n * f \in Nat
  OBVIOUS
<1>1. ASSUME NEW i \in 1 .. n * f
      PROVE  (i - 1) \div n + 1 \in 1 .. f /\ (i - 1) % n \in 0 .. n - 1
  <2>1. n # 0
    BY <1>0
  <2>2. /\ i - 1 \in Nat /\ (i - 1) \div n \in Nat
        /\ ((i - 1) \div n) * n <= i - 1
        /\ i - 1 < n * f
    BY <1>0, <2>1, DivType
  <2>3. (i - 1) \div n < f
    <3>. DEFINE q == (i - 1) \div n
    <3>. SUFFICES ASSUME f <= q PROVE FALSE
      BY <2>2
    <3>. HIDE DEF q
    <3>. QED BY <2>2 DEF q
  <2>. QED BY <1>0, <2>1, <2>2, <2>3
<1>2. ASSUME NEW g \in 1 .. f, NEW k \in 0 .. n - 1
      PROVE  LET i == (g - 1) * n + k + 1
             IN  i \in 1 .. n * f /\ (i - 1) \div n + 1 = g /\ (i - 1) % n = k
  <2>. DEFINE i == (g - 1) * n + k + 1
  <2>1. (g - 1) * n \in Nat /\ (g - 1) * n + n = g * n /\ g * n <= f * n
    OBVIOUS
  <2>2. i \in 1 .. n * f
    BY <2>1
  <2>3. n # 0 /\ g - 1 \in Nat /\ i - 1 = (g - 1) * n + k
    BY <2>1
  <2>4. ((g - 1) * n + k) \div n = g - 1 /\ ((g - 1) * n + k) % n = k
    BY <2>3
  <2>. QED BY <2>2, <2>3, <2>4
<1>. QED BY <1>0, <1>1, <1>2

\* The start of a call and its table: every chunk is one that the bound allows.
InBounds(table, start) ==
    /\ table.vals \in Seq(Values)
    /\ start \in Nat
    /\ table.vals # <<>> => start + ChunkNum(Len(table.vals)) <= MaxChunks

Entry(table, start, g, k) ==
    [path |-> <<g, start + k>>, data |-> FileRows(table, start, g, k)]

PlannedEntries(table, start, level) ==
    {Entry(table, start, g, k) :
        g \in 1 .. Families(table, level), k \in 0 .. ChunkNum(Len(table.vals)) - 1}

\* A plan writes chunk files of the chunks from start on, each with proper contents.
LEMMA PlanShape ==
    ASSUME NEW table, NEW start, NEW level, InBounds(table, start), declared \subseteq Labels
    PROVE  /\ WriteTable(table, start, level) \in Seq(Entries)
           /\ \A i \in DOMAIN WriteTable(table, start, level) :
                 WriteTable(table, start, level)[i] \in PlannedEntries(table, start, level)
           /\ \A w \in PlannedEntries(table, start, level) :
                 /\ w.path \in ChunkPaths
                 /\ \E i \in DOMAIN WriteTable(table, start, level) :
                       WriteTable(table, start, level)[i] = w
           /\ table.vals = <<>> => WriteTable(table, start, level) = <<>>
<1>. DEFINE n == ChunkNum(Len(table.vals))
            f == Families(table, level)
            plan == WriteTable(table, start, level)
<1>0. /\ ChunkSize \in Nat \ {0} /\ GroupNum \in Nat /\ MaxChunks \in Nat
      /\ Len(table.vals) \in Nat /\ start \in Nat
  BY VertexFilesAssumption DEF InBounds
<1>1. n \in Nat /\ f \in Nat /\ f <= LabelGroup
  BY <1>0, ChunkNumType, FamiliesType DEF LabelGroup
<1>2. plan = [i \in 1 .. n * f |-> Entry(table, start, (i - 1) \div n + 1, (i - 1) % n)]
  BY DEF WriteTable, Entry
<1>3. ASSUME NEW g \in 1 .. f, NEW k \in 0 .. n - 1
      PROVE  <<g, start + k>> \in ChunkPaths /\ Entry(table, start, g, k) \in Entries
  <2>1. table.vals # <<>>
    BY <1>0, <1>1, ChunkNumType
  <2>2. <<g, start + k>> \in ChunkPaths
    <3>1. start + n <= MaxChunks
      BY <2>1 DEF InBounds
    <3>. HIDE DEF n, f
    <3>2. g \in 1 .. LabelGroup /\ start + k \in 0 .. MaxChunks - 1
      BY <1>0, <1>1, <3>1 DEF LabelGroup
    <3>. QED BY <3>2 DEF ChunkPaths
  <2>3. g \in 1 .. LabelGroup /\ k \in Nat /\ k < n
    BY <1>0, <1>1 DEF LabelGroup
  <2>4. Proper(<<g, start + k>>, FileRows(table, start, g, k))
    BY <1>0, <2>2, <2>3, FileRowsShape DEF InBounds
  <2>5. FileContents(<<g, start + k>>) \subseteq Contents
    BY DEF FileContents, Contents
  <2>. QED BY <2>2, <2>4, <2>5 DEF Entries, Proper, Paths, Entry
<1>. HIDE DEF n, f, plan
<1>4. plan \in Seq(Entries) /\ DOMAIN plan = 1 .. n * f
  <2>1. n * f \in Nat /\ \A i \in 1 .. n * f : Entry(table, start, (i - 1) \div n + 1, (i - 1) % n) \in Entries
    BY <1>1, <1>3, GroupByGroup
  <2>2. plan \in [1 .. n * f -> Entries]
    BY <1>2, <2>1
  <2>. QED BY <2>1, <2>2
<1>5. ASSUME NEW i \in DOMAIN plan
      PROVE  \E g \in 1 .. f, k \in 0 .. n - 1 : <<g, start + k>> \in ChunkPaths /\ plan[i] = Entry(table, start, g, k)
  BY <1>1, <1>2, <1>3, <1>4, GroupByGroup
<1>6. ASSUME NEW g \in 1 .. f, NEW k \in 0 .. n - 1
      PROVE  \E i \in DOMAIN plan : plan[i] = Entry(table, start, g, k)
  <2>. DEFINE i == (g - 1) * n + k + 1
  <2>1. i \in 1 .. n * f /\ (i - 1) \div n + 1 = g /\ (i - 1) % n = k
    BY <1>1, GroupByGroup
  <2>. HIDE DEF i
  <2>. QED BY <1>2, <1>4, <2>1
<1>7. table.vals = <<>> => plan = <<>>
  <2>. SUFFICES ASSUME table.vals = <<>> PROVE plan = <<>>
    OBVIOUS
  <2>1. n = 0
    BY ChunkNumType DEF n
  <2>2. n * f = 0
    BY <1>1, <2>1
  <2>. QED BY <1>4, <2>2
<1>8. ASSUME NEW i \in DOMAIN plan
      PROVE  plan[i] \in PlannedEntries(table, start, level)
  <2>1. PICK g \in 1 .. f, k \in 0 .. n - 1 : plan[i] = Entry(table, start, g, k)
    BY <1>5
  <2>. QED BY <2>1 DEF PlannedEntries, n, f
<1>9. \A w \in PlannedEntries(table, start, level) :
          w.path \in ChunkPaths /\ \E i \in DOMAIN plan : plan[i] = w
  <2>. SUFFICES ASSUME NEW w \in PlannedEntries(table, start, level)
                PROVE  w.path \in ChunkPaths /\ \E i \in DOMAIN plan : plan[i] = w
    OBVIOUS
  <2>1. PICK g \in 1 .. f, k \in 0 .. n - 1 : w = Entry(table, start, g, k)
    BY DEF PlannedEntries, n, f
  <2>2. w.path = <<g, start + k>>
    BY <2>1 DEF Entry
  <2>. QED BY <1>3, <1>6, <2>1, <2>2
<1>. QED BY <1>4, <1>7, <1>8, <1>9 DEF plan

\* A table is never taken for a file that is missing or torn.
LEMMA EntryReadable ==
    ASSUME NEW w \in Entries
    PROVE  /\ w.path \in Paths
           /\ Proper(w.path, w.data)
           /\ w.data \notin {Missing, Torn}
BY VertexFilesAssumption DEF Entries, Contents, Values

\* The plan writes the file of group g with vertex id, whose row holds val.
LandsIn(plan, g, id, val) ==
    /\ <<g, ChunkOf(id)>> \in ChunkPaths
    /\ \E i \in DOMAIN plan : plan[i].path = <<g, ChunkOf(id)>>
    /\ \A i \in DOMAIN plan : plan[i].path = <<g, ChunkOf(id)>> =>
          /\ plan[i].data \notin {Missing, Torn}
          /\ RowOf(id) <= Len(plan[i].data)
          /\ g \in Groups => plan[i].data[RowOf(id)] = [id |-> id, val |-> val]

\* Row j of the table of a call that returns OK lands in the file of its id.
LEMMA PlanDelivers ==
    ASSUME NEW table, NEW start, NEW level, InBounds(table, start), declared \subseteq Labels,
           NEW j \in 1 .. Len(table.vals), NEW g \in 1 .. Families(table, level)
    PROVE  LandsIn(WriteTable(table, start, level), g, start * ChunkSize + j - 1, table.vals[j])
<1>. DEFINE plan == WriteTable(table, start, level)
            id   == start * ChunkSize + j - 1
            n == ChunkNum(Len(table.vals))
            k == ChunkOf(j - 1)
            r == RowOf(j - 1)
<1>0. /\ ChunkSize \in Nat \ {0} /\ GroupNum \in Nat /\ start \in Nat
      /\ table.vals \in Seq(Values) /\ Len(table.vals) \in Nat
  BY VertexFilesAssumption DEF InBounds
<1>1. k \in Nat /\ r \in 1 .. ChunkSize /\ j - 1 = k * ChunkSize + r - 1 /\ k \in 0 .. n - 1
  <2>. DEFINE m == j - 1
  <2>1. m \in Nat /\ m \in 0 .. Len(table.vals) - 1
    BY <1>0
  <2>. HIDE DEF m
  <2>2. ChunkOf(m) \in Nat /\ RowOf(m) \in 1 .. ChunkSize /\ m = ChunkOf(m) * ChunkSize + RowOf(m) - 1
    BY <2>1, IdOfRow
  <2>3. ChunkOf(m) < n /\ n \in Nat
    BY <1>0, <2>1, ChunkNumType
  <2>4. ChunkOf(m) \in 0 .. n - 1
    BY <2>2, <2>3
  <2>. QED BY <2>2, <2>4 DEF m
<1>2. k \in 0 .. n - 1
  BY <1>1
<1>3. g \in 1 .. LabelGroup
  BY <1>0, FamiliesType DEF LabelGroup
<1>. HIDE DEF k, r
<1>4. /\ plan \in Seq(Entries)
      /\ \A i \in DOMAIN plan : plan[i] \in PlannedEntries(table, start, level)
      /\ \A w \in PlannedEntries(table, start, level) :
            w.path \in ChunkPaths /\ \E i \in DOMAIN plan : plan[i] = w
  BY PlanShape
<1>. HIDE DEF plan, n
<1>5. id = (start + k) * ChunkSize + r - 1 /\ start + k \in Nat
  BY <1>0, <1>1
<1>6. ChunkOf(id) = start + k /\ RowOf(id) = r
  BY <1>1, <1>5, IdOfRow
<1>7. /\ <<g, start + k>> \in ChunkPaths
      /\ \E i \in DOMAIN plan : plan[i].path = <<g, start + k>>
  <2>1. Entry(table, start, g, k) \in PlannedEntries(table, start, level)
    BY <1>2 DEF PlannedEntries, n
  <2>2. Entry(table, start, g, k).path = <<g, start + k>>
    BY DEF Entry
  <2>. QED BY <1>4, <2>1, <2>2
<1>8. ASSUME NEW i \in DOMAIN plan, plan[i].path = <<g, start + k>>
      PROVE  /\ plan[i].data \notin {Missing, Torn}
             /\ r <= Len(plan[i].data)
             /\ g \in Groups => plan[i].data[r] = [id |-> id, val |-> table.vals[j]]
  <2>1. PICK h \in 1 .. Families(table, level), l \in 0 .. n - 1 :
            plan[i] = [path |-> <<h, start + l>>, data |-> FileRows(table, start, h, l)]
    <3>1. plan[i] \in PlannedEntries(table, start, level)
      BY Zenon, <1>4, <1>8
    <3>2. \E h \in 1 .. Families(table, level), l \in 0 .. n - 1 :
              plan[i] = Entry(table, start, h, l)
      BY <3>1 DEF PlannedEntries, n
    <3>. QED BY Zenon, <3>2 DEF Entry
  <2>2. n \in Nat
    BY <1>0, ChunkNumType DEF n
  <2>3. h = g /\ start + l = start + k
    BY <1>8, <2>1
  <2>4. l = k
    BY <1>0, <1>1, <2>2, <2>3
  <2>5. plan[i].data = FileRows(table, start, g, k)
    BY <2>1, <2>3, <2>4
  <2>6. plan[i] \in Entries
    BY <1>4
  <2>7. k < ChunkNum(Len(table.vals))
    BY <1>2, <2>2 DEF n
  <2>8. /\ Len(plan[i].data) = Len(Slice(table.vals, k))
        /\ g \in Groups => NumberedRows(table, start, k, plan[i].data)
    <3>1. table.vals \in Seq(Values) /\ start \in Nat /\ k \in Nat
      BY <1>0, <1>1
    <3>. QED BY Zenon, <1>3, <1>7, <2>5, <2>7, <3>1, FileRowsShape
  <2>9. k * ChunkSize + r = j
    BY <1>0, <1>1
  <2>10. r <= Len(Slice(table.vals, k)) /\ Len(Slice(table.vals, k)) \in Nat
    <3>1. /\ Len(Slice(table.vals, k)) \in 1 .. ChunkSize
          /\ \A row \in 1 .. ChunkSize :
                row <= Len(Slice(table.vals, k)) <=> k * ChunkSize + row <= Len(table.vals)
      BY Zenon, <1>0, <1>1, <2>7, SliceShape
    <3>. QED BY <1>0, <1>1, <2>9, <3>1
  <2>11. r \in 1 .. Len(plan[i].data)
    BY <1>0, <1>1, <2>8, <2>10
  <2>. QED BY <1>5, <2>6, <2>8, <2>9, <2>10, <2>11, EntryReadable DEF NumberedRows
<1>. QED BY <1>6, <1>7, <1>8 DEF plan, LandsIn

------------------------------------------------------------------------------
(* Steps: the files, the members of the builder and the call that writes.   *)

\* The file of the vertex count is no chunk file.
LEMMA PathsDisjoint == CountPath \in Paths /\ CountPath \notin ChunkPaths
BY DEF Paths, CountPath, ChunkPaths

\* A step leaves the files alone or is a write of the call, which may tear the file.
LEMMA FileStep ==
    ASSUME BuilderNext
    PROVE  /\ declared' = declared
           /\ \/ dir' = dir
              \/ /\ job.todo # <<>>
                 /\ \E data \in {Head(job.todo).data, Torn} :
                       dir' = [dir EXCEPT ![Head(job.todo).path] = data]
                 /\ builder' = builder \/ clean' = TRUE
BY DEF BuilderNext, AddVertex, Clear, SetValidateLevel, Make, Dump, WriteClientTable,
       WriteClientCount, Begin, WriteNext, Return, WriteFails, Crash, Preparing

\* A step prepares a call, begins one, or belongs to the one that is writing.
LEMMA StepKinds ==
    ASSUME BuilderNext
    PROVE  \/ /\ job = NoJob /\ job' = NoJob /\ result' = NoResult
              /\ UNCHANGED <<dir, orderly>>
           \/ Dump
           \/ \E table \in Tables, level \in ValidateLevels : WriteClientTable(table, level)
           \/ \E table \in Tables : WriteClientCount(Len(table.vals))
           \/ WriteNext \/ Return \/ WriteFails \/ Crash
BY DEF BuilderNext, AddVertex, Clear, SetValidateLevel, Make, Preparing, Idle, history

\* Every step keeps the files readable or torn: what is written is proper.
LEMMA FilesStep ==
    ASSUME FilesInv, JobInv, BuilderNext
    PROVE  FilesInv'
<1>1. CASE dir' = dir
  BY <1>1, FileStep DEF FilesInv, Readable, Proper, FileContents, Numbered
<1>2. ASSUME job.todo # <<>>, NEW data \in {Head(job.todo).data, Torn},
             dir' = [dir EXCEPT ![Head(job.todo).path] = data]
      PROVE  FilesInv'
  <2>. DEFINE w == Head(job.todo)
  <2>1. w \in Entries
    BY <1>2 DEF JobInv
  <2>. HIDE DEF w
  <2>2. w.path \in Paths /\ Proper(w.path, w.data)
    BY <2>1, EntryReadable
  <2>3. dir' = [dir EXCEPT ![w.path] = data] /\ data \in {w.data, Torn}
    BY <1>2 DEF w
  <2>4. \A path \in Paths : dir'[path] = IF path = w.path THEN data ELSE dir[path]
    BY <2>2, <2>3 DEF FilesInv
  <2>5. dir' = [path \in Paths |-> dir'[path]]
    BY <2>2, <2>3 DEF FilesInv
  <2>6. \A path \in Paths : Readable(path)' => Proper(path, dir'[path])
    BY <2>2, <2>3, <2>4 DEF FilesInv, Readable
  <2>. QED BY <2>5, <2>6, FileStep DEF FilesInv, Proper, FileContents, Numbered
<1>. QED BY <1>1, <1>2, FileStep

\* A vertex put into the slots is in its slot, and no other slot has changed.
LEMMA PutShape ==
    ASSUME NEW slots \in Seq(Values), NEW i \in Nat, NEW val \in Payloads
    PROVE  /\ PutAt(slots, i, val) \in Seq(Values)
           /\ PutAt(slots, i, val) # <<>>
           /\ Len(PutAt(slots, i, val)) = IF i < Len(slots) THEN Len(slots) ELSE i + 1
           /\ PutAt(slots, i, val)[i + 1] = val
           /\ \A j \in 1 .. Len(slots) : j # i + 1 => PutAt(slots, i, val)[j] = slots[j]
           /\ Cardinality(Filled(slots)) \in Nat
           /\ Cardinality(Filled(PutAt(slots, i, val))) <= Cardinality(Filled(slots)) + 1
<1>. DEFINE n == IF i < Len(slots) THEN Len(slots) ELSE i + 1
            put == PutAt(slots, i, val)
<1>0. Len(slots) \in Nat /\ n \in Nat \ {0} /\ i + 1 \in 1 .. n /\ 1 .. Len(slots) \subseteq 1 .. n
  OBVIOUS
<1>1. put = [j \in 1 .. n |-> IF j = i + 1 THEN val ELSE IF j <= Len(slots) THEN slots[j] ELSE Null]
  BY DEF PutAt
<1>. HIDE DEF n, put
<1>2. \A j \in 1 .. n :
          (IF j = i + 1 THEN val ELSE IF j <= Len(slots) THEN slots[j] ELSE Null) \in Values
  BY <1>0 DEF Values
<1>3. put \in [1 .. n -> Values]
  BY <1>1, <1>2
<1>4. put \in Seq(Values) /\ Len(put) = n /\ DOMAIN put = 1 .. n
  BY <1>0, <1>3
<1>5. /\ put # <<>>
      /\ put[i + 1] = val
      /\ \A j \in 1 .. Len(slots) : j # i + 1 => put[j] = slots[j]
  BY <1>0, <1>1, <1>4
<1>6. Filled(put) \subseteq Filled(slots) \cup {i + 1}
  BY <1>0, <1>1, <1>4 DEF Filled
<1>7. IsFiniteSet(Filled(slots)) /\ Cardinality(Filled(slots)) \in Nat
  <2>1. Filled(slots) \in SUBSET (1 .. Len(slots))
    BY DEF Filled
  <2>. QED BY <1>0, <2>1, SubsetOfInterval
<1>8. /\ IsFiniteSet(Filled(slots) \cup {i + 1})
      /\ Cardinality(Filled(slots) \cup {i + 1}) <= Cardinality(Filled(slots)) + 1
  <2>1. Cardinality(Filled(slots) \cup {i + 1}) =
            IF i + 1 \in Filled(slots) THEN Cardinality(Filled(slots)) ELSE Cardinality(Filled(slots)) + 1
    BY <1>7, FS_AddElement
  <2>. QED BY <1>7, <2>1, FS_AddElement
<1>9. Cardinality(Filled(put)) <= Cardinality(Filled(slots) \cup {i + 1})
  BY <1>6, <1>8, FS_Subset
<1>10. Cardinality(Filled(put)) \in Nat /\ Cardinality(Filled(slots) \cup {i + 1}) \in Nat
  BY <1>6, <1>8, FS_Subset, FS_CardinalityType
<1>. QED BY <1>4, <1>5, <1>7, <1>8, <1>9, <1>10 DEF n, put

\* The members of a builder and of one that has been made or cleared.
LEMMA NewBuilderType ==
    ASSUME NEW start \in Nat
    PROVE  /\ NewBuilder(start) \in Builders
           /\ Cardinality(Filled(NewBuilder(start).slots)) <= NewBuilder(start).num
           /\ NewBuilder(start).slots = <<>>
<1>1. NewBuilder(start) \in Builders
  BY DEF NewBuilder, Builders, Levels
<1>2. Filled(<<>>) = {} /\ Cardinality({}) = 0
  BY FS_EmptySet DEF Filled
<1>3. NewBuilder(start).slots = <<>> /\ NewBuilder(start).num = 0
  BY DEF NewBuilder
<1>. QED BY <1>1, <1>2, <1>3

\* What AddVertex does when the builder accepts the vertex.
LEMMA Accepted ==
    ASSUME FilesInv, MembersInv, NEW val \in Offers[builder.num], NEW index \in Indices \cup {-1},
           NEW level, AddVertex(val, index, level),
           builder' = [builder EXCEPT !.slots = Put(val, index), !.num = @ + 1]
    PROVE  /\ val \in Payloads
           /\ builder' = [start |-> builder.start, level |-> builder.level,
                          slots |-> Put(val, index), num |-> builder.num + 1,
                          saved |-> builder.saved]
           /\ \E i \in Nat : /\ Put(val, index) = PutAt(builder.slots, i, val)
                             /\ i = IF index = -1 THEN Len(builder.slots) ELSE index
           /\ ChunkOf(builder.start) + ChunkNum(Len(Put(val, index))) <= MaxChunks
<1>1. builder.num \in 0 .. MaxRows
  BY BuilderAssumption DEF AddVertex, MembersInv, Builders
<1>2. val \in Payloads
  BY <1>1, BuilderAssumption
<1>3. (IF index = -1 THEN Len(builder.slots) ELSE index) \in Nat
  BY BuilderAssumption DEF MembersInv, Builders
<1>4. ChunkOf(builder.start) + ChunkNum(Len(Put(val, index))) <= MaxChunks
  BY DEF AddVertex
<1>. QED BY <1>2, <1>3, <1>4 DEF Put, MembersInv, Builders

\* Every call keeps the members of the builder in their types and its vertices in the chunks
\* there may be.
LEMMA MembersStep ==
    ASSUME FilesInv, MembersInv, BuilderNext
    PROVE  MembersInv'
<1>0. ASSUME UNCHANGED builder PROVE MembersInv'
  BY <1>0 DEF MembersInv, Filled
<1>1. ASSUME NEW start \in Nat, builder' = NewBuilder(start) PROVE MembersInv'
  BY <1>1, NewBuilderType DEF MembersInv, Filled
<1>2. ASSUME NEW val \in Offers[builder.num], NEW index \in Indices \cup {-1},
             NEW level \in ValidateLevels \cup {"default_validate"}, AddVertex(val, index, level)
      PROVE  MembersInv'
  <2>1. CASE UNCHANGED builder
    BY <1>0, <2>1
  <2>2. CASE builder' = [builder EXCEPT !.slots = Put(val, index), !.num = @ + 1]
    <3>1. PICK i \in Nat : Put(val, index) = PutAt(builder.slots, i, val)
      BY <1>2, <2>2, Accepted
    <3>2. /\ val \in Payloads
          /\ builder' = [start |-> builder.start, level |-> builder.level,
                         slots |-> Put(val, index), num |-> builder.num + 1,
                         saved |-> builder.saved]
          /\ ChunkOf(builder.start) + ChunkNum(Len(Put(val, index))) <= MaxChunks
      BY <1>2, <2>2, Accepted
    <3>3. /\ Put(val, index) \in Seq(Values)
          /\ Cardinality(Filled(builder.slots)) \in Nat
          /\ Cardinality(Filled(Put(val, index))) <= Cardinality(Filled(builder.slots)) + 1
      BY <3>1, <3>2, PutShape DEF MembersInv, Builders
    <3>. DEFINE put == Put(val, index)
    <3>4. Cardinality(Filled(put)) \in Nat
      <4>1. Filled(put) \in SUBSET (1 .. Len(put)) /\ Len(put) \in Nat
        BY <3>3 DEF Filled
      <4>. QED BY <4>1, SubsetOfInterval
    <3>. HIDE DEF put
    <3>5. Cardinality(Filled(put)) <= builder.num + 1
      BY <3>3, <3>4 DEF MembersInv, Builders, put
    <3>6. builder' \in Builders
      BY <3>2, <3>3 DEF MembersInv, Builders
    <3>7. builder'.slots = put /\ builder'.num = builder.num + 1 /\ builder'.start = builder.start
      BY <3>2 DEF put
    <3>8. ChunkOf(builder'.start) + ChunkNum(Len(builder'.slots)) <= MaxChunks
      BY <3>2, <3>7 DEF put
    <3>9. Cardinality(Filled(builder'.slots)) <= builder'.num
      BY <3>5, <3>7
    <3>. QED BY <3>6, <3>8, <3>9 DEF MembersInv, Filled
  <2>. QED BY <1>2, <2>1, <2>2 DEF AddVertex
<1>3. CASE Clear
  <2>1. builder' = [start |-> builder.start, level |-> builder.level, slots |-> <<>>,
                    num |-> 0, saved |-> FALSE]
    BY <1>3 DEF Clear, MembersInv, Builders
  <2>2. Filled(<<>>) = {} /\ Cardinality({}) = 0
    BY FS_EmptySet DEF Filled
  <2>. QED BY <2>1, <2>2 DEF MembersInv, Builders, Filled
<1>4. ASSUME NEW level \in ValidateLevels, SetValidateLevel(level)
      PROVE  MembersInv'
  <2>1. builder' = [builder EXCEPT !.level = level] /\ level \in Levels
    BY <1>4, BuilderAssumption DEF SetValidateLevel
  <2>. QED BY <2>1 DEF MembersInv, Builders, Filled
<1>5. ASSUME NEW start \in Starts, Make(start)
      PROVE  MembersInv'
  BY <1>1, <1>5, BuilderAssumption DEF Make
<1>6. CASE Return
  <2>1. CASE UNCHANGED builder
    BY <1>0, <2>1
  <2>2. CASE builder' = Drained
    <3>1. builder' = [start |-> builder.start, level |-> builder.level, slots |-> <<>>,
                      num |-> builder.num, saved |-> TRUE]
      BY <2>2 DEF Drained, MembersInv, Builders
    <3>2. Filled(<<>>) = {} /\ Cardinality({}) = 0
      BY FS_EmptySet DEF Filled
    <3>. QED BY <3>1, <3>2 DEF MembersInv, Builders, Filled
  <2>. QED BY <1>6, <2>1, <2>2 DEF Return
<1>7. CASE Crash
  BY <1>1, <1>7, 0 \in Nat DEF Crash
<1>8. CASE UNCHANGED builder
  BY <1>0, <1>8
<1>. QED BY <1>2, <1>3, <1>4, <1>5, <1>6, <1>7, <1>8
         DEF BuilderNext, Dump, WriteClientTable, WriteClientCount, Begin, WriteNext, WriteFails

CountEntry(n) == [path |-> CountPath, data |-> n]

\* The write of a vertex count.
LEMMA CountEntryType ==
    ASSUME NEW n \in Nat
    PROVE  /\ CountEntry(n) \in Entries
           /\ WriteVerticesNum(n) = <<CountEntry(n)>>
           /\ WriteVerticesNum(n) \in Seq(Entries)
<1>1. Proper(CountPath, n)
  <2>1. CountPath[1] # LabelGroup
    BY VertexFilesAssumption DEF CountPath, LabelGroup
  <2>2. FileContents(CountPath) = Nat
    BY <2>1 DEF FileContents
  <2>. QED BY <2>2, PathsDisjoint DEF Proper, Numbered
<1>2. CountEntry(n) \in Entries
  BY <1>1, PathsDisjoint DEF Entries, CountEntry, Contents
<1>. QED BY <1>2 DEF WriteVerticesNum, CountEntry

\* The rows of the builder, and where they go.
DumpRows == WriteTable(BuilderTable, ChunkOf(builder.start), builder.level)

\* The table of a builder that starts at a chunk fits into the chunks there may be.
LEMMA BuilderTableShape ==
    ASSUME MembersInv
    PROVE  /\ InBounds(BuilderTable, ChunkOf(builder.start))
           /\ BuilderTable.vals = builder.slots
           /\ BuilderTable.has_label = FALSE
           /\ builder.start \in Nat /\ builder.num \in Nat
           /\ CountToWrite \in Nat /\ CountToWrite = builder.start + builder.num
<1>1. builder.start \in Nat /\ builder.num \in Nat /\ builder.slots \in Seq(Values)
  BY DEF MembersInv, Builders
<1>2. BuilderTable.vals = builder.slots /\ BuilderTable.has_label = FALSE
  BY DEF BuilderTable, Table
<1>3. ChunkOf(builder.start) \in Nat
  BY <1>1, IdOfRow
<1>. QED BY <1>1, <1>2, <1>3 DEF InBounds, CountToWrite, MembersInv

\* A Dump that will return OK writes the count behind the rows, and then there are no labels.
LEMMA DumpShape ==
    ASSUME FilesInv, MembersInv
    PROVE  /\ DumpRows \in Seq(Entries)
           /\ \A i \in DOMAIN DumpRows :
                 DumpRows[i] \in PlannedEntries(BuilderTable, ChunkOf(builder.start), builder.level)
           /\ DumpPlan \in Seq(Entries)
           /\ TableStatus(BuilderTable, builder.level) # "OK" => DumpPlan = DumpRows
           /\ TableStatus(BuilderTable, builder.level) = "OK" =>
                 /\ declared = {}
                 /\ Len(DumpPlan) = Len(DumpRows) + 1
                 /\ \A i \in 1 .. Len(DumpRows) : DumpPlan[i] = DumpRows[i]
                 /\ DumpPlan[Len(DumpPlan)] = CountEntry(CountToWrite)
           /\ builder.slots = <<>> => DumpRows = <<>>
<1>1. /\ DumpRows \in Seq(Entries)
      /\ \A i \in DOMAIN DumpRows :
            DumpRows[i] \in PlannedEntries(BuilderTable, ChunkOf(builder.start), builder.level)
      /\ builder.slots = <<>> => DumpRows = <<>>
  <2>. DEFINE start == ChunkOf(builder.start)
  <2>1. InBounds(BuilderTable, start) /\ declared \subseteq Labels /\ BuilderTable.vals = builder.slots
    BY BuilderTableShape DEF FilesInv
  <2>. HIDE DEF start
  <2>2. /\ WriteTable(BuilderTable, start, builder.level) \in Seq(Entries)
        /\ \A i \in DOMAIN WriteTable(BuilderTable, start, builder.level) :
              WriteTable(BuilderTable, start, builder.level)[i]
                  \in PlannedEntries(BuilderTable, start, builder.level)
        /\ BuilderTable.vals = <<>> => WriteTable(BuilderTable, start, builder.level) = <<>>
    BY <2>1, PlanShape
  <2>. QED BY <2>1, <2>2 DEF DumpRows, start
<1>2. WriteVerticesNum(CountToWrite) = <<CountEntry(CountToWrite)>> /\ CountEntry(CountToWrite) \in Entries
  BY BuilderTableShape, CountEntryType
<1>3. CASE TableStatus(BuilderTable, builder.level) = "OK"
  <2>1. LabelsGood(BuilderTable)
    BY <1>3, FamiliesType
  <2>2. declared = {}
    BY <2>1, BuilderTableShape DEF LabelsGood
  <2>3. DumpPlan = DumpRows \o <<CountEntry(CountToWrite)>>
    BY <1>2, <1>3 DEF DumpPlan, DumpRows
  <2>. HIDE DEF DumpPlan, DumpRows, CountEntry
  <2>. QED BY <1>1, <1>2, <1>3, <2>2, <2>3
<1>4. CASE TableStatus(BuilderTable, builder.level) # "OK"
  <2>1. DumpPlan = DumpRows \o <<>>
    BY <1>4 DEF DumpPlan, DumpRows
  <2>. HIDE DEF DumpPlan, DumpRows
  <2>. QED BY <1>1, <1>4, <2>1
<1>. QED BY <1>3, <1>4

\* So does the table of a client.
LEMMA ClientTableShape ==
    ASSUME NEW table \in Tables
    PROVE  InBounds(table, 0) /\ Len(table.vals) \in Nat
BY BuilderAssumption, ChunkNumType DEF InBounds

\* What a call has yet to write stays a list of proper files.
LEMMA JobStep ==
    ASSUME FilesInv, MembersInv, JobInv, BuilderNext
    PROVE  JobInv'
<1>0. /\ NoJob \in [kind : Kinds, todo : Seq(Entries), end : Statuses, rows : Nat]
      /\ NoResult \in [kind : Kinds, status : Statuses, rows : Nat]
  BY DEF NoJob, NoResult, Kinds, Statuses
<1>1. ASSUME NEW kind \in Kinds \ {"idle"}, NEW todo \in Seq(Entries), NEW end \in Statuses,
             NEW rows \in Nat, NEW in_order, Begin(kind, todo, end, rows, in_order)
      PROVE  JobInv'
  BY <1>0, <1>1 DEF Begin, Preparing, JobInv, NoJob, NoResult, Entries, Proper
<1>2. CASE Dump
  <2>1. TableStatus(BuilderTable, builder.level) \in Statuses
    BY DEF TableStatus, Statuses
  <2>2. "dump" \in Kinds \ {"idle"}
    BY DEF Kinds
  <2>. QED BY <1>1, <1>2, <2>1, <2>2, DumpShape, BuilderTableShape DEF Dump
<1>3. ASSUME NEW table \in Tables, NEW level \in ValidateLevels, WriteClientTable(table, level)
      PROVE  JobInv'
  <2>1. WriteTable(table, 0, level) \in Seq(Entries) /\ Len(table.vals) \in Nat
    BY ClientTableShape, PlanShape DEF FilesInv
  <2>2. TableStatus(table, level) \in Statuses
    BY DEF TableStatus, Statuses
  <2>3. "table" \in Kinds \ {"idle"}
    BY DEF Kinds
  <2>. QED BY <1>1, <1>3, <2>1, <2>2, <2>3 DEF WriteClientTable
<1>4. ASSUME NEW table \in Tables, WriteClientCount(Len(table.vals))
      PROVE  JobInv'
  <2>1. Len(table.vals) \in Nat /\ WriteVerticesNum(Len(table.vals)) \in Seq(Entries)
    BY ClientTableShape, CountEntryType
  <2>2. "count" \in Kinds \ {"idle"} /\ "OK" \in Statuses
    BY DEF Kinds, Statuses
  <2>. QED BY <1>1, <1>4, <2>1, <2>2 DEF WriteClientCount
<1>5. CASE WriteNext
  <2>1. /\ job.todo # <<>> /\ job' = [job EXCEPT !.todo = Tail(@)] /\ result' = result
        /\ job \in [kind : Kinds, todo : Seq(Entries), end : Statuses, rows : Nat]
    BY <1>5 DEF WriteNext, JobInv
  <2>2. job # NoJob
    BY <2>1 DEF NoJob
  <2>3. Tail(job.todo) \in Seq(Entries)
    <3>. HIDE DEF Entries
    <3>. QED BY <2>1
  <2>4. job' \in [kind : Kinds, todo : Seq(Entries), end : Statuses, rows : Nat] /\ job'.kind = job.kind
    BY <2>1, <2>3
  <2>. QED BY <2>1, <2>2, <2>4 DEF JobInv, NoResult, Entries, Proper, Numbered, FileContents
<1>6. CASE Return
  BY <1>0, <1>6 DEF Return, JobInv
<1>7. CASE WriteFails
  BY <1>0, <1>7 DEF WriteFails, JobInv, Statuses
<1>8. CASE Crash
  BY <1>0, <1>8 DEF Crash, JobInv
<1>9. CASE job' = NoJob /\ result' = NoResult
  BY <1>0, <1>9 DEF JobInv
<1>. QED BY <1>2, <1>3, <1>4, <1>5, <1>6, <1>7, <1>8, <1>9, StepKinds

------------------------------------------------------------------------------
(* What is written, and what will be.                                       *)

\* When nothing is left to write, the files hold what they were to hold.
LEMMA LandingDone ==
    ASSUME NEW path
    PROVE  Landing(<<>>, path) = {dir[path]}
<1>1. {i \in DOMAIN <<>> : <<>>[i].path = path} = {}
  OBVIOUS
<1>. QED BY <1>1 DEF Landing

\* One write of a call does not change what the files will hold in the end.
LEMMA LandingStep ==
    ASSUME FilesInv, JobInv, WriteNext, NEW path \in Paths
    PROVE  Landing(job.todo, path)' \subseteq Landing(job.todo, path)
<1>. DEFINE todo == job.todo
            w == Head(todo)
            rest == Tail(todo)
            pending == {i \in DOMAIN todo : todo[i].path = path}
            later == {i \in DOMAIN rest : rest[i].path = path}
<1>1. /\ todo \in Seq(Entries) /\ todo # <<>>
      /\ job' = [job EXCEPT !.todo = Tail(@)]
      /\ job \in [kind : Kinds, todo : Seq(Entries), end : Statuses, rows : Nat]
      /\ dir' = [dir EXCEPT ![w.path] = w.data]
  BY DEF WriteNext, JobInv
<1>2. job'.todo = rest
  BY <1>1
<1>3. w \in Entries
  BY <1>1
<1>4. w.path \in Paths
  BY <1>3, EntryReadable
<1>5. dir'[path] = IF path = w.path THEN w.data ELSE dir[path]
  BY <1>1, <1>4 DEF FilesInv
<1>6. /\ 1 \in DOMAIN todo /\ todo[1] = w
      /\ \A i \in DOMAIN rest : i + 1 \in DOMAIN todo /\ rest[i] = todo[i + 1]
      /\ \A i \in DOMAIN todo : i # 1 => i - 1 \in DOMAIN rest /\ rest[i - 1] = todo[i]
  <2>. HIDE DEF todo
  <2>. QED BY <1>1
<1>. HIDE DEF w, rest, todo
<1>7. Landing(job.todo, path)' = IF later = {} THEN {dir'[path]} ELSE {rest[i].data : i \in later}
  BY <1>2 DEF Landing
<1>8. Landing(todo, path) = IF pending = {} THEN {dir[path]} ELSE {todo[i].data : i \in pending}
  BY DEF Landing
<1>9. CASE later # {}
  <2>1. \A i \in later : i + 1 \in pending /\ rest[i].data = todo[i + 1].data
    BY <1>6
  <2>2. pending # {}
    BY <1>9, <2>1
  <2>3. {rest[i].data : i \in later} \subseteq {todo[i].data : i \in pending}
    BY <2>1
  <2>. QED BY <1>7, <1>8, <1>9, <2>2, <2>3 DEF todo
<1>10. CASE later = {} /\ path = w.path
  <2>1. 1 \in pending /\ todo[1].data = w.data
    BY <1>6, <1>10
  <2>2. dir'[path] = w.data
    BY <1>5, <1>10
  <2>. QED BY <1>7, <1>8, <1>10, <2>1, <2>2 DEF todo
<1>11. CASE later = {} /\ path # w.path
  <2>1. pending = {}
    BY <1>6, <1>11
  <2>. QED BY <1>5, <1>7, <1>8, <1>11, <2>1 DEF todo
<1>. QED BY <1>9, <1>10, <1>11

\* A row that will be there will still be there after the next write.
LEMMA WillStep ==
    ASSUME FilesInv, JobInv, WriteNext, NEW g, NEW id
    PROVE  /\ WillHaveRow(job.todo, g, id) => WillHaveRow(job.todo, g, id)'
           /\ \A val : WillHold(job.todo, g, id, val) => WillHold(job.todo, g, id, val)'
<1>1. <<g, ChunkOf(id)>> \in ChunkPaths =>
          Landing(job.todo, <<g, ChunkOf(id)>>)' \subseteq Landing(job.todo, <<g, ChunkOf(id)>>)
  BY LandingStep DEF Paths
<1>. QED BY <1>1 DEF WillHaveRow, WillHold

\* When nothing is left to write, the row is there.
LEMMA WillDone ==
    ASSUME NEW g, NEW id
    PROVE  /\ WillHaveRow(<<>>, g, id) <=> HasRow(g, id)
           /\ \A val : WillHold(<<>>, g, id, val) <=> Holds(g, id, val)
BY LandingDone DEF WillHaveRow, WillHold, HasRow, Holds, RowAt, Readable

\* A row of a file that is not written stays.
LEMMA RowKept ==
    ASSUME NEW g, NEW id, dir'[<<g, ChunkOf(id)>>] = dir[<<g, ChunkOf(id)>>]
    PROVE  /\ HasRow(g, id) => HasRow(g, id)'
           /\ \A val : Holds(g, id, val) => Holds(g, id, val)'
BY DEF HasRow, Holds, RowAt, Readable

\* A row whose file is not among those still to be written stays.
LEMMA RowSafe ==
    ASSUME NEW todo, NEW g, NEW id,
           \A i \in DOMAIN todo : todo[i].path # <<g, ChunkOf(id)>>
    PROVE  /\ HasRow(g, id) => WillHaveRow(todo, g, id)
           /\ \A val : Holds(g, id, val) => WillHold(todo, g, id, val)
<1>1. Landing(todo, <<g, ChunkOf(id)>>) = {dir[<<g, ChunkOf(id)>>]}
  BY DEF Landing
<1>. QED BY <1>1 DEF WillHaveRow, WillHold, HasRow, Holds, RowAt, Readable

\* A Dump of a builder whose slots hold what the client asked for will put every vertex
\* into its file, and then write the count.
LEMMA DumpLands ==
    ASSUME FilesInv, MembersInv, Collected, clean,
           TableStatus(BuilderTable, builder.level) = "OK"
    PROVE  /\ \A id \in DOMAIN want : \A g \in Groups : WillHold(DumpPlan, g, id, want[id])
           /\ Landing(DumpPlan, CountPath) = {builder.start + builder.num}
<1>. DEFINE start == builder.start
            num == builder.num
            n == Len(DumpRows)
<1>0. /\ start \in Nat /\ num \in Nat
      /\ CountToWrite = start + num
      /\ ChunkSize \in Nat \ {0} /\ GroupNum \in Nat
  BY BuilderTableShape, VertexFilesAssumption
<1>1. /\ DumpRows \in Seq(Entries) /\ DumpPlan \in Seq(Entries)
      /\ n \in Nat /\ Len(DumpPlan) = n + 1
      /\ \A i \in 1 .. n : DumpPlan[i] = DumpRows[i]
      /\ DumpPlan[n + 1] = CountEntry(start + num)
      /\ builder.slots = <<>> => n = 0
  BY <1>0, DumpShape
<1>2. \A i \in 1 .. n : DumpRows[i].path \in ChunkPaths
  <2>1. \A w \in PlannedEntries(BuilderTable, ChunkOf(start), builder.level) : w.path \in ChunkPaths
    BY BuilderTableShape, PlanShape DEF FilesInv
  <2>. QED BY <1>1, <2>1, DumpShape
<1>3. DOMAIN DumpPlan = 1 .. n + 1 /\ CountEntry(start + num).path = CountPath
      /\ CountEntry(start + num).data = start + num
  BY <1>1 DEF CountEntry
<1>. HIDE DEF n
<1>4. Landing(DumpPlan, CountPath) = {start + num}
  <2>1. {i \in DOMAIN DumpPlan : DumpPlan[i].path = CountPath} = {n + 1}
    BY <1>1, <1>2, <1>3, PathsDisjoint
  <2>. HIDE DEF start, num
  <2>. QED BY <1>1, <1>3, <2>1 DEF Landing
<1>5. ASSUME NEW id \in DOMAIN want, NEW g \in Groups
      PROVE  WillHold(DumpPlan, g, id, want[id])
  <2>. DEFINE path == <<g, ChunkOf(id)>>
  <2>1. path # CountPath
    BY DEF CountPath, Groups
  <2>2. CASE builder.saved
    <3>1. n = 0 /\ Holds(g, id, want[id])
      BY <1>1, <2>2 DEF Collected
    <3>2. \A i \in DOMAIN DumpPlan : DumpPlan[i].path # path
      <4>. HIDE DEF path
      <4>1. \A i \in DOMAIN DumpPlan : i = n + 1
        BY <1>3, <3>1
      <4>. QED BY <1>1, <1>3, <2>1, <4>1
    <3>. QED BY <3>1, <3>2, RowSafe
  <2>3. CASE ~builder.saved
    <3>. DEFINE j == id - start + 1
                start_chunk == ChunkOf(start)
    <3>1. /\ id \in start .. start + num - 1
          /\ Len(builder.slots) = num
          /\ \A i \in 1 .. num : builder.slots[i] = want[start + i - 1]
          /\ num > 0 => start % ChunkSize = 0
      BY <2>3 DEF Collected
    <3>2. j \in 1 .. num /\ id = start + j - 1 /\ start % ChunkSize = 0 /\ num > 0
      <4>1. start \in Nat /\ num \in Nat
        BY <1>0
      <4>. HIDE DEF start, num
      <4>2. j \in 1 .. num /\ id = start + j - 1 /\ num > 0
        BY <3>1, <4>1
      <4>. QED BY <3>1, <4>2
    <3>3. start_chunk * ChunkSize = start /\ start_chunk \in Nat
      <4>1. start = ChunkOf(start) * ChunkSize + RowOf(start) - 1 /\ ChunkOf(start) \in Nat
        BY <1>0, IdOfRow
      <4>2. RowOf(start) = 1
        BY <3>2 DEF RowOf
      <4>. QED BY <1>0, <4>1, <4>2
    <3>4. builder.slots[j] = want[id]
      BY <3>1, <3>2
    <3>. HIDE DEF j, start_chunk, start
    <3>5. BuilderTable.vals = builder.slots /\ InBounds(BuilderTable, start_chunk)
      BY BuilderTableShape DEF start_chunk, start
    <3>6. builder.slots # <<>>
      BY <1>0, <3>1, <3>2
    <3>7. g \in 1 .. Families(BuilderTable, builder.level)
      <4>1. GroupNum <= Families(BuilderTable, builder.level)
        BY <3>5, <3>6, FamiliesType
      <4>. QED BY <1>0, <4>1, FamiliesType DEF Groups, LabelGroup
    <3>8. j \in 1 .. Len(BuilderTable.vals) /\ start_chunk * ChunkSize + j - 1 = id
      BY <1>0, <3>1, <3>2, <3>3, <3>5
    <3>9. DumpRows = WriteTable(BuilderTable, start_chunk, builder.level)
      BY DEF DumpRows, start_chunk, start
    <3>10. LandsIn(DumpRows, g, id, want[id])
      <4>1. LandsIn(WriteTable(BuilderTable, start_chunk, builder.level), g,
                    start_chunk * ChunkSize + j - 1, BuilderTable.vals[j])
        BY <3>5, <3>7, <3>8, PlanDelivers DEF FilesInv
      <4>. QED BY <3>4, <3>5, <3>8, <3>9, <4>1
    <3>11. DOMAIN DumpRows = 1 .. n
      BY <1>1 DEF n
    <3>. DEFINE pending == {i \in DOMAIN DumpPlan : DumpPlan[i].path = path}
    <3>12. pending = {i \in DOMAIN DumpRows : DumpRows[i].path = path}
      <4>. HIDE DEF path
      <4>1. \A i \in 1 .. n + 1 : i \in 1 .. n \/ i = n + 1
        BY <1>1
      <4>2. 1 .. n \subseteq 1 .. n + 1 /\ DumpPlan[n + 1].path # path
        BY <1>1, <1>3, <2>1
      <4>. QED BY <1>1, <1>3, <3>11, <4>1, <4>2
    <3>13. pending # {} /\ \A i \in pending : DumpPlan[i] = DumpRows[i]
      <4>1. \E i \in DOMAIN DumpRows : DumpRows[i].path = path
        BY <3>10 DEF LandsIn
      <4>. HIDE DEF path
      <4>. QED BY <1>1, <3>11, <3>12, <4>1
    <3>14. Landing(DumpPlan, path) = {DumpPlan[i].data : i \in pending}
      BY <3>13 DEF Landing
    <3>. HIDE DEF pending
    <3>15. \A data \in Landing(DumpPlan, path) : \E i \in DOMAIN DumpRows :
               DumpRows[i].path = path /\ data = DumpRows[i].data
      BY <3>12, <3>13, <3>14
    <3>. QED BY <3>10, <3>15 DEF WillHold, WillHaveRow, LandsIn
  <2>. QED BY <2>2, <2>3
<1>. QED BY <1>4, <1>5

\* The accepted vertex is behind the others, under the id that the client expects.
LEMMA AcceptedInOrder ==
    ASSUME FilesInv, MembersInv, Collected,
           NEW val \in Offers[builder.num], NEW index \in Indices \cup {-1},
           NEW level, AddVertex(val, index, level),
           builder' = [builder EXCEPT !.slots = Put(val, index), !.num = @ + 1],
           clean, Expected(index),
           want' = [id \in DOMAIN want \cup {IdFor(index)} |->
                       IF id = IdFor(index) THEN val ELSE want[id]]
    PROVE  Collected'
<1>. DEFINE start == builder.start
            num == builder.num
            put == Put(val, index)
<1>0. /\ start \in Nat /\ num \in Nat /\ builder.slots \in Seq(Values)
      /\ ~builder.saved /\ start % ChunkSize = 0
      /\ Len(builder.slots) = num
      /\ DOMAIN want = start .. start + num - 1
      /\ \A i \in 1 .. num : builder.slots[i] = want[start + i - 1]
  BY DEF Expected, Collected, MembersInv, Builders
<1>1. IdFor(index) = start + num
  BY <1>0 DEF IdFor, Expected
<1>2. put = PutAt(builder.slots, num, val)
  BY <1>0 DEF Put, Expected
<1>3. /\ val \in Payloads
      /\ builder' = [start |-> builder.start, level |-> builder.level, slots |-> put,
                     num |-> builder.num + 1, saved |-> builder.saved]
  BY Accepted
<1>4. /\ Len(put) = num + 1
      /\ put[num + 1] = val
      /\ \A j \in 1 .. num : put[j] = builder.slots[j]
  <2>. DEFINE slots == builder.slots
  <2>1. num \in Nat /\ slots \in Seq(Values) /\ Len(slots) = num /\ val \in Payloads
    BY <1>0, <1>3
  <2>. HIDE DEF slots, num
  <2>2. /\ Len(PutAt(slots, num, val)) = IF num < Len(slots) THEN Len(slots) ELSE num + 1
        /\ PutAt(slots, num, val)[num + 1] = val
        /\ \A j \in 1 .. Len(slots) : j # num + 1 => PutAt(slots, num, val)[j] = slots[j]
    <3>1. num \in Nat /\ slots \in Seq(Values) /\ val \in Payloads
      BY <2>1
    <3>. QED BY ZenonT(60), <3>1, PutShape
  <2>3. put = PutAt(slots, num, val)
    BY <1>2 DEF slots
  <2>. HIDE DEF put
  <2>. QED BY <2>1, <2>2, <2>3 DEF slots
<1>5. /\ builder'.start = start /\ builder'.num = num + 1 /\ builder'.slots = put
      /\ ~builder'.saved
  BY <1>0, <1>3
<1>. HIDE DEF start, num, put
<1>6. DOMAIN want' = start .. start + (num + 1) - 1
  <2>1. DOMAIN want' = (start .. start + num - 1) \cup {start + num}
    BY <1>0, <1>1
  <2>2. (start .. start + num - 1) \cup {start + num} = start .. start + (num + 1) - 1
    <3>1. start \in Int /\ num \in Nat
      BY <1>0
    <3>2. \A x \in start .. start + (num + 1) - 1 : x \in start .. start + num - 1 \/ x = start + num
      BY <3>1
    <3>3. \A x \in start .. start + num - 1 : x \in start .. start + (num + 1) - 1
      BY <3>1
    <3>4. start + num \in start .. start + (num + 1) - 1
      BY <3>1
    <3>. QED BY <3>2, <3>3, <3>4
  <2>. QED BY <2>1, <2>2
<1>7. ASSUME NEW i \in 1 .. num + 1
      PROVE  put[i] = want'[start + i - 1]
  <2>1. start + i - 1 \in DOMAIN want \cup {IdFor(index)}
    BY <1>0, <1>1, <1>7
  <2>2. want'[start + i - 1] = IF start + i - 1 = start + num THEN val ELSE want[start + i - 1]
    BY <1>1, <2>1
  <2>. QED BY <1>0, <1>4, <1>7, <2>2
<1>8. \A i \in 1 .. builder'.num : builder'.slots[i] = want'[builder'.start + i - 1]
  BY <1>5, <1>7
<1>9. /\ DOMAIN want' = builder'.start .. builder'.start + builder'.num - 1
      /\ Len(builder'.slots) = builder'.num
      /\ builder'.start % ChunkSize = 0
  BY <1>0, <1>4, <1>5, <1>6
<1>. QED BY <1>5, <1>8, <1>9 DEF Collected

\* The write of a call changes one file.
LEMMA FileWritten ==
    ASSUME FilesInv, JobInv, job.todo # <<>>, NEW data,
           dir' = [dir EXCEPT ![Head(job.todo).path] = data]
    PROVE  /\ 1 \in DOMAIN job.todo /\ Head(job.todo) = job.todo[1]
           /\ job.todo[1] \in Entries /\ job.todo[1].path \in Paths
           /\ \A path \in Paths : dir'[path] = IF path = job.todo[1].path THEN data ELSE dir[path]
           /\ job # NoJob
<1>1. job.todo \in Seq(Entries)
  BY DEF JobInv
<1>2. 1 \in DOMAIN job.todo /\ Head(job.todo) = job.todo[1] /\ job.todo[1] \in Entries
  BY <1>1
<1>3. job.todo[1].path \in Paths
  BY <1>2, EntryReadable
<1>4. job # NoJob
  BY DEF NoJob
<1>. QED BY <1>2, <1>3, <1>4 DEF FilesInv

\* A builder that was just made or cleared has nothing to publish.
LEMMA NothingCollected ==
    ASSUME NEW start \in Nat, builder'.start = start, builder'.num = 0, builder'.slots = <<>>,
           builder'.saved = FALSE, want' = NoIds
    PROVE  Collected'
<1>1. DOMAIN want' = {} /\ start .. start + 0 - 1 = {} /\ 1 .. 0 = {}
  BY DEF NoIds
<1>. QED BY <1>1 DEF Collected

\* Every step keeps what the client asked for in the slots, or in the files.
LEMMA CollectedStep ==
    ASSUME FilesInv, MembersInv, JobInv, Collected, Published, BuilderNext
    PROVE  Collected'
<1>1. ASSUME UNCHANGED <<builder, want, dir>>, clean' => clean
      PROVE  Collected'
  BY <1>1 DEF Collected, Holds, HasRow, RowAt, Readable
<1>2. ASSUME NEW val \in Offers[builder.num], NEW index \in Indices \cup {-1},
             NEW level \in ValidateLevels \cup {"default_validate"}, AddVertex(val, index, level)
      PROVE  Collected'
  <2>1. CASE UNCHANGED <<builder, want, clean>>
    BY <1>1, <1>2, <2>1 DEF AddVertex
  <2>2. CASE /\ builder' = [builder EXCEPT !.slots = Put(val, index), !.num = @ + 1]
             /\ clean' = (clean /\ Expected(index))
             /\ want' = IF clean'
                  THEN [id \in DOMAIN want \cup {IdFor(index)} |->
                           IF id = IdFor(index) THEN val ELSE want[id]]
                  ELSE NoIds
    <3>1. CASE clean'
      BY <1>2, <2>2, <3>1, AcceptedInOrder
    <3>2. CASE ~clean'
      BY <3>2 DEF Collected
    <3>. QED BY <3>1, <3>2
  <2>. QED BY <1>2, <2>1, <2>2 DEF AddVertex
<1>3. CASE Clear
  <2>1. /\ builder'.start = builder.start /\ builder'.num = 0 /\ builder'.slots = <<>>
        /\ builder'.saved = FALSE /\ want' = NoIds
        /\ builder.start \in Nat
    BY <1>3 DEF Clear, MembersInv, Builders
  <2>. QED BY <2>1, NothingCollected
<1>4. ASSUME NEW level \in ValidateLevels, SetValidateLevel(level)
      PROVE  Collected'
  <2>1. /\ builder'.start = builder.start /\ builder'.num = builder.num
        /\ builder'.slots = builder.slots /\ builder'.saved = builder.saved
        /\ want' = want /\ clean' = clean /\ dir' = dir
    BY <1>4 DEF SetValidateLevel, MembersInv, Builders, history
  <2>. QED BY <2>1 DEF Collected, Holds, HasRow, RowAt, Readable
<1>5. ASSUME NEW start \in Nat, builder' = NewBuilder(start), want' = NoIds
      PROVE  Collected'
  <2>1. /\ builder'.start = start /\ builder'.num = 0 /\ builder'.slots = <<>>
        /\ builder'.saved = FALSE
    BY <1>5 DEF NewBuilder
  <2>. QED BY <1>5, <2>1, NothingCollected
<1>6. ASSUME NEW start \in Starts, Make(start)
      PROVE  Collected'
  BY <1>5, <1>6, BuilderAssumption DEF Make
<1>7. CASE Crash
  BY <1>5, <1>7, 0 \in Nat DEF Crash
<1>8. CASE Dump
  BY <1>1, <1>8 DEF Dump, Begin
<1>9. ASSUME clean' = FALSE
      PROVE  Collected'
  BY <1>9 DEF Collected
<1>10. ASSUME UNCHANGED <<builder, want, clean>>, job.todo # <<>>, NEW data,
              dir' = [dir EXCEPT ![Head(job.todo).path] = data]
       PROVE  Collected'
  <2>1. CASE ~clean
    BY <1>10, <2>1 DEF Collected
  <2>2. CASE clean /\ ~builder.saved
    BY <1>10, <2>2 DEF Collected
  <2>3. CASE clean /\ builder.saved
    <3>1. job.kind = "dump" /\ job.todo[1].path = CountPath
      BY <1>10, <2>3, FileWritten DEF Published, JobInv
    <3>2. ASSUME NEW id \in DOMAIN want, NEW g \in Groups
          PROVE  Holds(g, id, want[id])'
      <4>1. Holds(g, id, want[id]) /\ <<g, ChunkOf(id)>> \in ChunkPaths
        BY <2>3 DEF Collected, Holds, HasRow
      <4>2. <<g, ChunkOf(id)>> \in Paths /\ <<g, ChunkOf(id)>> # CountPath
        BY <4>1, PathsDisjoint DEF Paths
      <4>3. dir'[<<g, ChunkOf(id)>>] = dir[<<g, ChunkOf(id)>>]
        BY <1>10, <3>1, <4>2, FileWritten
      <4>4. want'[id] = want[id]
        BY <1>10
      <4>. QED BY <4>1, <4>3, <4>4 DEF HasRow, Holds, RowAt, Readable
    <3>. QED BY <1>10, <2>3, <3>2 DEF Collected, Holds, HasRow, RowAt, Readable
  <2>. QED BY <2>1, <2>2, <2>3
<1>11. CASE WriteNext
  BY <1>10, <1>11 DEF WriteNext, history
<1>12. CASE WriteFails
  <2>1. CASE dir' = dir
    BY <1>1, <1>12, <2>1 DEF WriteFails, history
  <2>2. CASE dir' = [dir EXCEPT ![Head(job.todo).path] = Torn]
    BY <1>10, <1>12, <2>2 DEF WriteFails, history
  <2>. QED BY <1>12, <2>1, <2>2 DEF WriteFails
<1>13. CASE Return
  <2>1. job.todo = <<>> /\ UNCHANGED <<dir, want, clean>>
    BY <1>13 DEF Return, history
  <2>2. CASE UNCHANGED builder
    BY <1>1, <2>1, <2>2
  <2>3. CASE job.kind = "dump" /\ job.end = "OK" /\ builder' = Drained
    <3>1. /\ builder'.start = builder.start /\ builder'.num = builder.num
          /\ builder'.slots = <<>> /\ builder'.saved = TRUE
      BY <2>3 DEF Drained, MembersInv, Builders
    <3>2. clean => \A id \in DOMAIN want : \A g \in Groups : Holds(g, id, want[id])
      BY <2>1, <2>3, WillDone DEF Published
    <3>. QED BY <2>1, <3>1, <3>2 DEF Collected, Holds, HasRow, RowAt, Readable
  <2>. QED BY <1>13, <2>2, <2>3 DEF Return
<1>. QED BY <1>2, <1>3, <1>4, <1>6, <1>7, <1>8, <1>9, <1>11, <1>12, <1>13
         DEF BuilderNext, WriteClientTable, WriteClientCount

\* While nothing is written and no call has ended there is nothing to publish.
LEMMA NothingPublished ==
    ASSUME job' = NoJob, result'.kind # "dump" \/ result'.status # "OK"
    PROVE  Published'
BY DEF Published, NoJob

\* A Dump brings every vertex and the count into the files before it returns OK.
LEMMA PublishedStep ==
    ASSUME FilesInv, MembersInv, JobInv, Collected, Published, BuilderNext
    PROVE  Published'
<1>1. CASE job' = NoJob /\ result' = NoResult
  BY <1>1, NothingPublished DEF NoResult
<1>2. CASE Dump
  <2>1. /\ job' = [kind |-> "dump", todo |-> DumpPlan,
                   end |-> TableStatus(BuilderTable, builder.level), rows |-> builder.num]
        /\ result' = NoResult /\ UNCHANGED <<dir, builder, want, clean>>
    BY <1>2 DEF Dump, Begin, Preparing
  <2>2. job'.kind = "dump" /\ job'.todo = DumpPlan /\ job'.end = TableStatus(BuilderTable, builder.level)
    BY <2>1
  <2>3. ASSUME clean, builder.saved, NEW i \in DOMAIN DumpPlan
        PROVE  DumpPlan[i].path = CountPath
    <3>1. builder.slots = <<>>
      BY <2>3 DEF Collected
    <3>2. DumpRows = <<>> /\ DumpPlan \in Seq(Entries)
      BY <3>1, DumpShape
    <3>3. CASE TableStatus(BuilderTable, builder.level) = "OK"
      <4>1. Len(DumpPlan) = 1 /\ DumpPlan[Len(DumpPlan)] = CountEntry(CountToWrite)
        BY <3>2, <3>3, DumpShape
      <4>2. i = 1
        BY <2>3, <3>2, <4>1
      <4>. QED BY <4>1, <4>2 DEF CountEntry
    <3>4. CASE TableStatus(BuilderTable, builder.level) # "OK"
      <4>1. DumpPlan = <<>>
        BY <3>2, <3>4, DumpShape
      <4>. QED BY <2>3, <4>1
    <3>. QED BY <3>3, <3>4
  <2>4. ASSUME clean, TableStatus(BuilderTable, builder.level) = "OK"
        PROVE  /\ \A id \in DOMAIN want' : \A g \in Groups : WillHold(job.todo, g, id, want[id])'
               /\ Landing(job.todo, CountPath)' = {builder'.start + builder'.num}
    <3>. DEFINE plan == DumpPlan
    <3>1. /\ \A id \in DOMAIN want : \A g \in Groups : WillHold(plan, g, id, want[id])
          /\ Landing(plan, CountPath) = {builder.start + builder.num}
      BY <2>4, DumpLands
    <3>2. job'.todo = plan /\ dir' = dir /\ want' = want /\ builder' = builder
      BY <2>1, <2>2
    <3>. HIDE DEF plan
    <3>3. \A path : Landing(job.todo, path)' = Landing(plan, path)
      BY <3>2 DEF Landing
    <3>4. ASSUME NEW id \in DOMAIN want, NEW g \in Groups
          PROVE  WillHold(job.todo, g, id, want[id])'
      <4>1. WillHold(plan, g, id, want[id]) /\ want'[id] = want[id]
        BY <3>1, <3>2
      <4>. QED BY <3>3, <4>1 DEF WillHold, WillHaveRow
    <3>5. Landing(job.todo, CountPath)' = {builder'.start + builder'.num}
      BY <3>1, <3>2, <3>3
    <3>. QED BY <3>2, <3>4, <3>5
  <2>5. result'.kind = "idle"
    BY <2>1 DEF NoResult
  <2>. QED BY <2>1, <2>2, <2>3, <2>4, <2>5 DEF Published
<1>3. CASE clean' = FALSE
  BY <1>3 DEF Published
<1>4. CASE WriteNext
  <2>1. /\ job.todo # <<>> /\ job' = [job EXCEPT !.todo = Tail(@)]
        /\ job \in [kind : Kinds, todo : Seq(Entries), end : Statuses, rows : Nat]
        /\ UNCHANGED <<builder, result, want, clean>>
    BY <1>4 DEF WriteNext, JobInv, history
  <2>2. job'.kind = job.kind /\ job'.end = job.end /\ job'.todo = Tail(job.todo)
    BY <2>1
  <2>3. result.kind = "idle"
    BY <2>1 DEF JobInv, NoJob, NoResult
  <2>4. ASSUME NEW i \in DOMAIN Tail(job.todo)
        PROVE  i + 1 \in DOMAIN job.todo /\ Tail(job.todo)[i] = job.todo[i + 1]
    BY <2>1, <2>4
  <2>5. ASSUME clean, job.kind = "dump", job.end = "OK"
        PROVE  /\ \A id \in DOMAIN want' : \A g \in Groups : WillHold(job.todo, g, id, want[id])'
               /\ Landing(job.todo, CountPath)' = {builder'.start + builder'.num}
    <3>1. ASSUME NEW id \in DOMAIN want, NEW g \in Groups
          PROVE  WillHold(job.todo, g, id, want[id])'
      <4>1. WillHold(job.todo, g, id, want[id])
        BY <2>5 DEF Published
      <4>2. \A val : WillHold(job.todo, g, id, val) => WillHold(job.todo, g, id, val)'
        BY <1>4, WillStep
      <4>3. want' = want
        BY <2>1
      <4>. QED BY <4>1, <4>2, <4>3 DEF WillHold, WillHaveRow, Landing
    <3>2. Landing(job.todo, CountPath) = {builder.start + builder.num}
      BY <2>5 DEF Published
    <3>3. Landing(job.todo, CountPath)' \subseteq Landing(job.todo, CountPath)
      BY <1>4, LandingStep, PathsDisjoint
    <3>4. Landing(job.todo, CountPath)' # {}
      BY DEF Landing
    <3>. QED BY <2>1, <3>1, <3>2, <3>3, <3>4
  <2>6. ASSUME clean, job.kind = "dump", builder.saved
        PROVE  \A i \in DOMAIN job'.todo : job'.todo[i].path = CountPath
    BY <2>2, <2>4, <2>6 DEF Published
  <2>. QED BY <2>1, <2>2, <2>3, <2>5, <2>6 DEF Published
<1>5. CASE Return
  <2>1. /\ job.todo = <<>> /\ UNCHANGED <<dir, want, clean>> /\ job' = NoJob
        /\ result' = [kind |-> job.kind, status |-> job.end, rows |-> job.rows]
        /\ builder' = IF job.kind = "dump" /\ job.end = "OK" THEN Drained ELSE builder
    BY <1>5 DEF Return, history
  <2>2. CASE clean /\ job.kind = "dump" /\ job.end = "OK"
    <3>1. builder'.start = builder.start /\ builder'.num = builder.num /\ builder'.saved = TRUE
      BY <2>1, <2>2 DEF Drained, MembersInv, Builders
    <3>2. dir[CountPath] = builder.start + builder.num
      BY <2>1, <2>2, LandingDone DEF Published
    <3>. QED BY <2>1, <3>1, <3>2 DEF Published, NoJob
  <2>3. CASE ~clean
    BY <2>1, <2>3 DEF Published
  <2>4. CASE job.kind # "dump" \/ job.end # "OK"
    BY <2>1, <2>4, NothingPublished
  <2>. QED BY <2>2, <2>3, <2>4
<1>6. CASE WriteFails
  BY <1>6, NothingPublished DEF WriteFails
<1>7. CASE Crash
  BY <1>1, <1>7 DEF Crash
<1>. QED BY <1>1, <1>2, <1>3, <1>4, <1>5, <1>6, <1>7, StepKinds DEF WriteClientTable, WriteClientCount

------------------------------------------------------------------------------
(* Steps: the vertex count and the files it speaks of.                      *)

\* A file that the plan writes will hold what the plan says.
LEMMA LandsWill ==
    ASSUME NEW plan, NEW g, NEW id, NEW val, LandsIn(plan, g, id, val)
    PROVE  WillHaveRow(plan, g, id)
<1>. DEFINE path == <<g, ChunkOf(id)>>
            pending == {i \in DOMAIN plan : plan[i].path = path}
<1>1. /\ path \in ChunkPaths /\ pending # {}
      /\ \A i \in pending : plan[i].data \notin {Missing, Torn} /\ RowOf(id) <= Len(plan[i].data)
  BY DEF LandsIn
<1>2. Landing(plan, path) = {plan[i].data : i \in pending}
  BY <1>1 DEF Landing
<1>. HIDE DEF pending
<1>. QED BY <1>1, <1>2 DEF WillHaveRow

\* While the files stay the same, so do the rows in them.
LEMMA CoversSame ==
    ASSUME dir' = dir, declared' = declared, NEW n
    PROVE  Covers(n) => Covers(n)'
BY DEF Covers, HasRow, Readable

\* Ids whose rows will be there will have them after the next write too.
LEMMA WillCoverStep ==
    ASSUME FilesInv, JobInv, WriteNext, NEW n
    PROVE  WillCover(job.todo, n) => WillCover(job.todo, n)'
<1>1. declared' = declared
  BY DEF WriteNext
<1>2. ASSUME NEW g, NEW id, WillHaveRow(job.todo, g, id)
      PROVE  WillHaveRow(job.todo, g, id)'
  BY <1>2, WillStep
<1>3. SUFFICES ASSUME WillCover(job.todo, n)
               PROVE  WillCover(job.todo, n)'
  OBVIOUS
<1>4. ASSUME NEW id \in 0 .. n - 1, NEW g \in Groups
      PROVE  WillHaveRow(job.todo, g, id)'
  BY <1>2, <1>3 DEF WillCover
<1>5. ASSUME NEW id \in 0 .. n - 1, declared # {}
      PROVE  WillHaveRow(job.todo, LabelGroup, id)'
  BY <1>2, <1>3, <1>5 DEF WillCover
<1>. QED BY <1>1, <1>4, <1>5 DEF WillCover

\* When nothing is left to write, they have them.
LEMMA WillCoverDone ==
    ASSUME NEW n
    PROVE  WillCover(<<>>, n) <=> Covers(n)
BY WillDone DEF WillCover, Covers

\* The entries of a Dump: the count is the last, and the others are not below its start.
LEMMA DumpEntries ==
    ASSUME FilesInv, MembersInv, Collected, clean, NEW i \in DOMAIN DumpPlan
    PROVE  \/ /\ DumpPlan[i].path = CountPath
              /\ DumpPlan[i].data = builder.start + builder.num
              /\ i = Len(DumpPlan)
              /\ TableStatus(BuilderTable, builder.level) = "OK"
           \/ /\ DumpPlan[i].path \in ChunkPaths
              /\ ChunkOf(builder.start) <= DumpPlan[i].path[2]
              /\ builder.start % ChunkSize = 0
<1>. DEFINE n == Len(DumpRows)
            start == builder.start
<1>0. /\ DumpRows \in Seq(Entries) /\ DumpPlan \in Seq(Entries) /\ n \in Nat
      /\ CountToWrite = start + builder.num
      /\ start \in Nat /\ ChunkOf(start) \in Nat
  <2>1. DumpRows \in Seq(Entries) /\ DumpPlan \in Seq(Entries)
    BY DumpShape
  <2>2. CountToWrite = start + builder.num /\ start \in Nat
    BY BuilderTableShape
  <2>3. n \in Nat
    BY <2>1
  <2>4. ChunkOf(start) \in Nat
    BY <2>2, IdOfRow
  <2>. QED BY <2>1, <2>2, <2>3, <2>4
<1>1. ASSUME NEW j \in 1 .. n
      PROVE  /\ DumpRows[j].path \in ChunkPaths
             /\ ChunkOf(start) <= DumpRows[j].path[2]
             /\ start % ChunkSize = 0
  <2>1. DumpRows[j] \in PlannedEntries(BuilderTable, ChunkOf(start), builder.level)
    BY <1>0, DumpShape
  <2>2. DumpRows[j].path \in ChunkPaths
    <3>1. \A w \in PlannedEntries(BuilderTable, ChunkOf(start), builder.level) : w.path \in ChunkPaths
      BY BuilderTableShape, PlanShape DEF FilesInv
    <3>. QED BY <2>1, <3>1
  <2>3. PICK g \in 1 .. Families(BuilderTable, builder.level),
             k \in 0 .. ChunkNum(Len(BuilderTable.vals)) - 1 :
                DumpRows[j] = Entry(BuilderTable, ChunkOf(start), g, k)
    BY <2>1 DEF PlannedEntries
  <2>4. DumpRows[j].path[2] = ChunkOf(start) + k /\ k \in Int /\ 0 <= k
    BY <2>3 DEF Entry
  <2>5. start % ChunkSize = 0
    <3>1. builder.slots # <<>>
      BY <1>0, DumpShape
    <3>2. ~builder.saved /\ Len(builder.slots) = builder.num /\ builder.num # 0
      BY <3>1 DEF Collected, MembersInv, Builders
    <3>. QED BY <3>2, BuilderTableShape DEF Collected
  <2>. QED BY <1>0, <2>2, <2>4, <2>5
<1>. HIDE DEF n, start
<1>2. CASE TableStatus(BuilderTable, builder.level) # "OK"
  <2>1. DumpPlan = DumpRows
    BY <1>2, DumpShape
  <2>2. i \in 1 .. n
    BY <1>0, <2>1 DEF n
  <2>. QED BY <1>1, <2>1, <2>2 DEF start
<1>3. CASE TableStatus(BuilderTable, builder.level) = "OK"
  <2>1. /\ Len(DumpPlan) = n + 1
        /\ \A j \in 1 .. n : DumpPlan[j] = DumpRows[j]
        /\ DumpPlan[n + 1] = CountEntry(start + builder.num)
    BY <1>0, <1>3, DumpShape DEF n
  <2>2. i \in 1 .. n \/ i = n + 1
    BY <1>0, <2>1
  <2>3. CASE i \in 1 .. n
    BY <1>1, <2>1, <2>3 DEF start
  <2>4. CASE i = n + 1
    BY <1>3, <2>1, <2>4 DEF start, CountEntry
  <2>. QED BY <2>2, <2>3, <2>4
<1>. QED BY <1>2, <1>3

\* A Dump that continues the directory will leave a row for every id up to its own last.
LEMMA DumpCovers ==
    ASSUME FilesInv, MembersInv, Collected, clean, Continues(builder.start),
           Readable(CountPath) => Covers(dir[CountPath]),
           TableStatus(BuilderTable, builder.level) = "OK"
    PROVE  WillCover(DumpPlan, builder.start + builder.num)
<1>. DEFINE start == builder.start
            num == builder.num
<1>0. start \in Nat /\ num \in Nat /\ declared = {}
  BY BuilderTableShape, DumpShape
<1>. SUFFICES ASSUME NEW id \in 0 .. start + num - 1, NEW g \in Groups
              PROVE  WillHaveRow(DumpPlan, g, id)
  BY <1>0 DEF WillCover
<1>1. CASE start <= id
  <2>1. id \in DOMAIN want
    BY <1>0, <1>1 DEF Collected
  <2>. QED BY <2>1, DumpLands DEF WillHold
<1>2. CASE id < start
  <2>1. Readable(CountPath) /\ dir[CountPath] = start
    BY <1>0, <1>2 DEF Continues
  <2>2. HasRow(g, id)
    BY <1>0, <1>2, <2>1 DEF Covers
  <2>3. ASSUME NEW i \in DOMAIN DumpPlan, DumpPlan[i].path = <<g, ChunkOf(id)>>
        PROVE  FALSE
    <3>1. <<g, ChunkOf(id)>> # CountPath
      BY <2>2, PathsDisjoint DEF HasRow
    <3>2. ChunkOf(start) <= ChunkOf(id) /\ start % ChunkSize = 0
      <4>1. DumpPlan[i].path[2] = ChunkOf(id) /\ DumpPlan[i].path # CountPath
        BY <2>3, <3>1
      <4>2. ChunkOf(start) <= DumpPlan[i].path[2] /\ start % ChunkSize = 0
        BY <2>3, <4>1, DumpEntries
      <4>. QED BY <4>1, <4>2
    <3>3. id \in Nat
      BY <1>0
    <3>4. ChunkOf(id) < ChunkOf(start)
      BY <1>0, <1>2, <3>2, <3>3, ChunkBelow
    <3>5. ChunkOf(id) \in Nat /\ ChunkOf(start) \in Nat
      BY <1>0, <3>3, IdOfRow
    <3>. QED BY <3>2, <3>4, <3>5
  <2>. QED BY <2>2, <2>3, RowSafe
<1>. QED BY <1>0, <1>1, <1>2

\* A client table that is written well will leave a row for every id it has.
LEMMA TableCovers ==
    ASSUME declared \subseteq Labels, NEW table \in Tables, NEW level,
           TableStatus(table, level) = "OK"
    PROVE  WillCover(WriteTable(table, 0, level), Len(table.vals))
<1>. DEFINE n == Len(table.vals)
            plan == WriteTable(table, 0, level)
<1>0. InBounds(table, 0) /\ n \in Nat /\ ChunkSize \in Nat /\ GroupNum \in Nat
  BY ClientTableShape, VertexFilesAssumption
<1>1. ASSUME NEW id \in 0 .. n - 1, NEW g \in 1 .. Families(table, level)
      PROVE  WillHaveRow(plan, g, id)
  <2>1. id + 1 \in 1 .. n /\ 0 * ChunkSize + (id + 1) - 1 = id
    BY <1>0
  <2>. DEFINE j == id + 1
  <2>2. LandsIn(plan, g, 0 * ChunkSize + j - 1, table.vals[j])
    BY <1>0, <2>1, PlanDelivers
  <2>3. 0 * ChunkSize + j - 1 = id
    BY <2>1
  <2>. HIDE DEF j, plan
  <2>4. LandsIn(plan, g, id, table.vals[j])
    BY <2>2, <2>3
  <2>. QED BY <2>4, LandsWill
<1>2. ASSUME NEW id \in 0 .. n - 1
      PROVE  /\ \A g \in Groups : g \in 1 .. Families(table, level)
             /\ declared # {} => LabelGroup \in 1 .. Families(table, level)
  <2>1. table.vals # <<>>
    BY <1>0
  <2>2. GroupNum <= Families(table, level) /\ Families(table, level) \in 0 .. LabelGroup
    BY <2>1, FamiliesType
  <2>3. declared # {} => Families(table, level) = LabelGroup
    BY FamiliesType
  <2>. QED BY <1>0, <2>2, <2>3 DEF Groups, LabelGroup
<1>. QED BY <1>1, <1>2 DEF WillCover

\* What the current count describes is not touched by a write of the call, whether that
\* succeeds or tears its file.
LEMMA EarlierKept ==
    ASSUME FilesInv, MembersInv, JobInv, InOrder, orderly, job.todo # <<>>, NEW data,
           dir' = [dir EXCEPT ![Head(job.todo).path] = data], declared' = declared,
           job.todo[1].path # CountPath
    PROVE  /\ dir'[CountPath] = dir[CountPath]
           /\ Readable(CountPath) =>
                 job.kind = "dump" /\ \A n : n = dir[CountPath] => Covers(n)'
<1>. DEFINE w == job.todo[1]
<1>0. /\ 1 \in DOMAIN job.todo /\ w.path \in Paths
      /\ \A path \in Paths : dir'[path] = IF path = w.path THEN data ELSE dir[path]
      /\ job.kind \in {"dump", "table", "count"}
  BY FileWritten DEF JobInv, Kinds
<1>1. dir'[CountPath] = dir[CountPath]
  BY <1>0, PathsDisjoint
<1>2. ASSUME Readable(CountPath)
      PROVE  job.kind = "dump" /\ \A n : n = dir[CountPath] => Covers(n)'
  <2>1. job.kind = "dump"
    BY <1>0, <1>2 DEF InOrder
  <2>2. /\ dir[CountPath] = builder.start /\ Covers(builder.start)
        /\ ChunkOf(builder.start) <= w.path[2] /\ builder.start % ChunkSize = 0
    BY <1>0, <1>2, <2>1 DEF InOrder
  <2>3. builder.start \in Nat
    BY DEF MembersInv, Builders
  <2>. HIDE DEF w
  <2>4. ASSUME NEW id \in 0 .. builder.start - 1, NEW g, HasRow(g, id)
        PROVE  HasRow(g, id)'
    <3>1. id \in Nat /\ id < builder.start
      BY <2>3
    <3>2. ChunkOf(id) < ChunkOf(builder.start) /\ ChunkOf(id) \in Nat /\ ChunkOf(builder.start) \in Nat
      BY <2>2, <2>3, <3>1, ChunkBelow, IdOfRow
    <3>3. <<g, ChunkOf(id)>> # w.path
      BY <2>2, <3>2
    <3>4. <<g, ChunkOf(id)>> \in Paths
      BY <2>4 DEF HasRow, Paths
    <3>. QED BY <1>0, <2>4, <3>3, <3>4, RowKept DEF w
  <2>5. ASSUME NEW n, n = builder.start
        PROVE  Covers(n)'
    BY <2>2, <2>4, <2>5 DEF Covers
  <2>. QED BY <2>1, <2>2, <2>5
<1>. QED BY <1>1, <1>2

\* Every step keeps the count from running ahead of the rows.
LEMMA InOrderStep ==
    ASSUME FilesInv, MembersInv, JobInv, Collected, Published, InOrder, BuilderNext
    PROVE  InOrder'
<1>0. declared' = declared /\ declared \subseteq Labels
  BY FileStep DEF FilesInv
<1>1. ASSUME dir' = dir, orderly' => orderly, NEW n
      PROVE  /\ Covers(n) => Covers(n)'
             /\ orderly' /\ Readable(CountPath)' => Covers(dir[CountPath])'
  <2>1. Covers(n) => Covers(n)'
    BY <1>0, <1>1, CoversSame
  <2>2. \A m : Covers(m) => Covers(m)'
    BY <1>0, <1>1, CoversSame
  <2>. QED BY <1>1, <2>1, <2>2 DEF InOrder, Readable, Covers, HasRow
<1>2. CASE job' = NoJob /\ result' = NoResult /\ UNCHANGED <<dir, orderly>>
  BY <1>1, <1>2 DEF InOrder, NoJob, NoResult
<1>3. CASE Dump
  <2>1. /\ job' = [kind |-> "dump", todo |-> DumpPlan,
                   end |-> TableStatus(BuilderTable, builder.level), rows |-> builder.num]
        /\ result' = NoResult /\ UNCHANGED <<dir, builder, clean>>
        /\ orderly' = (orderly /\ clean /\ Continues(builder.start))
    BY <1>3 DEF Dump, Begin, Preparing
  <2>2. job'.kind = "dump" /\ job'.todo = DumpPlan /\ result'.kind = "idle"
    BY <2>1 DEF NoResult
  <2>. SUFFICES ASSUME orderly' PROVE InOrder'
    BY DEF InOrder
  <2>3. orderly /\ clean /\ Continues(builder.start)
    BY <2>1
  <2>4. Readable(CountPath) => Covers(dir[CountPath]) /\ dir[CountPath] = builder.start
    BY <2>3 DEF InOrder, Continues
  <2>. DEFINE plan == DumpPlan
  <2>5. ASSUME NEW i \in DOMAIN plan, plan[i].path = CountPath
        PROVE  /\ i = Len(plan)
               /\ plan[i].data = builder.start + builder.num
               /\ WillCover(plan, builder.start + builder.num)
    BY <2>3, <2>4, <2>5, DumpEntries, DumpCovers, PathsDisjoint
  <2>6. ASSUME NEW i \in DOMAIN plan, plan[i].path # CountPath
        PROVE  ChunkOf(builder.start) <= plan[i].path[2] /\ builder.start % ChunkSize = 0
    BY <2>3, <2>6, DumpEntries
  <2>. HIDE DEF plan
  <2>7. \A m : WillCover(plan, m) => WillCover(job.todo, m)'
    <3>1. job'.todo = plan /\ dir' = dir
      BY <2>1, <2>2 DEF plan
    <3>2. \A path : Landing(job.todo, path)' = Landing(plan, path)
      BY <3>1 DEF Landing
    <3>3. \A g, id : WillHaveRow(plan, g, id) => WillHaveRow(job.todo, g, id)'
      BY <3>2 DEF WillHaveRow
    <3>. QED BY <1>0, <3>3 DEF WillCover
  <2>8. Readable(CountPath)' => Covers(dir[CountPath])'
    BY <1>1, <2>1
  <2>9. job'.todo = plan
    BY <2>2 DEF plan
  <2>10. Readable(CountPath)' => dir'[CountPath] = builder'.start
    BY <2>1, <2>4 DEF Readable
  <2>11. \A i \in DOMAIN job'.todo :
             IF job'.todo[i].path = CountPath
               THEN /\ i = Len(job'.todo)
                    /\ job'.todo[i].data = builder'.start + builder'.num
                    /\ WillCover(job.todo, builder.start + builder.num)'
               ELSE /\ ChunkOf(builder'.start) <= job'.todo[i].path[2]
                    /\ builder'.start % ChunkSize = 0
    <3>1. WillCover(plan, builder.start + builder.num) => WillCover(job.todo, builder.start + builder.num)'
      BY <2>1, <2>7 DEF WillCover
    <3>. QED BY <2>1, <2>5, <2>6, <2>9, <3>1
  <2>. QED BY <2>2, <2>8, <2>10, <2>11 DEF InOrder
<1>4. ASSUME NEW table \in Tables, NEW level \in ValidateLevels, WriteClientTable(table, level)
      PROVE  InOrder'
  <2>1. /\ job' = [kind |-> "table", todo |-> WriteTable(table, 0, level),
                   end |-> TableStatus(table, level), rows |-> Len(table.vals)]
        /\ result' = NoResult /\ UNCHANGED <<dir, builder>>
        /\ orderly' = (orderly /\ ~Readable(CountPath))
    BY <1>4 DEF WriteClientTable, Begin, Preparing
  <2>. DEFINE plan == WriteTable(table, 0, level)
  <2>2. \A i \in DOMAIN plan : plan[i].path # CountPath
    <3>1. /\ \A i \in DOMAIN WriteTable(table, 0, level) :
                 WriteTable(table, 0, level)[i] \in PlannedEntries(table, 0, level)
          /\ \A w \in PlannedEntries(table, 0, level) : w.path \in ChunkPaths
      BY <1>0, ClientTableShape, PlanShape
    <3>. QED BY <3>1, PathsDisjoint
  <2>3. TableStatus(table, level) = "OK" => WillCover(plan, Len(table.vals))
    BY <1>0, TableCovers
  <2>. HIDE DEF plan
  <2>4. /\ job'.kind = "table" /\ job'.todo = plan /\ result'.kind = "idle"
        /\ job'.end = TableStatus(table, level) /\ job'.rows = Len(table.vals)
    BY <2>1 DEF NoResult, plan
  <2>5. \A m : WillCover(plan, m) => WillCover(job.todo, m)'
    <3>1. \A path : Landing(job.todo, path)' = Landing(plan, path)
      BY <2>1, <2>4 DEF Landing
    <3>2. \A g, id : WillHaveRow(plan, g, id) => WillHaveRow(job.todo, g, id)'
      BY <3>1 DEF WillHaveRow
    <3>. QED BY <1>0, <3>2 DEF WillCover
  <2>6. job'.end = "OK" => WillCover(job.todo, job.rows)'
    <3>1. job'.end = "OK" => WillCover(job.todo, Len(table.vals))'
      BY <2>3, <2>4, <2>5
    <3>. QED BY <2>4, <3>1 DEF WillCover
  <2>7. orderly' => ~Readable(CountPath)'
    BY <2>1 DEF Readable
  <2>. QED BY <2>2, <2>4, <2>6, <2>7 DEF InOrder
<1>5. ASSUME NEW table \in Tables, WriteClientCount(Len(table.vals))
      PROVE  InOrder'
  <2>. DEFINE count == Len(table.vals)
  <2>1. /\ job' = [kind |-> "count", todo |-> WriteVerticesNum(count), end |-> "OK", rows |-> count]
        /\ result' = NoResult /\ UNCHANGED <<dir, builder>>
        /\ orderly' = (orderly /\ result = [kind |-> "table", status |-> "OK", rows |-> count])
    BY <1>5 DEF WriteClientCount, Begin, Preparing
  <2>. HIDE DEF count
  <2>2. orderly' => orderly /\ Covers(count)
    <3>. SUFFICES ASSUME orderly' PROVE orderly /\ Covers(count)
      OBVIOUS
    <3>0. orderly /\ result = [kind |-> "table", status |-> "OK", rows |-> count]
      BY <2>1, Zenon
    <3>1. orderly /\ result.kind = "table" /\ result.status = "OK" /\ result.rows = count
      BY <3>0
    <3>2. Covers(result.rows)
      BY <3>1 DEF InOrder
    <3>. QED BY <3>1, <3>2
  <2>3. /\ job'.kind = "count" /\ job'.rows = count /\ result'.kind = "idle"
        /\ job'.todo = <<CountEntry(count)>>
    BY <2>1 DEF NoResult, WriteVerticesNum, CountEntry
  <2>4. \A i \in DOMAIN job'.todo : job'.todo[i].path = CountPath /\ job'.todo[i].data = job'.rows
    BY <2>3 DEF CountEntry
  <2>5. orderly' => Covers(job.rows)'
    <3>1. orderly' => Covers(count)'
      BY <1>1, <2>1, <2>2
    <3>. QED BY <2>3, <3>1 DEF Covers
  <2>6. orderly' /\ Readable(CountPath)' => Covers(dir[CountPath])'
    BY <1>1, <2>1
  <2>. QED BY <2>3, <2>4, <2>5, <2>6 DEF InOrder
<1>6. CASE Return
  <2>1. /\ job.todo = <<>> /\ job' = NoJob /\ UNCHANGED <<dir, orderly>>
        /\ result' = [kind |-> job.kind, status |-> job.end, rows |-> job.rows]
    BY <1>6 DEF Return, history
  <2>2. ASSUME orderly, job.kind = "table", job.end = "OK"
        PROVE  Covers(result.rows)'
    <3>1. WillCover(job.todo, job.rows)
      BY <2>2 DEF InOrder
    <3>2. Covers(job.rows)
      BY <2>1, <3>1, WillCoverDone
    <3>3. Covers(job.rows) => \A n : n = job.rows => Covers(n)'
      BY <1>1, <2>1
    <3>. QED BY <2>1, <3>2, <3>3 DEF Covers
  <2>3. orderly' /\ Readable(CountPath)' => Covers(dir[CountPath])'
    BY <1>1, <2>1
  <2>. QED BY <2>1, <2>2, <2>3 DEF InOrder, NoJob
\* A write that tears its file, in a call that then ends.
<1>7. ASSUME job.todo # <<>>, job' = NoJob, result'.kind # "table" \/ result'.status # "OK",
             UNCHANGED orderly,
             \/ dir' = dir
             \/ dir' = [dir EXCEPT ![Head(job.todo).path] = Torn]
      PROVE  InOrder'
  <2>1. orderly' /\ Readable(CountPath)' => Covers(dir[CountPath])'
    <3>1. CASE dir' = dir
      <4>1. dir'[CountPath] = dir[CountPath] /\ (Readable(CountPath)' => Readable(CountPath))
        BY <3>1 DEF Readable
      <4>2. orderly /\ Readable(CountPath) => \A n : n = dir[CountPath] => Covers(n)'
        BY <1>1, <3>1 DEF InOrder
      <4>. QED BY <1>7, <4>1, <4>2 DEF Covers
    <3>2. CASE dir' = [dir EXCEPT ![Head(job.todo).path] = Torn] /\ job.todo[1].path = CountPath
      <4>1. Head(job.todo).path = CountPath /\ CountPath \in Paths
        BY <1>7, <3>2, FileWritten DEF Paths
      <4>2. dir'[CountPath] = Torn
        BY <1>0, <3>2, <4>1 DEF FilesInv
      <4>. QED BY <4>2 DEF Readable
    <3>3. CASE dir' = [dir EXCEPT ![Head(job.todo).path] = Torn] /\ job.todo[1].path # CountPath
      <4>. SUFFICES ASSUME orderly', Readable(CountPath)'
                    PROVE  Covers(dir[CountPath])'
        OBVIOUS
      <4>1. orderly /\ dir'[CountPath] = dir[CountPath]
        BY <1>0, <1>7, <3>3, EarlierKept
      <4>2. Readable(CountPath)
        BY <4>1 DEF Readable
      <4>3. \A n : n = dir[CountPath] => Covers(n)'
        BY <1>0, <1>7, <3>3, <4>1, <4>2, EarlierKept
      <4>. QED BY <4>1, <4>3 DEF Covers
    <3>. QED BY <1>7, <3>1, <3>2, <3>3
  <2>. QED BY <1>7, <2>1 DEF InOrder, NoJob
<1>8. CASE WriteFails
  <2>1. result'.status = "IOError"
    BY <1>8 DEF WriteFails
  <2>. QED BY <1>7, <1>8, <2>1 DEF WriteFails, history
<1>9. CASE Crash
  <2>1. result'.kind = "idle"
    BY <1>9 DEF Crash, NoResult
  <2>. QED BY <1>7, <1>9, <2>1 DEF Crash
<1>10. CASE WriteNext
  <2>. SUFFICES ASSUME orderly' PROVE InOrder'
    BY DEF InOrder
  <2>. DEFINE w == job.todo[1]
              rest == Tail(job.todo)
  <2>1. /\ job.todo # <<>> /\ job' = [job EXCEPT !.todo = Tail(@)]
        /\ job \in [kind : Kinds, todo : Seq(Entries), end : Statuses, rows : Nat]
        /\ dir' = [dir EXCEPT ![Head(job.todo).path] = Head(job.todo).data]
        /\ UNCHANGED <<builder, result, orderly>>
    BY <1>10 DEF WriteNext, JobInv, history
  <2>2. /\ 1 \in DOMAIN job.todo /\ Head(job.todo) = w /\ w \in Entries
        /\ \A path \in Paths : dir'[path] = IF path = w.path THEN w.data ELSE dir[path]
        /\ job # NoJob
    BY <2>1, FileWritten
  <2>3. /\ job'.kind = job.kind /\ job'.end = job.end /\ job'.rows = job.rows /\ job'.todo = rest
        /\ result'.kind = "idle" /\ orderly
        /\ job.kind \in {"dump", "table", "count"}
    BY <2>1, <2>2 DEF JobInv, NoResult, Kinds
  <2>4. /\ rest \in Seq(Entries) /\ Len(rest) = Len(job.todo) - 1 /\ Len(job.todo) \in Nat
        /\ DOMAIN rest = 1 .. Len(rest)
        /\ \A i \in DOMAIN rest : i + 1 \in DOMAIN job.todo /\ rest[i] = job.todo[i + 1]
    <3>. HIDE DEF Entries
    <3>. QED BY <2>1
  <2>5. \A n : WillCover(job.todo, n) => WillCover(job.todo, n)'
    BY <1>10, WillCoverStep
  <2>. HIDE DEF w, rest
  <2>6. CASE w.path = CountPath
    <3>1. dir'[CountPath] = w.data
      BY <2>2, <2>6, PathsDisjoint
    <3>2. CASE job.kind = "dump"
      <4>. DEFINE n == builder.start + builder.num
      <4>1. Len(job.todo) = 1 /\ w.data = n /\ WillCover(job.todo, n)
        BY <2>2, <2>3, <2>6, <3>2 DEF InOrder, w
      <4>2. rest = <<>>
        BY <2>4, <4>1
      <4>. HIDE DEF n
      <4>3. \A m : m = n => WillCover(job.todo, m)'
        BY <2>5, <4>1
      <4>4. \A m : m = n => Covers(m)'
        <5>1. ASSUME NEW path
              PROVE  Landing(job.todo, path)' = {dir'[path]}
          <6>1. {i \in DOMAIN rest : rest[i].path = path} = {}
            BY <4>2
          <6>. QED BY <2>3, <4>2 DEF Landing
        <5>2. \A g, id : WillHaveRow(job.todo, g, id)' => HasRow(g, id)'
          BY <5>1 DEF WillHaveRow, HasRow, Readable
        <5>. QED BY <4>3, <5>2 DEF WillCover, Covers
      <4>5. Covers(dir[CountPath])'
        BY <3>1, <4>1, <4>4 DEF Covers
      <4>. QED BY <2>3, <3>2, <4>2, <4>5 DEF InOrder
    <3>3. CASE job.kind = "count"
      <4>1. w.data = job.rows /\ Covers(job.rows)
        BY <2>2, <2>3, <3>3 DEF InOrder, w
      <4>2. ASSUME NEW n, Covers(n)
            PROVE  Covers(n)'
        <5>1. \A g, id : HasRow(g, id) => HasRow(g, id)'
          <6>. SUFFICES ASSUME NEW g, NEW id, HasRow(g, id) PROVE HasRow(g, id)'
            OBVIOUS
          <6>1. <<g, ChunkOf(id)>> \in Paths /\ <<g, ChunkOf(id)>> # w.path
            BY <2>6, PathsDisjoint DEF HasRow, Paths
          <6>. QED BY <2>2, <6>1, RowKept
        <5>. QED BY <1>0, <4>2, <5>1 DEF Covers
      <4>3. Covers(dir[CountPath])' /\ Covers(job.rows)'
        <5>1. \A n : n = job.rows => Covers(n)'
          BY <4>1, <4>2
        <5>. QED BY <2>3, <3>1, <4>1, <5>1 DEF Covers
      <4>4. \A i \in DOMAIN rest : rest[i].path = CountPath /\ rest[i].data = job.rows
        BY <2>3, <2>4, <3>3 DEF InOrder
      <4>. QED BY <2>3, <3>3, <4>3, <4>4 DEF InOrder
    <3>4. CASE job.kind = "table"
      BY <2>2, <2>3, <2>6, <3>4 DEF InOrder, w
    <3>. QED BY <2>3, <3>2, <3>3, <3>4
  <2>7. CASE w.path # CountPath
    <3>1. /\ dir'[CountPath] = dir[CountPath]
          /\ Readable(CountPath) =>
                job.kind = "dump" /\ \A n : n = dir[CountPath] => Covers(n)'
      BY <1>0, <2>1, <2>3, <2>7, EarlierKept DEF w
    <3>2. Readable(CountPath)' <=> Readable(CountPath)
      BY <3>1 DEF Readable
    <3>3. Readable(CountPath)' => Covers(dir[CountPath])'
      BY <3>1, <3>2 DEF Covers
    <3>4. CASE job.kind = "dump"
      <4>1. Readable(CountPath)' => dir'[CountPath] = builder'.start
        BY <2>1, <2>3, <3>1, <3>2, <3>4 DEF InOrder
      <4>. DEFINE n == builder.start + builder.num
      <4>2. ASSUME NEW i \in DOMAIN rest
            PROVE  IF rest[i].path = CountPath
                     THEN i = Len(rest) /\ rest[i].data = n /\ WillCover(job.todo, n)
                     ELSE ChunkOf(builder.start) <= rest[i].path[2] /\ builder.start % ChunkSize = 0
        BY <2>3, <2>4, <3>4 DEF InOrder
      <4>. HIDE DEF n
      <4>3. WillCover(job.todo, n) => \A m : m = n => WillCover(job.todo, m)'
        BY <2>5
      <4>4. builder'.start + builder'.num = n
        BY <2>1 DEF n
      <4>5. WillCover(job.todo, n) => WillCover(job.todo, builder.start + builder.num)'
        BY <4>3, <4>4 DEF WillCover
      <4>. QED BY <2>1, <2>3, <3>3, <3>4, <4>1, <4>2, <4>4, <4>5 DEF InOrder
    <3>5. CASE job.kind = "table"
      <4>1. job.end = "OK" => WillCover(job.todo, job.rows)'
        <5>1. job.end = "OK" => \A m : m = job.rows => WillCover(job.todo, m)'
          BY <2>3, <2>5, <3>5 DEF InOrder
        <5>. QED BY <2>3, <5>1 DEF WillCover
      <4>2. \A i \in DOMAIN rest : rest[i].path # CountPath
        BY <2>3, <2>4, <3>5 DEF InOrder
      <4>3. ~Readable(CountPath)'
        BY <2>3, <3>2, <3>5 DEF InOrder
      <4>. QED BY <2>3, <3>5, <4>1, <4>2, <4>3 DEF InOrder
    <3>6. CASE job.kind = "count"
      BY <2>2, <2>3, <2>7, <3>6 DEF InOrder, w
    <3>. QED BY <2>3, <3>4, <3>5, <3>6
  <2>. QED BY <2>6, <2>7
<1>. QED BY <1>2, <1>3, <1>4, <1>5, <1>6, <1>8, <1>9, <1>10, StepKinds

------------------------------------------------------------------------------
(* The beginning, and what the builder's invariant says.                    *)

\* The invariant holds of an empty directory and a new builder.
LEMMA BuilderStarts ==
    ASSUME BuilderInit
    PROVE  BuilderInv
<1>0. /\ declared \subseteq Labels
      /\ dir = [path \in Paths |-> Missing]
      /\ job = NoJob /\ result = NoResult
      /\ want = NoIds /\ clean = TRUE /\ orderly = TRUE
  BY DEF BuilderInit
<1>1. PICK start \in Starts : builder = NewBuilder(start)
  BY DEF BuilderInit
<1>2. start \in Nat
  BY BuilderAssumption
<1>3. /\ dir = [path \in Paths |-> dir[path]]
      /\ \A path \in Paths : ~Readable(path)
  BY <1>0 DEF Readable
<1>4. CountPath \in Paths
  BY DEF Paths
<1>5. FilesInv
  BY <1>0, <1>3 DEF FilesInv
<1>6. MembersInv
  BY <1>1, <1>2, NewBuilderType DEF MembersInv, Filled
<1>7. JobInv
  <2>1. <<>> \in Seq(Entries)
    <3>. HIDE DEF Entries
    <3>. QED OBVIOUS
  <2>. QED BY <1>0, <2>1 DEF JobInv, NoJob, NoResult, Kinds, Statuses
<1>8. Collected
  BY <1>0, <1>1, <1>2 DEF Collected, NoIds, NewBuilder
<1>9. Published
  BY <1>0 DEF Published, NoJob, NoResult
<1>10. InOrder
  BY <1>0, <1>3, <1>4 DEF InOrder, NoJob, NoResult
<1>. QED BY <1>5, <1>6, <1>7, <1>8, <1>9, <1>10 DEF BuilderInv

\* Every step of the first process keeps the invariant.
LEMMA BuilderSteps ==
    ASSUME BuilderInv, BuilderNext
    PROVE  BuilderInv'
BY FilesStep, MembersStep, JobStep, CollectedStep, PublishedStep, InOrderStep DEF BuilderInv

\* The type invariant is a part of the inductive one.
LEMMA BuilderTyped ==
    ASSUME FilesInv, MembersInv, JobInv
    PROVE  BuilderTypeOK
<1>1. FilesTypeOK
  <2>1. DOMAIN dir = Paths
    BY DEF FilesInv
  <2>. QED BY <2>1 DEF FilesInv, Proper, FilesTypeOK
<1>2. \A i \in 1 .. Len(job.todo) : job.todo[i].path \in Paths
  <2>1. job.todo \in Seq(Entries) /\ \A w \in Entries : w.path \in Paths
    BY DEF JobInv, Entries
  <2>. HIDE DEF Entries
  <2>. QED BY <2>1
<1>3. result.status \in Statuses
  BY DEF JobInv
<1>. QED BY <1>1, <1>2, <1>3 DEF MembersInv, Builders, Filled, BuilderTypeOK

\* A published Dump has its rows and its count.
LEMMA DumpHasPublished ==
    ASSUME MembersInv, Collected, Published
    PROVE  DumpPublishesVertices
<1>. SUFFICES ASSUME result.kind = "dump", result.status = "OK", clean, builder.saved
              PROVE  /\ \A id \in DOMAIN want : \A g \in Groups :
                           HasRow(g, id) /\ RowAt(g, id) = [id |-> id, val |-> want[id]]
                     /\ dir[CountPath] = builder.start + Cardinality(DOMAIN want)
  BY DEF DumpPublishesVertices
<1>1. \A id \in DOMAIN want : \A g \in Groups : Holds(g, id, want[id])
  BY DEF Collected
<1>2. dir[CountPath] = builder.start + builder.num
  BY DEF Published
<1>3. Cardinality(DOMAIN want) = builder.num
  <2>1. builder.start \in Nat /\ builder.num \in Nat
    BY DEF MembersInv, Builders
  <2>2. DOMAIN want = builder.start .. builder.start + builder.num - 1
    BY DEF Collected
  <2>. DEFINE last == builder.start + builder.num - 1
  <2>3. /\ builder.start \in Int /\ last \in Int
        /\ builder.num = IF builder.start > last THEN 0 ELSE last - builder.start + 1
    BY <2>1
  <2>4. DOMAIN want = builder.start .. last
    BY <2>2
  <2>. HIDE DEF last
  <2>. QED BY <2>3, <2>4, FS_Interval
<1>. QED BY <1>1, <1>2, <1>3 DEF Holds

\* The row of an id in a property group has that id.
LEMMA RowHasId ==
    ASSUME FilesInv, NEW g \in Groups, NEW id \in Nat, HasRow(g, id)
    PROVE  /\ RowAt(g, id).id = id
           /\ RowAt(g, id) \in [id : Nat, val : Values]
           /\ RowOf(id) \in 1 .. Len(dir[<<g, ChunkOf(id)>>])
           /\ dir[<<g, ChunkOf(id)>>] \in Seq([id : Nat, val : Values])
<1>. DEFINE path == <<g, ChunkOf(id)>>
            rows == dir[path]
<1>0. GroupNum \in Nat /\ LabelGroup = GroupNum + 1 /\ Groups = 1 .. GroupNum
  BY VertexFilesAssumption DEF LabelGroup, Groups
<1>1. path \in ChunkPaths /\ path \in Paths /\ Readable(path) /\ RowOf(id) <= Len(rows)
  BY DEF HasRow, Paths
<1>2. ChunkOf(id) \in Nat /\ RowOf(id) \in 1 .. ChunkSize /\ id = ChunkOf(id) * ChunkSize + RowOf(id) - 1
  BY IdOfRow
<1>3. rows \in FileContents(path) /\ Numbered(path, rows)
  BY <1>1 DEF FilesInv, Proper
<1>4. path # CountPath /\ path[1] = g /\ g # LabelGroup /\ path[2] = ChunkOf(id)
  BY <1>0 DEF CountPath
<1>5. rows \in Seq([id : Nat, val : Values])
  BY <1>3, <1>4 DEF FileContents
<1>6. RowOf(id) \in 1 .. Len(rows)
  BY <1>1, <1>2, <1>5, VertexFilesAssumption
<1>7. rows[RowOf(id)].id = path[2] * ChunkSize + RowOf(id) - 1
  BY <1>1, <1>3, <1>4, <1>6 DEF Numbered
<1>8. rows[RowOf(id)] \in [id : Nat, val : Values]
  <2>. DEFINE row == RowOf(id)
              Rows == [id : Nat, val : Values]
  <2>1. rows \in Seq(Rows) /\ row \in 1 .. Len(rows)
    BY <1>5, <1>6
  <2>. HIDE DEF rows, row, Rows
  <2>2. rows[row] \in Rows
    BY <2>1
  <2>. QED BY <2>2 DEF row, Rows
<1>9. RowAt(g, id) = rows[RowOf(id)]
  BY DEF RowAt
<1>. QED BY <1>2, <1>4, <1>5, <1>6, <1>7, <1>8, <1>9

\* A readable count of an orderly directory describes its files.
LEMMA CountDescribes ==
    ASSUME FilesInv, InOrder
    PROVE  CountedIsDescribed
<1>. SUFFICES ASSUME orderly, Readable(CountPath) PROVE Described
  BY DEF CountedIsDescribed
<1>1. Covers(dir[CountPath])
  BY DEF InOrder
<1>2. dir[CountPath] \in Nat
  <2>1. CountPath \in Paths /\ FileContents(CountPath) = Nat
    BY VertexFilesAssumption DEF Paths, FileContents, CountPath, LabelGroup
  <2>. QED BY <2>1 DEF FilesInv, Proper
<1>3. \A id \in 0 .. dir[CountPath] - 1 : id \in Nat
  BY <1>2
<1>. QED BY <1>1, <1>3, RowHasId DEF Covers, Described

------------------------------------------------------------------------------
(* The inductive invariant of the store.                                    *)

ColumnSets == Selections \cup {NoColumns} \cup MadeFor \cup {Columns(g) : g \in 1 .. LabelGroup}
RowFilters == Filters \cup {NoFilter}
ReadTables == [chunk : Nat, filter : RowFilters, cols : ColumnSets]
Readers(groups) ==
    [group : groups, names : MadeFor \cup {{}}, chunk : Nat, seek_id : Nat,
     chunk_num : Nat, vertex_num : Nat, table : ReadTables \cup {NoTable},
     filter : RowFilters, cols : Selections \cup {NoColumns}]

AimInv ==
    /\ aim \in Nat
    /\ reader.seek_id = aim
    /\ reader.chunk = ChunkOf(aim)
    /\ reader.chunk < reader.chunk_num

GotInv ==
    /\ got.table = reader.table
    /\ got.table # NoTable
    /\ got.offset = RowOffset(reader)

\* A table in memory is that of the current chunk unless the position lies behind the end.
ReaderInv ==
    /\ running \in BOOLEAN
    /\ got.status \in {"none", "OK", "Invalid", "IOError", "Abort"}
    /\ reader = NoReader => got = Nothing /\ aim = NoAim
    /\ reader # NoReader =>
          /\ reader \in Readers(Groups)
          /\ Readable(CountPath)
          /\ reader.vertex_num = dir[CountPath]
          /\ reader.chunk_num = ChunkNum(dir[CountPath])
          /\ reader.chunk < reader.chunk_num =>
                /\ RowOffset(reader) \in 0 .. ChunkSize - 1
                /\ reader.table # NoTable => reader.table.chunk = reader.chunk
          /\ aim # NoAim => AimInv
          /\ got.status = "OK" => GotInv

\* The table in memory was read from a file of the vertex type, which is still there.
TableThere ==
    reader # NoReader /\ reader.table # NoTable =>
        <<reader.group, reader.table.chunk>> \in Paths
        /\ Readable(<<reader.group, reader.table.chunk>>)

\* A reader of an iterator: its table is that of the chunk it was last sent to.
IterReader(r, g) ==
    /\ r.group = g /\ r.names = {} /\ r.filter = NoFilter /\ r.cols = NoColumns
    /\ r.table # NoTable => r.table.chunk = r.chunk /\ r.table.filter = NoFilter

Iterators ==
    [cur : Nat, filtered : BOOLEAN, order : Seq(AllIds),
     readers : [1 .. LabelGroup -> Readers(1 .. LabelGroup)]]

IterInv(i) ==
    /\ i \in Iterators
    /\ \A g \in 1 .. LabelGroup : IterReader(i.readers[g], g)

SeenInv ==
    /\ seen.kind = "property" => seen.group \in Groups
    /\ IterShowsVertex

CollInv ==
    /\ Described /\ NoExcessRows
    /\ \A id \in DOMAIN want, g \in Groups : Holds(g, id, want[id])
    /\ expect \subseteq AllIds
    /\ coll # NoColl =>
          /\ it = NoIter
          /\ coll \in [filtered : BOOLEAN, ids : SUBSET AllIds, valid : SUBSET AllChunks,
                       sound : BOOLEAN]
    /\ FilterIsExact
    /\ it = NoIter => seen = NotSeen
    /\ it # NoIter => IterInv(it)
    /\ SeenInv

StoreInv ==
    /\ reading \in {"none", "chunks", "vertices"}
    /\ FilesInv /\ MembersInv /\ JobInv
    /\ reading = "none" => Collected /\ Published /\ InOrder
    /\ reading # "none" => Described /\ orderly /\ result = NoResult
    /\ ReaderInv /\ TableThere
    /\ reading # "chunks" => reader = NoReader
    /\ reading # "vertices" => coll = NoColl /\ it = NoIter /\ seen = NotSeen /\ expect = {}
    /\ reading = "vertices" => CollInv

------------------------------------------------------------------------------
(* The reader's methods.                                                    *)

\* The vertex count is a number.
LEMMA CountType ==
    ASSUME FilesInv, Readable(CountPath)
    PROVE  /\ dir[CountPath] \in Nat /\ ChunkNum(dir[CountPath]) \in Nat
           /\ \A id \in 0 .. dir[CountPath] - 1 :
                 id \in Nat /\ ChunkOf(id) \in 0 .. ChunkNum(dir[CountPath]) - 1
<1>1. CountPath \in Paths /\ FileContents(CountPath) = Nat
  BY VertexFilesAssumption DEF Paths, FileContents, CountPath, LabelGroup
<1>2. dir[CountPath] \in Nat
  BY <1>1 DEF FilesInv, Proper
<1>. DEFINE n == dir[CountPath]
<1>. HIDE DEF n
<1>3. n \in Nat
  BY <1>2 DEF n
<1>4. \A id \in 0 .. n - 1 : id \in Nat /\ ChunkOf(id) \in 0 .. ChunkNum(n) - 1
  BY <1>3, ChunkNumType, IdOfRow
<1>. QED BY <1>3, <1>4, ChunkNumType DEF n

\* An unfiltered table has the rows of its file.
LEMMA Unfiltered ==
    ASSUME NEW g, NEW table, table.filter = NoFilter
    PROVE  TableRows(g, table) = dir[<<g, table.chunk>>]
BY DEF TableRows

\* A new reader stands on row 0 and has no table.
LEMMA NewReaderType ==
    ASSUME FilesInv, Readable(CountPath), NEW groups, NEW g \in groups,
           NEW names \in MadeFor \cup {{}}
    PROVE  /\ NewReader(g, names) \in Readers(groups)
           /\ NewReader(g, names).table = NoTable
           /\ NewReader(g, names).chunk = 0 /\ NewReader(g, names).seek_id = 0
           /\ NewReader(g, names).chunk_num = ChunkNum(dir[CountPath])
           /\ NewReader(g, names).vertex_num = dir[CountPath]
           /\ IterReader(NewReader(g, {}), g)
<1>1. dir[CountPath] \in Nat /\ ChunkNum(dir[CountPath]) \in Nat
  BY CountType
<1>. QED BY <1>1 DEF NewReader, Readers, RowFilters, IterReader

\* A reader is told from none by its group.
LEMMA ReaderIsOpen ==
    ASSUME NEW r \in Readers(Groups)
    PROVE  r # NoReader
<1>1. r.group \in Groups
  BY DEF Readers
<1>2. NoReader.group = 0 /\ 0 \notin Groups
  BY DEF NoReader, Groups
<1>. QED BY <1>1, <1>2

\* The members' types stay as they are while the files do.
LEMMA TypesStay ==
    ASSUME UNCHANGED <<declared, dir>>
    PROVE  /\ Readers(Groups)' = Readers(Groups)
           /\ Readers(1 .. LabelGroup)' = Readers(1 .. LabelGroup)
           /\ AllIds' = AllIds /\ AllChunks' = AllChunks
           /\ ChunkNum(dir[CountPath])' = ChunkNum(dir[CountPath])
           /\ Readable(CountPath)' <=> Readable(CountPath)
<1>1. ColumnSets' = ColumnSets
  BY DEF ColumnSets, Columns
<1>. QED BY <1>1 DEF Readers, ReadTables, AllIds, AllChunks, ChunkNum, Readable

\* The row that a seek goes to.
LEMMA SeekOffset ==
    ASSUME NEW id \in Nat
    PROVE  /\ ChunkOf(id) \in Nat
           /\ id - ChunkOf(id) * ChunkSize = RowOf(id) - 1
           /\ RowOf(id) \in 1 .. ChunkSize
<1>1. /\ ChunkOf(id) \in Nat /\ RowOf(id) \in 1 .. ChunkSize
      /\ id = ChunkOf(id) * ChunkSize + RowOf(id) - 1
  BY IdOfRow
<1>2. ChunkOf(id) * ChunkSize \in Nat
  BY <1>1, VertexFilesAssumption
<1>. QED BY <1>1, <1>2

\* seek moves to the row of the id, and drops the table of another chunk.
LEMMA SeekShape ==
    ASSUME NEW groups, NEW r \in Readers(groups), NEW id \in Nat
    PROVE  /\ Seek(r, id) \in Readers(groups)
           /\ Seek(r, id).seek_id = id /\ Seek(r, id).chunk = ChunkOf(id)
           /\ RowOffset(Seek(r, id)) = RowOf(id) - 1
           /\ RowOffset(Seek(r, id)) \in 0 .. ChunkSize - 1
           /\ Seek(r, id).table = IF ChunkOf(id) = r.chunk THEN r.table ELSE NoTable
           /\ Seek(r, id).group = r.group /\ Seek(r, id).names = r.names
           /\ Seek(r, id).filter = r.filter /\ Seek(r, id).cols = r.cols
           /\ Seek(r, id).chunk_num = r.chunk_num /\ Seek(r, id).vertex_num = r.vertex_num
<1>0. /\ ChunkOf(id) \in Nat
      /\ id - ChunkOf(id) * ChunkSize = RowOf(id) - 1
      /\ RowOf(id) \in 1 .. ChunkSize
      /\ ChunkSize \in Nat \ {0}
  BY SeekOffset, VertexFilesAssumption
<1>1. /\ Seek(r, id) \in Readers(groups)
      /\ Seek(r, id).seek_id = id /\ Seek(r, id).chunk = ChunkOf(id)
      /\ Seek(r, id).table = IF ChunkOf(id) = r.chunk THEN r.table ELSE NoTable
      /\ Seek(r, id).group = r.group /\ Seek(r, id).names = r.names
      /\ Seek(r, id).filter = r.filter /\ Seek(r, id).cols = r.cols
      /\ Seek(r, id).chunk_num = r.chunk_num /\ Seek(r, id).vertex_num = r.vertex_num
  BY <1>0 DEF Seek, Readers
<1>2. RowOffset(Seek(r, id)) = RowOf(id) - 1
  BY <1>0, <1>1 DEF RowOffset
<1>3. RowOf(id) - 1 \in 0 .. ChunkSize - 1
  BY <1>0
<1>. QED BY <1>1, <1>2, <1>3

\* GetChunk loads the file of the current chunk unless there is a table in memory.
LEMMA CachedShape ==
    ASSUME NEW groups, groups \subseteq 1 .. LabelGroup, NEW r \in Readers(groups),
           NEW version \in {"V1", "V2"}
    PROVE  /\ Cached(r, version) \in Readers(groups)
           /\ Cached(r, version).table # NoTable
           /\ r.table # NoTable => Cached(r, version).table = r.table
           /\ r.table = NoTable =>
                 /\ Cached(r, version).table.chunk = r.chunk
                 /\ version = "V1" => Cached(r, version).table.filter = r.filter
           /\ RowOffset(Cached(r, version)) = RowOffset(r)
           /\ Cached(r, version).group = r.group /\ Cached(r, version).names = r.names
           /\ Cached(r, version).chunk = r.chunk /\ Cached(r, version).seek_id = r.seek_id
           /\ Cached(r, version).filter = r.filter /\ Cached(r, version).cols = r.cols
           /\ Cached(r, version).chunk_num = r.chunk_num
           /\ Cached(r, version).vertex_num = r.vertex_num
<1>1. ColumnsV1(r) \in ColumnSets /\ ColumnsV2(r) \in ColumnSets
  <2>1. /\ r.cols \in Selections \cup {NoColumns} /\ r.names \in MadeFor \cup {{}}
        /\ r.group \in 1 .. LabelGroup
    BY DEF Readers
  <2>. QED BY <2>1 DEF ColumnsV1, ColumnsV2, ColumnSets
<1>2. /\ Load(r, version) \in ReadTables
      /\ Load(r, version).chunk = r.chunk
      /\ version = "V1" => Load(r, version).filter = r.filter
  <2>1. r.chunk \in Nat /\ r.filter \in RowFilters /\ NoFilter \in RowFilters
    BY DEF Readers, RowFilters
  <2>. QED BY <1>1, <2>1 DEF Load, ReadTables
<1>3. Load(r, version) # NoTable
  BY <1>2 DEF NoTable, ReadTables
<1>. DEFINE t == IF r.table # NoTable THEN r.table ELSE Load(r, version)
<1>4. t \in ReadTables \cup {NoTable} /\ t # NoTable
  BY <1>2, <1>3 DEF Readers
<1>5. Cached(r, version) = [r EXCEPT !.table = t]
  BY DEF Cached, Readers
<1>6. /\ r.table # NoTable => t = r.table
      /\ r.table = NoTable => t = Load(r, version)
  OBVIOUS
<1>. HIDE DEF t
<1>7. /\ Cached(r, version) \in Readers(groups)
      /\ Cached(r, version).table = t
      /\ Cached(r, version).group = r.group /\ Cached(r, version).names = r.names
      /\ Cached(r, version).chunk = r.chunk /\ Cached(r, version).seek_id = r.seek_id
      /\ Cached(r, version).filter = r.filter /\ Cached(r, version).cols = r.cols
      /\ Cached(r, version).chunk_num = r.chunk_num
      /\ Cached(r, version).vertex_num = r.vertex_num
  BY <1>4, <1>5 DEF Readers
<1>8. RowOffset(Cached(r, version)) = RowOffset(r)
  BY <1>7 DEF RowOffset
<1>. QED BY <1>2, <1>4, <1>6, <1>7, <1>8

------------------------------------------------------------------------------
(* The steps of the client of a chunk reader.                               *)

\* Opening a reader: it stands on the first row, if there is any.
LEMMA OpenStep ==
    ASSUME FilesInv, ReaderInv, UNCHANGED <<declared, dir>>,
           NEW g \in Groups, NEW names \in MadeFor, OpenReader(g, names)
    PROVE  ReaderInv'
<1>0. /\ reader = NoReader /\ Readable(CountPath) /\ UNCHANGED <<got, running>>
      /\ reader' = NewReader(g, names)
      /\ aim' = IF dir[CountPath] > 0 THEN 0 ELSE NoAim
      /\ got = Nothing /\ running \in BOOLEAN
  BY DEF OpenReader, ReaderInv
<1>1. /\ reader' \in Readers(Groups)
      /\ reader'.table = NoTable /\ reader'.chunk = 0 /\ reader'.seek_id = 0
      /\ reader'.chunk_num = ChunkNum(dir[CountPath]) /\ reader'.vertex_num = dir[CountPath]
  BY <1>0, NewReaderType
<1>2. ChunkOf(0) = 0 /\ RowOffset(reader') = 0 /\ ChunkSize \in Nat \ {0}
  BY <1>1, VertexFilesAssumption DEF ChunkOf, RowOffset
<1>3. dir[CountPath] > 0 => 0 < ChunkNum(dir[CountPath])
  <2>1. dir[CountPath] \in Nat
    BY <1>0, CountType
  <2>2. 0 < ChunkNum(dir[CountPath]) <=> 0 * ChunkSize < dir[CountPath]
    BY <2>1, ChunkNumType
  <2>. QED BY <1>2, <2>1, <2>2
<1>4. aim' # NoAim => AimInv'
  BY <1>0, <1>1, <1>2, <1>3 DEF AimInv
<1>5. RowOffset(reader)' = 0
  BY <1>2 DEF RowOffset
<1>6. Readable(CountPath)' /\ dir' = dir /\ got'.status = "none"
  BY <1>0 DEF Readable, Nothing
<1>7. reader' # NoReader
  BY <1>1, ReaderIsOpen
<1>. QED BY <1>0, <1>1, <1>2, <1>4, <1>5, <1>6, <1>7, TypesStay DEF ReaderInv

\* A call that moves the reader or changes its options, and returns no table.
LEMMA MovedReader ==
    ASSUME ReaderInv, UNCHANGED <<declared, dir, running>>, reader # NoReader,
           got' = Nothing,
           NEW r \in Readers(Groups), reader' = r,
           r.vertex_num = reader.vertex_num, r.chunk_num = reader.chunk_num,
           r.chunk < r.chunk_num =>
               /\ RowOffset(r) \in 0 .. ChunkSize - 1
               /\ r.table # NoTable => r.table.chunk = r.chunk,
           aim' # NoAim =>
               aim' \in Nat /\ r.seek_id = aim' /\ r.chunk = ChunkOf(aim') /\ r.chunk < r.chunk_num
    PROVE  ReaderInv'
<1>1. RowOffset(reader)' = RowOffset(r)
  BY DEF RowOffset
<1>2. aim' # NoAim => AimInv'
  BY DEF AimInv
<1>3. Readable(CountPath)' /\ got'.status = "none"
  BY DEF Readable, Nothing, ReaderInv
<1>4. reader' # NoReader
  BY ReaderIsOpen
<1>. QED BY <1>1, <1>2, <1>3, <1>4, TypesStay DEF ReaderInv

\* seek, next_chunk, Filter and Select.
LEMMA MoveSteps ==
    ASSUME FilesInv, ReaderInv, UNCHANGED <<declared, dir>>,
           \/ \E id \in SeekIds : seek(id)
           \/ next_chunk
           \/ \E filter \in Filters \cup {NoFilter} : Filter(filter)
           \/ \E cols \in Selections \cup {NoColumns} : Select(cols)
    PROVE  ReaderInv'
<1>0. ASSUME reader # NoReader
      PROVE  /\ reader \in Readers(Groups)
             /\ reader.chunk \in Nat /\ reader.seek_id \in Nat /\ reader.chunk_num \in Nat
             /\ reader.chunk < reader.chunk_num =>
                   /\ RowOffset(reader) \in 0 .. ChunkSize - 1
                   /\ reader.table # NoTable => reader.table.chunk = reader.chunk
             /\ aim # NoAim => AimInv
  BY <1>0 DEF ReaderInv, Readers
<1>1. ChunkSize \in Nat \ {0}
  BY VertexFilesAssumption
<1>2. ASSUME NEW id \in SeekIds, seek(id)
      PROVE  ReaderInv'
  <2>1. /\ reader # NoReader /\ id \in Nat
        /\ reader' = Seek(reader, id)
        /\ aim' = IF SeekStatus(reader, id) = "OK" THEN id ELSE NoAim
        /\ got' = Nothing /\ UNCHANGED running
    BY <1>2, ReaderAssumption DEF seek, Opened
  <2>. DEFINE r == Seek(reader, id)
  <2>2. /\ r \in Readers(Groups)
        /\ r.seek_id = id /\ r.chunk = ChunkOf(id)
        /\ RowOffset(r) \in 0 .. ChunkSize - 1
        /\ r.table = IF ChunkOf(id) = reader.chunk THEN reader.table ELSE NoTable
        /\ r.chunk_num = reader.chunk_num /\ r.vertex_num = reader.vertex_num
    <3>1. reader \in Readers(Groups) /\ id \in Nat
      BY <1>0, <2>1
    <3>. QED BY ZenonT(60), <3>1, SeekShape
  <2>3. SeekStatus(reader, id) = "OK" => ChunkOf(id) < reader.chunk_num
    BY DEF SeekStatus
  <2>. HIDE DEF r
  <2>4. r.chunk < r.chunk_num /\ r.table # NoTable => r.table.chunk = r.chunk
    BY <1>0, <2>1, <2>2
  <2>5. aim' # NoAim => aim' \in Nat /\ r.seek_id = aim' /\ r.chunk = ChunkOf(aim')
                           /\ r.chunk < r.chunk_num
    BY <2>1, <2>2, <2>3
  <2>. QED BY <2>1, <2>2, <2>4, <2>5, MovedReader DEF r
<1>3. CASE next_chunk
  <2>. DEFINE r == NextChunk(reader)
              first == (reader.chunk + 1) * ChunkSize
  <2>1. /\ reader # NoReader
        /\ reader' = r
        /\ aim' = IF NextStatus(reader) = "OK" THEN first ELSE NoAim
        /\ got' = Nothing /\ UNCHANGED running
    BY <1>3 DEF next_chunk, Opened
  <2>2. first \in Nat /\ first - (reader.chunk + 1) * ChunkSize = 0 /\ ChunkOf(first) = reader.chunk + 1
    <3>1. reader.chunk + 1 \in Nat /\ 1 \in 1 .. ChunkSize
      BY <1>0, <1>1, <2>1
    <3>2. first \in Nat
      BY <1>1, <3>1
    <3>3. ChunkOf((reader.chunk + 1) * ChunkSize + 1 - 1) = reader.chunk + 1
      BY <3>1, IdOfRow
    <3>4. (reader.chunk + 1) * ChunkSize + 1 - 1 = first
      BY <3>2
    <3>. QED BY <3>2, <3>3, <3>4
  <2>. HIDE DEF first
  <2>3. CASE reader.chunk + 1 < reader.chunk_num
    <3>1. r = [reader EXCEPT !.chunk = reader.chunk + 1, !.seek_id = first, !.table = NoTable]
      BY <1>0, <2>1, <2>3 DEF NextChunk, first, Readers
    <3>5. reader.chunk + 1 \in Nat
      BY <1>0, <2>1
    <3>. HIDE DEF r
    <3>2. /\ r \in Readers(Groups)
          /\ r.chunk = reader.chunk + 1 /\ r.seek_id = first /\ r.table = NoTable
          /\ r.chunk_num = reader.chunk_num /\ r.vertex_num = reader.vertex_num
      BY <1>0, <2>1, <2>2, <3>1, <3>5 DEF Readers
    <3>3. RowOffset(r) \in 0 .. ChunkSize - 1
      BY <1>1, <2>2, <3>2 DEF RowOffset
    <3>4. aim' # NoAim => aim' \in Nat /\ r.seek_id = aim' /\ r.chunk = ChunkOf(aim')
                             /\ r.chunk < r.chunk_num
      BY <2>1, <2>2, <2>3, <3>2
    <3>. QED BY <2>1, <3>2, <3>3, <3>4, MovedReader
  <2>4. CASE ~(reader.chunk + 1 < reader.chunk_num)
    <3>1. r = [reader EXCEPT !.chunk = @ + 1]
      BY <2>4 DEF NextChunk
    <3>. HIDE DEF r
    <3>2. /\ r \in Readers(Groups)
          /\ r.chunk = reader.chunk + 1
          /\ r.chunk_num = reader.chunk_num /\ r.vertex_num = reader.vertex_num
      BY <1>0, <2>1, <3>1 DEF Readers
    <3>3. ~(r.chunk < r.chunk_num) /\ aim' = NoAim
      BY <2>1, <2>4, <3>2 DEF NextStatus
    <3>. QED BY <2>1, <3>2, <3>3, MovedReader
  <2>. QED BY <2>3, <2>4
<1>4. ASSUME reader # NoReader, NEW r \in Readers(Groups), reader' = r,
             got' = Nothing, UNCHANGED <<aim, running>>,
             r.chunk = reader.chunk, r.seek_id = reader.seek_id, r.table = reader.table,
             r.chunk_num = reader.chunk_num, r.vertex_num = reader.vertex_num
      PROVE  ReaderInv'
  <2>1. r.chunk < r.chunk_num =>
            /\ RowOffset(r) \in 0 .. ChunkSize - 1
            /\ r.table # NoTable => r.table.chunk = r.chunk
    BY <1>0, <1>4 DEF RowOffset
  <2>2. aim' # NoAim =>
            aim' \in Nat /\ r.seek_id = aim' /\ r.chunk = ChunkOf(aim') /\ r.chunk < r.chunk_num
    BY <1>0, <1>4 DEF AimInv
  <2>. QED BY <1>4, <2>1, <2>2, MovedReader
<1>5. ASSUME NEW filter \in Filters \cup {NoFilter}, Filter(filter)
      PROVE  ReaderInv'
  <2>1. /\ reader # NoReader /\ reader' = [reader EXCEPT !.filter = filter]
        /\ got' = Nothing /\ UNCHANGED <<aim, running>>
    BY <1>5 DEF Filter, Opened
  <2>2. /\ reader' \in Readers(Groups)
        /\ reader'.chunk = reader.chunk /\ reader'.seek_id = reader.seek_id
        /\ reader'.table = reader.table
        /\ reader'.chunk_num = reader.chunk_num /\ reader'.vertex_num = reader.vertex_num
    BY <1>0, <1>5, <2>1 DEF Readers, RowFilters
  <2>. QED BY <1>4, <2>1, <2>2
<1>6. ASSUME NEW cols \in Selections \cup {NoColumns}, Select(cols)
      PROVE  ReaderInv'
  <2>1. /\ reader # NoReader /\ reader' = [reader EXCEPT !.cols = cols]
        /\ got' = Nothing /\ UNCHANGED <<aim, running>>
    BY <1>6 DEF Select, Opened
  <2>2. /\ reader' \in Readers(Groups)
        /\ reader'.chunk = reader.chunk /\ reader'.seek_id = reader.seek_id
        /\ reader'.table = reader.table
        /\ reader'.chunk_num = reader.chunk_num /\ reader'.vertex_num = reader.vertex_num
    BY <1>0, <1>6, <2>1 DEF Readers
  <2>. QED BY <1>4, <2>1, <2>2
<1>. QED BY <1>2, <1>3, <1>5, <1>6

\* GetChunk keeps the position.
LEMMA GetChunkStep ==
    ASSUME FilesInv, ReaderInv, UNCHANGED <<declared, dir>>,
           NEW version \in {"AUTO", "V1", "V2"}, GetChunk(version)
    PROVE  ReaderInv'
<1>. DEFINE v == Version(reader, version)
            r == Cached(reader, v)
<1>0. /\ reader # NoReader /\ reader \in Readers(Groups) /\ v \in {"V1", "V2"}
      /\ Groups \subseteq 1 .. LabelGroup
      /\ reader.chunk < reader.chunk_num /\ reader.table # NoTable =>
            reader.table.chunk = reader.chunk
      /\ Readable(CountPath)'
  BY VertexFilesAssumption DEF GetChunk, Opened, ReaderInv, Version, Groups, LabelGroup, Readable
<1>1. \/ \E status \in {"Invalid", "IOError"} : Refused(status)
      \/ Delivers(r)
  BY DEF GetChunk
<1>2. /\ r \in Readers(Groups)
      /\ r.table # NoTable
      /\ reader.table # NoTable => r.table = reader.table
      /\ reader.table = NoTable => r.table.chunk = reader.chunk
      /\ RowOffset(r) = RowOffset(reader)
      /\ r.chunk = reader.chunk /\ r.seek_id = reader.seek_id
      /\ r.chunk_num = reader.chunk_num /\ r.vertex_num = reader.vertex_num
  BY ZenonT(60), <1>0, CachedShape
<1>. HIDE DEF r, v
<1>3. ASSUME NEW status \in {"Invalid", "IOError"}, Refused(status)
      PROVE  ReaderInv'
  <2>1. /\ UNCHANGED <<reader, aim, running>> /\ got'.status = status
    BY <1>3 DEF Refused, Nothing
  <2>2. RowOffset(reader)' = RowOffset(reader)
    BY <2>1 DEF RowOffset
  <2>3. aim' # NoAim => AimInv'
    BY <1>0, <2>1 DEF ReaderInv, AimInv
  <2>. QED BY <1>0, <2>1, <2>2, <2>3, TypesStay DEF ReaderInv
<1>4. CASE Delivers(r)
  <2>1. /\ reader' = r /\ UNCHANGED aim /\ running' = InTable(r, r.table)
        /\ got' = IF InTable(r, r.table)
                    THEN [status |-> "OK", table |-> r.table, offset |-> RowOffset(r)]
                    ELSE [Nothing EXCEPT !.status = "Abort"]
    BY <1>4 DEF Delivers
  <2>2. running' \in BOOLEAN
    BY <2>1 DEF InTable
  <2>3. RowOffset(reader)' = RowOffset(r)
    BY <2>1 DEF RowOffset
  <2>4. /\ got'.status \in {"OK", "Abort"}
        /\ got'.status = "OK" => got'.table = r.table /\ got'.offset = RowOffset(r)
    BY <2>1 DEF Nothing
  <2>5. got'.status = "OK" => GotInv'
    BY <1>2, <2>1, <2>3, <2>4 DEF GotInv
  <2>6. aim' # NoAim => AimInv'
    BY <1>0, <1>2, <2>1 DEF ReaderInv, AimInv
  <2>7. reader' # NoReader
    BY <1>2, <2>1, ReaderIsOpen
  <2>. QED BY <1>0, <1>2, <2>1, <2>2, <2>3, <2>4, <2>5, <2>6, <2>7, TypesStay
       DEF ReaderInv
<1>. QED BY <1>1, <1>3, <1>4

\* Every call keeps the invariant of the reader.
LEMMA ReaderStep ==
    ASSUME FilesInv, ReaderInv, UNCHANGED <<declared, dir>>, ReaderNext
    PROVE  ReaderInv'
BY OpenStep, MoveSteps, GetChunkStep DEF ReaderNext

\* Only GetChunk reads a table, from a file that it could open.
LEMMA TableStep ==
    ASSUME ReaderInv, TableThere, UNCHANGED <<declared, dir>>, ReaderNext
    PROVE  TableThere'
<1>1. ASSUME NEW r, reader' = r, reader # NoReader,
             r.group = reader.group, r.table \in {reader.table, NoTable}
      PROVE  TableThere'
  BY <1>1 DEF TableThere, Readable
<1>2. ASSUME reader # NoReader
      PROVE  reader \in Readers(Groups) /\ Groups \subseteq 1 .. LabelGroup
  BY <1>2, VertexFilesAssumption DEF ReaderInv, Groups, LabelGroup
<1>3. ASSUME NEW g \in Groups, NEW names \in MadeFor, OpenReader(g, names)
      PROVE  TableThere'
  <2>1. reader' = NewReader(g, names) /\ NewReader(g, names).table = NoTable
    BY <1>3 DEF OpenReader, NewReader
  <2>. QED BY <2>1 DEF TableThere
<1>4. ASSUME NEW id \in SeekIds, seek(id)
      PROVE  TableThere'
  <2>1. reader # NoReader /\ reader' = Seek(reader, id) /\ id \in Nat
    BY <1>4, ReaderAssumption DEF seek, Opened
  <2>2. /\ Seek(reader, id).group = reader.group
        /\ Seek(reader, id).table = IF ChunkOf(id) = reader.chunk THEN reader.table ELSE NoTable
    BY ZenonT(60), <1>2, <2>1, SeekShape
  <2>. QED BY <1>1, <2>1, <2>2
<1>5. CASE next_chunk
  <2>1. reader # NoReader /\ reader' = NextChunk(reader)
    BY <1>5 DEF next_chunk, Opened
  <2>2. /\ NextChunk(reader).group = reader.group
        /\ NextChunk(reader).table \in {reader.table, NoTable}
    BY <1>2, <2>1 DEF NextChunk, Readers
  <2>. QED BY <1>1, <2>1, <2>2
<1>6. ASSUME NEW version \in {"AUTO", "V1", "V2"}, GetChunk(version)
      PROVE  TableThere'
  <2>. DEFINE v == Version(reader, version)
              r == Cached(reader, v)
  <2>1. reader # NoReader /\ v \in {"V1", "V2"}
    BY <1>6 DEF GetChunk, Opened, Version
  <2>2. \/ UNCHANGED reader
        \/ reader' = r /\ (reader.table # NoTable \/ FileThere(reader))
    BY <1>6 DEF GetChunk, Refused, Delivers
  <2>3. /\ r.group = reader.group
        /\ reader.table # NoTable => r.table = reader.table
        /\ reader.table = NoTable => r.table.chunk = reader.chunk
    BY ZenonT(60), <1>2, <2>1, CachedShape
  <2>. HIDE DEF r, v
  <2>4. CASE UNCHANGED reader
    BY <2>4 DEF TableThere, Readable
  <2>5. CASE reader' = r /\ reader.table # NoTable
    BY <1>1, <2>1, <2>3, <2>5
  <2>6. CASE reader' = r /\ reader.table = NoTable /\ FileThere(reader)
    BY <2>3, <2>6 DEF TableThere, FileThere, Readable
  <2>. QED BY <2>2, <2>4, <2>5, <2>6
<1>7. ASSUME NEW filter, Filter(filter)
      PROVE  TableThere'
  <2>1. reader # NoReader /\ reader' = [reader EXCEPT !.filter = filter]
    BY <1>7 DEF Filter, Opened
  <2>2. reader'.group = reader.group /\ reader'.table = reader.table
    BY <1>2, <2>1 DEF Readers
  <2>. QED BY <1>1, <2>1, <2>2
<1>8. ASSUME NEW cols, Select(cols)
      PROVE  TableThere'
  <2>1. reader # NoReader /\ reader' = [reader EXCEPT !.cols = cols]
    BY <1>8 DEF Select, Opened
  <2>2. reader'.group = reader.group /\ reader'.table = reader.table
    BY <1>2, <2>1 DEF Readers
  <2>. QED BY <1>1, <2>1, <2>2
<1>. QED BY <1>3, <1>4, <1>5, <1>6, <1>7, <1>8 DEF ReaderNext

------------------------------------------------------------------------------
(* What the invariant says of the reader.                                   *)

\* The table in memory is the one of the chunk.
LEMMA TableFound == ReaderInv => TableIsCurrent
BY DEF ReaderInv, TableIsCurrent

\* The members of a reader have their types.
LEMMA ReaderTyped == FilesInv /\ ReaderInv => ReaderTypeOK
<1>. SUFFICES ASSUME FilesInv, ReaderInv PROVE ReaderTypeOK
  OBVIOUS
<1>1. reader # NoReader =>
          /\ reader.group \in Groups
          /\ reader.chunk \in Nat /\ reader.seek_id \in Nat
          /\ reader.chunk_num \in Nat /\ reader.vertex_num \in Nat
          /\ reader.filter \in Filters \cup {NoFilter}
          /\ reader.cols \in Selections \cup {NoColumns}
          /\ reader.table \in ReadTables \cup {NoTable}
  BY DEF ReaderInv, Readers, RowFilters
<1>. QED BY <1>1 DEF ReaderInv, ReaderTypeOK, ReadTables

\* GetChunk returns the rows of the file from that of the vertex on.
LEMMA RowDelivered == FilesInv /\ ReaderInv => SeekDeliversRow
<1>. SUFFICES ASSUME FilesInv, ReaderInv,
                     got.status = "OK", aim # NoAim, got.table.filter = NoFilter
              PROVE  /\ Returned = RowsFrom(reader.group, aim)
                     /\ Described /\ aim < reader.vertex_num => Head(Returned).id = aim
  BY DEF SeekDeliversRow
<1>0. reader # NoReader
  BY DEF ReaderInv
<1>1. /\ reader \in Readers(Groups) /\ Readable(CountPath)
      /\ reader.vertex_num = dir[CountPath]
      /\ aim \in Nat /\ reader.seek_id = aim /\ reader.chunk = ChunkOf(aim)
      /\ got.table # NoTable /\ got.table = reader.table /\ got.offset = RowOffset(reader)
      /\ got.table.chunk = ChunkOf(aim)
  BY <1>0 DEF ReaderInv, AimInv, GotInv
<1>. DEFINE rows == dir[<<reader.group, ChunkOf(aim)>>]
            row == RowOf(aim)
<1>2. TableRows(reader.group, got.table) = rows
  BY <1>1, Unfiltered
<1>3. got.offset + 1 = row
  <2>1. /\ aim - ChunkOf(aim) * ChunkSize = row - 1 /\ row \in 1 .. ChunkSize
    BY <1>1, SeekOffset
  <2>. HIDE DEF row
  <2>2. got.offset = row - 1
    BY <1>1, <2>1 DEF RowOffset
  <2>. QED BY <2>1, <2>2, VertexFilesAssumption
<1>4. Returned = SubSeq(rows, row, Len(rows))
  BY <1>2, <1>3 DEF Returned
<1>5. ASSUME Described, aim < reader.vertex_num
      PROVE  Head(SubSeq(rows, row, Len(rows))).id = aim
  <2>1. reader.group \in Groups
    BY <1>1 DEF Readers
  <2>2. aim \in 0 .. dir[CountPath] - 1
    BY <1>1, <1>5, CountType
  <2>3. HasRow(reader.group, aim)
    BY <1>5, <2>1, <2>2 DEF Described
  <2>4. /\ RowAt(reader.group, aim).id = aim /\ row \in 1 .. Len(rows)
        /\ rows \in Seq([id : Nat, val : Values])
    BY <1>1, <2>1, <2>3, RowHasId
  <2>5. rows[row].id = aim
    BY <2>4 DEF RowAt
  <2>. DEFINE S == [id : Nat, val : Values]
  <2>. HIDE DEF rows, row, S
  <2>6. rows \in Seq(S) /\ row \in 1 .. Len(rows)
    BY <2>4 DEF S
  <2>7. Head(SubSeq(rows, row, Len(rows))) = rows[row]
    BY <2>6
  <2>. QED BY <2>5, <2>7
<1>. QED BY <1>4, <1>5 DEF RowsFrom

\* The rows that a filter keeps of some rows are a sequence of such rows.
LEMMA KeptType ==
    ASSUME NEW S, NEW rows \in Seq(S), NEW keep
    PROVE  Kept(rows, keep) \in Seq(S)
<1>. DEFINE n == Len(rows)
            seqs == [i \in 1 .. n |-> IF rows[i].val \in keep THEN <<rows[i]>> ELSE <<>>]
<1>1. n \in Nat /\ DOMAIN rows = 1 .. n
  OBVIOUS
<1>2. ASSUME NEW i \in 1 .. n
      PROVE  (IF rows[i].val \in keep THEN <<rows[i]>> ELSE <<>>) \in Seq(S)
  <2>1. rows[i] \in S
    OBVIOUS
  <2>2. <<rows[i]>> \in Seq(S) /\ <<>> \in Seq(S)
    BY <2>1
  <2>. QED BY <2>2
<1>3. seqs \in [1 .. n -> Seq(S)]
  BY <1>2
<1>4. Kept(rows, keep) = FlattenSeq(seqs)
  BY <1>1 DEF Kept
<1>. HIDE DEF seqs, n
<1>5. CASE n = 0
  <2>1. seqs = <<>>
    BY <1>3, <1>5
  <2>2. FlattenSeq(seqs) = <<>>
    BY <2>1 DEF FlattenSeq
  <2>3. <<>> \in Seq(S)
    OBVIOUS
  <2>. QED BY <1>4, <2>2, <2>3
<1>6. CASE n # 0
  <2>1. n \in Nat \ {0}
    BY <1>1, <1>6
  <2>2. PICK F \in [0 .. n -> Seq(S)] : Joins(F, n, seqs)
    BY <1>3, <2>1, FlattenShape
  <2>3. FlattenSeq(seqs) = F[n] /\ F[n] \in Seq(S)
    BY <2>1, <2>2 DEF Joins
  <2>. QED BY <1>4, <2>3
<1>. QED BY <1>5, <1>6

\* A table from the start of a chunk is returned whole.
LEMMA ScanComplete == FilesInv /\ ReaderInv /\ TableThere => ScanLosesNoRow
<1>. SUFFICES ASSUME FilesInv, ReaderInv, TableThere,
                     got.status = "OK", aim # NoAim, aim % ChunkSize = 0
              PROVE  Returned = TableRows(reader.group, [got.table EXCEPT !.chunk = ChunkOf(aim)])
  BY DEF ScanLosesNoRow
<1>0. reader # NoReader
  BY DEF ReaderInv
<1>1. /\ reader \in Readers(Groups)
      /\ aim \in Nat /\ reader.seek_id = aim /\ reader.chunk = ChunkOf(aim)
      /\ got.table # NoTable /\ got.table = reader.table /\ got.offset = RowOffset(reader)
      /\ got.table.chunk = ChunkOf(aim)
  BY <1>0 DEF ReaderInv, AimInv, GotInv
<1>. DEFINE S == [id : Nat, val : Values]
            path == <<reader.group, got.table.chunk>>
            rows == dir[path]
            table == TableRows(reader.group, got.table)
<1>2. rows \in Seq(S)
  <2>1. /\ reader.group \in 1 .. GroupNum /\ path \in Paths /\ Readable(path)
        /\ GroupNum \in Nat
    BY <1>0, <1>1, VertexFilesAssumption DEF TableThere, Readers, Groups
  <2>2. path # CountPath /\ path[1] # LabelGroup
    BY <2>1 DEF CountPath, LabelGroup
  <2>3. dir[path] \in FileContents(path)
    BY <2>1 DEF FilesInv, Proper
  <2>4. FileContents(path) = Seq(S)
    <3>. HIDE DEF path
    <3>. QED BY <2>2 DEF FileContents
  <2>. QED BY <2>3, <2>4
<1>3. table \in Seq(S)
  <2>1. Kept(rows, got.table.filter.keep) \in Seq(S)
    <3>. HIDE DEF S, rows
    <3>. QED BY <1>2, KeptType
  <2>. QED BY <1>2, <2>1 DEF TableRows
<1>4. got.offset + 1 = 1
  <2>1. RowOf(aim) = 1 /\ aim - ChunkOf(aim) * ChunkSize = RowOf(aim) - 1
    BY <1>1, SeekOffset DEF RowOf
  <2>2. aim - ChunkOf(aim) * ChunkSize = 0
    BY <2>1
  <2>. QED BY <1>1, <2>2 DEF RowOffset
<1>5. Returned = SubSeq(table, 1, Len(table))
  BY <1>4 DEF Returned
<1>6. [got.table EXCEPT !.chunk = ChunkOf(aim)] = got.table
  <2>1. got.table \in ReadTables
    BY <1>1 DEF Readers
  <2>. QED BY <1>1, <2>1 DEF ReadTables
<1>7. SubSeq(table, 1, Len(table)) = table
  <2>. HIDE DEF table, S
  <2>. QED BY <1>3
<1>. QED BY <1>5, <1>6, <1>7

------------------------------------------------------------------------------
(* The filters.                                                             *)

\* Every vertex of a described vertex type has its rows, also the first of each chunk.
LEMMA DescribedRows ==
    ASSUME FilesInv, Described, NEW g \in Groups
    PROVE  /\ \A id \in AllIds :
                 /\ id \in Nat /\ ChunkOf(id) \in AllChunks
                 /\ HasRow(g, id) /\ RowAt(g, id).id = id
                 /\ RowOf(id) \in 1 .. Len(dir[<<g, ChunkOf(id)>>])
           /\ \A k \in AllChunks :
                 /\ k \in Nat /\ <<g, k>> \in ChunkPaths /\ Readable(<<g, k>>)
                 /\ Len(dir[<<g, k>>]) \in 0 .. ChunkSize
                 /\ \A i \in 1 .. Len(dir[<<g, k>>]) :
                       dir[<<g, k>>][i].id = k * ChunkSize + i - 1
<1>0. /\ Readable(CountPath) /\ dir[CountPath] \in Nat
      /\ \A id \in AllIds : id \in Nat /\ ChunkOf(id) \in AllChunks
  BY CountType DEF Described, AllIds, AllChunks
<1>1. \A id \in AllIds :
          /\ HasRow(g, id) /\ RowAt(g, id).id = id
          /\ RowOf(id) \in 1 .. Len(dir[<<g, ChunkOf(id)>>])
          /\ dir[<<g, ChunkOf(id)>>] \in Seq([id : Nat, val : Values])
  BY <1>0, RowHasId DEF Described, AllIds
<1>2. ASSUME NEW k \in AllChunks
      PROVE  /\ k \in Nat /\ <<g, k>> \in ChunkPaths /\ Readable(<<g, k>>)
             /\ Len(dir[<<g, k>>]) \in 0 .. ChunkSize
             /\ \A i \in 1 .. Len(dir[<<g, k>>]) :
                   dir[<<g, k>>][i].id = k * ChunkSize + i - 1
  <2>. DEFINE first == k * ChunkSize + 1 - 1
              rows == dir[<<g, k>>]
  <2>1. /\ k \in Nat /\ k * ChunkSize < dir[CountPath] /\ ChunkSize \in Nat \ {0}
    <3>. DEFINE n == dir[CountPath]
    <3>1. n \in Nat /\ k \in 0 .. ChunkNum(n) - 1
      BY <1>0 DEF AllChunks
    <3>. HIDE DEF n
    <3>2. ChunkNum(n) \in Nat
      BY <3>1, ChunkNumType
    <3>3. k \in Nat /\ k < ChunkNum(n)
      BY <3>1, <3>2
    <3>. QED BY <3>1, <3>3, ChunkNumType, VertexFilesAssumption DEF n
  <2>2. first \in AllIds
    BY <1>0, <2>1 DEF AllIds
  <2>3. ChunkOf(first) = k
    BY <2>1, IdOfRow
  <2>4. <<g, k>> \in ChunkPaths /\ Readable(<<g, k>>) /\ Len(rows) \in Nat
    <3>1. HasRow(g, first)
      BY <1>1, <2>2
    <3>. QED BY <2>3, <3>1 DEF HasRow
  <2>5. Numbered(<<g, k>>, rows)
    BY <2>4 DEF FilesInv, Proper, Paths
  <2>. HIDE DEF rows
  <2>6. Len(rows) <= ChunkSize /\ \A i \in 1 .. Len(rows) : rows[i].id = k * ChunkSize + i - 1
    BY <2>4, <2>5 DEF Numbered
  <2>7. Len(rows) \in 0 .. ChunkSize
    BY <2>1, <2>4, <2>6
  <2>. QED BY <2>1, <2>4, <2>6, <2>7 DEF rows
<1>. QED BY <1>0, <1>1, <1>2

\* A scan of some chunks finds the ids in them whose rows match, and no other: the index
\* column of a row is its id, and there is no row behind the vertex count.
LEMMA PropertyHitsAre ==
    ASSUME FilesInv, Described, NoExcessRows, NEW c, Scanned(c) \subseteq AllChunks,
           NEW f, f.group \in Groups
    PROVE  PropertyHits(c, f) = {id \in AllIds : ChunkOf(id) \in Scanned(c) /\ Satisfies(f, id)}
<1>. DEFINE g == f.group
            Rows(k) == dir[<<g, k>>]
            In(k) == {Rows(k)[i].id : i \in {j \in 1 .. Len(Rows(k)) : Rows(k)[j].val \in f.keep}}
<1>1. PropertyHits(c, f) = UNION {In(k) : k \in Scanned(c)}
  BY DEF PropertyHits
<1>2. ASSUME NEW k \in Scanned(c), NEW i \in 1 .. Len(Rows(k)), Rows(k)[i].val \in f.keep
      PROVE  /\ Rows(k)[i].id \in AllIds /\ ChunkOf(Rows(k)[i].id) = k
             /\ Satisfies(f, Rows(k)[i].id)
  <2>. DEFINE id == Rows(k)[i].id
  <2>1. id \in AllIds
    BY <1>2 DEF NoExcessRows
  <2>2. /\ k \in Nat /\ Len(Rows(k)) \in 0 .. ChunkSize
        /\ id = k * ChunkSize + i - 1
    BY <1>2, DescribedRows
  <2>3. i \in 1 .. ChunkSize
    <3>. HIDE DEF Rows, id
    <3>. QED BY <1>2, <2>2, VertexFilesAssumption
  <2>. HIDE DEF id
  <2>4. ChunkOf(id) = k /\ RowOf(id) = i
    BY <2>2, <2>3, IdOfRow
  <2>5. RowAt(f.group, id) = Rows(k)[i]
    BY <2>4 DEF RowAt
  <2>6. Satisfies(f, id)
    BY <1>2, <2>5 DEF Satisfies
  <2>. QED BY <2>1, <2>4, <2>6 DEF id
<1>3. ASSUME NEW id \in AllIds, ChunkOf(id) \in Scanned(c), Satisfies(f, id)
      PROVE  id \in In(ChunkOf(id))
  <2>1. RowAt(g, id).id = id /\ RowOf(id) \in 1 .. Len(Rows(ChunkOf(id)))
    BY DescribedRows
  <2>2. RowAt(g, id) = Rows(ChunkOf(id))[RowOf(id)] /\ RowAt(g, id).val \in f.keep
    BY <1>3 DEF RowAt, Satisfies
  <2>. HIDE DEF Rows, g
  <2>. QED BY <2>1, <2>2
<1>4. ASSUME NEW id \in PropertyHits(c, f)
      PROVE  id \in AllIds /\ ChunkOf(id) \in Scanned(c) /\ Satisfies(f, id)
  <2>1. PICK k \in Scanned(c) : id \in In(k)
    BY <1>1, <1>4
  <2>2. PICK i \in 1 .. Len(Rows(k)) : Rows(k)[i].val \in f.keep /\ id = Rows(k)[i].id
    BY <2>1
  <2>. HIDE DEF Rows
  <2>. QED BY <1>2, <2>2
<1>. HIDE DEF In
<1>. QED BY <1>1, <1>3, <1>4

\* The same for labels: the rows up to the vertex count are scanned.
LEMMA LabelHitsAre ==
    ASSUME NEW c, Scanned(c) \subseteq AllChunks, NEW L
    PROVE  LabelHits(c, L) = {id \in AllIds : ChunkOf(id) \in Scanned(c) /\ HasLabels(L, id)}
BY DEF LabelHits, IdsOf

\* Ids that were found are in chunks there are.
LEMMA ChunksOfIds ==
    ASSUME FilesInv, Described, NEW ids \in SUBSET AllIds
    PROVE  Chunks(ids) \subseteq AllChunks
<1>1. Readable(CountPath) /\ (\A id \in AllIds : ChunkOf(id) \in AllChunks)
  BY CountType DEF Described, AllIds, AllChunks
<1>. QED BY <1>1 DEF Chunks

------------------------------------------------------------------------------
(* The iterator.                                                            *)

\* The ids of a filtered collection in some order are a sequence of ids.
LEMMA OrdersType ==
    ASSUME FilesInv, Described, NEW ids \in SUBSET AllIds, NEW o \in Orders(ids)
    PROVE  o \in Seq(AllIds)
<1>1. dir[CountPath] \in Nat
  BY CountType DEF Described
<1>2. Cardinality(ids) \in Nat
  <2>. DEFINE last == dir[CountPath] - 1
  <2>1. 0 \in Int /\ last \in Int /\ ids \subseteq 0 .. last
    BY <1>1 DEF AllIds
  <2>. HIDE DEF last
  <2>2. IsFiniteSet(0 .. last)
    BY <2>1, FS_Interval
  <2>. QED BY <2>1, <2>2, FS_Subset, FS_CardinalityType
<1>3. o \in [1 .. Cardinality(ids) -> AllIds]
  BY DEF Orders
<1>. QED BY <1>2, <1>3

\* A new iterator.
LEMMA IterAtType ==
    ASSUME FilesInv, Described, NEW cur \in Nat, NEW filtered \in BOOLEAN,
           NEW order \in Seq(AllIds)
    PROVE  IterInv(IterAt(cur, filtered, order))
<1>1. Readable(CountPath)
  BY DEF Described
<1>2. \A g \in 1 .. LabelGroup :
          /\ NewReader(g, {}) \in Readers(1 .. LabelGroup)
          /\ IterReader(NewReader(g, {}), g)
  BY <1>1, NewReaderType
<1>3. IterAt(cur, filtered, order) \in Iterators
  BY <1>2 DEF IterAt, Iterators
<1>4. \A g \in 1 .. LabelGroup : IterAt(cur, filtered, order).readers[g] = NewReader(g, {})
  BY DEF IterAt
<1>. QED BY <1>2, <1>3, <1>4 DEF IterInv

\* A reader of an iterator that is sent to a vertex delivers its row first.
LEMMA ReaderGoes ==
    ASSUME NEW g \in 1 .. LabelGroup, NEW r \in Readers(1 .. LabelGroup), IterReader(r, g),
           NEW id \in Nat
    PROVE  LET s == Cached(Seek(r, id), "V1")
           IN  /\ s \in Readers(1 .. LabelGroup) /\ IterReader(s, g)
               /\ TableRows(g, s.table) = dir[<<g, ChunkOf(id)>>]
               /\ RowOffset(s) + 1 = RowOf(id)
<1>. DEFINE q == Seek(r, id)
            s == Cached(q, "V1")
<1>1. /\ q \in Readers(1 .. LabelGroup)
      /\ q.chunk = ChunkOf(id)
      /\ RowOffset(q) = RowOf(id) - 1
      /\ q.table = IF ChunkOf(id) = r.chunk THEN r.table ELSE NoTable
      /\ q.group = r.group /\ q.names = r.names /\ q.filter = r.filter /\ q.cols = r.cols
  <2>. DEFINE groups == 1 .. LabelGroup
  <2>1. r \in Readers(groups)
    OBVIOUS
  <2>. HIDE DEF groups
  <2>2. /\ q \in Readers(groups)
        /\ q.chunk = ChunkOf(id)
        /\ RowOffset(q) = RowOf(id) - 1
        /\ q.table = IF ChunkOf(id) = r.chunk THEN r.table ELSE NoTable
        /\ q.group = r.group /\ q.names = r.names /\ q.filter = r.filter /\ q.cols = r.cols
    <3>1. q \in Readers(groups) /\ q.chunk = ChunkOf(id)
      BY <2>1, SeekShape
    <3>2. RowOffset(q) = RowOf(id) - 1
      BY <2>1, SeekShape
    <3>3. q.table = IF ChunkOf(id) = r.chunk THEN r.table ELSE NoTable
      BY <2>1, SeekShape
    <3>4. q.group = r.group /\ q.names = r.names /\ q.filter = r.filter /\ q.cols = r.cols
      BY ZenonT(60), <2>1, SeekShape
    <3>. QED BY <3>1, <3>2, <3>3, <3>4
  <2>. QED BY <2>2 DEF groups
<1>2. IterReader(q, g)
  BY <1>1 DEF IterReader
<1>. HIDE DEF q
<1>3. /\ s \in Readers(1 .. LabelGroup)
      /\ s.table # NoTable
      /\ q.table # NoTable => s.table = q.table
      /\ q.table = NoTable => s.table.chunk = q.chunk /\ s.table.filter = q.filter
      /\ RowOffset(s) = RowOffset(q)
      /\ s.group = q.group /\ s.names = q.names
      /\ s.chunk = q.chunk /\ s.filter = q.filter /\ s.cols = q.cols
  BY ZenonT(60), <1>1, CachedShape
<1>. HIDE DEF s
<1>4. IterReader(s, g) /\ s.table.filter = NoFilter /\ s.table.chunk = ChunkOf(id)
  BY <1>1, <1>2, <1>3 DEF IterReader
<1>5. TableRows(g, s.table) = dir[<<g, ChunkOf(id)>>]
  BY <1>4, Unfiltered
<1>6. RowOffset(s) + 1 = RowOf(id)
  <2>1. RowOf(id) \in 1 .. ChunkSize /\ ChunkSize \in Nat
    BY SeekOffset, VertexFilesAssumption
  <2>. QED BY <1>1, <1>3, <2>1
<1>. QED BY <1>3, <1>4, <1>5, <1>6 DEF s, q

\* What is in sight of an iterator is the row of the vertex its readers were sent to.
LEMMA GoShows ==
    ASSUME NEW i, IterInv(i), NEW gs \in SUBSET (1 .. LabelGroup), NEW id \in Nat
    PROVE  /\ IterInv(Go(i, gs, id))
           /\ Go(i, gs, id).cur = i.cur /\ Go(i, gs, id).filtered = i.filtered
           /\ Go(i, gs, id).order = i.order
           /\ \A g \in gs : Row(Go(i, gs, id), g) = RowAt(g, id)
<1>. DEFINE Moved(g) == Cached(Seek(i.readers[g], id), "V1")
            readers == [g \in 1 .. LabelGroup |-> IF g \in gs THEN Moved(g) ELSE i.readers[g]]
            j == Go(i, gs, id)
<1>1. /\ i \in Iterators
      /\ \A g \in 1 .. LabelGroup :
            i.readers[g] \in Readers(1 .. LabelGroup) /\ IterReader(i.readers[g], g)
      /\ DOMAIN i.readers = 1 .. LabelGroup
  BY DEF IterInv, Iterators
<1>2. \A g \in 1 .. LabelGroup :
          /\ Moved(g) \in Readers(1 .. LabelGroup) /\ IterReader(Moved(g), g)
          /\ TableRows(g, Moved(g).table) = dir[<<g, ChunkOf(id)>>]
          /\ RowOffset(Moved(g)) + 1 = RowOf(id)
  BY <1>1, ReaderGoes
<1>3. j = [i EXCEPT !.readers = readers]
  BY <1>1 DEF Go, Iterators
<1>. HIDE DEF Moved, j
<1>4. readers \in [1 .. LabelGroup -> Readers(1 .. LabelGroup)]
  BY <1>1, <1>2
<1>5. \A g \in 1 .. LabelGroup : readers[g] = IF g \in gs THEN Moved(g) ELSE i.readers[g]
  OBVIOUS
<1>. HIDE DEF readers
<1>6. /\ j \in Iterators /\ j.readers = readers
      /\ j.cur = i.cur /\ j.filtered = i.filtered /\ j.order = i.order
  BY <1>1, <1>3, <1>4 DEF Iterators
<1>7. IterInv(j)
  BY <1>1, <1>2, <1>5, <1>6 DEF IterInv
<1>8. ASSUME NEW g \in gs
      PROVE  Row(j, g) = RowAt(g, id)
  <2>1. j.readers[g] = Moved(g)
    BY <1>5, <1>6
  <2>2. Row(j, g) = TableRows(g, Moved(g).table)[RowOffset(Moved(g)) + 1]
    BY <2>1 DEF Row
  <2>. QED BY <1>2, <2>2 DEF RowAt
<1>. QED BY <1>6, <1>7, <1>8 DEF j

------------------------------------------------------------------------------
(* The steps of the client of a collection.                                 *)

\* What the client's calls leave alone.
LEMMA FilesStayDescribed ==
    ASSUME CollInv, UNCHANGED <<declared, dir, want>>
    PROVE  /\ Described' /\ NoExcessRows'
           /\ (\A id \in DOMAIN want, g \in Groups : Holds(g, id, want[id]))'
<1>1. Described'
  BY DEF CollInv, Described, HasRow, RowAt, Readable
<1>2. NoExcessRows'
  BY TypesStay DEF CollInv, NoExcessRows
<1>3. (\A id \in DOMAIN want, g \in Groups : Holds(g, id, want[id]))'
  BY DEF CollInv, Holds, HasRow, RowAt, Readable
<1>. QED BY <1>1, <1>2, <1>3

\* A call that makes a new collection: one of ids that are expected.
LEMMA NewCollection ==
    ASSUME CollInv, UNCHANGED <<declared, dir, want>>, coll # NoColl \/ NoneYet,
           NEW c \in [filtered : BOOLEAN, ids : SUBSET AllIds, valid : SUBSET AllChunks,
                      sound : BOOLEAN],
           NEW ids \in SUBSET AllIds, Collects(c, ids),
           c.sound /\ c.filtered => c.ids = ids /\ Chunks(c.ids) \subseteq c.valid
    PROVE  CollInv'
<1>1. coll' = c /\ expect' = ids /\ it' = NoIter /\ seen' = NotSeen
  BY DEF Collects, CollInv, NoneYet
<1>2. FilterIsExact'
  BY <1>1 DEF FilterIsExact, Chunks
<1>3. SeenInv'
  BY <1>1 DEF SeenInv, IterShowsVertex, NotSeen
<1>4. coll' # NoColl =>
          coll' \in [filtered : BOOLEAN, ids : SUBSET AllIds, valid : SUBSET AllChunks,
                     sound : BOOLEAN]'
  BY <1>1, TypesStay
<1>5. expect' \subseteq AllIds'
  BY <1>1, TypesStay
<1>. QED BY <1>1, <1>2, <1>3, <1>4, <1>5, FilesStayDescribed DEF CollInv

\* A query on the graph gives the ids that satisfy it.
LEMMA QuerySteps ==
    ASSUME FilesInv, CollInv, UNCHANGED <<declared, dir, want>>,
           \/ MakeCollection
           \/ \E L \in LabelQueries : QueryLabels(L)
           \/ \E g \in Groups, f \in Filters : QueryProperty([group |-> g, keep |-> f.keep])
    PROVE  CollInv'
<1>. DEFINE Colls == [filtered : BOOLEAN, ids : SUBSET AllIds, valid : SUBSET AllChunks,
                      sound : BOOLEAN]
<1>0. /\ Described /\ NoExcessRows
      /\ Scanned(Fresh) = AllChunks
      /\ \A id \in AllIds : ChunkOf(id) \in AllChunks
  <2>1. Readable(CountPath)
    BY DEF CollInv, Described
  <2>. QED BY <2>1, CountType DEF CollInv, Scanned, Fresh, AllIds, AllChunks
<1>1. CASE MakeCollection
  <2>1. Fresh \in Colls /\ ~Fresh.filtered
    BY DEF Fresh
  <2>. QED BY <1>1, <2>1, NewCollection DEF MakeCollection
<1>2. ASSUME NEW hits \in SUBSET AllIds, NoneYet, Collects(FromGraph(hits), hits)
      PROVE  CollInv'
  <2>1. Chunks(hits) \subseteq AllChunks
    BY <1>0, ChunksOfIds
  <2>2. /\ FromGraph(hits) \in Colls
        /\ FromGraph(hits).ids = hits /\ FromGraph(hits).valid = Chunks(hits)
    BY <2>1 DEF FromGraph
  <2>. QED BY <1>2, <2>2, NewCollection
<1>3. ASSUME NEW L \in LabelQueries, QueryLabels(L)
      PROVE  CollInv'
  <2>1. /\ NoneYet
        /\ \/ Collects(FromGraph(LabelHits(Fresh, L)), Satisfying(L))
           \/ Collects(FromGraphByAcero, Satisfying(L))
    BY <1>3 DEF QueryLabels
  <2>2. LabelHits(Fresh, L) = Satisfying(L) /\ Satisfying(L) \in SUBSET AllIds
    BY <1>0, LabelHitsAre DEF Satisfying
  <2>3. FromGraphByAcero \in Colls /\ ~FromGraphByAcero.sound
    BY DEF FromGraphByAcero
  <2>. QED BY <1>2, <2>1, <2>2, <2>3, NewCollection
<1>4. ASSUME NEW g \in Groups, NEW keep, QueryProperty([group |-> g, keep |-> keep])
      PROVE  CollInv'
  <2>. DEFINE f == [group |-> g, keep |-> keep]
  <2>1. /\ NoneYet
        /\ Collects(FromGraph(PropertyHits(Fresh, f)), Keeping(f))
    BY <1>4 DEF QueryProperty
  <2>2. f.group \in Groups
    OBVIOUS
  <2>. HIDE DEF f
  <2>3. PropertyHits(Fresh, f) = Keeping(f) /\ Keeping(f) \in SUBSET AllIds
    BY <1>0, <2>2, PropertyHitsAre DEF Keeping
  <2>. QED BY <1>2, <2>1, <2>3
<1>. QED BY <1>1, <1>3, <1>4

\* A filter of a collection gives the ids of the collection that satisfy it.
LEMMA NarrowSteps ==
    ASSUME FilesInv, CollInv, UNCHANGED <<declared, dir, want>>,
           \/ \E L \in LabelQueries : NarrowByLabels(L)
           \/ \E l \in Labels : NarrowByLabel(l)
           \/ \E g \in Groups, f \in Filters : NarrowByProperty([group |-> g, keep |-> f.keep])
    PROVE  CollInv'
<1>. DEFINE Colls == [filtered : BOOLEAN, ids : SUBSET AllIds, valid : SUBSET AllChunks,
                      sound : BOOLEAN]
<1>0. /\ Described /\ NoExcessRows /\ expect \subseteq AllIds
      /\ Scanned(Fresh) = AllChunks
      /\ \A id \in AllIds : ChunkOf(id) \in AllChunks
      /\ coll # NoColl => coll \in Colls /\ Scanned(coll) \subseteq AllChunks
      /\ coll # NoColl /\ coll.sound /\ coll.filtered =>
            coll.ids = expect /\ Chunks(coll.ids) \subseteq coll.valid
      /\ coll # NoColl /\ coll.filtered => Scanned(coll) = coll.valid
  <2>1. Readable(CountPath)
    BY DEF CollInv, Described
  <2>. QED BY <2>1, CountType
       DEF CollInv, Scanned, Fresh, AllIds, AllChunks, FilterIsExact
\* Of the chunks that are scanned all that satisfy the filter are found.
<1>1. ASSUME coll # NoColl, NEW scan \in SUBSET AllChunks, NEW good \in SUBSET AllIds,
             NEW hits, hits = {id \in good : ChunkOf(id) \in scan},
             NEW valid, valid = Chunks(hits) \/ (~coll.filtered /\ valid = {}),
             coll.sound /\ coll.filtered => Chunks(coll.ids) \subseteq scan,
             Collects(Narrow(coll, hits, valid), expect \cap good)
      PROVE  CollInv'
  <2>. DEFINE c == Narrow(coll, hits, valid)
  <2>1. /\ hits \in SUBSET AllIds /\ Chunks(hits) \subseteq AllChunks
        /\ expect \cap good \in SUBSET AllIds
    BY <1>0, <1>1, ChunksOfIds
  <2>2. /\ c.filtered = coll.filtered /\ c.sound = (coll.sound /\ coll.filtered)
        /\ c.ids = IF coll.filtered THEN hits \cap coll.ids ELSE hits
        /\ c.valid = valid
    BY DEF Narrow
  <2>3. c \in Colls
    <3>1. coll.filtered \in BOOLEAN /\ (coll.sound /\ coll.filtered) \in BOOLEAN
      BY <1>0, <1>1
    <3>2. (IF coll.filtered THEN hits \cap coll.ids ELSE hits) \in SUBSET AllIds
      BY <2>1
    <3>3. valid \in SUBSET AllChunks
      BY <1>1, <2>1
    <3>. QED BY <3>1, <3>2, <3>3 DEF Narrow
  <2>. HIDE DEF c
  <2>4. ASSUME c.sound, c.filtered
        PROVE  c.ids = expect \cap good /\ Chunks(c.ids) \subseteq c.valid
    <3>1. coll.ids = expect /\ Chunks(coll.ids) \subseteq scan /\ valid = Chunks(hits)
          /\ c.ids = hits \cap coll.ids
      BY <1>0, <1>1, <2>2, <2>4
    <3>2. \A id \in expect : ChunkOf(id) \in scan
      BY <3>1 DEF Chunks
    <3>3. hits \cap coll.ids = expect \cap good
      BY <1>1, <3>1, <3>2
    <3>4. Chunks(hits \cap coll.ids) \subseteq Chunks(hits)
      BY DEF Chunks
    <3>. QED BY <2>2, <3>1, <3>3, <3>4
  <2>. QED BY <1>1, <2>1, <2>3, <2>4, NewCollection DEF c
<1>2. ASSUME coll # NoColl, NEW good \in SUBSET AllIds, NEW hits,
             hits = {id \in good : ChunkOf(id) \in Scanned(coll)},
             Collects(WithHits(coll, hits), expect \cap good)
      PROVE  CollInv'
  <2>. DEFINE valid == IF coll.filtered THEN Chunks(hits) ELSE {}
  <2>1. Collects(Narrow(coll, hits, valid), expect \cap good)
    BY <1>2 DEF WithHits
  <2>2. valid = Chunks(hits) \/ (~coll.filtered /\ valid = {})
    OBVIOUS
  <2>3. Scanned(coll) \in SUBSET AllChunks
    BY <1>0, <1>2
  <2>4. coll.sound /\ coll.filtered => Chunks(coll.ids) \subseteq Scanned(coll)
    BY <1>0, <1>2
  <2>. HIDE DEF valid
  <2>. QED BY <1>1, <1>2, <2>1, <2>2, <2>3, <2>4
<1>3. ASSUME NEW l \in Labels, NarrowByLabel(l)
      PROVE  CollInv'
  <2>. DEFINE hits == LabelHits(Fresh, {l})
              good == Satisfying({l})
  <2>1. coll # NoColl /\ Collects(Narrow(coll, hits, Chunks(hits)), expect \cap good)
    BY <1>3 DEF NarrowByLabel, HasColl, WithLabel
  <2>2. good \in SUBSET AllIds /\ hits = {id \in good : ChunkOf(id) \in AllChunks}
    BY <1>0, LabelHitsAre DEF Satisfying
  <2>3. coll.sound /\ coll.filtered => Chunks(coll.ids) \subseteq AllChunks
    <3>1. coll.ids \in SUBSET AllIds
      BY <1>0, <2>1
    <3>. QED BY <1>0, <3>1, ChunksOfIds
  <2>. HIDE DEF hits, good
  <2>. QED BY <1>1, <2>1, <2>2, <2>3
<1>4. ASSUME NEW L \in LabelQueries, NarrowByLabels(L)
      PROVE  CollInv'
  <2>. DEFINE hits == LabelHits(coll, L)
              good == Satisfying(L)
  <2>1. coll # NoColl /\ Collects(WithHits(coll, hits), expect \cap good)
    BY <1>4 DEF NarrowByLabels, HasColl
  <2>2. good \in SUBSET AllIds /\ hits = {id \in good : ChunkOf(id) \in Scanned(coll)}
    BY <1>0, <2>1, LabelHitsAre DEF Satisfying
  <2>. HIDE DEF hits, good
  <2>. QED BY <1>2, <2>1, <2>2
<1>5. ASSUME NEW g \in Groups, NEW keep, NarrowByProperty([group |-> g, keep |-> keep])
      PROVE  CollInv'
  <2>. DEFINE f == [group |-> g, keep |-> keep]
              hits == PropertyHits(coll, f)
              good == Keeping(f)
  <2>1. coll # NoColl /\ Collects(WithHits(coll, hits), expect \cap good)
    BY <1>5 DEF NarrowByProperty, HasColl
  <2>2. f.group \in Groups
    OBVIOUS
  <2>3. good \in SUBSET AllIds /\ hits = {id \in good : ChunkOf(id) \in Scanned(coll)}
    <3>. HIDE DEF f
    <3>. QED BY <1>0, <2>1, <2>2, PropertyHitsAre DEF Keeping
  <2>. HIDE DEF hits, good
  <2>. QED BY <1>2, <2>1, <2>3
<1>. QED BY <1>3, <1>4, <1>5

------------------------------------------------------------------------------
(* The steps of the client of an iterator.                                  *)

\* An iterator that is not at the end stands on a vertex.
LEMMA StandsOnVertex ==
    ASSUME FilesInv, CollInv, InRange
    PROVE  /\ it # NoIter /\ IterInv(it) /\ coll = NoColl
           /\ Id(it) \in AllIds /\ Id(it) \in Nat /\ it.cur \in Nat
<1>1. /\ it # NoIter /\ IterInv(it) /\ coll = NoColl
      /\ it.cur \in Nat /\ it.filtered \in BOOLEAN /\ it.order \in Seq(AllIds)
      /\ it.cur < IF it.filtered THEN Len(it.order) ELSE dir[CountPath]
  BY DEF InRange, CollInv, IterInv, Iterators
<1>2. dir[CountPath] \in Nat
  BY CountType DEF CollInv, Described
<1>3. AllIds \subseteq Nat
  BY <1>2 DEF AllIds
<1>4. CASE it.filtered
  <2>1. Id(it) = it.order[it.cur + 1] /\ it.cur < Len(it.order)
    BY <1>1, <1>4 DEF Id
  <2>. DEFINE S == AllIds
              o == it.order
              i == it.cur + 1
  <2>2. o \in Seq(S) /\ i \in 1 .. Len(o)
    BY <1>1, <2>1
  <2>. HIDE DEF S, o, i
  <2>3. o[i] \in S
    BY <2>2
  <2>. QED BY <1>1, <1>3, <2>1, <2>3 DEF S, o, i
<1>5. CASE ~it.filtered
  BY <1>1, <1>2, <1>5 DEF Id, AllIds
<1>. QED BY <1>1, <1>4, <1>5

\* The iterator moves its readers, or its offset, and shows what is said here.
LEMMA Shows ==
    ASSUME CollInv, UNCHANGED <<declared, dir, want>>, it # NoIter, coll = NoColl,
           NEW i, IterInv(i), NEW what, Sees(i, what), SeenInv'
    PROVE  CollInv'
<1>1. it' = i /\ coll' = NoColl /\ expect' = expect
  BY DEF Sees
<1>2. it' # NoIter /\ IterInv(it)'
  <2>1. i.cur \in Nat
    BY DEF IterInv, Iterators
  <2>2. i # NoIter
    BY <2>1 DEF NoIter
  <2>3. Iterators' = Iterators
    BY TypesStay DEF Iterators
  <2>. QED BY <1>1, <2>2, <2>3 DEF IterInv
<1>3. expect' \subseteq AllIds'
  BY <1>1, TypesStay DEF CollInv
<1>4. FilterIsExact'
  BY <1>1 DEF FilterIsExact
<1>. QED BY <1>1, <1>2, <1>3, <1>4, FilesStayDescribed DEF CollInv

\* begin and find: the iterator has shown nothing yet.
LEMMA BeginSteps ==
    ASSUME FilesInv, CollInv, UNCHANGED <<declared, dir, want>>,
           begin \/ \E id \in SeekIds : find(id)
    PROVE  CollInv'
<1>0. Described
  BY DEF CollInv
<1>1. ASSUME NEW i, IterInv(i), HasColl, Iterates(i)
      PROVE  CollInv'
  <2>1. it' = i /\ coll' = NoColl /\ expect' = {} /\ seen' = NotSeen
    BY <1>1 DEF Iterates, HasColl, CollInv
  <2>2. it' # NoIter /\ IterInv(it)'
    <3>1. i.cur \in Nat
      BY <1>1 DEF IterInv, Iterators
    <3>2. i # NoIter
      BY <3>1 DEF NoIter
    <3>3. Iterators' = Iterators
      BY TypesStay DEF Iterators
    <3>. QED BY <1>1, <2>1, <3>2, <3>3 DEF IterInv
  <2>3. FilterIsExact'
    BY <2>1 DEF FilterIsExact
  <2>4. SeenInv'
    BY <2>1 DEF SeenInv, IterShowsVertex, NotSeen
  <2>. QED BY <2>1, <2>2, <2>3, <2>4, FilesStayDescribed DEF CollInv
<1>2. CASE begin
  <2>1. PICK o \in Orders(IF coll.filtered THEN coll.ids ELSE {}) :
            Iterates(IterAt(0, coll.filtered, o))
    BY <1>2 DEF begin
  <2>2. HasColl /\ coll.filtered \in BOOLEAN /\ coll.ids \in SUBSET AllIds
    BY <1>2 DEF begin, HasColl, CollInv
  <2>3. (IF coll.filtered THEN coll.ids ELSE {}) \in SUBSET AllIds
    BY <2>2
  <2>4. o \in Seq(AllIds)
    BY <1>0, <2>3, OrdersType
  <2>. QED BY <1>0, <1>1, <2>1, <2>2, <2>4, IterAtType
<1>3. ASSUME NEW id \in SeekIds, find(id)
      PROVE  CollInv'
  <2>1. HasColl /\ Iterates(IterAt(id, FALSE, <<>>)) /\ id \in Nat
    BY <1>3, ReaderAssumption DEF find
  <2>2. <<>> \in Seq(AllIds)
    OBVIOUS
  <2>. QED BY <1>0, <1>1, <2>1, <2>2, IterAtType
<1>. QED BY <1>2, <1>3

\* What an access shows is the row of the vertex.
LEMMA AccessSteps ==
    ASSUME FilesInv, CollInv, UNCHANGED <<declared, dir, want>>,
           \/ Deref
           \/ \E g \in Groups : property(g)
           \/ label
           \/ \E l \in Labels : hasLabel(l)
    PROVE  CollInv'
<1>0. /\ InRange /\ GroupNum \in Nat /\ LabelGroup = GroupNum + 1 /\ Groups = 1 .. GroupNum
      /\ Described
  BY VertexFilesAssumption DEF Deref, property, label, hasLabel, LabelGroup, Groups, CollInv
<1>1. /\ it # NoIter /\ IterInv(it) /\ coll = NoColl
      /\ Id(it) \in AllIds /\ Id(it) \in Nat /\ it.cur \in Nat
  BY <1>0, StandsOnVertex
<1>2. ASSUME NEW gs \in SUBSET (1 .. LabelGroup), NEW id \in Nat
      PROVE  /\ IterInv(Go(it, gs, id))
             /\ Id(Go(it, gs, id)) = Id(it)
             /\ Go(it, gs, id).cur = it.cur /\ Go(it, gs, id).filtered = it.filtered
             /\ \A g \in gs : Row(Go(it, gs, id), g) = RowAt(g, id)
  BY <1>1, GoShows DEF Id
<1>3. ASSUME NEW i, NEW what, Sees(i, what), Id(i) = Id(it), i.filtered = it.filtered
      PROVE  /\ it' = i /\ seen' = what /\ Id(it)' = Id(it) /\ it'.filtered = it.filtered
             /\ \A g, id : RowAt(g, id)' = RowAt(g, id)
  BY <1>3 DEF Sees, Id, RowAt
<1>4. CASE Deref
  <2>. DEFINE i == Go(it, Groups, Id(it))
              rows == [g \in Groups |-> Row(i, g)]
  <2>1. Sees(i, [kind |-> "vertex", id |-> it.cur, rows |-> rows])
    BY <1>4 DEF Deref
  <2>2. /\ IterInv(i) /\ Id(i) = Id(it) /\ i.filtered = it.filtered
        /\ \A g \in Groups : Row(i, g) = RowAt(g, Id(it))
    BY <1>0, <1>1, <1>2
  <2>3. \A g \in Groups : rows[g] = RowAt(g, Id(it)) /\ rows[g].id = Id(it)
    <3>1. \A g \in Groups : RowAt(g, Id(it)).id = Id(it)
      BY <1>0, <1>1, DescribedRows
    <3>. HIDE DEF i
    <3>2. \A g \in Groups : rows[g] = Row(i, g)
      OBVIOUS
    <3>. QED BY <2>2, <3>1, <3>2
  <2>. HIDE DEF i, rows
  <2>4. /\ it' = i /\ seen' = [kind |-> "vertex", id |-> it.cur, rows |-> rows]
        /\ Id(it)' = Id(it) /\ it'.filtered = it.filtered
        /\ \A g, id : RowAt(g, id)' = RowAt(g, id)
    BY <1>3, <2>1, <2>2
  <2>5. seen'.kind = "vertex" /\ seen'.rows = rows /\ seen'.id = it.cur
    BY <2>4
  <2>6. ~it.filtered => Id(it) = it.cur
    BY DEF Id
  <2>7. \A g \in Groups : RowAt(g, Id(it))' = RowAt(g, Id(it))
    BY <2>4 DEF RowAt
  <2>8. SeenInv'
    BY <2>3, <2>4, <2>5, <2>6, <2>7 DEF SeenInv, IterShowsVertex
  <2>. QED BY <1>1, <2>1, <2>2, <2>8, Shows
<1>5. ASSUME NEW g \in Groups, property(g)
      PROVE  CollInv'
  <2>. DEFINE i == Go(it, GroupsUpTo(g), Id(it))
              row == Row(i, g)
  <2>1. Sees(i, [kind |-> "property", group |-> g, row |-> row])
    BY <1>5 DEF property
  <2>2. /\ IterInv(i) /\ Id(i) = Id(it) /\ i.filtered = it.filtered
        /\ row = RowAt(g, Id(it))
    <3>1. GroupsUpTo(g) \in SUBSET (1 .. LabelGroup) /\ g \in GroupsUpTo(g)
      BY <1>0 DEF GroupsUpTo
    <3>. QED BY <1>1, <1>2, <3>1
  <2>. HIDE DEF i, row
  <2>3. /\ it' = i /\ seen' = [kind |-> "property", group |-> g, row |-> row]
        /\ Id(it)' = Id(it)
    BY <1>3, <2>1, <2>2
  <2>4. seen'.kind = "property" /\ seen'.row = row /\ seen'.group = g
    BY <2>3
  <2>5. RowAt(seen.group, Id(it))' = RowAt(g, Id(it))
    BY <2>3, <2>4 DEF RowAt
  <2>6. SeenInv'
    BY <2>2, <2>4, <2>5 DEF SeenInv, IterShowsVertex
  <2>. QED BY <1>1, <2>1, <2>2, <2>6, Shows
<1>6. CASE label
  <2>. DEFINE i == Go(it, {LabelGroup}, Id(it))
              row == Row(i, LabelGroup)
  <2>1. Sees(i, [kind |-> "label", labels |-> row])
    BY <1>6 DEF label
  <2>2. /\ IterInv(i) /\ Id(i) = Id(it) /\ i.filtered = it.filtered
        /\ row = RowAt(LabelGroup, Id(it))
    <3>1. {LabelGroup} \in SUBSET (1 .. LabelGroup)
      BY <1>0
    <3>. QED BY <1>1, <1>2, <3>1
  <2>. HIDE DEF i, row
  <2>3. /\ it' = i /\ seen' = [kind |-> "label", labels |-> row]
        /\ Id(it)' = Id(it)
    BY <1>3, <2>1, <2>2
  <2>4. seen'.kind = "label" /\ seen'.labels = row
    BY <2>3
  <2>5. RowAt(LabelGroup, Id(it))' = RowAt(LabelGroup, Id(it))
    BY <2>3 DEF RowAt
  <2>6. SeenInv'
    BY <2>2, <2>4, <2>5 DEF SeenInv, IterShowsVertex
  <2>. QED BY <1>1, <2>1, <2>2, <2>6, Shows
<1>7. ASSUME NEW l \in Labels, hasLabel(l)
      PROVE  CollInv'
  <2>. DEFINE i == Go(it, {LabelGroup}, it.cur)
              has == l \in Row(i, LabelGroup)
  <2>1. Sees(i, [kind |-> "has_label", label |-> l, has |-> has])
    BY <1>7 DEF hasLabel
  <2>2. /\ IterInv(i) /\ Id(i) = Id(it) /\ i.filtered = it.filtered
        /\ has = (l \in RowAt(LabelGroup, it.cur))
    <3>1. {LabelGroup} \in SUBSET (1 .. LabelGroup)
      BY <1>0
    <3>. QED BY <1>1, <1>2, <3>1
  <2>3. ~it.filtered => Id(it) = it.cur
    BY DEF Id
  <2>. HIDE DEF i, has
  <2>4. /\ it' = i /\ seen' = [kind |-> "has_label", label |-> l, has |-> has]
        /\ Id(it)' = Id(it) /\ it'.filtered = it.filtered
    BY <1>3, <2>1, <2>2
  <2>5. seen'.kind = "has_label" /\ seen'.has = has /\ seen'.label = l
    BY <2>4
  <2>6. RowAt(LabelGroup, Id(it))' = RowAt(LabelGroup, Id(it))
    BY <2>4 DEF RowAt
  <2>7. SeenInv'
    BY <2>2, <2>3, <2>4, <2>5, <2>6 DEF SeenInv, IterShowsVertex
  <2>. QED BY <1>1, <2>1, <2>2, <2>7, Shows
<1>. QED BY <1>4, <1>5, <1>6, <1>7

\* ++ and += keep the readers.
LEMMA AdvanceStep ==
    ASSUME FilesInv, CollInv, UNCHANGED <<declared, dir, want>>,
           NEW n \in 1 .. 2, Advance(n)
    PROVE  CollInv'
<1>1. it # NoIter /\ coll = NoColl /\ IterInv(it)
  BY DEF Advance, CollInv
<1>2. Sees([it EXCEPT !.cur = @ + n], NotSeen)
  BY DEF Advance
<1>3. IterInv([it EXCEPT !.cur = @ + n])
  BY <1>1 DEF IterInv, Iterators
<1>4. SeenInv'
  BY <1>2 DEF Sees, SeenInv, IterShowsVertex, NotSeen
<1>. QED BY <1>1, <1>2, <1>3, <1>4, Shows

\* Every call keeps the invariant of collections and iterators.
LEMMA CollStep ==
    ASSUME FilesInv, CollInv, UNCHANGED <<declared, dir, want>>, CollNext
    PROVE  CollInv'
BY QuerySteps, NarrowSteps, BeginSteps, AccessSteps, AdvanceStep DEF CollNext

------------------------------------------------------------------------------
(* The life of a vertex type.                                               *)

\* The invariant holds at the beginning: nothing is written, and there is no reader.
LEMMA StoreStarts ==
    ASSUME Init
    PROVE  StoreInv
<1>1. BuilderInv /\ reading = "none"
  BY BuilderStarts DEF Init
<1>2. /\ reader = NoReader /\ got = Nothing /\ aim = NoAim /\ running = TRUE
      /\ coll = NoColl /\ it = NoIter /\ seen = NotSeen /\ expect = {}
  BY DEF Init, ReaderInit, CollInit
<1>3. ReaderInv /\ TableThere
  BY <1>2 DEF ReaderInv, TableThere, Nothing
<1>. QED BY <1>1, <1>2, <1>3 DEF StoreInv, BuilderInv

\* The first process writes.
LEMMA WritesStep ==
    ASSUME StoreInv, Writes
    PROVE  StoreInv'
<1>1. /\ reading = "none" /\ reading' = "none"
      /\ UNCHANGED <<reader, got, aim, running, coll, it, seen, expect>>
      /\ BuilderNext
  BY DEF Writes, readerVars, collVars
<1>2. BuilderInv'
  BY <1>1, BuilderSteps DEF StoreInv, BuilderInv
<1>3. ReaderInv' /\ TableThere'
  <2>1. reader = NoReader
    BY <1>1 DEF StoreInv
  <2>. QED BY <1>1, <2>1 DEF StoreInv, ReaderInv, TableThere
<1>. QED BY <1>1, <1>2, <1>3 DEF StoreInv, BuilderInv

\* The second process starts: what the last Dump of the first one has published is there.
LEMMA StartStep ==
    ASSUME StoreInv, StartReading
    PROVE  StoreInv'
<1>1. /\ reading = "none" /\ reading' \in {"chunks", "vertices"}
      /\ result.status = "OK" /\ Described /\ NoExcessRows
      /\ want' = IF reading' = "vertices" THEN [id \in PublishedIds |-> want[id]] ELSE NoIds
      /\ builder' = NewBuilder(0) /\ result' = NoResult /\ orderly' = TRUE
      /\ UNCHANGED <<declared, dir, job>>
      /\ UNCHANGED <<reader, got, aim, running, coll, it, seen, expect>>
  BY DEF StartReading, readerVars, collVars
<1>2. FilesInv' /\ MembersInv'
  <2>1. FilesInv'
    BY <1>1 DEF StoreInv, FilesInv, Readable, Proper, FileContents, Numbered
  <2>2. MembersInv'
    BY <1>1, NewBuilderType DEF MembersInv, Filled
  <2>. QED BY <2>1, <2>2
<1>3. JobInv'
  <2>1. job = NoJob
    BY <1>1 DEF StoreInv, JobInv, NoResult
  <2>2. Entries' = Entries
    BY <1>1 DEF Entries, Proper, FileContents, Numbered
  <2>. QED BY <1>1, <2>1, <2>2 DEF StoreInv, JobInv, NoResult, Kinds, Statuses
<1>4. Described' /\ NoExcessRows'
  <2>1. Described'
    BY <1>1 DEF Described, HasRow, RowAt, Readable
  <2>2. NoExcessRows'
    BY <1>1, TypesStay DEF NoExcessRows
  <2>. QED BY <2>1, <2>2
<1>5. ReaderInv' /\ TableThere' /\ reader' = NoReader
  BY <1>1 DEF StoreInv, ReaderInv, TableThere
<1>6. coll' = NoColl /\ it' = NoIter /\ seen' = NotSeen /\ expect' = {}
  BY <1>1 DEF StoreInv
<1>7. ASSUME reading' = "vertices"
      PROVE  CollInv'
  <2>1. want' = [id \in PublishedIds |-> want[id]]
    BY <1>1, <1>7
  <2>2. \A id \in PublishedIds, g \in Groups : Holds(g, id, want[id])
    BY <1>1 DEF PublishedIds, StoreInv, Collected
  <2>3. \A id \in DOMAIN want' : id \in PublishedIds /\ want'[id] = want[id]
    BY <2>1
  <2>4. (\A id \in DOMAIN want, g \in Groups : Holds(g, id, want[id]))'
    BY <1>1, <2>2, <2>3 DEF Holds, HasRow, RowAt, Readable
  <2>. QED BY <1>4, <1>6, <2>4 DEF CollInv, FilterIsExact, SeenInv, IterShowsVertex, NotSeen
<1>. QED BY <1>1, <1>2, <1>3, <1>4, <1>5, <1>6, <1>7 DEF StoreInv

\* The first process has ended, and the files stay as they are.
LEMMA FilesStay ==
    ASSUME StoreInv, UNCHANGED builderVars
    PROVE  /\ FilesInv' /\ MembersInv' /\ JobInv'
           /\ UNCHANGED <<declared, dir, want, orderly, result, clean, builder, job>>
           /\ Described => Described'
<1>1. UNCHANGED <<declared, dir, want, orderly, result, clean, builder, job>>
  BY DEF builderVars, history
<1>2. FilesInv' /\ MembersInv'
  BY <1>1 DEF StoreInv, FilesInv, MembersInv, Readable, Proper, FileContents, Numbered, Filled
<1>3. JobInv'
  <2>1. Entries' = Entries
    BY <1>1 DEF Entries, Proper, FileContents, Numbered
  <2>. QED BY <1>1, <2>1 DEF StoreInv, JobInv
<1>4. Described => Described'
  BY <1>1 DEF Described, HasRow, RowAt, Readable
<1>. QED BY <1>1, <1>2, <1>3, <1>4

\* The second process reads.
LEMMA ReadsSteps ==
    ASSUME StoreInv, ReadsChunks \/ ReadsVertices
    PROVE  StoreInv'
<1>1. UNCHANGED builderVars /\ UNCHANGED reading
  BY DEF ReadsChunks, ReadsVertices
<1>2. /\ FilesInv' /\ MembersInv' /\ JobInv'
      /\ UNCHANGED <<declared, dir, want, orderly, result>>
      /\ Described => Described'
  BY <1>1, FilesStay
<1>3. CASE ReadsChunks
  <2>1. ReaderInv' /\ TableThere'
    BY <1>2, <1>3, ReaderStep, TableStep DEF ReadsChunks, StoreInv
  <2>. QED BY <1>1, <1>2, <1>3, <2>1 DEF ReadsChunks, StoreInv, collVars
<1>4. CASE ReadsVertices
  <2>1. CollInv'
    BY <1>2, <1>4, CollStep DEF ReadsVertices, StoreInv
  <2>2. UNCHANGED readerVars
    BY <1>4 DEF ReadsVertices, CollNext, MakeCollection, QueryLabels, QueryProperty,
                NarrowByLabel, NarrowByLabels, NarrowByProperty, Collects, begin, find,
                Iterates, Deref, property, label, hasLabel, Advance, Sees
  <2>3. ReaderInv' /\ TableThere' /\ reader' = NoReader
    BY <1>4, <2>2 DEF ReadsVertices, StoreInv, ReaderInv, TableThere, readerVars
  <2>. QED BY <1>1, <1>2, <1>4, <2>1, <2>3 DEF ReadsVertices, StoreInv
<1>. QED BY <1>3, <1>4

\* Nothing happens.
LEMMA StoreStutters ==
    ASSUME StoreInv, UNCHANGED storeVars
    PROVE  StoreInv'
<1>1. /\ UNCHANGED builderVars /\ UNCHANGED reading
      /\ UNCHANGED <<reader, got, aim, running, coll, it, seen, expect>>
  BY DEF storeVars, readerVars, collVars
<1>2. /\ FilesInv' /\ MembersInv' /\ JobInv'
      /\ UNCHANGED <<declared, dir, want, orderly, result, clean, builder, job>>
      /\ Described => Described'
  BY <1>1, FilesStay
<1>3. /\ Collected => Collected'
      /\ Published => Published'
      /\ InOrder => InOrder'
  <2>1. Landing(job.todo, CountPath)' = Landing(job.todo, CountPath)
    BY <1>2 DEF Landing
  <2>2. \A g, id : WillHaveRow(job.todo, g, id)' <=> WillHaveRow(job.todo, g, id)
    BY <1>2 DEF WillHaveRow, Landing
  <2>3. \A g, id, val : WillHold(job.todo, g, id, val)' <=> WillHold(job.todo, g, id, val)
    BY <1>2, <2>2 DEF WillHold, Landing
  <2>4. \A g, id : HasRow(g, id)' <=> HasRow(g, id)
    BY <1>2 DEF HasRow, Readable
  <2>5. Collected => Collected'
    BY <1>2 DEF Collected, Holds, HasRow, RowAt, Readable
  <2>6. Published => Published'
    <3>1. \A g, id : WillHold(job.todo, g, id, want[id])' <=> WillHold(job.todo, g, id, want[id])
      BY <1>2, <2>3 DEF WillHold
    <3>. QED BY <1>2, <2>1, <3>1 DEF Published
  <2>7. InOrder => InOrder'
    <3>1. /\ Covers(dir[CountPath])' <=> Covers(dir[CountPath])
          /\ Covers(job.rows)' <=> Covers(job.rows)
          /\ Covers(result.rows)' <=> Covers(result.rows)
      BY <1>2, <2>4 DEF Covers
    <3>2. /\ WillCover(job.todo, builder.start + builder.num)'
                <=> WillCover(job.todo, builder.start + builder.num)
          /\ WillCover(job.todo, job.rows)' <=> WillCover(job.todo, job.rows)
      BY <1>2, <2>2 DEF WillCover
    <3>. QED BY <1>2, <3>1, <3>2 DEF InOrder, Readable
  <2>. QED BY <2>5, <2>6, <2>7
<1>4. ReaderInv' /\ TableThere'
  BY <1>1, <1>2, TypesStay
  DEF StoreInv, ReaderInv, TableThere, Readable, AimInv, GotInv, RowOffset
<1>5. reading = "vertices" => CollInv'
  <2>. SUFFICES ASSUME reading = "vertices" PROVE CollInv'
    OBVIOUS
  <2>1. CollInv
    BY DEF StoreInv
  <2>2. it' # NoIter => IterInv(it)'
    <3>1. Iterators' = Iterators
      BY <1>2, TypesStay DEF Iterators
    <3>. QED BY <1>1, <2>1, <3>1 DEF CollInv, IterInv
  <2>3. SeenInv'
    BY <1>1, <1>2, <2>1 DEF CollInv, SeenInv, IterShowsVertex, Id, RowAt
  <2>4. FilterIsExact'
    BY <1>1, <2>1 DEF CollInv, FilterIsExact, Chunks
  <2>. QED BY <1>1, <1>2, <2>1, <2>2, <2>3, <2>4, FilesStayDescribed, TypesStay DEF CollInv
<1>. QED BY <1>1, <1>2, <1>3, <1>4, <1>5 DEF StoreInv

\* The inductive invariant of the vertex store.
LEMMA StoreInvariant == Spec => []StoreInv
<1>1. StoreInv /\ [Next]_storeVars => StoreInv'
  BY WritesStep, StartStep, ReadsSteps, StoreStutters DEF Next
<1>. QED BY StoreStarts, <1>1, PTL DEF Spec

------------------------------------------------------------------------------
(* What a client of the second process gets is what one of the first wrote. *)

\* The columns that are read from a file give what the row holds.
LEMMA ColumnsGive ==
    ASSUME NEW row, NEW g, NEW val, row.val = val
    PROVE  /\ \A t \in Built \cup PV!NumberLists : \A column \in ColumnOf(t, row, g) :
                 PV!VertexGives(t, column, ValueIn(val, g))
           /\ \A t \in Built : \A column \in ColumnOf(t, row, g) :
                 PV!IterGives(t, column, ValueIn(val, g))
<1>. DEFINE value == ValueIn(val, g)
<1>0. Empty # Null
  BY StoreAssumption
<1>1. \A t : ColumnOf(t, row, g) = {PV!ReadColumn(t, value, file_type) : file_type \in {"parquet", "orc"}}
  BY DEF ColumnOf
<1>. HIDE DEF value
<1>2. \A t \in Built \cup PV!NumberLists : \A file_type :
          PV!VertexGives(t, PV!ReadColumn(t, value, file_type), value)
  BY <1>0, PV!PropertyKept DEF Built, PV!Types
<1>3. \A t \in Built : \A file_type : PV!IterGives(t, PV!ReadColumn(t, value, file_type), value)
  BY <1>0, PV!IterPropertyKept DEF Built
<1>. QED BY <1>1, <1>2, <1>3 DEF value

\* The iterator shows the row of its vertex, and Dump has put into it what was added.
LEMMA WrittenIsRead == StoreInv => RoundTrip
<1>. SUFFICES ASSUME StoreInv PROVE RoundTrip
  OBVIOUS
<1>1. ASSUME seen.kind # "none"
      PROVE  /\ IterShowsVertex
             /\ \A id \in DOMAIN want, g \in Groups : RowAt(g, id).val = want[id]
  <2>1. reading = "vertices"
    BY <1>1 DEF StoreInv, NotSeen
  <2>2. CollInv
    BY <2>1 DEF StoreInv
  <2>. QED BY <2>2 DEF CollInv, SeenInv, Holds
<1>2. ASSUME seen.kind = "vertex", NEW g \in Groups
      PROVE  /\ Id(it) \in DOMAIN want => seen.rows[g].val = want[Id(it)]
             /\ \A t \in Built \cup PV!NumberLists : \A column \in ColumnOf(t, seen.rows[g], g) :
                   /\ Id(it) \in DOMAIN want => PV!VertexGives(t, column, ValueIn(want[Id(it)], g))
                   /\ PV!VertexGives(t, column, ValueIn(RowAt(g, Id(it)).val, g))
  <2>1. seen.rows[g] = RowAt(g, Id(it))
    BY <1>1, <1>2 DEF IterShowsVertex
  <2>2. Id(it) \in DOMAIN want => seen.rows[g].val = want[Id(it)]
    BY <1>1, <1>2, <2>1
  <2>3. \A val : val = seen.rows[g].val =>
            \A t \in Built \cup PV!NumberLists : \A column \in ColumnOf(t, seen.rows[g], g) :
                PV!VertexGives(t, column, ValueIn(val, g))
    BY ColumnsGive
  <2>. QED BY <2>1, <2>2, <2>3
<1>3. ASSUME seen.kind = "property", Id(it) \in DOMAIN want, seen.group \in Groups
      PROVE  /\ seen.row.val = want[Id(it)]
             /\ \A t \in Built : \A column \in ColumnOf(t, seen.row, seen.group) :
                   PV!IterGives(t, column, ValueIn(want[Id(it)], seen.group))
  <2>1. seen.row.val = want[Id(it)]
    BY <1>1, <1>3 DEF IterShowsVertex
  <2>2. \A val : val = seen.row.val =>
            \A t \in Built : \A column \in ColumnOf(t, seen.row, seen.group) :
                PV!IterGives(t, column, ValueIn(val, seen.group))
    BY ColumnsGive
  <2>. QED BY <2>1, <2>2
<1>4. seen.kind = "property" => seen.group \in Groups
  BY DEF StoreInv, CollInv, SeenInv, NotSeen
<1>. QED BY <1>2, <1>3, <1>4 DEF RoundTrip

------------------------------------------------------------------------------
(* The theorems.                                                            *)

\* For every payload, chunk size and number of property groups: the builder never has more
\* filled slots than AddVertex calls, the files hold tables, only files of the vertex type
\* are written, and the position of a reader is consistent (VerticesBuilder,
\* VertexPropertyArrowChunkReader).
THEOREM TypeCorrect == Spec => []TypeOK
<1>1. StoreInv => TypeOK
  BY BuilderTyped, ReaderTyped DEF StoreInv, TypeOK
<1>. QED BY StoreInvariant, <1>1, PTL

\* A Dump that returns OK has published every vertex the client asked for, whatever failed
\* or crashed before it (VerticesBuilder::Dump).
THEOREM DumpCorrect == Spec => []DumpPublishesVertices
<1>1. StoreInv => DumpPublishesVertices
  BY DumpHasPublished DEF StoreInv, NoResult, DumpPublishesVertices
<1>. QED BY StoreInvariant, <1>1, PTL

\* As long as every call continues the directory, a readable vertex count describes files
\* that are there, at every moment of every call and after every failure (Dump, WriteTable,
\* WriteVerticesNum).
THEOREM CountCorrect == Spec => []CountedIsDescribed
<1>1. StoreInv => CountedIsDescribed
  BY CountDescribes DEF StoreInv, CountedIsDescribed
<1>. QED BY StoreInvariant, <1>1, PTL

\* The table in memory of a chunk reader is that of its chunk wherever the position lies
\* inside the vertex type (seek, next_chunk, GetChunk).
THEOREM TableCorrect == Spec => []TableIsCurrent
<1>1. StoreInv => TableIsCurrent
  BY TableFound DEF StoreInv
<1>. QED BY StoreInvariant, <1>1, PTL

\* After any calls, GetChunk returns the row of the vertex that seek or next_chunk went to
\* and those behind it in its chunk (seek, next_chunk, GetChunk).
THEOREM SeekCorrect == Spec => []SeekDeliversRow
<1>1. StoreInv => SeekDeliversRow
  BY RowDelivered DEF StoreInv
<1>. QED BY StoreInvariant, <1>1, PTL

\* A reader that goes from chunk to chunk, or seeks the first row of one, gets all rows of
\* the chunk that match the filter its table was read with, whatever it called before
\* (seek, next_chunk, GetChunk, Filter).
THEOREM ScanCorrect == Spec => []ScanLosesNoRow
<1>1. StoreInv => ScanLosesNoRow
  BY ScanComplete DEF StoreInv
<1>. QED BY StoreInvariant, <1>1, PTL

\* A chain of filters that starts with a query on the graph finds exactly the ids that
\* satisfy all of them (filter, verticesWithLabel, verticesWithProperty).
THEOREM FiltersCorrect == Spec => []FilterIsExact
<1>1. StoreInv => FilterIsExact
  BY DEF StoreInv, CollInv, FilterIsExact
<1>. QED BY StoreInvariant, <1>1, PTL

\* What an iterator shows is read from the row of the vertex it stands on (VertexIter).
THEOREM IteratorCorrect == Spec => []IterShowsVertex
<1>1. StoreInv => IterShowsVertex
  BY DEF StoreInv, CollInv, SeenInv, IterShowsVertex, NotSeen
<1>. QED BY StoreInvariant, <1>1, PTL

\* What a client has added to a builder and Dump has published is what an iterator of
\* another process gives, in every property group and for every type of a property
\* (VerticesBuilder, VertexPropertyWriter, VertexIter, Vertex::property).
THEOREM RoundTripCorrect == Spec => []RoundTrip
BY StoreInvariant, WrittenIsRead, PTL
==============================================================================
