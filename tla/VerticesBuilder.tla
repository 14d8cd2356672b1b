--------------------------- MODULE VerticesBuilder ----------------------------
(****************************************************************************)
(* VerticesBuilder (cpp/src/graphar/high-level/vertices_builder) and the    *)
(* VertexPropertyWriter it drives.  A client adds vertices to a builder in  *)
(* memory and Dump writes them file by file; or it hands the writer a table *)
(* of its own and then the vertex count.  Any write may fail and the        *)
(* process may crash at any moment, and either may leave the file torn; the *)
(* directory survives.                                                      *)
(****************************************************************************)
EXTENDS VertexFiles

CONSTANTS Starts,         \* values of start_vertex_index
          Offers,         \* what may be added to a builder with so many vertices
          Indices,        \* explicit indices that calls of AddVertex use
          ValidateLevels, \* validate levels of builders and calls
          Unknown,        \* payloads with a property that the info lacks
          Tables,         \* tables that a client hands to the writer
          MaxRows,        \* bound: vertices given to a builder
          MaxJobs         \* bound: calls that write files

Levels == {"no_validate", "weak_validate", "strong_validate"}
Statuses == {"none", "OK", "Invalid", "IndexError", "KeyError", "IOError"}

ASSUME BuilderAssumption ==
    /\ Starts \subseteq Nat /\ 0 \in Starts
    /\ Indices \subseteq Nat
    /\ ValidateLevels \subseteq Levels /\ ValidateLevels # {}
    /\ Unknown \subseteq Payloads
    /\ MaxRows \in Nat /\ MaxJobs \in Nat
    /\ Offers \in [0 .. MaxRows -> SUBSET Payloads]
    /\ Tables \subseteq [vals : Seq(Values), has_index : BOOLEAN, has_label : BOOLEAN,
                        missing : SUBSET Groups, mistyped : SUBSET Groups]
    /\ \A table \in Tables : ChunkNum(Len(table.vals)) <= MaxChunks

VARIABLES
    builder,   \* the builder's members
    job,       \* the call that is writing files, or NoJob
    result,    \* how the last call ended, if it writes files
    clean,     \* history: the calls on this builder kept to their contract
    want,      \* history: id -> payload, what they asked the builder for
    orderly,   \* history: every call that writes files continued the directory
    jobs       \* history: calls that wrote files

history == <<want, clean, orderly, jobs>>
builderVars == <<declared, dir, builder, job, result, history>>

\* The constructor, with its default validate level; default_validate it refuses.
NewBuilder(start) ==
    [start |-> start, level |-> "no_validate", slots |-> <<>>, num |-> 0, saved |-> FALSE]

NoJob == [kind |-> "idle", todo |-> <<>>, end |-> "none", rows |-> 0]
NoResult == [kind |-> "idle", status |-> "none", rows |-> 0]
NoIds == [id \in {} |-> Null]

BuilderInit ==
    /\ declared \in {{}, Labels}
    /\ dir = [path \in Paths |-> Missing]
    /\ builder \in {NewBuilder(start) : start \in Starts}
    /\ job = NoJob /\ result = NoResult
    /\ want = NoIds /\ clean = TRUE /\ orderly = TRUE /\ jobs = 0

Idle == job = NoJob

\* A client prepares a call that writes only while it may still make one.
Preparing == Idle /\ jobs < MaxJobs /\ result' = NoResult

------------------------------------------------------------------------------
(* The operations of the builder.                                           *)

\* validate: the checks every level but no_validate makes, in their order, and the
\* schema check of strong_validate.
WeakChecks(index) ==
    IF builder.saved THEN "Invalid"
    ELSE IF builder.start % ChunkSize # 0 THEN "IndexError"
    ELSE IF index # -1 /\ index < builder.start THEN "IndexError"
    ELSE "OK"

Validate(val, index, level) ==
    CASE level = "no_validate" -> "OK"
      [] WeakChecks(index) # "OK" -> WeakChecks(index)
      [] level = "strong_validate" /\ val \in Unknown -> "KeyError"
      [] OTHER -> "OK"

\* vertices_ after the vertex is put into its slot: -1 is the slot behind the last.
PutAt(slots, i, val) ==
    [j \in 1 .. (IF i < Len(slots) THEN Len(slots) ELSE i + 1) |->
        IF j = i + 1 THEN val ELSE IF j <= Len(slots) THEN slots[j] ELSE Null]

PutFirst(val, index) == <<val>> \o builder.slots     \* fault model: order lost
Put(val, index) ==
    PutAt(builder.slots, IF index = -1 THEN Len(builder.slots) ELSE index, val)

\* The id the client may expect: the next unused one, or the one it gave.
IdFor(index) == IF index = -1 THEN builder.start + builder.num ELSE index

\* The calls for which the builder's promise is unambiguous: an id that is the next
\* one, given explicitly only by a builder that starts at 0, before any Dump.
Expected(index) ==
    /\ builder.start % ChunkSize = 0
    /\ ~builder.saved
    /\ index # -1 => builder.start = 0 /\ index = builder.num

\* AddVertex(v, index, level).  Bound: a client that has once left the contract adds no
\* more.  "default_validate" stands for the builder's level.
AddVertex(val, index, level) ==
    /\ Preparing
    /\ builder.num < MaxRows /\ clean
    /\ ChunkOf(builder.start) + ChunkNum(Len(Put(val, index))) <= MaxChunks
    /\ LET used == IF level = "default_validate" THEN builder.level ELSE level
       IN  IF Validate(val, index, used) = "OK"
             THEN /\ builder' = [builder EXCEPT !.slots = Put(val, index), !.num = @ + 1]
                  /\ clean' = (clean /\ Expected(index))
                  /\ want' = IF clean'
                       THEN [id \in DOMAIN want \cup {IdFor(index)} |->
                                IF id = IdFor(index) THEN val ELSE want[id]]
                       ELSE NoIds
             ELSE UNCHANGED <<builder, want, clean>>
    /\ UNCHANGED <<declared, dir, job, orderly, jobs>>

ClearsCount ==                                       \* fault model: vertices kept
    /\ Preparing
    /\ builder' = [builder EXCEPT !.num = 0, !.saved = FALSE]
    /\ want' = NoIds /\ clean' = TRUE
    /\ UNCHANGED <<declared, dir, job, orderly, jobs>>

Clear ==
    /\ Preparing
    /\ builder' = [builder EXCEPT !.slots = <<>>, !.num = 0, !.saved = FALSE]
    /\ want' = NoIds /\ clean' = TRUE
    /\ UNCHANGED <<declared, dir, job, orderly, jobs>>

\* A default_validate argument is ignored.
SetValidateLevel(level) ==
    /\ Preparing
    /\ builder' = [builder EXCEPT !.level = level]
    /\ UNCHANGED <<declared, dir, job, history>>

\* A new builder on the same directory, where an earlier one left off or anew.
Make(start) ==
    /\ Preparing
    /\ builder' = NewBuilder(start)
    /\ want' = NoIds /\ clean' = TRUE
    /\ UNCHANGED <<declared, dir, job, orderly, jobs>>

------------------------------------------------------------------------------
(* The calls that write files.                                              *)

\* convertToTable: a column for every property of the info, and no label column.
BuilderTable == Table(builder.slots, FALSE, FALSE, {}, {})

CountToWrite == builder.num + builder.start

Begin(kind, todo, end, rows, in_order) ==
    /\ Preparing
    /\ job' = [kind |-> kind, todo |-> todo, end |-> end, rows |-> rows]
    /\ jobs' = jobs + 1
    /\ orderly' = (orderly /\ in_order)
    /\ UNCHANGED <<declared, dir, builder, want>>

\* A builder continues the directory if it starts at the vertex count, and a client
\* table if there is none yet; a client count if it is that of the table before it.
Continues(start) == start = IF Readable(CountPath) THEN dir[CountPath] ELSE 0

CountFirst ==                                        \* fault model: count written first
    WriteVerticesNum(CountToWrite)
        \o WriteTable(BuilderTable, ChunkOf(builder.start), builder.level)

DumpPlan ==
    LET start  == ChunkOf(builder.start)
        status == TableStatus(BuilderTable, builder.level)
    IN  WriteTable(BuilderTable, start, builder.level)
            \o (IF status = "OK" THEN WriteVerticesNum(CountToWrite) ELSE <<>>)

Dump ==
    /\ Begin("dump", DumpPlan, TableStatus(BuilderTable, builder.level), builder.num,
             clean /\ Continues(builder.start))
    /\ clean' = clean

\* VertexPropertyWriter::WriteTable and WriteVerticesNum, called by a client.
WriteClientTable(table, level) ==
    /\ Begin("table", WriteTable(table, 0, level), TableStatus(table, level),
             Len(table.vals), ~Readable(CountPath))
    /\ clean' = FALSE

WriteClientCount(count) ==
    /\ Begin("count", WriteVerticesNum(count), "OK", count,
             result = [kind |-> "table", status |-> "OK", rows |-> count])
    /\ clean' = FALSE

------------------------------------------------------------------------------
(* The progress of such a call.                                             *)

WriteNext ==
    /\ job.todo # <<>>
    /\ dir' = [dir EXCEPT ![Head(job.todo).path] = Head(job.todo).data]
    /\ job' = [job EXCEPT !.todo = Tail(@)]
    /\ UNCHANGED <<declared, builder, result, history>>

\* Dump after its last write: only a Dump that returns OK drops the vertices.
Drained == [builder EXCEPT !.saved = TRUE, !.slots = <<>>]

Return ==
    /\ ~Idle /\ job.todo = <<>>
    /\ builder' = IF job.kind = "dump" /\ job.end = "OK" THEN Drained ELSE builder
    /\ result' = [kind |-> job.kind, status |-> job.end, rows |-> job.rows]
    /\ job' = NoJob
    /\ UNCHANGED <<declared, dir, history>>

\* A write fails: the file may not have been opened, or is left cut short.
WriteFails ==
    /\ job.todo # <<>>
    /\ \/ dir' = dir
       \/ dir' = [dir EXCEPT ![Head(job.todo).path] = Torn]
    /\ result' = [kind |-> job.kind, status |-> "IOError", rows |-> job.rows]
    /\ job' = NoJob
    /\ UNCHANGED <<declared, builder, history>>

\* The process ends in the middle of the call; the client comes back with a new builder.
Crash ==
    /\ job.todo # <<>>
    /\ \/ dir' = dir
       \/ dir' = [dir EXCEPT ![Head(job.todo).path] = Torn]
    /\ builder' = NewBuilder(0)
    /\ job' = NoJob /\ result' = NoResult
    /\ want' = NoIds /\ clean' = TRUE
    /\ UNCHANGED <<declared, orderly, jobs>>

BuilderNext ==
    \/ \E val \in Offers[builder.num], index \in Indices \cup {-1},
          level \in ValidateLevels \cup {"default_validate"} : AddVertex(val, index, level)
    \/ Clear
    \/ \E level \in ValidateLevels : SetValidateLevel(level)
    \/ \E start \in Starts : Make(start)
    \/ Dump
    \/ \E table \in Tables, level \in ValidateLevels : WriteClientTable(table, level)
    \/ \E table \in Tables : WriteClientCount(Len(table.vals))
    \/ WriteNext \/ Return \/ WriteFails \/ Crash

BuilderSpec == BuilderInit /\ [][BuilderNext]_builderVars

------------------------------------------------------------------------------
(* Properties.                                                              *)

\* Type invariant: a builder has at most as many filled slots as AddVertex calls, the
\* files hold tables, and a call that is writing only writes files of this vertex type.
BuilderTypeOK ==
    /\ FilesTypeOK
    /\ builder.start \in Nat /\ builder.level \in Levels
    /\ builder.slots \in Seq(Values) /\ builder.num \in Nat /\ builder.saved \in BOOLEAN
    /\ \A i \in 1 .. Len(job.todo) : job.todo[i].path \in Paths
    /\ result.status \in Statuses
    /\ Cardinality({i \in DOMAIN builder.slots : builder.slots[i] # Null}) <= builder.num

\* After a Dump that returned OK, every vertex the client has asked for since the
\* constructor or Clear is in the files under its id, in every property group, and the
\* vertex count covers it: whatever failed or crashed before, and also after a second
\* Dump of the same builder (Dump, WriteTable, WriteVerticesNum).
DumpPublishesVertices ==
    result.kind = "dump" /\ result.status = "OK" /\ clean /\ builder.saved =>
        /\ \A id \in DOMAIN want : \A g \in Groups :
              HasRow(g, id) /\ RowAt(g, id) = [id |-> id, val |-> want[id]]
        /\ dir[CountPath] = builder.start + Cardinality(DOMAIN want)

\* As long as every call continues the directory, a readable vertex count describes
\* files that are there: while Dump runs, after it failed or crashed, and while a
\* builder that starts behind the vertices so far adds its own (Dump).
CountedIsDescribed ==
    orderly /\ Readable(CountPath) => Described
==============================================================================
