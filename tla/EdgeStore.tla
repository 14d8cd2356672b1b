------------------------------ MODULE EdgeStore -------------------------------
(****************************************************************************)
(* The life of one adjacency list: a process writes its files with an       *)
(* EdgeChunkWriter, and ends; another process then reads them, the edges or *)
(* the offsets.                                                             *)
(****************************************************************************)
EXTENDS EdgeChunkWriter, EdgeReaders

VARIABLE reading   \* what the second process reads, "none" while there is only the first

storeVars == <<writerVars, edgeReaderVars, reading>>

Init ==
    /\ WriterInit
    /\ edges = NoEdges /\ offsets = NoOffsets /\ running = TRUE
    /\ reading = "none"

\* Bound: the second process is started when the first has called WriteVerticesNum as the
\* last of its calls in order.
StartReading ==
    /\ reading = "none" /\ Idle /\ orderly
    /\ Readable(VertexCountPath)
    /\ reading' \in {"edges", "offsets"}
    /\ result' = NoResult /\ jobs' = MaxJobs
    /\ UNCHANGED <<adj_list_type, dir, job, orderly, edgeReaderVars>>

Writes == reading = "none" /\ WriterNext /\ UNCHANGED <<edgeReaderVars, reading>>

ReadsEdges == reading = "edges" /\ ReadEdges /\ UNCHANGED <<writerVars, reading>>

ReadsOffsets == reading = "offsets" /\ ReadOffsets /\ UNCHANGED <<writerVars, reading>>

Next == Writes \/ StartReading \/ ReadsEdges \/ ReadsOffsets

Spec == Init /\ [][Next]_storeVars
==============================================================================
