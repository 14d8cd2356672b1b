--------------------------- MODULE ChunkInfoWriters ---------------------------
(****************************************************************************)
(* VertexChunkInfoWriter and EdgeChunkInfoWriter                            *)
(* (cpp/src/graphar/chunk_info_writer.cc): they copy a file of the client's *)
(* to the place of a chunk.  An operator here gives the status of a call    *)
(* and the path that is copied to when it is OK; the copy itself is one     *)
(* call of the file system.                                                 *)
(****************************************************************************)
EXTENDS GraphInfo

ValidateLevels == {"default_validate", "no_validate", "weak_validate", "strong_validate"}

\* The constructors throw for a writer without a level of its own.  That of edges also
\* keeps chunk sizes, which no call reads.
VertexWriterLevels == ValidateLevels \ {"default_validate"}
EdgeWriterLevels == ValidateLevels \ {"default_validate"}

\* The level of a call, that of the writer unless the caller asks for another.
LevelOf(own, asked) == IF asked = "default_validate" THEN own ELSE asked

Refused(status) == [status |-> status, path |-> Null]
CopiedTo(path) == [status |-> "OK", path |-> path]

\* A group with the same prefix, file type and properties.
HasPropertyGroup(info, group) == group # Null /\ group \in Range(info.groups)

------------------------------------------------------------------------------
(* Vertices.                                                                *)

ValidateVertexChunk(info, group, chunk, level) ==
    IF level = "no_validate" THEN "OK"
    ELSE IF ~HasPropertyGroup(info, group) THEN "KeyError"
    ELSE IF chunk < 0 THEN "IndexError" ELSE "OK"

WriteVertexChunk(info, group, chunk, level) ==
    LET status == ValidateVertexChunk(info, group, chunk, level)
    IN  IF status # "OK" THEN Refused(status)
        ELSE IF group = Null THEN Refused("Invalid")
        ELSE CopiedTo(<<info.prefix \o group.prefix, <<"chunk", chunk>>>>)

------------------------------------------------------------------------------
(* Edges, for one type of adjacency list.                                   *)

ValidateAdjList(info, type, index1, index2, level) ==
    IF level = "no_validate" THEN "OK"
    ELSE IF ~HasAdjacentListType(info, type) THEN "KeyError"
    ELSE IF index1 < 0 \/ index2 < 0 THEN "IndexError" ELSE "OK"

ValidateProperty(info, type, group, part, chunk, level) ==
    LET status == ValidateAdjList(info, type, part, chunk, level)
    IN  IF level = "no_validate" \/ status # "OK" THEN status
        ELSE IF ~HasPropertyGroup(info, group) THEN "KeyError" ELSE "OK"

\* The path functions refuse a type that the info does not have, whatever the level.
CopyInto(info, type, status, directories, file) ==
    IF status # "OK" THEN Refused(status)
    ELSE IF ~HasAdjacentListType(info, type) THEN Refused("KeyError")
    ELSE CopiedTo(<<info.prefix \o GetAdjacentList(info, type).prefix \o directories, file>>)

WriteAdjListChunk(info, type, part, chunk, level) ==
    CopyInto(info, type, ValidateAdjList(info, type, part, chunk, level),
             <<<<"adj", "list">>>>, EdgeChunk(part, chunk))

\* Offsets of any type of list, of the unordered ones too.
WriteOffsetChunk(info, type, part, level) ==
    CopyInto(info, type, ValidateAdjList(info, type, part, 0, level),
             <<<<"offset">>>>, <<"chunk", part>>)

WritePropertyChunk(info, type, group, part, chunk, level) ==
    LET status == ValidateProperty(info, type, group, part, chunk, level)
    IN  IF status # "OK" THEN Refused(status)
        ELSE IF group = Null THEN Refused("Invalid")
        ELSE CopyInto(info, type, "OK", group.prefix, EdgeChunk(part, chunk))
==============================================================================
