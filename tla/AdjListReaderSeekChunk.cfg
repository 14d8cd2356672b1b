\* Three vertex chunks (2 + 2 + 1 vertices), edge chunks of two rows.
CONSTANTS
    VertexNum = 5
    VertexChunkSize = 2
    ChunkSize = 2
    MaxEdges = 3
    MaxEdgesOfChunk = 3
    Payloads <- SmallPayloads
    EdgeAdjListTypes = {"ordered_by_source", "unordered_by_dest"}
    SeekIds = {0, 1, 3, 4, 6}
    SeekOffsets = {0, 1, 3}
    SeekChunks = {0, 1, 3}
    MaxVertexChunkIndex = 3
    MaxChunkIndex = 3
SPECIFICATION Spec
INVARIANT SeekChunkIndexDeliversChunk
\* A reader whose process aborted makes no further call.
CHECK_DEADLOCK FALSE
