\* Two vertex chunks, up to two edge chunks in each, five calls that write.
CONSTANTS
    VertexNum = 4
    VertexChunkSize = 2
    ChunkSize = 2
    a = a
    b = b
    Tags = {a, b}
    GroupNum = 2
    MaxEdgeChunks = 3
    Missing = Missing
    Torn = Torn
    Tables <- SmallTables
    Levels = {"no_validate", "strong_validate"}
    StartChunks = {0, 1}
    MaxJobs = 5
    MaxLoose = 1
    ReadGroups = {2}
    SeekIds = {1, 3, 4}
    SeekOffsets = {0, 3}
SPECIFICATION Spec
INVARIANTS SortedIsFound CountsDescribe
    RowsAgree PathFollowsTable OffsetsFollow
CHECK_DEADLOCK FALSE
