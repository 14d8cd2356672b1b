\* Two vertex chunks (2 + 1 vertices), edge chunks of one row.
CONSTANTS
    VertexNum = 3
    VertexChunkSize = 2
    ChunkSize = 1
    Edges <- SmallEdges
    EdgeAdjListTypes = {"ordered_by_source"}
    ValidateLevels = {"no_validate", "weak_validate"}
    MaxEdges = 2
    MaxDumps = 2
    Missing = Missing
    Torn = Torn
SPECIFICATION Spec
INVARIANT RetryPublishes
