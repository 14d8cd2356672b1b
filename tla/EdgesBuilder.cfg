\* Two vertex chunks (2 + 1 vertices), edge chunks of two rows.
CONSTANTS
    VertexNum = 3
    VertexChunkSize = 2
    ChunkSize = 2
    Edges <- SmallEdges
    EdgeAdjListTypes = {"ordered_by_source", "unordered_by_dest"}
    ValidateLevels = {"no_validate", "weak_validate"}
    MaxEdges = 4
    MaxDumps = 2
    Missing = Missing
    Torn = Torn
SPECIFICATION Spec
INVARIANTS TypeOK DumpPublishes ReadableIsDescribed
PROPERTY DumpReturnsEventually
