\* Three vertex chunks (2 + 2 + 1 vertices) of one or three edges, edge chunks of two rows:
\* no vertex chunk is empty and none ends with a full edge chunk.
CONSTANTS
    VertexNum = 5
    VertexChunkSize = 2
    ChunkSize = 2
    EdgeNums = {1, 3}
    MaxEdges = 7
    Payloads <- SmallPayloads
    EdgeAdjListTypes = {"ordered_by_source", "unordered_by_dest"}
    NullRows <- SmallNullRows
    Null = Null
    Empty = Empty
    Ranges <- SomeRanges
SPECIFICATION Spec
VIEW Members
INVARIANTS TypeOK PositionsAgree CountIsCurrent PropertiesFollow
PROPERTY Scans
