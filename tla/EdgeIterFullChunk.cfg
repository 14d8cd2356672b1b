\* Two vertex chunks whose last edge chunk is full.
CONSTANTS
    VertexNum = 4
    VertexChunkSize = 2
    ChunkSize = 2
    EdgeNums = {2}
    MaxEdges = 4
    Payloads <- SmallPayloads
    EdgeAdjListTypes = {"ordered_by_source"}
    NullRows <- SmallNullRows
    Null = Null
    Empty = Empty
    Ranges <- WholeRange
SPECIFICATION Spec
VIEW Members
PROPERTY Scans
