\* Up to three vertices of each of two types, and up to three edges.
CONSTANTS
    Configs <- SmallConfigs
    MaxFailures = 2
    Null = Null
    NoValue = NoValue
    Uncastable = Uncastable
SPECIFICATION Spec
INVARIANTS EdgesJoinTheirVertices NothingLost 
CHECK_DEADLOCK FALSE
