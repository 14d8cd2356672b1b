\* Up to three vertices of each of two types, and up to three edges.
CONSTANTS
    Configs <- SmallConfigs
    MaxFailures = 0
    Null = Null
    NoValue = NoValue
    Uncastable = Uncastable
SPECIFICATION Spec
INVARIANT EdgesHaveTheirProperties
CHECK_DEADLOCK FALSE
