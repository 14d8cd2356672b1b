\* Infos with every kind of name, read at every point of writing them.
CONSTANTS
    Keys <- AllKeys
    ScalarMaxLength = 16
    Infos <- SomeInfos
    NoVersion = NoVersion
SPECIFICATION Spec
INVARIANTS LoadedIsDumped TornIsPart
