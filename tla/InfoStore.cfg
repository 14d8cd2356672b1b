\* Infos of one directory: up to four calls that build and three that save.
CONSTANTS
    Null = Null
    VertexArgs <- SmallVertexArgs
    EdgeArgs <- SmallEdgeArgs
    GraphArgs <- SmallGraphArgs
    GroupOffers <- SmallGroups
    ListOffers <- SmallLists
    Missing = Missing
    Torn = Torn
    Names <- SmallNames
    MaxAdds = 4
    MaxSaves = 3
SPECIFICATION Spec
INVARIANTS TypeOK BuiltIsValid LookupsFollow LoadedIsValid LoadedIsSaved PathsApart
