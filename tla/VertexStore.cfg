\* Builders of up to three vertices, two calls that write, chunks of two rows.
CONSTANTS
    ChunkSize = 2
    GroupNum = 2
    MaxChunks = 3
    a = a
    b = b
    Payloads = {a, b}
    Null = Null
    Labels = {"l", "m"}
    LabelsOf <- SmallLabelsOf
    HasValue <- SmallHasValue
    Empty = Empty
    Missing = Missing
    Torn = Torn
    Starts = {0, 1, 2}
    Offers <- SmallOffers
    Indices = {1}
    ValidateLevels = {"no_validate", "strong_validate"}
    Unknown = {b}
    Tables <- SmallTables
    MaxRows = 3
    MaxJobs = 2
    PropsOf <- SmallPropsOf
    CsvGroups = {2}
    Filters <- SmallFilters
    Selections = {{"p"}}
    MadeFor <- SmallMadeFor
    SeekIds = {1, 2, 4}
    LabelQueries = {{"l"}, {"l", "m"}}
SPECIFICATION Spec
INVARIANTS TypeOK DumpPublishesVertices CountedIsDescribed
    TableIsCurrent SeekDeliversRow ScanLosesNoRow
    FilterIsExact IterShowsVertex RoundTrip
\* Once the client has made its last call that writes, the files may be unfit for readers.
CHECK_DEADLOCK FALSE
