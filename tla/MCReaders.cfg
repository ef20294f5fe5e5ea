SPECIFICATION ReadersSpec
CONSTANTS
    Models = {"m", "n"}
    Heads <- Blocks
    Header <- Says
    Contents <- AllContents
    MaxParts = 2
    Urls <- AllUrls
    MaxEntries = 3
    Endpoints <- AllEndpoints
    MaxFound = 2
    Nothing = Nothing
INVARIANTS
    RequestsReadRight
    NearestKey
    MergeKeepsAll
CHECK_DEADLOCK FALSE
