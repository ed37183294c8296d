SPECIFICATION ToolsSpec
CONSTANTS
    MaxDepth = 2
    Documents <- MCDocuments
    Directories <- MCDirectories
    Browsed <- MCBrowsed
    Categories <- MCCategories
    Wanted <- MCWanted
    MaxCalls = 5
INVARIANTS
    RoundTrip
    DescriptionInOrder
    ObjectsShared
    CachesFresh
    NeverSilentlyPartial
    DiesOnlyUnsound
    DocumentedOnce
CHECK_DEADLOCK FALSE
