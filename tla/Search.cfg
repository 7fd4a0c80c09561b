SPECIFICATION Spec
CONSTANTS
    IntBits = 7
    DefaultPageSize = 3
    DefaultMaxPageSize = 7
    SearchRequests <- MCSearchRequests
    MaxPageSize = 2
    MaxRows = 3
    MaxSearches = 1
    Sizes = {0, 2, 5, 31}
    Maxes = {0, 4, 12}
    Jumps = {1, 3}
    Configs <- MCConfigs
    Filters <- MCFilters
    Terms = {"x", "y", " ", "*"}
    Sorts <- MCSorts
    Tenants = {"t1"}
    PageRequests <- MCPages
    Blank = {" "}
    AllWild = {"*"}
    LowerOp <- MCLower
    Parse <- MCParse
    Letters = {"a"}
    MaxTerm = 4
    MaxText = 3
    MaxFilters = 2
    MaxTerms = 2
    MaxSorts = 1
INVARIANTS
    ErrorHasCause
    TotalWasTrue
    PlaceholdersNumberArgs
    QueryAsRequested
    ValidateAgrees
    PagesTile
    TranslationMatches
PROPERTIES
    SearchEnds
CHECK_DEADLOCK FALSE
