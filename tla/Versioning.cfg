SPECIFICATION VersioningSpec
CONSTANTS
    Methods = {"GET", "POST"}
    Patterns <- MCPatterns
    Versions = {"v1", "v2"}
    Params = {":id", ":kind"}
    Wilds = {"*rest"}
    VLike = {"v1", "v2", "v1s", "vendors"}
    Formatted = {"v1", "v2"}
    AfterAPI <- MCAfterAPI
    Requests <- MCRequests
    NoVersion = NoVersion
    Configs <- MCConfigs
    MaxRoutes = 3
INVARIANTS
    RightHandlerOnce
    SupportDecided
