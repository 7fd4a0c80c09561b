SPECIFICATION AuthzSpec
CONSTANTS
    Patterns <- MCPatterns
    Values <- Strings
    PathMatch <- MCPathMatch
    Lower <- MCLower
    Tenants = {"t1", "t2"}
    Star = "*"
    Empty = ""
    BundleRules <- MCBundleRules
    Asked <- MCAsked
    MaxRules = 3
    Subjects = {"alice", "job"}
    Users <- MCUsers
    Anonymous = Anonymous
    Named <- MCNamed
    Defaults <- MCSpare
    Fallbacks <- MCSpare
    AppHandlers <- MCAppHandlers
    AppAllows = {"alice", "job"}
    Granted <- ReportRules
    Routes <- AllRoutes
    NoBundle = NoBundle
INVARIANTS
    EvaluateIsDenyOverrides
    RefusedForReason
    AllowedHeld
