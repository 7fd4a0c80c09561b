SPECIFICATION AuthnSpec
CONSTANTS
    MachineNamed = {}
    Lower <- LowerCase
    Menu <- MCMenu
    Requests = {r1}
    Keys <- MCKeys
    Holders <- MCHolders
    NoHolder = NoHolder
    TTLs <- MCTTLs
    JWTs <- MCJWTs
    Inputs <- MCInputs
    Guards <- MCGuards
    Authenticators <- MCAuthenticators
    Transformed <- MCTransformed
    Never = Never
    ClockSkew = 1
    ExpectedIssuer = "idp"
    ExpectedAudience = "api"
    ExpectedClientID = "api"
    SkipClientIDCheck = FALSE
    NbfLeeway = 1
    AllowQueryAPIKey = TRUE
    ContextKey = "authn.principal"
    MaxTime = 3
INVARIANTS
    RevokedKeyRefused
    HandledByItsCredential
    RolesMatchReference
    UserNeedsEvidence
CHECK_DEADLOCK FALSE
