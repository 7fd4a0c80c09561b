SPECIFICATION OAuthFairSpec
CONSTANTS
    Clients = {"app", "client-job"}
    Users = {"app", ""}
    Verifiers = {v1}
    Secrets = {s1}
    Codes = {a1}
    DeviceCodes = {d1, d2}
    UserCodes = {w1}
    Exchanges = {x1, x2}
    CodeTTL = 0
    DeviceTTL = 0
    LastTime = 1
    None = None
    MachineNamed = {"client-job"}
    Lower = Lower
INVARIANTS
    OneTokenPerCode
    DeviceTokenStands
    WaitingApprovable
    FlowRecognised
PROPERTIES
    CodeSpentForGood
    ApprovedGetsToken
