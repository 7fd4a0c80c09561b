SPECIFICATION FairSpec
CONSTANTS
    n1 = n1  n2 = n2  p1 = p1  r1 = r1  r2 = r2  a1 = a1
    Nodes <- OneNode
    Principals <- OnePrincipal
    Requests <- TwoRequests
    Admins <- OneAdmin
    Host <- HostOneNode
    Subject <- SubjectOne
    GrantTTL = 2
    L1TTL = 2
    MaxRequestTime = 1
    ChanCap = 1
    MaxChanges = 1
    Faults = TRUE
INVARIANT
    StaleServeBound
PROPERTY
    EventuallyCurrent
