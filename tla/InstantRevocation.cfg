SPECIFICATION Spec
CONSTANTS
    n1 = n1  n2 = n2  p1 = p1  r1 = r1  r2 = r2  a1 = a1
    Nodes <- TwoNodes
    Principals <- OnePrincipal
    Requests <- TwoRequests
    Admins <- OneAdmin
    Host <- HostTwoNodes
    Subject <- SubjectOne
    GrantTTL = 1
    L1TTL = 1
    MaxRequestTime = 0
    ChanCap = 1
    MaxChanges = 2
    Faults = FALSE
INVARIANT
    InstantRevocation
