SPECIFICATION Spec
CONSTANTS
    n1 = n1  n2 = n2  p1 = p1  r1 = r1  r2 = r2  a1 = a1
    Nodes <- OneNode
    Principals <- OnePrincipal
    Requests <- TwoRequests
    Admins <- OneAdmin
    Host <- HostOneNode
    Subject <- SubjectOne
    GrantTTL = 3
    L1TTL = 3
    MaxRequestTime = 0
    ChanCap = 1
    MaxChanges = 1
    Faults = FALSE
INVARIANT
    GrantWindow
