CONSTANTS
    a1 = a1
    a2 = a2
    b = b
    None = None
    q1 = q1
    q2 = q2
    q3 = q3
    Requests <- MCRequests
    Senders <- MCSenders
    Hyperties <- MCHyperties
    Domains <- MCDomains
    DomainOf <- MCDomainOf
    Interworking <- MCInterworking
CHECK_DEADLOCK FALSE
SPECIFICATION FairSpec
PROPERTIES
    ReleaseSparesOthers
