CONSTANTS
    q1 = q1
    q2 = q2
    s1 = s1
    s2 = s2
    None = None
    Loaded = Loaded
    Requests <- MCRequests
    Subscribers <- MCSubscribers
    MaxAsks = 2
SYMMETRY Symmetry
CHECK_DEADLOCK FALSE
SPECIFICATION Spec
INVARIANTS
    TypeOK
    ChangesArePublished
    ListenersStay
    ReporterListens
    NothingIsOrphaned
    SubscribedAreStored
    SubscribedWereAccepted
    DeleteReachesObservers
