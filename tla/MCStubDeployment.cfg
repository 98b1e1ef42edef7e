CONSTANTS
    c1 = c1
    c2 = c2
    None = None
    Callers <- MCCallers
    MaxLoads = 2
    MaxEvents = 2
CHECK_DEADLOCK FALSE
SPECIFICATION Spec
INVARIANTS
    TypeOK
    ResolvedAreDeployed
    CallersDeployOnce
    NobodyWaitsForReady
PROPERTIES
    WaitersAreAnswered
