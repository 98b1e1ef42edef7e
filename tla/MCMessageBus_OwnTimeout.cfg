CONSTANTS
    retried = retried
    piped = piped
    manual = manual
    Requests <- MCRequests
    Timed <- MCTimed
    Retried <- MCRetried
    Piped <- MCPiped
    Retries = 1
    Handlers = 2
CHECK_DEADLOCK FALSE
SPECIFICATION FairSpec
PROPERTY OwnTimeout
