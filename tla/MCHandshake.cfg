CONSTANTS
    MaxSends = 3
    MaxSubscribes = 2
    MaxUpdates = 1
CHECK_DEADLOCK FALSE
SPECIFICATION Spec
INVARIANTS
    TypeOK
    AuthenticatedAgree
    MessagesAreReadable
    ToldHaveTheKey
PROPERTIES
    FirstMessageArrives
