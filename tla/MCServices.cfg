CONSTANTS
    rtFirst = rtFirst
    rtSecond = rtSecond
    domainOne = domainOne
    domainTwo = domainTwo
    guidOne = guidOne
    guidTwo = guidTwo
    hypOne = hypOne
    hypTwo = hypTwo
    objOne = objOne
    partyOne = partyOne
    partyTwo = partyTwo
    callOne = callOne
    callTwo = callTwo
    userOne = userOne
    userTwo = userTwo
    resX = resX
    resY = resY
    ownOne = ownOne
    ownTwo = ownTwo
    OwnGuids = {ownOne, ownTwo}
    Uses = {callOnly}
    MaxPuts = 1
    Guids = {guidOne, guidTwo}
    Owner = guidTwo
    Calls = {callOne, callTwo}
    MaxContacts = 2
    Domains = {domainOne, domainTwo}
    Requests = {callOne, callTwo}
    Resources = {resX, resY}
    Needs <- MCNeeds
    MaxTokens = 3
    Users = {userOne, userTwo}
    Refreshable = {userOne}
    Statuses = {callOne, callTwo}
    Waiters = {partyOne, partyTwo}
    MaxForwards = 2
    Hyperties = {partyOne, partyTwo}
    UserOf <- MCUserOf
    Others = {objOne}
    MaxDisconnected = 1
    MaxInvitations = 2
    Descriptors <- MCDescriptors
    Loads = {callOne, callTwo}
    Residents = {partyOne, partyTwo}
    MaxAddresses = 2
    Policies <- MCPolicies
    Keys = {"k1"}
    Groups = {"g1"}
    Usernames = {"u1", "u2"}
    Messages <- MCMessages
    Searches = {callOnly}
    UserIds <- MCUserIds
    DomainOf <- MCDomainOf
    OwnerOf <- MCOwnerOf
    ReporterOf <- MCReporterOf
    Self = hypOne
    Runtimes = {rtFirst, rtSecond}
    Home <- MCHome
    Size <- MCSize
    Small = {resX}
    Quota <- MCQuota
    MaxCalls <- MCMaxCalls
    Objects = {resX, resY}
    Fallback = resY
    Whole = {resY}
    MaxVersion = 2
    Text <- MCText
SYMMETRY Symmetric
CHECK_DEADLOCK FALSE
SPECIFICATION Spec
INVARIANTS
    TypeOK
    IdentitiesFit
    PeopleAreKeptApart
    RegisteredAreReached
    StoredDecides
