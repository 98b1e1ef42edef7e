------------------------------ MODULE MCServices ------------------------------
(* Small instances of the services. *)
EXTENDS Services, TLC

CONSTANTS
    rtFirst, rtSecond, domainOne, domainTwo, guidOne, guidTwo, hypOne, hypTwo, objOne,
    partyOne, partyTwo, callOne, callTwo, userOne, userTwo, resX, resY, ownOne, ownTwo

MCNeeds == {{resX}, {resY}}

MCUserOf == [h \in Hyperties |-> 1]

Named(kind, parts) == [kind |-> kind, parts |-> parts]

\* Two data objects whose keys are the same when written one part after the other, and a
\* hyperty of the same text.
MCDescriptors ==
    {Named("object", <<<<"a">>, <<"b">>>>), Named("object", <<<<"a", "b">>, <<>>>>),
     Named("hyperty", <<<<"a">>, <<"b">>>>)}

Rule(decision, scope, target, join, terms) ==
    [decision |-> decision, scope |-> scope, target |-> target, join |-> join, terms |-> terms]

Term(of, group, not) == [of |-> of, group |-> group, not |-> not]

BlockFirst ==
    [rules |-> <<Rule("block", "global", "", "or", <<Term("u1", FALSE, FALSE)>>),
                 Rule("allow", "identity", "o1", "and",
                      <<Term("g1", TRUE, FALSE), Term("*", FALSE, FALSE)>>)>>,
     actions |-> FALSE, algorithm |-> "blockOverrides"]

AllowFirst ==
    [rules |-> <<Rule("allow", "hyperty", "h1", "or", <<Term("u1", FALSE, FALSE)>>),
                 Rule("block", "global", "", "or",
                      <<Term("g1", TRUE, TRUE), Term("u2", FALSE, FALSE)>>)>>,
     actions |-> TRUE, algorithm |-> "allowOverrides"]

MCPolicies == {BlockFirst, AllowFirst}

MCMessages == {[hyperty |-> "h1", owner |-> "o1", source |-> s] : s \in {"u1", "u2", "none"}}

MCUserIds == [g \in Guids |-> IF g = guidOne THEN {userOne, userTwo} ELSE {userTwo}]
MCDomainOf == [u \in {userOne, userTwo} |-> IF u = userOne THEN domainOne ELSE domainTwo]
MCOwnerOf == [h \in {hypOne, hypTwo} |-> IF h = hypOne THEN userOne ELSE userTwo]
MCReporterOf == [o \in {objOne} |-> hypTwo]

MCHome == [r \in Resources |-> rtFirst]
MCSize == [r \in Resources |-> IF r = resY THEN 2 ELSE 1]
MCQuota == [n \in Runtimes |-> IF n = rtFirst THEN 2 ELSE 0]
MCMaxCalls == [n \in Runtimes |-> IF n = rtFirst THEN 2 ELSE 1]

\* In one of the catalogues the first version sorts behind the second.
MCText == [o \in Objects |-> IF o = resX THEN <<2, 1>> ELSE <<1, 2>>]

\* The two calls, and the two parties, are interchangeable wherever they are used.
Symmetric == Permutations({callOne, callTwo}) \union Permutations({partyOne, partyTwo})
===============================================================================
