---------------------------- MODULE DiscoverySearch ----------------------------
(***************************************************************************)
(* Searches for hyperties and data objects: the library of a hyperty       *)
(* (discovery/Discovery.js) asks the runtime (discovery/CoreDiscovery.js), *)
(* which asks a lookup service for the GUIDs of a profile, the global      *)
(* registry for the user identifiers of a GUID, the registries of the      *)
(* domains for the hyperties of a user, and for the data objects of each   *)
(* hyperty, and puts together what it gets.  What is registered changes    *)
(* meanwhile, and each query may fail or time out.                         *)
(*                                                                         *)
(* Resources and data schemes, by which a registry filters, are left out.  *)
(***************************************************************************)
CONSTANTS
    Calls,      \* searches
    Guids,      \* those of the one profile that is looked up
    UserIds,    \* of each GUID its users
    Home,       \* of each user the domain
    OwnerOf,    \* of each hyperty the user
    ReporterOf, \* of each data object the hyperty
    Self        \* the hyperty that searches

VARIABLES
    live,     \* what is registered with the domains
    call,     \* of each search its stage, the first query, and what it is for
    queries,  \* of each search the queries that are not answered
    found,    \* what the runtime has found for it
    told,     \* what the library gave to the hyperty
    ever,     \* history: what was registered at some time since the search began
    lasting,  \* history: what was registered all the while
    failed    \* history: some query of the search failed

vars == <<live, call, queries, found, told, ever, lasting, failed>>
history == <<ever, lasting>>

-----------------------------------------------------------------------------
RegistryUsers == DOMAIN Home
RegistryDomains == {Home[u] : u \in RegistryUsers}
RegistryHyperties == DOMAIN OwnerOf
RegistryObjects == DOMAIN ReporterOf
Kinds == {"hyperty", "object"}
Profile == "profile"

\* The fields of a message that is taken for what was found.
Fields == "fields"

\* A user of another platform, who is not in any registry.
Legacy == "legacy"

\* A query at some level, about something, at a domain where that matters, and
\* about what the query was that it comes from.
Levels == {"lookup", "guid", "user", "reporter", "url", "name"}
Query(level, of, domain, via) == [level |-> level, of |-> of, domain |-> domain, via |-> via]

Registered == RegistryHyperties \union RegistryObjects
Things == Registered \union RegistryUsers \union Guids \union {Profile, Legacy}

NoQuery == Query("lookup", Profile, CHOOSE d \in RegistryDomains : TRUE, Profile)

TypeOK ==
    /\ live \subseteq Registered
    /\ call \in [Calls -> [stage : {"idle", "searching", "done", "gaveUp"}, kind : Kinds,
                           query : [level : Levels, of : Things, domain : RegistryDomains, via : Things]]]
    /\ \A c \in Calls : \A q \in queries[c] :
           q \in [level : Levels, of : Things, domain : RegistryDomains, via : Things]
    /\ found \in [Calls -> SUBSET (Registered \union {Fields})]
    /\ told \in [Calls -> SUBSET (Registered \union {Fields, Legacy})]
    /\ ever \in [Calls -> SUBSET Registered] /\ lasting \in [Calls -> SUBSET Registered]
    /\ failed \in [Calls -> BOOLEAN]

Init ==
    /\ live \in SUBSET Registered
    /\ call = [c \in Calls |-> [stage |-> "idle", kind |-> "hyperty", query |-> NoQuery]]
    /\ queries = [c \in Calls |-> {}]
    /\ found = [c \in Calls |-> {}] /\ told = found
    /\ ever = [c \in Calls |-> {}] /\ lasting = ever
    /\ failed = [c \in Calls |-> FALSE]

-----------------------------------------------------------------------------
(* The runtime.                                                            *)

\* discoveryManager: the first query for a request.
SearchFor(c, kind, q) ==
    /\ call[c].stage = "idle"
    /\ call' = [call EXCEPT ![c] = [stage |-> "searching", kind |-> kind, query |-> q]]
    /\ queries' = [queries EXCEPT ![c] = {q}]
    /\ ever' = [ever EXCEPT ![c] = live] /\ lasting' = [lasting EXCEPT ![c] = live]
    /\ UNCHANGED <<live, found, told, failed>>

AnyDomain == CHOOSE d \in RegistryDomains : TRUE

\* discover...PerUserProfileData: the GUIDs of a profile, each asked about next.
PerProfile(q) == {Query("guid", g, q.domain, q.of) : g \in Guids}

\* Mutant: the users of a GUID are looked for at the domain of the runtime.
PerGUID_Own(q) == {Query("user", u, AnyDomain, q.of) : u \in UserIds[q.of]}

\* discover...PerGUID: the users of a GUID, each asked about at his own domain.
PerGUID(q) == {Query("user", u, Home[u], q.of) : u \in UserIds[q.of]}

HypertiesAt(q) == {h \in live \cap RegistryHyperties : OwnerOf[h] = q.of /\ Home[OwnerOf[h]] = q.domain}

\* discoverDataObjects: the hyperties of a user, each asked about as a reporter.
PerUser(q) == {Query("reporter", h, q.domain, q.of) : h \in HypertiesAt(q)}

Follow(kind, q) ==
    CASE q.level = "lookup"                     -> PerProfile(q)
      [] q.level = "guid"                       -> PerGUID(q)
      [] q.level = "user" /\ kind = "object"    -> PerUser(q)
      [] OTHER                                  -> {}

\* The domain where a hyperty or a data object is registered.
HomeOf(x) == Home[OwnerOf[IF x \in RegistryObjects THEN ReporterOf[x] ELSE x]]

Result(kind, q) ==
    CASE q.level = "user" /\ kind = "hyperty" -> HypertiesAt(q)
      [] q.level = "reporter" -> {o \in live \cap RegistryObjects : ReporterOf[o] = q.of /\ HomeOf(o) = q.domain}
      [] q.level \in {"url", "name"} -> {x \in live \cap {q.of} : HomeOf(x) = q.domain}
      [] OTHER -> {}

Answered(c, q) ==
    /\ q \in queries[c]
    /\ queries' = [queries EXCEPT ![c] = (@ \ {q}) \union Follow(call[c].kind, q)]
    /\ found' = [found EXCEPT ![c] = @ \union Result(call[c].kind, q)]
    /\ UNCHANGED <<live, call, told, history, failed>>

\* Mutant: nor does it for hyperties.
Unchecked_Any(kind, q) == q.level \in {"user", "reporter", "url", "name"}

\* The answer that the bus gives when time is over holds the request, and the
\* code is not looked at when data objects are asked for.
Unchecked(kind, q) == q.level \in {"reporter", "name"} \/ (q.level = "url" /\ kind = "object")

\* The registry refuses, or has nothing: only the first query's failure matters.
Failed(c, q) ==
    /\ q \in queries[c]
    /\ queries' = [queries EXCEPT ![c] = @ \ {q}]
    /\ failed' = [failed EXCEPT ![c] = TRUE]
    /\ UNCHANGED <<live, call, found, told, history>>

TimedOut(c, q) ==
    /\ q \in queries[c] /\ q.level # "lookup"
    /\ queries' = [queries EXCEPT ![c] = @ \ {q}]
    /\ failed' = [failed EXCEPT ![c] = TRUE]
    /\ found' = [found EXCEPT ![c] = IF Unchecked(call[c].kind, q) THEN @ \union {Fields} ELSE @]
    /\ UNCHANGED <<live, call, told, history>>

-----------------------------------------------------------------------------
(* The library.                                                            *)

DiscoverPerProfile(c, kind) == SearchFor(c, kind, NoQuery)

DiscoverPerGUID(c, kind, g) == SearchFor(c, kind, Query("guid", g, AnyDomain, Profile))

DiscoverPerUser(c, kind, u, d) ==
    /\ u # Legacy \/ kind = "object"
    /\ SearchFor(c, kind, Query("user", u, d, Profile))

DiscoverPerReporter(c, h, d) == SearchFor(c, "object", Query("reporter", h, d, Profile))

\* Each data object has a name of its own here.
DiscoverPerName(c, o, d) == SearchFor(c, "object", Query("name", o, d, Profile))

DiscoverPerURL(c, x, d) ==
    SearchFor(c, IF x \in RegistryObjects THEN "object" ELSE "hyperty", Query("url", x, d, Profile))

\* For a legacy user the library gives, in place of hyperties or data objects and
\* without a search, the identifier that was asked for; data objects are searched
\* for by user as those of any user are.
DiscoverLegacy(c, kind, level, d) ==
    /\ call[c].stage = "idle"
    /\ level \in (IF kind = "hyperty" THEN {"lookup", "user"} ELSE {"lookup"})
    /\ call' = [call EXCEPT ![c] = [stage |-> "done", kind |-> kind,
                                     query |-> Query(level, Legacy, d, Legacy)]]
    /\ told' = [told EXCEPT ![c] = {Legacy}]
    /\ UNCHANGED <<live, queries, found, history, failed>>

\* A hyperty does not find itself, unless it asks for its own URL.
Filter(c) == IF call[c].query.level = "url" THEN found[c] ELSE found[c] \ {Self}

Settles(c, stage, things) ==
    /\ call' = [call EXCEPT ![c].stage = stage]
    /\ told' = [told EXCEPT ![c] = things]

\* All queries are answered: the runtime replies, with an error if there is nothing.
Replied(c) ==
    /\ call[c].stage = "searching" /\ queries[c] = {}
    /\ Settles(c, "done", Filter(c))
    /\ UNCHANGED <<live, queries, found, history, failed>>

\* The library waits no longer than the runtime does for one query: it gives
\* nothing, while the runtime goes on.
GivesUp(c) ==
    /\ call[c].stage = "searching"
    /\ Settles(c, "gaveUp", {})
    /\ UNCHANGED <<live, queries, found, history, failed>>

-----------------------------------------------------------------------------
Searching(c) == call[c].stage = "searching"

Register(x) ==
    /\ x \notin live
    /\ live' = live \union {x}
    /\ ever' = [c \in Calls |-> IF Searching(c) THEN ever[c] \union {x} ELSE ever[c]]
    /\ UNCHANGED <<call, queries, found, told, lasting, failed>>

Unregister(x) ==
    /\ x \in live
    /\ live' = live \ {x}
    /\ lasting' = [c \in Calls |-> IF Searching(c) THEN lasting[c] \ {x} ELSE lasting[c]]
    /\ UNCHANGED <<call, queries, found, told, ever, failed>>

Next ==
    \/ \E c \in Calls :
          \/ \E q \in queries[c] : Answered(c, q) \/ Failed(c, q) \/ TimedOut(c, q)
          \/ \E kind \in Kinds :
                \/ DiscoverPerProfile(c, kind)
                \/ \E g \in Guids : DiscoverPerGUID(c, kind, g)
                \/ \E d \in RegistryDomains :
                      \/ \E u \in RegistryUsers \union {Legacy} : DiscoverPerUser(c, kind, u, d)
                      \/ \E level \in Levels : DiscoverLegacy(c, kind, level, d)
          \/ \E d \in RegistryDomains :
                \/ \E h \in RegistryHyperties : DiscoverPerReporter(c, h, d)
                \/ \E o \in RegistryObjects : DiscoverPerName(c, o, d)
                \/ \E x \in Registered : DiscoverPerURL(c, x, d)
          \/ Replied(c) \/ GivesUp(c)
    \/ \E x \in Registered : Register(x) \/ Unregister(x)

Spec == Init /\ [][Next]_vars

-----------------------------------------------------------------------------
Done(c) == call[c].stage = "done"

\* Whatever a search gives was registered at some time since it began, but for a
\* legacy user who was asked for; only a search for data objects may give the
\* fields of a message for which time was over.
FoundWereThere ==
    \A c \in Calls :
        \/ told[c] \subseteq ever[c] \union IF call[c].kind = "object" THEN {Fields} ELSE {}
        \/ call[c].query.of = Legacy /\ told[c] = {Legacy}

\* The users that a search is about, at the domains where it asks for them.
Sought(c) ==
    LET q == call[c].query
    IN  IF q.of = Legacy THEN {}
        ELSE CASE q.level = "lookup" -> UNION {UserIds[g] : g \in Guids}
               [] q.level = "guid"   -> UserIds[q.of]
               [] q.level = "user"   -> {u \in {q.of} : Home[u] = q.domain}
               [] OTHER              -> {}

\* A search none of whose queries failed gives everything that was registered all
\* the while, at whatever domain, and the searcher left out: of the hyperties,
\* and of the data objects whose reporters were registered too.
NothingMissed ==
    \A c \in Calls :
        (Done(c) /\ ~failed[c]) =>
            LET hs == {h \in lasting[c] \cap RegistryHyperties : OwnerOf[h] \in Sought(c)}
            IN  IF call[c].kind = "hyperty" THEN hs \ {Self} \subseteq told[c]
                ELSE {o \in lasting[c] \cap RegistryObjects : ReporterOf[o] \in hs} \subseteq told[c]
===============================================================================
