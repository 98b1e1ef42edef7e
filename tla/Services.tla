------------------------------- MODULE Services -------------------------------
(***************************************************************************)
(* The services of the runtime and the libraries of hyperties, each a      *)
(* module of its own.  They share no state, so that one acts in each       *)
(* behaviour, and the variables of the others stay 0.  A variable of the   *)
(* same name in several of them is each one's own.                         *)
(***************************************************************************)
EXTENDS Naturals, FiniteSets

CONSTANTS
    \* the owner's record and contacts
    OwnGuids, Uses, MaxPuts, Guids, Owner, Calls, MaxContacts,
    \* tokens and assertions
    Domains, Requests, Resources, Needs, MaxTokens, Users, Refreshable,
    \* subscriptions to the status of a registration
    Statuses, Waiters, MaxForwards,
    \* a chat
    Hyperties, UserOf, Others, MaxDisconnected, MaxInvitations,
    \* registration
    Descriptors, Loads, Residents, MaxAddresses,
    \* policies
    Policies, Keys, Groups, Usernames, Messages,
    \* searches, in the domains of the users
    Searches, UserIds, DomainOf, OwnerOf, ReporterOf, Self,
    \* resources
    Runtimes, Home, Size, Small, Quota, MaxCalls,
    \* descriptors
    Objects, Fallback, Whole, MaxVersion, Text

ASSUME PutNumbers == MaxPuts \in Nat
ASSUME SomeDomain == Domains # {}
ASSUME TokenNumbers == MaxTokens \in Nat \ {0}
ASSUME NeedsAreResources == Needs \subseteq SUBSET Resources
ASSUME ForwardNumbers == MaxForwards \in Nat
ASSUME SomeDescriptor == Descriptors # {}
ASSUME AddressNumbers == MaxAddresses \in Nat
ASSUME FewHyperties == IsFiniteSet(Hyperties)
ASSUME SearchedThings ==
    /\ DOMAIN DomainOf # {}
    /\ UserIds \in [Guids -> SUBSET DOMAIN DomainOf]
    /\ OwnerOf \in [DOMAIN OwnerOf -> DOMAIN DomainOf]
    /\ ReporterOf \in [DOMAIN ReporterOf -> DOMAIN OwnerOf]
    /\ Self \in DOMAIN OwnerOf /\ DOMAIN OwnerOf \cap DOMAIN ReporterOf = {}
ASSUME FewResources == IsFiniteSet(Resources)
ASSUME ResourcesHaveHomes == Home \in [Resources -> Runtimes]
ASSUME SpaceNumbers == Size \in [Resources -> Nat] /\ Quota \in [Runtimes -> Nat]
ASSUME FallbackNumbers == Fallback \in Objects /\ MaxVersion \in Nat \ {0}
ASSUME TextsAreOrdered == Text \in [Objects -> [1 .. MaxVersion -> Nat]]

VARIABLES
    acting, record, key, use, stored, torn, carried, contacts, filter, call, saved, overlapped,
    token, kept, writes, request, refreshing, issued, expired, failed, mixed, known,
    default, demand, removed, again, watch, entry, forwards, savedEntry, toNode, node,
    crossed, lost, room, live, found, invitations, waiting, observers, participants, joined,
    dropped, late, load, urls, listed, timers, closing, domain, fresh, given, closed,
    loading, active, userPolicies, provider, groups, plain, source, verdict, asked,
    excused, queries, told, ever, lasting, held, shared, memory, database, usage,
    save, read, deleted, catalogue, older

vars ==
    <<acting, record, key, use, stored, torn, carried, contacts, filter, call,
      saved, overlapped, token, kept, writes, request, refreshing, issued, expired, failed,
      mixed, known, default, demand, removed, again, watch, entry, forwards,
      savedEntry, toNode, node, crossed, lost, room, live, found, invitations, waiting,
      observers, participants, joined, dropped, late, load, urls, listed, timers,
      closing, domain, fresh, given, closed, loading, active, userPolicies, provider,
      groups, plain, source, verdict, asked, excused, queries, told, ever, lasting,
      held, shared, memory, database, usage, save, read, deleted, catalogue, older>>

-----------------------------------------------------------------------------
Record == INSTANCE OwnerRecord
Contact == INSTANCE ContactList
Token == INSTANCE AccessTokens
Assertion == INSTANCE IdAssertions
Status == INSTANCE StatusSubscriptions
Room == INSTANCE ChatRoom
Registration == INSTANCE HypertyRegistration WITH Users <- Residents
Policy == INSTANCE PolicyDecisions WITH Users <- Usernames
Search == INSTANCE DiscoverySearch WITH Calls <- Searches, Home <- DomainOf
Resource == INSTANCE HypertyResources
Catalogue == INSTANCE DescriptorCatalogue

ASSUME PoliciesFit ==
    /\ Policies \subseteq Policy!AllPolicies
    /\ \A m \in Messages : m.source \in Usernames \union {"none"}

-----------------------------------------------------------------------------
\* What is not of the service that acts is 0, and stays so.
Asleep(service) ==
    /\ service # "Record" =>
          record = 0 /\ key = 0 /\ use = 0 /\ torn = 0 /\ carried = 0
    /\ service \notin {"Record", "Policy"} => loading = 0
    /\ service \notin {"Record", "Catalogue"} => stored = 0
    /\ service # "Contact" => contacts = 0 /\ filter = 0 /\ overlapped = 0
    /\ service \notin {"Contact", "Search", "Catalogue"} => call = 0
    /\ service \notin {"Contact", "Assertion", "Registration", "Policy"} => saved = 0
    /\ service # "Token" =>
          token = 0 /\ kept = 0 /\ request = 0 /\ refreshing = 0 /\ issued = 0
          /\ mixed = 0
    /\ service \notin {"Token", "Registration"} => writes = 0 /\ expired = 0
    /\ service \notin {"Token", "Search"} => failed = 0
    /\ service # "Assertion" =>
          known = 0 /\ default = 0 /\ demand = 0 /\ removed = 0 /\ again = 0
    /\ service # "Status" =>
          watch = 0 /\ entry = 0 /\ forwards = 0 /\ savedEntry = 0 /\ toNode = 0
          /\ node = 0 /\ crossed = 0 /\ lost = 0
    /\ service # "Room" =>
          room = 0 /\ invitations = 0 /\ waiting = 0 /\ observers = 0
          /\ participants = 0 /\ joined = 0 /\ dropped = 0 /\ late = 0
    /\ service \notin {"Room", "Search"} => live = 0 /\ found = 0
    /\ service # "Registration" =>
          load = 0 /\ urls = 0 /\ listed = 0 /\ timers = 0 /\ closing = 0
          /\ domain = 0 /\ fresh = 0 /\ given = 0 /\ closed = 0
    /\ service # "Policy" =>
          active = 0 /\ userPolicies = 0 /\ provider = 0 /\ groups = 0
          /\ plain = 0 /\ source = 0 /\ verdict = 0 /\ asked = 0 /\ excused = 0
    /\ service # "Search" => queries = 0 /\ told = 0 /\ ever = 0 /\ lasting = 0
    /\ service # "Resource" =>
          held = 0 /\ shared = 0 /\ memory = 0 /\ database = 0 /\ usage = 0
          /\ save = 0 /\ read = 0 /\ deleted = 0
    /\ service # "Catalogue" => catalogue = 0 /\ older = 0

StayAsleep(service) ==
    /\ service # "Record" => UNCHANGED <<record, key, use, torn, carried>>
    /\ service \notin {"Record", "Policy"} => UNCHANGED loading
    /\ service \notin {"Record", "Catalogue"} => UNCHANGED stored
    /\ service # "Contact" => UNCHANGED <<contacts, filter, overlapped>>
    /\ service \notin {"Contact", "Search", "Catalogue"} => UNCHANGED call
    /\ service \notin {"Contact", "Assertion", "Registration", "Policy"} =>
          UNCHANGED saved
    /\ service # "Token" =>
          UNCHANGED <<token, kept, request, refreshing, issued, mixed>>
    /\ service \notin {"Token", "Registration"} => UNCHANGED <<writes, expired>>
    /\ service \notin {"Token", "Search"} => UNCHANGED failed
    /\ service # "Assertion" => UNCHANGED <<known, default, demand, removed, again>>
    /\ service # "Status" =>
          UNCHANGED <<watch, entry, forwards, savedEntry, toNode, node, crossed,
                      lost>>
    /\ service # "Room" =>
          UNCHANGED <<room, invitations, waiting, observers, participants, joined,
                      dropped, late>>
    /\ service \notin {"Room", "Search"} => UNCHANGED <<live, found>>
    /\ service # "Registration" =>
          UNCHANGED <<load, urls, listed, timers, closing, domain, fresh, given,
                      closed>>
    /\ service # "Policy" =>
          UNCHANGED <<active, userPolicies, provider, groups, plain, source,
                      verdict, asked, excused>>
    /\ service # "Search" => UNCHANGED <<queries, told, ever, lasting>>
    /\ service # "Resource" =>
          UNCHANGED <<held, shared, memory, database, usage, save, read, deleted>>
    /\ service # "Catalogue" => UNCHANGED <<catalogue, older>>

Init ==
    \/ acting = "Record" /\ Record!Init /\ Asleep("Record")
    \/ acting = "Contact" /\ Contact!Init /\ Asleep("Contact")
    \/ acting = "Token" /\ Token!Init /\ Asleep("Token")
    \/ acting = "Assertion" /\ Assertion!Init /\ Asleep("Assertion")
    \/ acting = "Status" /\ Status!Init /\ Asleep("Status")
    \/ acting = "Room" /\ Room!Init /\ Asleep("Room")
    \/ acting = "Registration" /\ Registration!Init /\ Asleep("Registration")
    \/ acting = "Policy" /\ Policy!Init /\ Asleep("Policy")
    \/ acting = "Search" /\ Search!Init /\ Asleep("Search")
    \/ acting = "Resource" /\ Resource!Init /\ Asleep("Resource")
    \/ acting = "Catalogue" /\ Catalogue!Init /\ Asleep("Catalogue")

Step(service) == acting = service /\ UNCHANGED acting /\ StayAsleep(service)

RecordStep == Step("Record") /\ Record!Next
ContactStep == Step("Contact") /\ Contact!Next
TokenStep == Step("Token") /\ Token!Next
AssertionStep == Step("Assertion") /\ Assertion!Next
StatusStep == Step("Status") /\ Status!Next
RoomStep == Step("Room") /\ Room!Next
RegistrationStep == Step("Registration") /\ Registration!Next
PolicyStep == Step("Policy") /\ Policy!Next
SearchStep == Step("Search") /\ Search!Next
ResourceStep == Step("Resource") /\ Resource!Next
CatalogueStep == Step("Catalogue") /\ Catalogue!Next

Next ==
    \/ RecordStep \/ ContactStep \/ TokenStep \/ AssertionStep \/ StatusStep
    \/ RoomStep \/ RegistrationStep \/ PolicyStep \/ SearchStep \/ ResourceStep
    \/ CatalogueStep

Spec == Init /\ [][Next]_vars

-----------------------------------------------------------------------------
\* Each component's type invariant.
TypeOK ==
    /\ acting = "Record" => Record!TypeOK
    /\ acting = "Contact" => Contact!TypeOK
    /\ acting = "Token" => Token!TypeOK
    /\ acting = "Assertion" => Assertion!TypeOK
    /\ acting = "Status" => Status!TypeOK
    /\ acting = "Room" => Room!TypeOK
    /\ acting = "Registration" => Registration!TypeOK
    /\ acting = "Policy" => Policy!TypeOK
    /\ acting = "Search" => Search!TypeOK
    /\ acting = "Resource" => Resource!TypeOK
    /\ acting = "Catalogue" => Catalogue!TypeOK

\* A caller is given an identity, an assertion or a token that was made for what
\* it asked, while logins are shared, refreshed, expire and are stored
\* (IdentityModule, Identities).
IdentitiesFit ==
    /\ acting = "Token" => Token!GivenTokensFit /\ Token!OnlyFailuresBlock
    /\ acting = "Assertion" => Assertion!AnsweredAreKnown /\ Assertion!TokensAreOwners

\* The user's own record, the private contacts and the chat rooms keep to those they are
\* for, while reads of the registry, invitations, restarts and closings overlap
\* (GraphConnector, ChatController, InvitationsHandler).
PeopleAreKeptApart ==
    /\ acting = "Record" => Record!RecordIsOwned
    /\ acting = "Contact" => Contact!ContactsAreOnce /\ Contact!PrivateStaysPrivate
    /\ acting = "Room" =>
          Room!RefusedGetAnotherChance /\ Room!ClosedInviteNobody /\ Room!ObserversParticipate

\* Who is registered is live for the domain until the registration expires there, at
\* addresses of one key, is found by those who search, and those who wait for its
\* status are subscribed to it, unless messages crossed (Registry,
\* DomainRegistration, Discovery, RegistrationStatus).
RegisteredAreReached ==
    /\ acting = "Registration" =>
          Registration!RegisteredAreKnown /\ Registration!AddressesOfOneKey
    /\ acting = "Search" => Search!FoundWereThere /\ Search!NothingMissed
    /\ acting = "Status" => Status!WaitersHear /\ Status!CancelledIsCancelled

\* Messages are judged with the policies and groups that were asked for, a save finds
\* what it evicts in memory and ends, and the descriptors that are given are current,
\* as far as the texts of their versions sort as the versions do (PEP,
\* RuntimeCoreCtx, HypertyResourcesStorage, RuntimeCatalogue).
StoredDecides ==
    /\ acting = "Policy" =>
          Policy!JudgedAsAsked /\ Policy!ProviderPrevails /\ Policy!GroupsAreAsAsked
    /\ acting = "Resource" => Resource!SavesEnd
    /\ acting = "Catalogue" => Catalogue!GivenAreCurrent /\ Catalogue!SourcesFit
=============================================================================
