# Verification of the reTHINK runtime core

`src/` is the core of a reTHINK *runtime*: the process that runs beside a
browser or a Node.js server, hosts *hyperties* (small services) in sandboxes, and
connects them with those of other runtimes through *protostubs* and a *message
node*.  The code is single-threaded JavaScript.  What makes it hard is not
parallelism but everything that happens between a request and the turn of the
event loop in which its answer arrives: other requests, timers, messages that are
lost or overtake one another, and restarts from what was stored so far.

This directory holds TLA+ models of its parts, TLC configurations that check them
on small instances, and theorems about them checked by the TLA+ proof system.
Paths below are relative to `src/src/`.

* [Inventory](#inventory): the parts, their state, what is hard, what makes them correct
* [Plan](#plan): what is modelled, and in which order the rest follows
* [Modules](#modules): how state and actions correspond to the code
* [Runs](#runs): what is checked, the bounds, the fairness
* [Proofs](#proofs): what is proved, from what, along which argument
* [Findings](#findings): where the code disagrees with what it says of itself
* [Not modelled](#not-modelled)

## Inventory

### How the parts fit

    hyperty  --postMessage-->  MessageBus  --pipeline (policy, identity, crypto)-->  deliver
       ^                          |  listeners by address (addListener, addForward, addPublish)
       |                          +--> SyncherManager, Registry, GraphConnector, ... (local addresses)
       |                          +--> Registry.resolve --> protostub --> message node --> other runtime
    Syncher (in the hyperty's sandbox): DataObjectReporter / DataObjectObserver
       |  create, subscribe, read, delete
       v
    SyncherManager (in the core): ReporterObject / ObserverObject + Subscription
       |                                   |
       +--> DataObjectsStorage --> StorageManager (IndexedDB)      (resume after a restart)

Every interaction is a message on the bus; an answer is matched with its request
by sender and id.  Components share no memory except through the tables they are
handed at start (`runtime/RuntimeUA.js`); the store is the only thing that outlives
a restart.

### Components

| Component | State it keeps | Operations | What is hard | What makes it correct |
|---|---|---|---|---|
| **Message bus** `bus/Bus.js`, `MessageBus.js`, `MiniBus.js`, `Pipeline.js` | response callbacks by sender+id, listeners by address, publish counters, timers | post, respond, time out, retry, forward, publish | retries reuse one key; timers are never cancelled; the pipeline is asynchronous and may reject | at most one final answer per request; no callback is held for ever; every delivered request is closed |
| **SyncherManager, observers** `syncher/SyncherManager.js`, `ObserverObject.js`, `Subscription.js` | observers by object, their subscriptions, listeners on `/changes` | subscribe, resume, unsubscribe, remote delete | four parties answer in turn; several hyperties share one observer; the store is written later | only accepted hyperties are fed and stored; a departure disturbs nobody else; requests end |
| **SyncherManager, reporters** `syncher/SyncherManager.js`, `ReporterObject.js` | reporters by object, their subscriptions, listeners, forwards | create, resume, remote subscribe/unsubscribe, delete | the table is filled only at the end of a chain of five asynchronous steps; create, delete and resume overlap | what is in the table listens; subscribers are published to, told of the delete, and stored |
| **Data synchronisation** `syncher/DataObject*.js`, `DataProvisional.js`, `Syncher.js` | version and data at the reporter and each observer, stored copies | change, sync, subscribe, resume, children | no acknowledgement: loss, reordering, gaps, restart from an older copy, counters that become `NaN` | what an observer shows is a state the reporter had |
| **Data object storage** `store-objects/DataObjectsStorage.js`, `storage-manager/` | entries of reporters and observers, in memory and on disk | set, update, saveData, delete, find | asynchronous writes; entries are found by any of several criteria | the disk holds nothing that was not in memory; a resumption finds the hyperty's own objects |
| **Registry and stub deployment** `registry/Registry.js`, `runtime/Loader.js` | stubs with status, callers that wait, hyperties, addresses by key | resolve, discover, deploy, status events, load and register hyperties | many callers wait for one deployment, which may fail half way; status events overwrite one another | who is told an address is told a deployed one; one deployment for all who ask; who waits is answered |
| **Domain registration, address allocation** `registry/DomainRegistration.js`, `allocation/` | addresses by key in memory and storage, keep-alive timers, entries of the domain | register new or resumed, keep alive, unregister | retries; timers nobody stops; two loads of one key at a time | who is registered is known with its user until that expires; an address is of one key |
| **Subscription manager, registration status** `subscriptionManager/`, `discovery/RegistrationStatus.js` | who waits for which status; one entry and a listener per registration | wait, give up, restart | several objects share one subscription, and each may cancel it; the entry is stored later | who waits hears; what is cancelled is cancelled |
| **Discovery library** `discovery/` | searches and the queries of each | search by profile, GUID, user, name, URL | many queries per search, answered in any order or not | nothing found that was not there, nothing missed |
| **Crypto manager** `cryptoManager/` | keys and handshake state per peer, session keys of objects | first message, subscription, handshake phases, updates | both sides start at once; a subscription disturbs a handshake; keys are made twice | both ends agree; messages can be read; who was let in has the key |
| **Identity** `identity/` | identities and their assertions, access tokens, logins under way | get assertion, get token, refresh, log in, remove | callers share a login; writes and refreshes cross; a refresh fails | one gets what fits what one asked for; only failures leave one without |
| **Policy engine** `policy/` | user and provider policies, groups, in memory and storage | decide, add, activate, remove, groups, load | changes while loading; what storage forgets; a decision that does not apply | judged as asked for; the provider prevails |
| **Hyperty resources** `hyperty-resource/` | contents in memory and in the database, the estimated space | save, read, evict, delete | an estimate made once, of the whole origin; saves that overlap; sizes looked up in another table; failures nobody hears of | a save finds what it evicts, and ends |
| **Graph connector** `graphconnector/` | the owner's record and key, contacts, their Bloom filter | use a GUID, change, add, edit, remove, restore | reads of the registry overlap with changes; record and key are two puts; restored contacts are other objects | the record has its key and nobody else's data; private contacts stay out of the filter |
| **Chat library** `chatManager/` | the chat, invitations, hyperties that wait, participants | create, invite, join, leave, close, restart | discoveries, refusals and status changes in any order | a refusal gets another chance; a closed chat invites nobody |
| **Catalogue** `runtime-catalogue/RuntimeCatalogue.js`, `runtime/Descriptors.js` | stored descriptors with their source packages | get a descriptor, attach its source | several requests while versions are published; slower calls store older descriptors; versions are compared as strings | what is given is no older than the catalogue was; the source fits |
| **Others** | `syncher/HeartBeat.js` and helpers, `registry/P2PConnectionResolve.js`, `runtime/RuntimeUA.js`, `sandbox/`, `protostub/`, `qos-ua/`, `contextManager/`, `utils/` | | | see [Not modelled](#not-modelled) |

`PROJECT.json` lists each with its sources and status, and under `hazards` what in
this code is hard to test, at its line, with the properties that cover it.

## Plan

1. **Done.** `RequestReply` and `MessageBus`: everything else relies on an answer
   that comes once.  Proofs of its safety.
2. **Done.** `SyncherObservers`: the observer half of the SyncherManager.  Proofs.
3. **Done.** `DataSync`: the data between reporter and observer.  Proofs.
4. **Done.** `SyncherReporters`: the reporter half of the SyncherManager.  Proofs.
5. **Done.** `StubDeployment`: who resolves a domain and who deploys its stub.
6. **Done.** `Handshake`: mutual authentication and session keys.
7. **Done.** The services around the core, one small module each, checked in one run:
   `AccessTokens`, `IdAssertions`, `OwnerRecord`, `ContactList`, `ChatRoom`,
   `HypertyRegistration`, `StatusSubscriptions`, `DiscoverySearch`, `PolicyDecisions`,
   `HypertyResources`, `DescriptorCatalogue`.
8. **Done.** Proofs of `StubDeployment`, of `Handshake` with and without crossed or
   disturbed handshakes, of the listener lists of `SyncherReporters`, and of the action
   properties of `DataSync` and `SyncherObservers`.
9. **Done.** `Services`, which composes the services for any values of their constants,
   and the theorems about them: each of the eleven has its inductive invariant.

Modules do not compose by sharing variables: a component uses the bus's promise
(one final answer, 408 if need be), and that promise is what `MessageBus` is shown to
keep.  So in the syncher modules "the node answers 200" and "anything else, 408
included" are two actions, and fairness of the pair is justified by `MessageBus`.
`DataSync` takes from `SyncherObservers` and `SyncherReporters` only that updates
reach an observer once its subscription is granted.

## Modules

### RequestReply, MessageBus

`RequestReply` is the abstract promise: a request is opened, then closed once, by one
answer or by being given up.  `MessageBus` implements it
(`Promise == INSTANCE RequestReply WITH status <- ..., answers <- told`).

| Variable | Code |
|---|---|
| `callbacks` | `_responseCallbacks`, keyed by `from + id` (`Bus.js` 150-174); the value is the attempt that registered it |
| `timers` | the pending `setTimeout`s in the order they fire (all have one delay) |
| `stage` | the pipeline handler working on a message (`Pipeline.js`) |
| `phase`, `attempt`, `told` | what the poster knows: `postMessageWithRetries` counts attempts, `told` final answers |
| `inbox`, `replies` | messages out of the bus, responses on their way back |

`Post`, `PostToPipeline`, `HandlerNext`, `HandlerFail` are `postMessage` and the
pipeline; `OnResponse` is `_onResponse` with the poster's callback and, for retried
posts, the promise reaction that posts again or gives up; `FireTimer` is the body of
the timeout.  A callback and the reactions it triggers run before the loop's next
turn, hence one action.  A timer never names the attempt it was started for when it
fires: it answers whatever callback is held, as in the code.

### SyncherObservers

One data object at one runtime; several local hyperties send subscribe messages
(new, or resuming).  An `ObserverObject` and a `Subscription` are named by the request
that made them, because the bus may hold their listeners after the tables forgot
them.

| Variable | Code |
|---|---|
| `stage` | where `_newSubscription`, `_newReporterSubscribe`, `_processOfflineSubscription` or `_resumeSubscription` waits |
| `observer`, `table` | `_observers[url]` and its `_subscriptions` |
| `listeners` | the bus's listener list of `/changes`, in order: a listener removed twice removes the *last* one (`Bus.js` 319-331, `splice(-1, 1)`), so the order matters |
| `closing` | the handshake of a `Subscription` with its hyperty after the reporter's delete |
| `stored`, `disk` | the entry's subscriptions in memory and as last written |
| `accepted` | history: whom the reporter accepted |

### SyncherReporters

One data object at its reporter's runtime.  Requests create it, create it again with
its URL (`reuseURL`), or resume it; remote hyperties subscribe and leave.

| Variable | Code |
|---|---|
| `stage`, `object`, `found` | how far `_newCreate` or `_resumeCreate` went, the `ReporterObject` and the stored entry it holds in a local variable across its asynchronous steps |
| `reporter` | `_reporters[url]` |
| `subs` | `_subscriptions` of each `ReporterObject`, the ones no table holds included |
| `subscribing`, `changes` | the bus's listener lists of `/subscription` and `/changes` |
| `published` | `_forwards['/changes']` of the bus: `addPublish` makes one shared listener, whose `remove` counts down a counter of the bus that does not exist (`MessageBus.js` 188-193), so that it is never removed |
| `forwards`, `handle` | the `addForward` listeners of the object's address, and the one each `ReporterObject` would remove |
| `asking` | `forward` messages to the hyperty (`ReporterObject.js` 361) not answered yet |
| `goodbyes` | delete messages in the bus's pipeline (`ReporterObject.js` 305) |
| `entry`, `listed`, `disk` | the stored entry, its `subscriptions`, what was written |
| `odd` | history: a subscriber subscribed *again* while subscribed; a second ReporterObject *overlaps* a first; a request went on with a deleted object or entry (*stale*) |

`Registered`, `Stored`, `NodeAccepts`, `Created` are the successive `.then`s of
`_newCreate`; a rejection that nobody handles leaves the request "dropped".  The
delete is two actions: `Delete` posts the message and releases every listener in one
turn, `DeliverDelete` is the pipeline letting it through, which is why it takes a
listener that outlives the object to carry it to the observers.

`odd` names three things the code does not expect and that do break it.  The
properties that exclude them say what still holds without them; they are the
hazards at `ReporterObject.js:344` and `SyncherManager.js:451`, not findings, because
no comment or test of the repository claims otherwise.

### DataSync

The reporter numbers its changes (`DataObject.js` 677) and posts each as an update; an
observer starts from the snapshot in the answer to its subscription, applies updates
that are newer than its version (`_changeObject`, 714-758, which accepts gaps), and may
read a snapshot again (`sync`).

| Variable | Code |
|---|---|
| `version`, `data`; `seen`, `view` | `_version` and the data at the reporter and at each observer |
| `store`, `saved` | the entries saved by the `/changes` listeners of `ReporterObject` and `ObserverObject` |
| `unsaved` | changes the reporter's own runtime has not handled yet |
| `asking`, `updates`, `replies` | messages on their way; a lost one is never taken |
| `granted`, `live` | the runtime listens for the observer; the hyperty has its `DataObjectObserver` |
| `run`, `past`, `events` | history: the reporter's run, its data at each version, the irregular things that happened to an observer (`Irregular` lists them) |

Data are fields and one list, because what becomes of a change differs:

| | sent (`_onChange`, 672-711) | observer (`_changeObject`, 722-752) | stored (`saveData`, by both runtimes) |
|---|---|---|---|
| field set | `deepClone` of the value (`Sent`): 0, false, empty and null become undefined | assigned | assigned |
| field deleted | no value | undefined is assigned | undefined is assigned |
| list, "add" | place and value | `splice` inserts (`Inserted`) | assigned at the place (`Put`) |
| list, "update" | place and value | assigned at the place | the same |
| list, "remove" | place, no value | `splice(place, undefined)` removes nothing | undefined is assigned at the place |

`With` is the observer's column, `Assigned` the store's, which is told neither type nor
operation.  So an observer's list stays longer than the reporter's once it is shortened
(`shrunk`), and a falsy field is shown as one that is not there; the properties except
both.  A `push`, an assignment to an element and a `pop` are one change each; the proxy
reports a `splice`, `shift` or `unshift` as several of these.  An element that is
undefined is a hole.

Abstractions: nested paths, which name a field or list further down, and several lists;
a change is one update (the code batches nothing); the observer's and the reporter's
runtime each handle their own messages in order; observers are not the legacy ones of an
interworking stub.  `NaN` is kept as a value because a resumed reporter without stored
version really counts with it.

### StubDeployment

One domain, whose name is in one of the two tables of the registry.

| Variable | Code |
|---|---|
| `entry` | `protostubsList[domain]` or `idpProxyList[domain]`: status and URL (`Registry.js` 775-948) |
| `caller`, `answer`, `late` | messages in `resolve` (1241-1473): waiting on a status listener, told a URL, refused |
| `load`, `hollow` | how far `loadStub` or `loadIdpProxy` is (`Loader.js` 319-735): descriptor, package, sandbox, `registerStub`, deployment |
| `asker` | the caller whose promise the deployment settles |
| `stub`, `events` | what each deployed stub announced, and its status events on the bus |

`Ready` is what `resolve` takes for deployed; `OnStatusEvent` is
`_onProtostubStatusEvent` together with the listeners of those who wait, which look
for "created" only.  `hollow` marks a deployment that goes on although a step gave
nothing: the code does not return after it rejects.  The application, too, may load the
stub (`LoadDirectly`), which overwrites the entry.

### Handshake

Two sides, of which one has a data object the other may subscribe to.

| Variable | Code |
|---|---|
| `chat` | `chatKeys[local<->remote]`: the random values, the keys, `authenticated`, and what waits for the end (`initialMessage`, `callback`) |
| `link` | handshake and encrypted messages on their way, in order |
| `subscription` | `_doMutualAuthenticationPhase1` and `2`, which waits for the handshake |
| `memory`, `stored`, `update` | `dataObjectSessionKeys` and its storage; an update reads the storage and may make a key |
| `odd` | history: the handshakes crossed, a subscription disturbed one, two keys raced, a message could not be read |

Each phase of `_doHandShakePhase` (`CryptoManager.js` 836-1265) is an action; a message
that fails a check is not answered, as there, but what was kept before the check stays.  Keys are the triple they are derived from, so
that two sides have the same keys if and only if they used the same values.

### The services

Each of these modules is one component; `Services` puts them side by side, for any
values of their constants, and `MCServices` gives it small ones.  They share no state,
hence one of them acts in each behaviour, and the variables of the others stay 0.

| Module | Code | State | What it is about |
|---|---|---|---|
| `AccessTokens` | `IdentityModule.getAccessToken`, `Identities` | token of each domain, in memory and storage, writes under way, the callers | a login that callers share, refresh, expiry, failed writes |
| `IdAssertions` | `IdentityModule.getIdentityAssertion`, `getToken`, `Identities` | identities, default, storage, the calls | choosing, hinting and logging in, refresh, removal |
| `OwnerRecord` | `GraphConnector` (keys, GUID, record) | record, key, uses under way, what is stored of each with the puts on their way, what a restart has not got yet | a record and its key are changed, put and loaded apart; data of another GUID are carried over |
| `ContactList` | `GraphConnector` (contacts), `BloomFilter` | contacts, filter, reads under way, storage | calls that overlap, contacts that come back as plain data |
| `ChatRoom` | `ChatManager`, `ChatController`, `InvitationsHandler` | room, discoveries, invitations, who waits, observers, participants | invitations that are refused or come too late |
| `HypertyRegistration` | `Loader.loadHyperty`, `Registry`, `AddressAllocation`, `DomainRegistration` | loads, addresses by key, storage, entries, timers, the domain | loads of one key, or of texts that read alike, that overlap; the domain forgetting, refusing or letting expire |
| `StatusSubscriptions` | `RegistrationStatus`, `SubscriptionManager` | who waits, the entry with the puts on their way, listeners, the node | one subscription for all, stored later than it is made |
| `DiscoverySearch` | `Discovery`, `CoreDiscovery` | searches, queries, what was found and given | partial answers while the registered change; legacy users |
| `PolicyDecisions` | `PEP`, `PDP`, `Policy`, `Rule`, `RuntimeCoreCtx`, ... | policies, groups, storage, the last verdict | what is decided against what was asked for, across changes and restarts |
| `HypertyResources` | `HypertyResource`, `HypertyResourcesStorage`, `StorageManager` | contents, database, estimate, saves and reads | space that is judged and made while others save and the database fails |
| `DescriptorCatalogue` | `Descriptors`, `RuntimeCatalogue`, `StorageManager` | the catalogue's version, what is stored, calls | versions that change while a descriptor is got, and are compared as texts |

Where the code stores without waiting (`StorageManager.set`, whose promise resolves
whether the database did it or not, 159-168), a service has a queue of puts: what is
stored comes first, and each put behind it is written, fails without telling, or is lost
in a restart.  `OwnerRecord` has one of the record and one of the key, so that a restart
may find either alone; `StatusSubscriptions` one of the manager's entry.  The database of
`HypertyResources` may fail at any write, deletion or read.

History variables (`overlapped`, `torn`, `carried`, `mixed`, `crossed`, `lost`, `expired`,
`closed`, `excused`, `deleted`, `older`, ...) name the events after which a promise does
not hold in the code as it is; each property says what holds without them.  They are
listed under [Findings](#findings), and a hazard that one of them takes out of a property
is listed in `PROJECT.json` as one that no property covers.

## Runs

| Run | Shows | Distinct states (all) |
|---|---|---|
| `message_bus` | three requests (retried once; through a two-handler pipeline; with a self-managed listener) race late answers, stale timers and removals: invariants, closure, refinement of `RequestReply` | 97 thousand |
| `bus_always_answered` | *violation*: a rejecting handler leaves the poster without an answer | |
| `bus_own_timeout` | *violation*: an earlier attempt's timer unregisters the next attempt's callback | |
| `syncher_observers` | three requests of up to three hyperties (two of one domain, one legacy user) with departures, the reporter's delete, writes and restarts | 221 thousand |
| `observers_subscribed_are_fed` | *violation*: the second local subscriber is told 200 and never fed | |
| `observers_release` | *violation*: a Subscription released twice takes another listener off the bus | |
| `syncher_reporters` | two requests that create, create again or resume, two subscribe messages of one or two hyperties, deletes, writes, restarts | 1.1 million |
| `data_sync` | one observer, two fields and a list, four changes, restarts or requests in all | 4.2 million |
| `data_sync_early_updates` | *violation*: an update between grant and confirmation is never applied | |
| `stub_deployment` | two callers and two deployments of one stub, which may fail at every step, while the application deploys it too; who waits is answered | 269 thousand |
| `handshake` | three messages, two subscriptions and an update between two sides: they agree, can read, have the key, and a first message arrives | 447 thousand |
| `services` | eleven services, one at a time, each with calls that overlap, failures and restarts | 2.0 million |

**Properties.** *Bus*: `HeldCallbackIsTimed`, `OneFinalAnswer`,
`EventuallyClosed`, `ImplementsRequestReply`.  *Observers*: `StoredAreAccepted`,
`FeedsAreVouchedFor`, `OneSubscriptionEach`, `SubscribedAreStored`,
`DeparturesSpareOthers`, `ResumedAreFed`, `AskedIsClosed`.  *Reporters*:
`ChangesArePublished`, `ListenersStay`, `ReporterListens`, `NothingIsOrphaned`,
`SubscribedAreStored`, `SubscribedWereAccepted`, `DeleteReachesObservers`.  *Data*:
`ObserversAreFaithful`, `UpdatesNeverGoBack`, `SavedCopyFollows`.  *Stubs*:
`ResolvedAreDeployed`, `CallersDeployOnce`, `NobodyWaitsForReady`, `WaitersAreAnswered`.
*Handshake*: `AuthenticatedAgree`, `MessagesAreReadable`, `ToldHaveTheKey`,
`FirstMessageArrives`.  *Services*: `IdentitiesFit`, `PeopleAreKeptApart`,
`RegisteredAreReached` and `StoredDecides`, each the conjunction of two to three
services' own properties, which their modules state.  Each is stated in
words above its definition, and each has a mutant: a plausible bug (`X_Y` before
definition `X`) under which TLC finds it violated.  The services have more mutants than
the run has properties: at least one for each service, and every one of them
is found by the conjunction it belongs to.

**Bounds.** `Retries = 1` gives two attempts under one key, the least at which a stale
timer meets a later callback; a third attempt meets the same two kinds of timer.
`Handlers = 2` separates a first handler from a last one.  Three subscribe requests
give one that creates the observer, one that shares it, and one that comes after a
departure or restart; the three assignments of senders let two of them come from one
hyperty.  Two create requests are the least that overlap, that delete and create
again, and that resume after a restart; two subscribe messages are the least for a
second subscriber and for one that subscribes again.  `MaxWork = 4` in `DataSync` allows
subscribe, a change, a restart and a change after it, or a list that grows, is set and
shrinks under an observer.  Observers share only the
reporter, and no property relates two, so that one is enough there.  In
`StubDeployment` two callers are the least that wait for one deployment, two deployments
the least that overwrite one another's entry.  In `Handshake` two messages let both sides
start, and a third comes after; two subscriptions let one disturb the handshake of the
other.  In the services two calls overlap; `MaxTokens = 3` allows a token, its refresh and
another login; two addresses, one for each of two keys; two versions, one to be stored
and one that replaces it, in one of the catalogues with texts that sort the other way;
two GUIDs of the owner, of which one can be used while the registry is asked about the
other; one put of each kind on its way (`MaxPuts`), which a restart loses or a failure
drops; two data objects whose texts read alike, and a hyperty of the same text; a
second runtime without space only reads, so that a resource is read across runtimes and
refused.  Symmetry is used
only where no liveness is checked.

**Deadlock** is not checked: every instance has finitely many requests and stops when
they are over.  What must not stop half way is stated as `EventuallyClosed` and
`AskedIsClosed`.

**Fairness.** Of the bus: the event loop fires due timers (`WF(FireTimer)`) and a
pipeline handler ends, by next or by fail (`WF(HandlerNext \/ HandlerFail)`); nobody is
obliged to answer.  Of the observers: what the node, the reporter or the offline
manager is asked with a callback and the default timeout is answered, by the bus
itself if need be; the bus's part is what `EventuallyClosed` establishes.  It does
not cover a message its pipeline rejects (`bus_always_answered`): messages from the
runtime to the node do not cross it, and a rejected message to the reporter or the
offline manager drops its request, as `ReporterRefuses` does.
Of the stubs: a step of the loader ends, by its result or by its failure, and a status
event is handled (`Fairness` of `StubDeployment`); nobody is obliged to announce anything
but a deployed stub its "created".  Of the handshake: what is on its way is handled
(`WF(Handle)`), as the bus delivers in turn; no hyperty has to send or subscribe, and the
network neither loses nor duplicates, so that `FirstMessageArrives` is about the
protocol alone.
`DataSync`, `SyncherReporters` and the services assume no fairness and state no liveness.

## Proofs

The proof modules extend the component's module; everything holds for all values of
the constants that satisfy the module's assumptions (for instance any number of
requests, retries, hyperties, observers, callers, deployments, messages and updates, and
any `MaxWork`).

* **`MessageBus_proofs`**: `TypeOK`, `HeldIffWaiting`, `HeldCallbackIsTimed`,
  `OneFinalAnswer`.  The invariant adds `StageInv` (a handler works on a message exactly
  while it is in the pipeline) and `AttemptInv` (a posted request has a current attempt,
  only retried ones get provisional answers): without them a stale timer could be the
  one of a callback that is not there.  The heart is the timer queue: removing its head
  and appending to its end keep, for every other held callback, its own timer.
  `BusImplementsRequestReply` is the refinement, for any number of requests.
* **`SyncherObservers_proofs`**: `TypeOK`, `StoredAreAccepted`, `FeedsAreVouchedFor`,
  `OneSubscriptionEach`, `SubscribedAreStored`.  The invariant adds
  `ResumingAreVouchedFor`: a request that is resuming was found in an entry that listed
  somebody accepted of its domain, and stays vouched for although the entry may be
  deleted while the descriptor is fetched.  The erroneous `splice(-1, 1)` only ever
  takes listeners away, which `Within` captures.
  A second invariant, `HoldersListen`, says that until the reporter deletes the
  object every Subscription of the table still has both its listeners.  The two action
  properties `DeparturesSpareOthers` and `ResumedAreFed` follow: a release then finds
  the listener it looks for, so `splice` takes that one and no other.
* **`DataSync_proofs`**: `TypeOK`, `ObserversAreFaithful`, `SavedCopyFollows`.  The
  invariant says that every update of this run carries what `deepClone` and the proxy
  leave of one step of the reporter's past (`Becomes`, `IsStep`), every snapshot is one of its
  versions, and a confirmation on its way is what the observer's runtime stored.
  A view is then not equal to the past but shows it (`Shows`: a falsy field may be
  missing), which an update preserves step by step, the irregular events being exactly
  the steps at which the argument breaks.  What is stored follows the fields of the view
  through everything that is not late; the list, which is stored by another operation
  than it is shown by, only while the observer is faithful: an "add" is then at the end,
  where `splice` and assignment do the same.
  `UpdatesNeverGoBack` is an action property that holds across restarts of the reporter,
  where the history of the run does not help.  `OrderInv` is its invariant: values
  of fields are written in growing order, but for falsy ones, so it compares each value on
  its way, or shown, with those the reporter wrote after the version it comes with.
* **`SyncherReporters_proofs`**: `ReporterListens`, `SubscribedAreStored`,
  `SubscribedWereAccepted`.  A `ReporterObject` reaches the table only at the end of a
  chain of asynchronous steps, so the invariant speaks of every object that is *backed*:
  in the table, or in the hands of a creation, or of a resumption that goes by the entry
  still stored.  `BackedAreStored` says that without overlap and staleness at most one
  object listens, and that a backed one has its subscribers in the entry.  Deleting
  then leaves nothing that listens (`DetachKeeps`), which is what makes a late creation
  stale rather than wrong; `EntriesAreFresh` keeps a new entry from being taken for one
  that an earlier resumption found.
  In its second part, on that invariant: `TypeOK`, `ChangesArePublished`,
  `ListenersStay`, `DeleteReachesObservers`, `NothingIsOrphaned`.  A release takes
  listeners off the list of `/changes` one at a time, by a recursive function over the
  sequence of those to release (`DetachPicked`).  `IndexInduction` is the induction this needs, by
  the least index at which a claim fails; `DetachPickedSpares` is what it gives: a
  listener that is not among those to release stays, provided that each of those is in
  the list, and there once.  `BusInv` therefore carries that the listeners of all
  Subscriptions are there (`ListenersStay`), besides the shared one of `addPublish`
  (`PublisherStays`), which is what carries a delete to the observers after the object is
  gone.  `ListenersAreHeld`, `ForwardsHaveHandles` and `HandlesAreHeld` say who can still
  remove what listens or forwards.
* **`StubDeployment_proofs`**: `TypeOK`, `ResolvedAreDeployed`, `CallersDeployOnce`,
  `NobodyWaitsForReady`.  The invariant follows an entry's status back to its source: an
  event of a stub that announced itself, and was deployed before it could
  (`ReadyAreAnnounced`, `EventsAreAnnounced`, `SpeakersWereDeployed`).  `CreatedComesFirst`
  is why a waiting caller, which listens for "created" only, is not left behind: that is
  the first event of its stub, and the entry is not ready before it is handled.
* **`Handshake_proofs`**: `TypeOK`, `MessagesAreReadable`.  The invariant is the list of
  the phases: what each leaves in the chat keys of both sides and between them.  One phase
  holds as long as no handshake is crossed or disturbed; after that both sides may hold
  keys of different handshakes, and `MessagesAreReadable` does not speak of it.
  In its second part, on these types: `AuthenticatedAgree`, `ToldHaveTheKey`, through
  crossed and disturbed handshakes too, where hellos and certificates of several are on their way
  at once.  What can still become of them depends on one thing: where the random value
  is that the subscriber drew last.  It is `IsNowhere`, `IsOffered` to the reporter, or
  `IsTaken` in the keys the reporter made last; anything drawn before comes to nothing
  (`OffersAreFutile`).  `Ways` lists how handshakes can go: none (`Quiet`), one (`Alone`),
  two that meet (`Crossing`, then `Crossed`), or hellos of the reporter each time somebody
  subscribes (`Subscribing`), of which only the last counts (`HelloIsLast`, `IsCurrent`).
  With `OneKey` and `ToldWillHaveIt`, which follow the object's key to the subscriber and
  the acknowledgement back, these are inductive; TLC has checked them on the instance of
  `MCHandshake`.

* **`ServicesPeople_proofs`** and **`Services_proofs`**: `TypeOK`, `IdentitiesFit`,
  `PeopleAreKeptApart`, `RegisteredAreReached`, `StoredDecides`.  `ServicesInv` says that
  the service that acts keeps its own invariant.  That the others sleep makes the
  composition short: the work is in the eleven invariants, most of which are about
  what is *on its way*.
  - `TokenInv`: every entry, in memory, storage or a queued write, has the resources its
    token was issued for (`EntriesFit`), and every write has one request that
    waits for it, whose domain has a token (`WritesAreAwaited`).  Otherwise a restart or a
    late write could bring back a token of another request.
  - `AssertionInv`: who was known once is known or was removed, what a demand does after
    storage is one of the stages the code goes on with, and a refresh is of an identity.
  - `RecordInv`: the last puts of record and key are of one GUID, unless one was put
    without the other (`RecordHasKey`), and as long as a restart has not got both, so is
    everything that is stored or on its way (`RecordComes`); every record, in memory,
    stored or on its way, has data of its own GUID or carried-over ones only.
    `ContactInv`: two reads of one contact are noted before either ends
    (`AddsAreNoted`), and storage is what memory is.  Removal skips the contact after
    the one it removes: `WithoutIsPart` shows by `IndexInduction` that what it leaves are some
    of the contacts, each from a place of its own (`IsPart`).
  - `RoomInv`: while a chat is open whoever refused waits, was dropped or has a later
    invitation (`Chances`); nobody is invited before it is created.  An answer may belong to an
    invitation that is not the last, hence the order.
  - `PolicyInv`: what was asked for is in storage while the settings are loaded, one read
    after another (`InStorage`), and in memory and storage from then on (`InMemory`),
    unless a change is excused.  `JudgedAsAsked` then follows because a
    verdict is the same function of equal settings; groups are sequences in the code
    and sets in what was asked for, so that removal by index needs `MemberRemoved`.
  - `RegistrationInv`: there is an assignment of owners to addresses, such that every
    address in memory, storage, a queued write or a load is its owner's or was asked for
    (`OwnersFit`).  Addresses are allocated in order, and one that a restart finds in no map is
    still not allocated again; the existential says so without a history variable.  A
    key is a text, so that an address is of all whose texts read alike.
    `StageFits` and `DomainKnows` follow a load to the domain, and until it expires there.
  - `StatusInv`: unless messages crossed, who waits has an entry, the node's subscription,
    and no cancellation on its way; cancellations go before subscriptions (`Ordered`).
    Unless a restart found nothing of it in storage, a subscription that outlives its
    manager is followed by one of the next (`Followed`).
  - `SearchInv`: every user a search is about is led to by a query that is open, or what he
    had all the while is found (`UserFound`); each answer replaces a query by those that
    follow from it.  `Sensible` says what a query may be about.  Who asks for a legacy user
    is told at once, and nothing else (`SearchFits`).
  - `ResourceInv`: unless something was deleted, what is stored or about to be is in
    memory, and no save is stuck (`Remembers`), whatever the database did with what it was
    given.  The space of a set of resources is the number of their `Units`, a natural
    number by the theorems on finite sets, which types the estimates.
  - `CatalogueInv`: what a call has read or looked at is no older than its beginning and no
    newer than the catalogue, at each stage (`CallIsCurrent`), unless the stored text of
    its version sorted behind that of a later one (`OutrankedBy`).

Assumptions are the named `ASSUME`s of the modules (subsets, bounds in `Nat`, model
values distinct, finitely many subscribers of a reporter, since the listeners to
release are put in a sequence); TLC evaluates them in each run.  Those of `Services` say
that hyperties and resources are finitely many, sizes, quotas and bounds are numbers,
versions have places in the order of their texts (`TextsAreOrdered`),
users, homes and reporters are among what is registered (`SearchedThings`), and
policies are ones that the policy engine can be given (`PoliciesFit`).

Only model-checked:

* liveness (`EventuallyClosed`, `AskedIsClosed`, `WaitersAreAnswered`,
  `FirstMessageArrives`), which the prover cannot do under fairness, and the violation
  runs.  Every invariant of a passing run is proved.

## Findings

| Run | Where | What |
|---|---|---|
| `bus_always_answered` | `bus/MessageBus.js:79` | the callback is registered after the pipeline, though "a response will be always sent" |
| `bus_own_timeout` | `bus/Bus.js:158` | the timer of one attempt unregisters the callback of the next |
| `observers_subscribed_are_fed` | `syncher/SyncherManager.js:928` | a second local hyperty gets no Subscription |
| `observers_release` | `bus/Bus.js:325` | removing a listener twice removes somebody else's |
| `data_sync_early_updates` | `syncher/DataProvisional.js:63` | the provisional observer listens on an address no update is sent to |

Met while modelling, and part of the models or of the hazards rather than findings of
their own, because nothing in the repository says otherwise:

* A subscriber is stored whatever the reporter's hyperty answers
  (`ReporterObject.js:386`) and never removed when it leaves, so that a resumption gives
  refused and departed hyperties a Subscription.  `SubscribedWereAccepted` says what is
  left of the guarantee.
* A create that goes on after a delete puts a ReporterObject without listeners in the
  table (`SyncherManager.js:451`).
* The delete of an object reaches its observers only because the shared publish
  listener can never be removed; if `addPublish`'s `remove` did what it seems to mean,
  `DeleteReachesObservers` would fail (that is its mutant).
* Every update of a child object throws in `_changeChildren` (`DataObject.js:770`), and a
  read of a large object at `DataObjectReporter.js:481`; both name undeclared variables.
* A reporter resumed from an entry without version counts `NaN` (`DataObject.js:96`).
* A field that is set to 0, false, an empty text or null reaches observers as undefined
  (`DataObject.js:690`, `utils.js:111`).
* An element that is removed from a list stays at the observers, since the update has
  no value and the observer calls `splice(index, undefined)` (`ProxyObject.js:115`,
  `DataObject.js:743`); the stored copies, of both sides, get an undefined element in
  its place (`DataObjectsStorage.js:322`), and have an insertion assigned over what is
  there.
* The p2p branch of `_onProtostubStatusEvent` reads the resource of the event after it
  was overwritten (`Registry.js:970`), so that no p2p stub ever becomes live.

In the services:

* *Owner's record*: `addUserID` stores the record without the key that signed it
  (`GraphConnectorBase.js:545`), and elsewhere record and key are two puts nobody waits
  for (148, 226, 305): a restart in between, or before both are loaded (1260, 1293), finds
  one of each.  `_createKeys` (245) keeps the identities and defaults of the record it
  finds, so that they are stored under the next GUID.
* *Contacts*: those restored from storage are plain objects, without the accessor
  `privateContact`, so that private ones enter the filter (1059); two calls of
  `addContact` for one GUID both pass its check (657).
* *Identities*: a removed identity may come back after a restart, when an older write
  ends last; when an expired assertion cannot be refreshed, whoever logs in then is
  taken for its owner (`IdentityModule.js:1473`); a refused refresh is never answered,
  for it names an undeclared variable (1058).
* *Storage*: `StorageManager.set` resolves when the database failed
  (`StorageManager.js:166`), so that no caller learns of it.
* *Registration*: the keep-alive timer starts before the domain answered and is never
  stopped (`DomainRegistration.js:375`), so that it revives what was unregistered, while
  its period is not that of the registration (3600 or as configured, 268), which may
  expire under it; a refusal throws inside a callback and leaves the load unsettled (363),
  as does one of a data object, which `registerDataObject` does not pass on
  (`Registry.js:513`); the keys of addresses are texts put together without separators
  (`Registry.js:609`);
  `unregisterAllHyperties` waits for nothing, because `unregisterHypertyInstance` returns
  no promise (`Registry.js:398`).
* *Status subscriptions*: the manager's entry is stored later than the node has the
  subscription (`SubscriptionManager.js:141`), so that a restart in between leaves the node
  subscribed for nobody.
* *Discovery*: a legacy user is given as if he were a hyperty or data object
  (`Discovery.js:365`); a query that times out is answered with the query itself, whose fields
  are returned as the data objects found (`CoreDiscovery.js:584`).
* *Chat*: when one joined chat is deleted all chats are closed (`ChatManager.js:123`); a
  participant who leaves is looked up by user URL, while participants are kept by GUID
  (`ChatController.js:263`).
* *Policies*: stored policies lose their algorithm (`RuntimeCoreCtx.js:200`); the
  provider's come back as plain data that cannot be evaluated (85); what is changed while
  the configuration is loading is overwritten (67); `removePolicy` of the provider's is
  not saved (`PEP.js:202`); removing somebody who is not in a group removes its last
  member (`RuntimeCoreCtx.js:325`); a message without identity is judged by the source of
  the one before (`ReThinkCtx.js:73`); `Rule.js:4` takes `AdvancedCondition` for
  `SubscriptionCondition`.
* *Hyperty resources*: the comparator that orders by age returns a Boolean, so that what
  is evicted first is up to the engine (`HypertyResourcesStorage.js:181`); deleting never
  reaches the database (321), so that the size of what was deleted is looked up in vain; the
  space left is estimated once, and of the whole origin (57); a failed write is
  answered 200 (148), and a failed read while space is made not at all (176).
* *Catalogue*: versions are compared as strings (`RuntimeCatalogue.js:56`), so that "0.9"
  that is stored is given for "0.10"; the loader gets the source package again although it is stored with the
  descriptor (`Loader.js:415`), so that it may be of a later version; after the first IdP
  proxy every descriptor is asked for with that one's constraints, which are written into
  the shared ones (`Descriptors.js:101`); source code is never cached, for a string has no
  key (`RuntimeCatalogue.js:478`, `StorageManager.js:156`).

## Not modelled

* *Not at all*:
  * **P2P connections** (`registry/P2PConnectionResolve.js`): because of the overwritten
    resource named above, the code that answers who waits for one is never reached.
  * **Heartbeat and backup reporters** (`syncher/HeartBeat.js`): who syncs when is decided
    by comparing wall-clock times with multiples of a rate; the models have no clock.
  * **Runtime start and sandboxes**: wiring, done once; deploying a component in a
    sandbox is a step of `StubDeployment` and `HypertyRegistration`.
  * **Stub frameworks and QoS**: skeletons without behaviour of their own.
  * **Utilities**: parsing of descriptors, address arithmetic, the
    validator `utils/tv4.js`, which is vendored; and the context libraries, thin callers
    of the Syncher.
* *In the bus and the synchers*: invitations (`_authorise`, one message and its answer
  each), the offline subscription manager on the reporter's side (messages without
  answer), the listeners of `/children/` addresses (added and removed together with the
  modelled ones), read and execute requests, backup to a remote store, and what
  `getResourcesByCriteria` finds among several objects: its `_intersection` is a union,
  so that any shared criterion is enough.
* *In `StubDeployment`*: legacy (interworking) stubs, whose users are found by their
  domain, and the search of hyperties by the registry.
* *In `Handshake`*: loss and duplication of handshake messages, against which the code
  has neither retry nor timer; encryption, signatures and the encoding of messages are
  values that fit or do not.
* *In the services*: `IdentityManager` (each call one request to the module) and the
  parsing of tokens; subscription preferences, dates, times and contents in conditions
  of policies; searches by resources and data schemes; the names, user identities and
  residences of contacts, and the exchange of filters with others (contacts of
  contacts); the messages of a chat, which are child objects; reading, resizing and
  transferring files; the update of a registration.  The synchronisation of
  `StorageManager` with a remote database is that of its library.
