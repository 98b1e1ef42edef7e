-------------------------- MODULE SyncherReporters --------------------------
(***************************************************************************)
(* The reporter side of a runtime's SyncherManager for the URL of one data *)
(* object (syncher/SyncherManager.js, ReporterObject.js, Subscription.js   *)
(* and the reporters' half of store-objects/DataObjectsStorage.js): local  *)
(* hyperties create the object, again if they reuse its URL, resume it     *)
(* from the stored entry, and delete it; remote hyperties subscribe,       *)
(* perhaps again, and unsubscribe, while the runtime may restart.          *)
(*                                                                         *)
(* Requests are the create messages the manager gets.  A ReporterObject, a *)
(* stored entry and a forward are named by the request that made them:     *)
(* each outlives its place in the manager's tables as long as somebody     *)
(* else refers to it.                                                      *)
(***************************************************************************)
EXTENDS Naturals, SequencesExt

CONSTANTS
    Requests,       \* create messages, new or resuming
    Subscribers,    \* remote hyperties that subscribe to the object
    None,           \* no request
    Loaded,         \* the entry that was loaded from the disk
    MaxAsks         \* bound on the subscribe messages that arrive

ASSUME NamesAssumption == None \notin Requests /\ Loaded \notin Requests /\ None # Loaded

ASSUME BoundAssumption == MaxAsks \in Nat

ASSUME SubscribersAssumption == IsFiniteSet(Subscribers)

VARIABLES
    stage,      \* how far the manager's handling of each request went
    object,     \* the ReporterObject it works on: the request that made it, or None
    found,      \* the stored entry a resuming request goes by
    reporter,   \* _reporters[url]
    subs,       \* _subscriptions of each ReporterObject
    subscribing,\* the bus's listener list of the /subscription address
    changes,    \* the one of the /changes address
    published,  \* whether the bus's _forwards has the /changes address
    forwards,   \* the forwards of the object's address to its hyperty, on the bus
    handle,     \* _forwards of each ReporterObject: the request that made it
    asking,     \* subscriptions its hyperty was asked about
    asked,      \* how many subscribe messages arrived
    goodbyes,   \* deletes on their way to /changes, with who was subscribed then
    entry,      \* the stored entry: the request that made it, Loaded or None
    listed,     \* the subscriptions each entry lists
    disk,       \* those in the storage that survives a restart, or None
    accepted,   \* history: subscribers the hyperty accepted
    odd         \* history: what happened that nothing in the code expects

objects  == <<object, reporter, subs, subscribing, changes, published, forwards, handle>>
messages == <<asking, asked, goodbyes>>
stored   == <<found, entry, listed, disk>>
history  == <<accepted, odd>>
vars     == <<stage, objects, messages, stored, history>>

-----------------------------------------------------------------------------
Creating == {"registering", "storing", "forwarding", "children"}
Resuming == {"resuming", "reforwarding", "rechildren"}
Closed   == {"created", "resumed", "refused", "dropped", "lost"}
Stages   == {"idle"} \union Creating \union Resuming \union Closed

Entries == Requests \union {Loaded}
Optional(S) == S \union {None}
Goodbyes == [of : Requests, left : SUBSET Subscribers]

Listeners ==
    {[role |-> "publish"]} \union [role : {"record"}, of : Requests]
        \union [role : {"delete"}, of : Requests, who : Subscribers]

Publisher            == [role |-> "publish"]
Recorder(q)          == [role |-> "record", of |-> q]
DeleteListener(q, s) == [role |-> "delete", of |-> q, who |-> s]

Asks == [of : Requests, who : Subscribers, nr : 1 .. MaxAsks]

\* again: a subscriber subscribed to a ReporterObject that had its subscription;
\* overlap: a ReporterObject was made although one listened already;
\* stale: a request went on with a ReporterObject or an entry deleted meanwhile.
Oddities == {"again", "overlap", "stale"}

Occurs(l, list) == \E i \in 1 .. Len(list) : list[i] = l

\* Subscriptions to the object reach q.
Listens(q) == Occurs(q, subscribing)

TypeOK ==
    /\ stage \in [Requests -> Stages]
    /\ object \in [Requests -> Optional(Requests)]
    /\ found \in [Requests -> Optional(Entries)]
    /\ reporter \in Optional(Requests)
    /\ subs \in [Requests -> SUBSET Subscribers]
    /\ subscribing \in Seq(Requests)
    /\ changes \in Seq(Listeners)
    /\ published \in BOOLEAN
    /\ forwards \in SUBSET Requests
    /\ handle \in [Requests -> Optional(Requests)]
    /\ asking \in SUBSET Asks
    /\ asked \in 0 .. MaxAsks
    /\ goodbyes \in SUBSET Goodbyes
    /\ entry \in Optional(Entries)
    /\ listed \in [Entries -> SUBSET Subscribers]
    /\ disk \in Optional(SUBSET Subscribers)
    /\ accepted \in SUBSET Subscribers
    /\ odd \in SUBSET Oddities

Init ==
    /\ stage = [q \in Requests |-> "idle"]
    /\ object = [q \in Requests |-> None]
    /\ found = [q \in Requests |-> None]
    /\ reporter = None
    /\ subs = [q \in Requests |-> {}]
    /\ subscribing = <<>>
    /\ changes = <<>>
    /\ published = FALSE
    /\ forwards = {}
    /\ handle = [q \in Requests |-> None]
    /\ asking = {}
    /\ asked = 0
    /\ goodbyes = {}
    /\ entry = None
    /\ listed = [e \in Entries |-> {}]
    /\ disk = None
    /\ accepted = {}
    /\ odd = {}

-----------------------------------------------------------------------------
(* Listeners on the bus.                                                   *)

\* Mutant: whatever the listener, the last one of the list is removed.
Detach_Last(list, l) ==
    IF list = <<>> THEN list ELSE RemoveAt(list, Len(list))

\* MsgListener.remove: indexOf a listener that is no longer in the list is -1,
\* and splice(-1, 1) removes the last listener of the list.
Detach(list, l) ==
    IF Occurs(l, list)
    THEN RemoveAt(list, CHOOSE i \in 1 .. Len(list) : list[i] = l)
    ELSE IF list = <<>> THEN list ELSE RemoveAt(list, Len(list))

\* remove of those listeners of ls that are picked, in the order of ls.
DetachPicked(list, ls, picked) ==
    LET after[i \in 0 .. Len(ls)] ==
            IF i = 0 THEN list
            ELSE IF i \in picked THEN Detach(after[i - 1], ls[i]) ELSE after[i - 1]
    IN  after[Len(ls)]

DetachAll(list, ls) == DetachPicked(list, ls, DOMAIN ls)

\* The listeners of the object's hyperties, in one of the orders a table's keys
\* can have.
DeleteListenersOf(q, S) ==
    {[i \in DOMAIN order |-> DeleteListener(q, order[i])] : order \in SetToSeqs(S)}

\* MessageBus.addPublish for the first Subscription of S: _forwards remembers
\* the address for ever, because the remove of a publish listener counts down a
\* counter of the bus that does not exist.
Publishing(list, S) ==
    IF S # {} /\ ~published THEN Append(list, Publisher) ELSE list

\* new Subscription for each of S: its delete listener, then addPublish.
NewSubscriptions(q, S) ==
    /\ published' = (published \/ S # {})
    /\ \E ls \in DeleteListenersOf(q, S) :
          changes' = IF ls = <<>> THEN changes
                     ELSE Publishing(Append(changes, Head(ls)), S) \o Tail(ls)
    /\ subs' = [subs EXCEPT ![q] = @ \union S]

\* new ReporterObject: the subscription listener, then the one that saves changes.
NewReporterObject(q) ==
    /\ object' = [object EXCEPT ![q] = q]
    /\ subscribing' = Append(subscribing, q)
    /\ changes' = Append(changes, Recorder(q))
    /\ odd' = IF subscribing # <<>> THEN odd \union {"overlap"} ELSE odd

\* The ReporterObject of the table, or a new one if there is none.
TakeReporter(q) ==
    IF reporter = None
    THEN NewReporterObject(q)
    ELSE /\ object' = [object EXCEPT ![q] = reporter]
         /\ UNCHANGED <<subscribing, changes, odd>>

\* History: what goes on with q is stale once q no longer listens.
GoesOnWith(q) == odd' = IF Listens(q) THEN odd ELSE odd \union {"stale"}

-----------------------------------------------------------------------------
(* Creating the object.                                                    *)

\* _newCreate: without a descriptor the answer is 500; with one the object is
\* allocated, or its URL reused, and then registered.
Create(q) ==
    /\ stage[q] = "idle"
    /\ \E next \in {"registering", "refused"} : stage' = [stage EXCEPT ![q] = next]
    /\ UNCHANGED <<objects, messages, stored, history>>

\* The registration fails: an error is logged and nobody is told.
RegistrationFails(q) ==
    /\ stage[q] = "registering"
    /\ stage' = [stage EXCEPT ![q] = "dropped"]
    /\ UNCHANGED <<objects, messages, stored, history>>

\* DataObjectsStorage.set: an entry without subscriptions, unless there is one.
Store(q) ==
    /\ entry' = IF entry = None THEN q ELSE entry
    /\ UNCHANGED <<found, listed, disk>>

\* Registered: find or make the ReporterObject, and store the object.
Registered(q) ==
    /\ stage[q] = "registering"
    /\ stage' = [stage EXCEPT ![q] = "storing"]
    /\ TakeReporter(q)
    /\ Store(q)
    /\ UNCHANGED <<reporter, subs, published, forwards, handle, messages, accepted>>

\* The store was written.  With domain routing the node is asked to forward the
\* object's addresses; then, or at once, it is asked for those of the children.
Stored(q) ==
    /\ stage[q] = "storing"
    /\ \E next \in {"forwarding", "children"} : stage' = [stage EXCEPT ![q] = next]
    /\ UNCHANGED <<objects, messages, stored, history>>

\* forwardSubscribe, 200: a forward to the hyperty, whose handle takes the place
\* of the one that an earlier request for the same ReporterObject left.
NodeAccepts(q) ==
    /\ \/ stage[q] = "forwarding" /\ stage' = [stage EXCEPT ![q] = "children"]
       \/ stage[q] = "reforwarding" /\ stage' = [stage EXCEPT ![q] = "rechildren"]
    /\ forwards' = forwards \union {q}
    /\ handle' = [handle EXCEPT ![object[q]] = q]
    /\ GoesOnWith(object[q])
    /\ UNCHANGED <<object, reporter, subs, subscribing, changes, published>>
    /\ UNCHANGED <<messages, stored, accepted>>

\* Any other answer rejects a promise that nobody handles: no answer is sent.
NodeRefuses(q) ==
    /\ stage[q] \in {"forwarding", "reforwarding"}
    /\ stage' = [stage EXCEPT ![q] = "dropped"]
    /\ UNCHANGED <<objects, messages, stored, history>>

\* addChildrens fails: a resumption is answered without the object, a creation
\* is not answered.
ChildrenRefused(q) ==
    /\ \/ stage[q] = "children" /\ stage' = [stage EXCEPT ![q] = "dropped"]
       \/ stage[q] = "rechildren" /\ stage' = [stage EXCEPT ![q] = "refused"]
    /\ UNCHANGED <<objects, messages, stored, history>>

\* addChildrens succeeds for a creation: only now the ReporterObject is put in
\* the table, whatever became of it, and the hyperty is answered 200.
Created(q) ==
    /\ stage[q] = "children"
    /\ stage' = [stage EXCEPT ![q] = "created"]
    /\ reporter' = object[q]
    /\ GoesOnWith(object[q])
    /\ UNCHANGED <<object, subs, subscribing, changes, published, forwards, handle>>
    /\ UNCHANGED <<messages, stored, accepted>>

-----------------------------------------------------------------------------
(* Resuming the object.                                                    *)

\* _onCreate with resume, from the hyperty the entry names as the reporter:
\* fetch the descriptor, or answer 404.
Resume(q) ==
    /\ stage[q] = "idle"
    /\ stage' = [stage EXCEPT ![q] = IF entry = None THEN "refused" ELSE "resuming"]
    /\ found' = [found EXCEPT ![q] = entry]
    /\ UNCHANGED <<entry, listed, disk, objects, messages, history>>

\* No descriptor: the answer is a 200 without the object.
ResumeFails(q) ==
    /\ stage[q] = "resuming"
    /\ stage' = [stage EXCEPT ![q] = "refused"]
    /\ UNCHANGED <<objects, messages, stored, history>>

\* _resumeCreate goes on: with domain registration the node is asked first.
ResumeCreate(q) ==
    /\ stage[q] = "resuming"
    /\ \E next \in {"reforwarding", "rechildren"} : stage' = [stage EXCEPT ![q] = next]
    /\ TakeReporter(q)
    /\ UNCHANGED <<reporter, subs, published, forwards, handle, messages, stored, accepted>>

\* _resumeReporterSubscriptions after addChildrens: everyone the entry lists gets
\* a Subscription, and the ReporterObject is put in the table.  The answer
\* follows when the children are decrypted and the object is registered; when
\* one of that fails there is none.
Resumed(q) ==
    /\ stage[q] = "rechildren"
    /\ \E end \in {"resumed", "dropped"} : stage' = [stage EXCEPT ![q] = end]
    /\ NewSubscriptions(object[q], listed[found[q]] \ subs[object[q]])
    /\ reporter' = object[q]
    /\ odd' = IF Listens(object[q]) /\ found[q] = entry THEN odd ELSE odd \union {"stale"}
    /\ UNCHANGED <<object, subscribing, forwards, handle>>
    /\ UNCHANGED <<messages, stored, accepted>>

-----------------------------------------------------------------------------
(* Subscribers.                                                            *)

HasSubscription(q, s) == Listens(q) /\ s \in subs[q]

\* Those of the ReporterObjects that listen, in the order of the list, that have a
\* Subscription to s.
Holding(s) == {i \in DOMAIN subscribing : s \in subs[subscribing[i]]}

\* Mutant: a Subscription releases the publish listener all of them share.
ReleasedFor_Publisher(s) ==
    DetachPicked(changes, [i \in DOMAIN subscribing |-> Publisher], Holding(s))

\* What is left of /changes when each of them released its Subscription to s.
ReleasedFor(s) ==
    DetachPicked(changes, [i \in DOMAIN subscribing |-> DeleteListener(subscribing[i], s)],
                 Holding(s))

\* _onRemoteSubscribe, at every ReporterObject that listens: one that has a
\* Subscription to s releases its listener and keeps it in the table; the hyperty
\* is asked in any case.
RemoteSubscribe(s) ==
    /\ asked < MaxAsks
    /\ subscribing # <<>>
    /\ asked' = asked + 1
    /\ asking' = asking \union
          {[of |-> q, who |-> s, nr |-> asked + 1] : q \in {r \in Requests : Listens(r)}}
    /\ changes' = ReleasedFor(s)
    /\ odd' = IF \E q \in Requests : HasSubscription(q, s)
              THEN odd \union {"again"} ELSE odd
    /\ UNCHANGED <<stage, object, reporter, subs, subscribing, published, forwards, handle>>
    /\ UNCHANGED <<goodbyes, stored, accepted>>

\* Mutant: the object is listed in place of its subscriber.
List_Object(s) ==
    listed' = IF entry = None THEN listed ELSE [listed EXCEPT ![entry] = @ \union {entry}]

\* The store lists a subscriber if the object is stored.
List(s) ==
    listed' = IF entry = None THEN listed ELSE [listed EXCEPT ![entry] = @ \union {s}]

\* Mutant: only the Subscription is made, the store is left for the next save.
HypertyAccepts_Unstored(a) ==
    /\ a \in asking
    /\ asking' = asking \ {a}
    /\ accepted' = accepted \union {a.who}
    /\ NewSubscriptions(a.of, {a.who} \ subs[a.of])
    /\ GoesOnWith(a.of)
    /\ UNCHANGED <<stage, object, reporter, subscribing, forwards, handle, asked, goodbyes>>
    /\ UNCHANGED stored

\* The hyperty says 200: a Subscription, unless the table has one, even if the
\* object was deleted meanwhile.
HypertyAccepts(a) ==
    /\ a \in asking
    /\ asking' = asking \ {a}
    /\ accepted' = accepted \union {a.who}
    /\ NewSubscriptions(a.of, {a.who} \ subs[a.of])
    /\ GoesOnWith(a.of)
    /\ List(a.who)
    /\ UNCHANGED <<stage, object, reporter, subscribing, forwards, handle, asked, goodbyes>>
    /\ UNCHANGED <<found, entry, disk>>

\* Mutant: the answer's code is not looked at.
HypertyRefuses_Ignored(a) ==
    /\ a \in asking
    /\ asking' = asking \ {a}
    /\ NewSubscriptions(a.of, {a.who} \ subs[a.of])
    /\ List(a.who)
    /\ UNCHANGED <<stage, object, reporter, subscribing, forwards, handle, asked, goodbyes>>
    /\ UNCHANGED <<found, entry, disk, accepted, odd>>

\* It says something else, or the bus says 408 in its place: no Subscription,
\* but the subscriber is listed by the store all the same.
HypertyRefuses(a) ==
    /\ a \in asking
    /\ asking' = asking \ {a}
    /\ List(a.who)
    /\ UNCHANGED <<stage, objects, asked, goodbyes, found, entry, disk, accepted, odd>>

\* _onRemoteUnSubscribe: the Subscription goes, the store still lists s.
RemoteUnSubscribe(s) ==
    /\ \E q \in Requests : HasSubscription(q, s)
    /\ changes' = ReleasedFor(s)
    /\ subs' = [q \in Requests |-> IF Listens(q) THEN subs[q] \ {s} ELSE subs[q]]
    /\ UNCHANGED <<stage, object, reporter, subscribing, published, forwards, handle>>
    /\ UNCHANGED <<messages, stored, history>>

-----------------------------------------------------------------------------
(* Deleting the object.                                                    *)

\* Mutant: the Subscriptions' publish listener is released as well.
ReleaseListeners_Publisher(q) ==
    /\ subscribing' = Detach(subscribing, q)
    /\ \E ls \in DeleteListenersOf(q, subs[q]) :
          changes' = SelectSeq(DetachAll(changes, <<Recorder(q)>> \o ls), LAMBDA l : l # Publisher)
    /\ forwards' = forwards \ {handle[q]}
    /\ handle' = [handle EXCEPT ![q] = None]

\* ReporterObject._releaseListeners
ReleaseListeners(q) ==
    /\ subscribing' = Detach(subscribing, q)
    /\ \E ls \in DeleteListenersOf(q, subs[q]) :
          changes' = DetachAll(changes, <<Recorder(q)>> \o ls)
    /\ forwards' = forwards \ {handle[q]}
    /\ handle' = [handle EXCEPT ![q] = None]

\* Mutant: the table forgets the object, which goes on listening.
Delete_KeepsListeners ==
    /\ reporter # None
    /\ goodbyes' = goodbyes \union {[of |-> reporter, left |-> subs[reporter]]}
    /\ reporter' = None
    /\ entry' = None
    /\ UNCHANGED <<stage, object, subs, published, subscribing, changes, forwards, handle>>
    /\ UNCHANGED <<asking, asked, found, listed, disk, history>>

\* Mutant: the object stays in the table.
Delete_KeepsTable ==
    /\ reporter # None
    /\ goodbyes' = goodbyes \union {[of |-> reporter, left |-> subs[reporter]]}
    /\ ReleaseListeners(reporter)
    /\ entry' = None
    /\ UNCHANGED <<stage, object, reporter, subs, published, asking, asked, found, listed, disk, history>>

\* _onDelete: the delete message to /changes enters the bus's pipeline, the
\* listeners are released before it leaves it, and the entry goes.
Delete ==
    /\ reporter # None
    /\ goodbyes' = goodbyes \union {[of |-> reporter, left |-> subs[reporter]]}
    /\ ReleaseListeners(reporter)
    /\ reporter' = None
    /\ entry' = None
    /\ UNCHANGED <<stage, object, subs, published, asking, asked, found, listed, disk, history>>

\* The delete leaves the pipeline and is delivered to the listeners of /changes.
\* A hyperty of this runtime that a Subscription asks about it does not observe
\* the object: it answers 404, and nothing is released.
DeliverDelete(g) ==
    /\ g \in goodbyes
    /\ goodbyes' = goodbyes \ {g}
    /\ UNCHANGED <<stage, objects, asking, asked, stored, history>>

-----------------------------------------------------------------------------
(* Storage and restart.                                                    *)

Current == IF entry = None THEN None ELSE listed[entry]

\* The store's asynchronous write completes.
Persist ==
    /\ disk # Current
    /\ disk' = Current
    /\ UNCHANGED <<stage, objects, messages, found, entry, listed, history>>

\* The runtime and its hyperties restart; the store is loaded from the disk.
Restart ==
    /\ \E q \in Requests : stage[q] \notin {"idle", "lost"}
    /\ stage' = [q \in Requests |-> IF stage[q] = "idle" THEN "idle" ELSE "lost"]
    /\ object' = [q \in Requests |-> None]
    /\ reporter' = None
    /\ subs' = [q \in Requests |-> {}]
    /\ subscribing' = <<>>
    /\ changes' = <<>>
    /\ published' = FALSE
    /\ forwards' = {}
    /\ handle' = [q \in Requests |-> None]
    /\ asking' = {}
    /\ goodbyes' = {}
    /\ found' = [q \in Requests |-> None]
    /\ entry' = IF disk = None THEN None ELSE Loaded
    /\ listed' = [e \in Entries |-> IF e = Loaded /\ disk # None THEN disk ELSE {}]
    /\ odd' = {}
    /\ UNCHANGED <<asked, disk, accepted>>

-----------------------------------------------------------------------------
Next ==
    \/ \E q \in Requests :
          \/ Create(q) \/ RegistrationFails(q) \/ Registered(q) \/ Stored(q)
          \/ NodeAccepts(q) \/ NodeRefuses(q)
          \/ ChildrenRefused(q) \/ Created(q)
          \/ Resume(q) \/ ResumeFails(q) \/ ResumeCreate(q) \/ Resumed(q)
    \/ \E s \in Subscribers : RemoteSubscribe(s) \/ RemoteUnSubscribe(s)
    \/ \E a \in Asks : HypertyAccepts(a) \/ HypertyRefuses(a)
    \/ Delete
    \/ \E g \in Goodbyes : DeliverDelete(g)
    \/ Persist
    \/ Restart

Spec == Init /\ [][Next]_vars

-----------------------------------------------------------------------------
(* Properties.                                                             *)

UnderWay == Creating \union Resuming
Failed   == {"dropped", "refused"}

\* However creations, resumptions, subscriptions and departures interleave, the
\* changes of an object leave the runtime as long as it has a subscriber, unless
\* a subscriber subscribed again or a request went on with a deleted object.
ChangesArePublished ==
    odd \intersect {"again", "stale"} = {} =>
        \A q \in Requests : Listens(q) /\ subs[q] # {} => Occurs(Publisher, changes)

\* With the same exceptions, releasing one Subscription or ReporterObject takes
\* no listener of another off the bus: one that gets subscriptions also saves
\* changes and hears of the delete for each of its subscribers.
ListenersStay ==
    odd \intersect {"again", "stale"} = {} =>
        \A q \in Requests : Listens(q) =>
            /\ Occurs(Recorder(q), changes)
            /\ \A s \in subs[q] : Occurs(DeleteListener(q, s), changes)

\* The ReporterObject of the table gets the subscriptions of remote hyperties,
\* unless a request put it there after its delete.
ReporterListens ==
    reporter # None /\ "stale" \notin odd => Listens(reporter)

\* A ReporterObject or a forward is left on the bus only by a request that
\* failed on the way, or by one whose forward a later request replaced.
NothingIsOrphaned ==
    odd = {} =>
        /\ \A q \in Requests : Listens(q) =>
              \/ reporter = q
              \/ \E p \in Requests : object[p] = q /\ stage[p] \in UnderWay \union Failed
        /\ \A f \in forwards : ~Listens(object[f]) =>
              \E p \in Requests \ {f} : object[p] = object[f]

\* A remote hyperty that is subscribed to the object of the table is listed by
\* its stored entry, so that a restart can resume its subscription.
SubscribedAreStored ==
    reporter # None /\ odd \intersect {"overlap", "stale"} = {} =>
        entry # None /\ subs[reporter] \subseteq listed[entry]

\* A subscriber was accepted by the hyperty, unless a resumption took it from
\* the store.
SubscribedWereAccepted ==
    \A q \in Requests :
        (\A p \in Requests : object[p] = q => stage[p] \notin {"resumed", "dropped"})
            => subs[q] \subseteq accepted

\* The delete of an object reaches the runtimes of its subscribers, although all
\* listeners of the ReporterObject are released before it leaves the pipeline:
\* whenever it may do so, somebody listens who carries it there.
DeleteReachesObservers ==
    odd \intersect {"again", "stale"} = {} =>
        \A g \in goodbyes : g.left # {} => Occurs(Publisher, changes)
=============================================================================
