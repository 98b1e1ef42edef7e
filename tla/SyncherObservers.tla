-------------------------- MODULE SyncherObservers --------------------------
(***************************************************************************)
(* The observer side of a runtime's SyncherManager for one data object     *)
(* (syncher/SyncherManager.js, ObserverObject.js, Subscription.js and the  *)
(* observers' half of store-objects/DataObjectsStorage.js): local hyperties*)
(* subscribe to the object, resume a stored subscription, unsubscribe, and *)
(* are told that the reporter deleted it, while the runtime may restart.   *)
(*                                                                         *)
(* Requests are the subscribe messages the manager gets.  A Subscription   *)
(* object and an ObserverObject are named by the request that made them,   *)
(* because an object outlives its entry in the manager's tables as long as *)
(* the bus holds its listeners.                                            *)
(***************************************************************************)
EXTENDS Naturals, Sequences

CONSTANTS
    Hyperties,      \* hyperties that run on this runtime
    Domains,
    DomainOf,       \* the domain of each hyperty's URL
    Interworking,   \* hyperties whose user is not a user:// URL
    Requests,       \* subscribe messages, new or resuming
    Senders,        \* the choices of the hyperty that sends each of them
    None            \* no request

ASSUME HypertiesAssumption ==
    /\ DomainOf \in [Hyperties -> Domains]
    /\ Interworking \subseteq Hyperties

ASSUME RequestsAssumption ==
    /\ Senders \subseteq [Requests -> Hyperties]
    /\ None \notin Requests

VARIABLES
    sender,     \* the hyperty that sends each request
    stage,      \* how far the manager's handling of each request went
    observer,   \* _observers[objURL]: the request that made it, or None
    table,      \* _subscriptions of that observer: the requests that made them
    listeners,  \* the bus's listener list of the object's /changes address
    closing,    \* the delete handshake of each Subscription with its hyperty
    deleted,    \* whether the reporter deleted the object since the start
    stored,     \* the stored entry's subscriptions, in memory; {}: no entry
    disk,       \* the same in the storage that survives a restart
    accepted    \* history: hyperties whose subscription the reporter accepted

session == <<sender, stage, observer, table, listeners, closing, deleted>>
vars    == <<session, stored, disk, accepted>>

-----------------------------------------------------------------------------
Waiting == {"node", "reporter", "offline"}
Closed  == {"subscribed", "resumed", "refused", "dropped", "lost"}
Stages  == {"idle", "resuming"} \union Waiting \union Closed

Roles     == {"record", "delete", "forward"}
Listeners == [role : Roles, of : Requests]

Recorder(q)       == [role |-> "record", of |-> q]
DeleteListener(q) == [role |-> "delete", of |-> q]
Forwarder(q)      == [role |-> "forward", of |-> q]

Occurs(l, list) == \E i \in 1 .. Len(list) : list[i] = l

IsListening(l) == Occurs(l, listeners)

\* h is sent the changes of the object.
IsFed(h) ==
    \E i \in 1 .. Len(listeners) :
        listeners[i].role = "forward" /\ sender[listeners[i].of] = h

TypeOK ==
    /\ sender \in Senders
    /\ stage \in [Requests -> Stages]
    /\ observer \in Requests \union {None}
    /\ table \in SUBSET Requests
    /\ listeners \in Seq(Listeners)
    /\ closing \in [Requests -> {"no", "asked", "left"}]
    /\ deleted \in BOOLEAN
    /\ stored \in SUBSET Hyperties
    /\ disk \in SUBSET Hyperties
    /\ accepted \in SUBSET Hyperties

Init ==
    /\ sender \in Senders
    /\ stage = [q \in Requests |-> "idle"]
    /\ observer = None
    /\ table = {}
    /\ listeners = <<>>
    /\ closing = [q \in Requests |-> "no"]
    /\ deleted = FALSE
    /\ stored = {}
    /\ disk = {}
    /\ accepted = {}

-----------------------------------------------------------------------------
(* Listeners on the bus.                                                   *)

WithoutIndex(list, i) == SubSeq(list, 1, i - 1) \o SubSeq(list, i + 1, Len(list))

\* Mutant: whatever the listener, the last one of the list is removed.
Remove_Last(list, l) ==
    IF list = <<>> THEN list ELSE WithoutIndex(list, Len(list))

\* MsgListener.remove: indexOf a listener that is no longer in the list is -1,
\* and splice(-1, 1) removes the last listener of the list.
Remove(list, l) ==
    IF Occurs(l, list)
    THEN WithoutIndex(list, CHOOSE i \in 1 .. Len(list) : list[i] = l)
    ELSE IF list = <<>> THEN list ELSE WithoutIndex(list, Len(list))

\* Subscription._releaseListeners
Release(list, q) == Remove(Remove(list, DeleteListener(q)), Forwarder(q))

\* new Subscription: the delete listener, then the one that forwards changes.
NewSubscription(list, q) == list \o <<DeleteListener(q), Forwarder(q)>>

\* new ObserverObject, unless the object has one.
WithObserver(q) ==
    IF observer = None THEN Append(listeners, Recorder(q)) ELSE listeners

\* Mutant: a second Subscription replaces the hyperty's first one.
AddSubscription_Unguarded(q, list) ==
    /\ table' = table \union {q}
    /\ listeners' = NewSubscription(list, q)

\* ObserverObject.addSubscription: a Subscription, unless the hyperty has one.
AddSubscription(q, list) ==
    IF \E p \in table : sender[p] = sender[q]
    THEN /\ listeners' = list
         /\ UNCHANGED table
    ELSE /\ table' = table \union {q}
         /\ listeners' = NewSubscription(list, q)

-----------------------------------------------------------------------------
(* A new subscription.                                                     *)

\* _onLocalSubscribe without resume, _newSubscription: fetch the descriptor,
\* then subscribe at the message node, or go straight to the reporter when the
\* hyperty asked for no domain subscription.  Without a descriptor the promise
\* is rejected and nobody handles it.  Nothing the manager keeps is read or
\* changed before the descriptor is there.
Subscribe(q) ==
    /\ stage[q] = "idle"
    /\ \E next \in {"node", "reporter", "dropped"} :
          stage' = [stage EXCEPT ![q] = next]
    /\ UNCHANGED <<sender, observer, table, listeners, closing, deleted, stored, disk, accepted>>

\* Mutant: the hyperty is stored before the reporter has answered.
NodeAccepts_StoresFirst(q) ==
    /\ stage[q] = "node"
    /\ stage' = [stage EXCEPT ![q] = "reporter"]
    /\ stored' = stored \union {sender[q]}
    /\ UNCHANGED <<sender, observer, table, listeners, closing, deleted, disk, accepted>>

\* The node's 200: _newReporterSubscribe sends the hyperty a provisional 100
\* and asks the reporter.
NodeAccepts(q) ==
    /\ stage[q] = "node"
    /\ stage' = [stage EXCEPT ![q] = "reporter"]
    /\ UNCHANGED <<sender, observer, table, listeners, closing, deleted, stored, disk, accepted>>

\* Any other answer of the node, a timeout included, is passed to the hyperty.
NodeRefuses(q) ==
    /\ stage[q] = "node"
    /\ stage' = [stage EXCEPT ![q] = "refused"]
    /\ UNCHANGED <<sender, observer, table, listeners, closing, deleted, stored, disk, accepted>>

\* Mutant: the entry lists the message instead of the hyperty that sent it.
Store_Message(q) ==
    stored' = IF sender[q] \in Interworking THEN stored ELSE stored \union {q}

\* _dataObjectsStorage.set with the hyperty as subscriberHyperty.
Store(q) ==
    stored' = IF sender[q] \in Interworking THEN stored ELSE stored \union {sender[q]}

\* _processSuccessfullSubscription: only the first hyperty to subscribe gets a
\* Subscription, every one is stored and answered 200.
ProcessSuccessfullSubscription(q) ==
    /\ accepted' = accepted \union {sender[q]}
    /\ IF observer = None
       THEN /\ observer' = q
            /\ AddSubscription(q, WithObserver(q))
       ELSE UNCHANGED <<observer, table, listeners>>
    /\ Store(q)
    /\ stage' = [stage EXCEPT ![q] = "subscribed"]
    /\ UNCHANGED <<sender, closing, deleted, disk>>

\* The reporter, or the offline subscription manager in its place, says 200.
ReporterAccepts(q) ==
    /\ stage[q] \in {"reporter", "offline"}
    /\ ProcessSuccessfullSubscription(q)

\* Mutant: when the offline manager refuses too, the reporter is asked again.
ReporterRefuses_AsksAgain(q) ==
    /\ \/ stage[q] = "reporter" /\ stage' = [stage EXCEPT ![q] = "offline"]
       \/ stage[q] = "offline" /\ stage' = [stage EXCEPT ![q] = "reporter"]
    /\ UNCHANGED <<sender, observer, table, listeners, closing, deleted, stored, disk, accepted>>

\* Another answer: try the offline subscription manager if the message names
\* one; otherwise, when that one refuses too, and when the bus's pipeline rejects
\* the message to either, nobody is told.
ReporterRefuses(q) ==
    /\ \/ stage[q] = "reporter" /\ stage' = [stage EXCEPT ![q] = "offline"]
       \/ stage[q] \in {"reporter", "offline"} /\ stage' = [stage EXCEPT ![q] = "dropped"]
    /\ UNCHANGED <<sender, observer, table, listeners, closing, deleted, stored, disk, accepted>>

-----------------------------------------------------------------------------
(* Resuming a stored subscription.                                         *)

\* Mutant: a stored object is resumed for whoever asks.
Resumable_ByAnyone(h) == stored # {}

HasSubscription(h) == h \in stored

\* _checkProtostubResume: whether h has the domain of a hyperty the entry lists.
CheckProtostubResume(h) == \E g \in stored : DomainOf[g] = DomainOf[h]

\* getResourcesByCriteria among one stored object.  What it does for the domain
\* is meant for protostubs, but it takes every sender for one.
Resumable(h) == HasSubscription(h) \/ CheckProtostubResume(h)

\* _onLocalSubscribe with resume: fetch the descriptor, or answer 404.
Resume(q) ==
    /\ stage[q] = "idle"
    /\ stage' = [stage EXCEPT ![q] = IF Resumable(sender[q]) THEN "resuming" ELSE "refused"]
    /\ UNCHANGED <<sender, observer, table, listeners, closing, deleted, stored, disk, accepted>>

\* Mutant: as for a new subscription, only the first hyperty gets one.
ResumeSubscription_FirstOnly(q) ==
    /\ stage[q] = "resuming"
    /\ \E end \in {"resumed", "dropped"} : stage' = [stage EXCEPT ![q] = end]
    /\ IF observer = None
       THEN /\ observer' = q
            /\ AddSubscription(q, WithObserver(q))
       ELSE UNCHANGED <<observer, table, listeners>>
    /\ UNCHANGED <<sender, closing, deleted, stored, disk, accepted>>

\* _resumeSubscription: neither the node nor the reporter is asked.  The answer
\* follows once _decryptChildrens has decrypted the stored children; when one
\* of them cannot be, its promise never settles and there is none.
ResumeSubscription(q) ==
    /\ stage[q] = "resuming"
    /\ \E end \in {"resumed", "dropped"} : stage' = [stage EXCEPT ![q] = end]
    /\ observer' = IF observer = None THEN q ELSE observer
    /\ AddSubscription(q, WithObserver(q))
    /\ UNCHANGED <<sender, closing, deleted, stored, disk, accepted>>

\* No descriptor: the answer is a 200 that lists no observer.
ResumeFails(q) ==
    /\ stage[q] = "resuming"
    /\ stage' = [stage EXCEPT ![q] = "refused"]
    /\ UNCHANGED <<sender, observer, table, listeners, closing, deleted, stored, disk, accepted>>

-----------------------------------------------------------------------------
(* Leaving.                                                                *)

\* ObserverObject.removeSubscription: h's Subscription, if it has one, is released.
RemoveSubscription(h) ==
    IF \E q \in table : sender[q] = h
    THEN Release(listeners, CHOOSE q \in table : sender[q] = h)
    ELSE listeners

\* _dataObjectsStorage.deleteResource: the entry goes with all it lists.
DeleteResource == stored' = {}

\* Mutant: the observer stays for the other hyperties, but its stored entry goes.
LocalUnSubscribe_KeepsObserver(h) ==
    /\ observer # None
    /\ listeners' = RemoveSubscription(h)
    /\ table' = {q \in table : sender[q] # h}
    /\ UNCHANGED observer
    /\ DeleteResource

\* _onLocalUnSubscribe: the hyperty's Subscription is released, then the whole
\* observer is forgotten and the stored entry deleted, whoever else observes.
LocalUnSubscribe(h) ==
    /\ observer # None
    /\ listeners' = RemoveSubscription(h)
    /\ table' = {}
    /\ observer' = None
    /\ DeleteResource

\* A hyperty leaves of its own accord.
UnSubscribe(h) ==
    /\ LocalUnSubscribe(h)
    /\ UNCHANGED <<sender, stage, closing, deleted, disk, accepted>>

\* The reporter's delete reaches /changes: each Subscription that listens for
\* it asks its hyperty whether the object may go.
RemoteDelete ==
    /\ \E q \in Requests : IsListening(DeleteListener(q)) /\ closing[q] = "no"
    /\ deleted' = TRUE
    /\ closing' = [q \in Requests |->
                      IF IsListening(DeleteListener(q)) /\ closing[q] = "no"
                      THEN "asked" ELSE closing[q]]
    /\ UNCHANGED <<sender, stage, observer, table, listeners, stored, disk, accepted>>

\* Syncher._onRemoteDelete: the hyperty unsubscribes before it answers.
HypertyLeaves(q) ==
    /\ closing[q] = "asked"
    /\ closing' = [closing EXCEPT ![q] = "left"]
    /\ \/ LocalUnSubscribe(sender[q])
       \/ observer = None /\ UNCHANGED <<observer, table, listeners, stored>>
    /\ UNCHANGED <<sender, stage, deleted, disk, accepted>>

\* The hyperty answers 200, and its Subscription is released, perhaps for the
\* second time; or it answers something else, or the bus answers 408.
DeleteAnswered(q) ==
    /\ closing[q] = "left"
    /\ closing' = [closing EXCEPT ![q] = "no"]
    /\ \/ listeners' = Release(listeners, q)
       \/ UNCHANGED listeners
    /\ UNCHANGED <<sender, stage, observer, table, deleted, stored, disk, accepted>>

-----------------------------------------------------------------------------
(* Storage and restart.                                                    *)

\* The store's asynchronous write completes.
Persist ==
    /\ disk # stored
    /\ disk' = stored
    /\ UNCHANGED <<session, stored, accepted>>

\* The runtime and its hyperties restart; the store is loaded from the disk.
Restart ==
    /\ \E q \in Requests : stage[q] \notin {"idle", "lost"}
    /\ stage' = [q \in Requests |-> IF stage[q] = "idle" THEN "idle" ELSE "lost"]
    /\ observer' = None
    /\ table' = {}
    /\ listeners' = <<>>
    /\ closing' = [q \in Requests |-> "no"]
    /\ deleted' = FALSE
    /\ stored' = disk
    /\ UNCHANGED <<sender, disk, accepted>>

-----------------------------------------------------------------------------
Next ==
    \/ \E q \in Requests :
          \/ Subscribe(q)
          \/ NodeAccepts(q) \/ NodeRefuses(q)
          \/ ReporterAccepts(q) \/ ReporterRefuses(q)
          \/ Resume(q) \/ ResumeSubscription(q) \/ ResumeFails(q)
          \/ HypertyLeaves(q) \/ DeleteAnswered(q)
    \/ \E h \in Hyperties : UnSubscribe(h)
    \/ RemoteDelete
    \/ Persist
    \/ Restart

Spec == Init /\ [][Next]_vars

\* The subscribe messages to the node, the reporter and the offline manager are
\* posted with a callback and the default timeout: the bus answers each one it
\* delivers (EventuallyClosed of module MessageBus).  The last two cross the
\* bus's pipeline; when a handler rejects one, its request is dropped.
BusAnswers ==
    \A q \in Requests :
        /\ WF_vars(NodeAccepts(q) \/ NodeRefuses(q))
        /\ WF_vars(ReporterAccepts(q) \/ ReporterRefuses(q))

FairSpec == Spec /\ BusAnswers

-----------------------------------------------------------------------------
(* Properties.                                                             *)

\* Only a hyperty the reporter accepted is ever listed as an observer by the
\* store, on the disk as well, and so across restarts.
StoredAreAccepted == stored \union disk \subseteq accepted

\* Nobody is sent the changes of an object, in this session or after a restart,
\* unless the reporter accepted a hyperty of the same domain.
FeedsAreVouchedFor ==
    \A i \in 1 .. Len(listeners) :
        listeners[i].role = "forward" =>
            \E h \in accepted : DomainOf[h] = DomainOf[sender[listeners[i].of]]

\* However subscriptions, resumptions and departures interleave, a hyperty has
\* one Subscription at most in the observer's table.
OneSubscriptionEach ==
    \A p, q \in table : sender[p] = sender[q] => p = q

\* A Subscription made at the reporter's 200 is in the stored entry for as long
\* as the observer holds it, so that a restart can resume it.
SubscribedAreStored ==
    \A q \in table :
        stage[q] = "subscribed" => sender[q] \in stored \union Interworking

\* As long as the reporter has not deleted the object, a departure takes no
\* listener of another Subscription or of an ObserverObject off the bus.
DeparturesSpareOthers ==
    [][\A h \in Hyperties : UnSubscribe(h) /\ ~deleted =>
          \A i \in 1 .. Len(listeners) :
             \/ listeners[i].role # "record" /\ sender[listeners[i].of] = h
             \/ Occurs(listeners[i], listeners')]_vars

\* As long as the reporter has not deleted the object, a hyperty whose
\* subscription is resumed is sent the changes from then on.
ResumedAreFed ==
    [][\A q \in Requests : ResumeSubscription(q) /\ ~deleted => IsFed(sender[q])']_vars

\* A subscription the node or the reporter was asked about is closed: granted,
\* refused, dropped without a word, or lost in a restart.
AskedIsClosed ==
    \A q \in Requests : stage[q] \in Waiting ~> stage[q] \in Closed

\* SyncherManager: "register new hyperty subscription" when the reporter says
\* 200: the hyperty that is told so is sent the changes of the object.
SubscribedAreFed ==
    [][\A q \in Requests : ReporterAccepts(q) => IsFed(sender[q])']_vars

\* MsgListener.remove: "Remove this listener from the Bus": no other listener
\* leaves the bus when a Subscription is released.
ReleaseSparesOthers ==
    [][\A q \in Requests : DeleteAnswered(q) =>
          \A i \in 1 .. Len(listeners) :
             \/ listeners[i] \in {DeleteListener(q), Forwarder(q)}
             \/ Occurs(listeners[i], listeners')]_vars
=============================================================================
