------------------------------ MODULE DataSync ------------------------------
(***************************************************************************)
(* How the observers of a data object follow its reporter                  *)
(* (syncher/DataObject.js, DataObjectReporter.js, DataObjectObserver.js,   *)
(* DataProvisional.js, the listeners of ReporterObject.js and              *)
(* ObserverObject.js that save changes, and what they keep in              *)
(* store-objects/DataObjectsStorage.js).                                   *)
(*                                                                         *)
(* The reporter numbers its changes and posts each one as an update.  An   *)
(* observer starts from a snapshot, applies the updates that are newer     *)
(* than its own version, and may read a snapshot again (sync).  Updates    *)
(* and snapshots are unacknowledged messages that may be lost or overtake  *)
(* one another, and both ends may restart from their stored copy.          *)
(* The data have fields and one list: what an observer does with an update *)
(* of a list and what the runtimes store of it are two different things.   *)
(***************************************************************************)
EXTENDS Naturals, Sequences

CONSTANTS
    Observers,    \* hyperties that observe the object, each in its runtime
    Attributes,   \* fields of the object's data, beside its list
    Absent,       \* undefined: the value of a field or element that is not there
    NaN,          \* a version that is not a number
    MaxWork       \* bound on the changes, restarts and requests together

ASSUME BoundAssumption == MaxWork \in Nat

ASSUME ValuesAssumption == Absent \notin Nat /\ NaN \notin Nat

VARIABLES
    saving,     \* isToSaveData: the runtimes save the changes they see
    run,        \* how often the reporter was started
    version,    \* its _version
    data,       \* its data
    store,      \* its stored entry
    unsaved,    \* updates its own runtime has not seen yet
    past,       \* history: its data at each version of this run
    work,       \* history: how many changes, restarts and requests there were
    asking,     \* messages on their way from each observer to the reporter
    reached,    \* whether the node forwards updates to the observer's runtime
    updates,    \* updates on their way to each observer
    replies,    \* snapshots on their way to each observer
    granted,    \* whether its runtime listens to the changes for it
    live,       \* whether the hyperty has its DataObjectObserver
    seen,       \* the observer's _version
    view,       \* the observer's data
    saved,      \* the entry stored in the observer's runtime
    events      \* history: the irregular events in the observer's life

reporter == <<saving, run, version, data, store, unsaved, past>>
network  == <<asking, reached, updates, replies>>
observer == <<granted, live, seen, view, saved, events>>
vars     == <<work, reporter, network, observer>>

-----------------------------------------------------------------------------
\* 0, false, the empty string and null, which deepClone makes undefined.
Falsy == 0

Values   == Nat \union {Absent}
Versions == Nat \union {NaN}
Data     == [fields : [Attributes -> Values], list : Seq(Values)]
Entries  == [version : Versions, data : Data]

Nothing == [fields |-> [a \in Attributes |-> Absent], list |-> <<>>]

\* An update of a field has no attributeType and no operation, and one that
\* removes it no value.  One of the list names the place in it (from 1 here).
Updates ==
    [run : Nat, version : Versions, operation : {"set"},
     place : Attributes, value : Values]
    \union
    [run : Nat, version : Versions, operation : {"add", "update", "remove"},
     place : Nat \ {0}, value : Values]

Kinds     == {"subscribe", "read"}
Snapshots == [kind : Kinds \union {"confirm"}, run : Nat, version : Versions, data : Data]

\* rerun: the version is not one of the reporter's current run;
\* gap: an update was applied although one between was not;
\* late: an update was dropped, or came too early for the observer, but its
\* runtime saved it;
\* own: the observer changed a child of its own and counted that;
\* synced, rewound, leftover: a snapshot came to an observer or runtime that had
\* one; it was older; it left alone a field the reporter no longer had;
\* resumed: a restart resumed something else than the observer showed;
\* shrunk: the reporter's list became shorter and the observer's did not.
Irregular ==
    {"rerun", "gap", "late", "own", "synced", "rewound", "leftover", "resumed", "shrunk"}

TypeOK ==
    /\ work \in 0 .. MaxWork
    /\ saving \in BOOLEAN
    /\ run \in Nat
    /\ version \in Versions
    /\ data \in Data
    /\ store \in Entries
    /\ unsaved \in Seq(Updates)
    /\ past \in [0 .. MaxWork -> Data]
    /\ asking \in [Observers -> SUBSET Kinds]
    /\ reached \in [Observers -> BOOLEAN]
    /\ updates \in [Observers -> SUBSET Updates]
    /\ replies \in [Observers -> SUBSET Snapshots]
    /\ granted \in [Observers -> BOOLEAN]
    /\ live \in [Observers -> BOOLEAN]
    /\ seen \in [Observers -> Versions]
    /\ view \in [Observers -> Data]
    /\ saved \in [Observers -> Entries]
    /\ events \in [Observers -> SUBSET Irregular]

\* A reporter just created: nothing of its version is stored, and its initial
\* data only if it asked for that.
Init ==
    /\ work = 0
    /\ saving \in BOOLEAN
    /\ run = 1
    /\ version = 0
    /\ data \in [fields : [Attributes -> {1, Absent}], list : {<<1>>}]
    /\ store = [version |-> NaN, data |-> IF saving THEN data ELSE Nothing]
    /\ unsaved = <<>>
    /\ past = [v \in 0 .. MaxWork |-> data]
    /\ asking = [o \in Observers |-> {}]
    /\ reached = [o \in Observers |-> FALSE]
    /\ updates = [o \in Observers |-> {}]
    /\ replies = [o \in Observers |-> {}]
    /\ granted = [o \in Observers |-> FALSE]
    /\ live = [o \in Observers |-> FALSE]
    /\ seen = [o \in Observers |-> 0]
    /\ view = [o \in Observers |-> Nothing]
    /\ saved = [o \in Observers |-> [version |-> NaN, data |-> Nothing]]
    /\ events = [o \in Observers |-> {}]

-----------------------------------------------------------------------------
\* Arithmetic on undefined, or on NaN, gives NaN ...
Successor(v) == IF v = NaN THEN NaN ELSE v + 1

\* Mutant: any update is applied that is not of the very same version.
IsNewer_Any(v, w) == v # NaN /\ w # NaN /\ v # w

\* ... and no comparison with it holds: _version + 1 <= msg.body.version.
IsNewer(v, w) == v # NaN /\ w # NaN /\ w + 1 <= v

\* What _onChange sends of the new value of a field: deepClone of it.
Sent(value) == IF value = Falsy THEN Absent ELSE value

\* splice(p, 0, value): at the end when the list is shorter than that.
Inserted(l, p, value) ==
    LET n == IF p <= Len(l) THEN p ELSE Len(l) + 1 IN
    [i \in 1 .. Len(l) + 1 |->
        IF i < n THEN l[i] ELSE IF i = n THEN value ELSE l[i - 1]]

\* l[p] = value: with holes when the list is shorter than that.
Put(l, p, value) ==
    [i \in 1 .. (IF p <= Len(l) THEN Len(l) ELSE p) |->
        IF i = p THEN value ELSE IF i <= Len(l) THEN l[i] ELSE Absent]

\* _changeObject: a removal is splice(p, undefined), which removes nothing.
With(d, u) ==
    CASE u.operation = "set"    -> [d EXCEPT !.fields[u.place] = u.value]
      [] u.operation = "add"    -> [d EXCEPT !.list = Inserted(@, u.place, u.value)]
      [] u.operation = "update" -> [d EXCEPT !.list = Put(@, u.place, u.value)]
      [] u.operation = "remove" -> d

\* saveData, which is not told the operation, assigns what has come as value.
Assigned(d, u) ==
    IF u.operation = "set" THEN [d EXCEPT !.fields[u.place] = u.value]
    ELSE [d EXCEPT !.list = Put(@, u.place, u.value)]

\* Object.assign: what the snapshot does not have stays.
Assign(d, e) ==
    [fields |-> [a \in Attributes |->
                    IF e.fields[a] = Absent THEN d.fields[a] ELSE e.fields[a]],
     list   |-> e.list]

\* Both runtimes save an update whatever its version: DataObjectsStorage.update
\* of the version, unless it is NaN and so falsy, and saveData.
Save(entry, u) ==
    [version |-> IF u.version = NaN THEN entry.version ELSE u.version,
     data |-> Assigned(entry.data, u)]

\* A change, a restart or a request happens; there are only so many.
Work ==
    /\ work < MaxWork
    /\ work' = work + 1

-----------------------------------------------------------------------------
(* The reporter.                                                           *)

\* _onChange of the reporter's data, which are now `after`; the status of a
\* reporter is always live.
Change(operation, place, value, after) ==
    LET u == [run |-> run, version |-> Successor(version),
              operation |-> operation, place |-> place, value |-> value]
    IN
    /\ Work
    /\ version' = u.version
    /\ data' = after
    /\ past' = IF version' = NaN THEN past ELSE [past EXCEPT ![version'] = after]
    /\ unsaved' = IF saving THEN Append(unsaved, u) ELSE unsaved
    /\ updates' = [o \in Observers |->
                      IF reached[o] THEN updates[o] \union {u} ELSE updates[o]]
    /\ UNCHANGED <<saving, run, store, asking, reached, replies, observer>>

\* A value no field or element has had yet.
Fresh == work + 2

\* The hyperty sets or deletes a field.
Write(a, value) == Change("set", a, Sent(value), [data EXCEPT !.fields[a] = value])

Remove(a) ==
    /\ data.fields[a] # Absent
    /\ Change("set", a, Absent, [data EXCEPT !.fields[a] = Absent])

\* The hyperty pushes, sets or pops an element of the list; what else there is
\* to do with a list (splice, shift, unshift) the proxy reports as these.
Push ==
    Change("add", Len(data.list) + 1, Fresh, [data EXCEPT !.list = Append(@, Fresh)])

SetElement(i) == Change("update", i, Fresh, [data EXCEPT !.list = Put(@, i, Fresh)])

Pop ==
    /\ data.list # <<>>
    /\ Change("remove", Len(data.list), Absent,
              [data EXCEPT !.list = SubSeq(@, 1, Len(@) - 1)])

\* _onChange of a child: it takes the next version too, but its update goes to
\* /children/, where _changeChildren fails (it logs an undeclared variable)
\* before it looks at the version.
ChangeChild ==
    /\ Work
    /\ version' = Successor(version)
    /\ past' = IF version' = NaN THEN past ELSE [past EXCEPT ![version'] = data]
    /\ UNCHANGED <<saving, run, data, store, unsaved, network, observer>>

\* The /changes listener of ReporterObject, in the reporter's own runtime.
SaveChange ==
    /\ unsaved # <<>>
    /\ unsaved' = Tail(unsaved)
    /\ store' = Save(store, Head(unsaved))
    /\ UNCHANGED <<work, saving, run, version, data, past, network, observer>>

\* Mutant: the snapshot's version is counted before the data are copied.
Answer_NextVersion(o, kind) ==
    /\ kind \in asking[o]
    /\ asking' = [asking EXCEPT ![o] = @ \ {kind}]
    /\ replies' = [replies EXCEPT ![o] = @ \union
                      {[kind |-> kind, run |-> run, version |-> Successor(version), data |-> data]}]
    /\ UNCHANGED <<work, reporter, reached, updates, observer>>

\* accept of a subscription, or _syncReply to a subscriber's read.
Answer(o, kind) ==
    /\ kind \in asking[o]
    /\ asking' = [asking EXCEPT ![o] = @ \ {kind}]
    /\ replies' = [replies EXCEPT ![o] = @ \union
                      {[kind |-> kind, run |-> run, version |-> version, data |-> data]}]
    /\ UNCHANGED <<work, reporter, reached, updates, observer>>

\* The reporter's hyperty and runtime restart, and Syncher._resumeCreate makes
\* the DataObjectReporter again from the stored entry.
RestartReporter ==
    /\ Work
    /\ run' = run + 1
    /\ version' = store.version
    /\ data' = store.data
    /\ past' = [v \in 0 .. MaxWork |-> store.data]
    /\ unsaved' = <<>>
    /\ events' = [o \in Observers |-> events[o] \union {"rerun"}]
    /\ UNCHANGED <<saving, store, network, granted, live, seen, view, saved>>

-----------------------------------------------------------------------------
(* The observers.                                                          *)

\* Syncher.subscribe, the first time or again.
Subscribe(o) ==
    /\ Work
    /\ "subscribe" \notin asking[o]
    /\ reached' = [reached EXCEPT ![o] = TRUE]
    /\ asking' = [asking EXCEPT ![o] = @ \union {"subscribe"}]
    /\ UNCHANGED <<reporter, updates, replies, observer>>

\* DataObjectObserver.sync, through Syncher.read.
Sync(o) ==
    /\ Work
    /\ live[o]
    /\ "read" \notin asking[o]
    /\ asking' = [asking EXCEPT ![o] = @ \union {"read"}]
    /\ UNCHANGED <<reporter, reached, updates, replies, observer>>

Rerun(m) == IF m.run = run THEN {} ELSE {"rerun"}

\* Mutant: the reporter's reply is stored as it came.
Stored_Reply(o, s) == s

\* _processSuccessfullSubscription stores the snapshot: its data only if saving.
Stored(o, s) ==
    [version |-> s.version, data |-> IF saving THEN s.data ELSE saved[o].data]

\* Mutant: only the version of the snapshot is stored, never its data.
Grant_VersionOnly(o, s) ==
    /\ s \in replies[o] /\ s.kind = "subscribe"
    /\ replies' = [replies EXCEPT ![o] = (@ \ {s}) \union {[s EXCEPT !.kind = "confirm"]}]
    /\ saved' = [saved EXCEPT ![o].version = s.version]
    /\ granted' = [granted EXCEPT ![o] = TRUE]
    /\ events' = [events EXCEPT ![o] = IF granted[o] THEN @ \union {"synced"} ELSE {}]
    /\ UNCHANGED <<work, reporter, asking, reached, updates, live, seen, view>>

\* The reporter's 200 reaches the observer's runtime, which stores the snapshot,
\* listens to the changes from now on, and passes the 200 to the hyperty.
Grant(o, s) ==
    /\ s \in replies[o] /\ s.kind = "subscribe"
    /\ replies' = [replies EXCEPT ![o] = (@ \ {s}) \union {[s EXCEPT !.kind = "confirm"]}]
    /\ saved' = [saved EXCEPT ![o] = Stored(o, s)]
    /\ granted' = [granted EXCEPT ![o] = TRUE]
    /\ events' = [events EXCEPT ![o] = IF granted[o] THEN @ \union {"synced"} ELSE {}]
    /\ UNCHANGED <<work, reporter, asking, reached, updates, live, seen, view>>

\* The 200 of a first subscription: a new DataObjectObserver.  There may be a
\* DataProvisional to apply; it listens on the object's own address, where no
\* update is sent, and so it has collected none.
Confirm(o, s) ==
    /\ s \in replies[o] /\ s.kind = "confirm" /\ ~live[o]
    /\ replies' = [replies EXCEPT ![o] = @ \ {s}]
    /\ live' = [live EXCEPT ![o] = TRUE]
    /\ seen' = [seen EXCEPT ![o] = s.version]
    /\ view' = [view EXCEPT ![o] = s.data]
    /\ events' = [events EXCEPT ![o] = (@ \intersect {"late", "synced"}) \union Rerun(s)]
    /\ UNCHANGED <<work, reporter, asking, reached, updates, granted, saved>>

\* The 200 of another subscription: the observer there is synchronised, with a
\* snapshot of its own.
ConfirmAgain(o, s) ==
    /\ s \in replies[o] /\ s.kind = "confirm" /\ live[o]
    /\ replies' = [replies EXCEPT ![o] = @ \ {s}]
    /\ asking' = [asking EXCEPT ![o] = @ \union {"read"}]
    /\ UNCHANGED <<work, reporter, reached, updates, observer>>

\* The reply to sync's read, whatever was applied in the meantime.
Synchronise(o, s) ==
    LET leftover == \E a \in Attributes :
                       s.data.fields[a] = Absent /\ view[o].fields[a] # Absent
        rewound  == IsNewer(seen[o], s.version) \/ NaN \in {seen[o], s.version}
    IN
    /\ s \in replies[o] /\ s.kind = "read" /\ live[o]
    /\ replies' = [replies EXCEPT ![o] = @ \ {s}]
    /\ view' = [view EXCEPT ![o] = Assign(@, s.data)]
    /\ seen' = [seen EXCEPT ![o] = s.version]
    /\ events' = [events EXCEPT ![o] =
                     (@ \intersect {"rewound"}) \union {"synced"} \union Rerun(s)
                     \union (IF leftover THEN {"leftover"} ELSE {})
                     \union (IF rewound THEN {"rewound"} ELSE {})]
    /\ UNCHANGED <<work, reporter, asking, reached, updates, granted, live, saved>>

\* Something changed between the observer's version and the one of u.
Misses(o, u) ==
    \E v \in seen[o] .. u.version - 1 : v \notin DOMAIN past \/ past[v] # past[seen[o]]

\* The observer's runtime saves the update, if that is what it does.
SaveUpdate(o, u) ==
    saved' = [saved EXCEPT ![o] = IF saving THEN Save(@, u) ELSE @]

\* An update comes before there is an observer: no hyperty listens, and the
\* runtime only once it has granted the subscription.
ArriveEarly(o, u) ==
    /\ u \in updates[o] /\ ~live[o]
    /\ updates' = [updates EXCEPT ![o] = @ \ {u}]
    /\ IF granted[o]
       THEN SaveUpdate(o, u) /\ events' = [events EXCEPT ![o] = @ \union {"late"}]
       ELSE UNCHANGED <<saved, events>>
    /\ UNCHANGED <<work, reporter, asking, reached, replies, granted, live, seen, view>>

\* _changeObject with a newer version, which need not be the next one.
Apply(o, u) ==
    /\ u \in updates[o] /\ live[o] /\ IsNewer(u.version, seen[o])
    /\ updates' = [updates EXCEPT ![o] = @ \ {u}]
    /\ seen' = [seen EXCEPT ![o] = u.version]
    /\ view' = [view EXCEPT ![o] = With(@, u)]
    /\ SaveUpdate(o, u)
    /\ events' = [events EXCEPT ![o] =
                     @ \union Rerun(u) \union (IF Misses(o, u) THEN {"gap"} ELSE {})
                     \union (IF u.operation = "remove" THEN {"shrunk"} ELSE {})]
    /\ UNCHANGED <<work, reporter, asking, reached, replies, granted, live>>

\* _changeObject with an unsynchronised version: only the runtime keeps it.
Drop(o, u) ==
    /\ u \in updates[o] /\ live[o] /\ ~IsNewer(u.version, seen[o])
    /\ updates' = [updates EXCEPT ![o] = @ \ {u}]
    /\ SaveUpdate(o, u)
    /\ events' = [events EXCEPT ![o] = @ \union {"late"}]
    /\ UNCHANGED <<work, reporter, asking, reached, replies, granted, live, seen, view>>

\* _onChange of a child the observer has added: it counts in the observer's own
\* version, whatever the reporter's is.
ChangeOwnChild(o) ==
    /\ live[o]
    /\ Work
    /\ seen' = [seen EXCEPT ![o] = Successor(@)]
    /\ events' = [events EXCEPT ![o] = @ \union {"own"}]
    /\ UNCHANGED <<saving, run, version, data, store, unsaved, past, network, granted, live, view, saved>>

\* The observer's hyperty and runtime restart, and Syncher._resumeSubscribe
\* makes the DataObjectObserver again from the stored entry.  (When the entry is
\* what the observer shows, nothing changes.)
Resume(o) ==
    /\ live[o] /\ saved[o] # [version |-> seen[o], data |-> view[o]]
    /\ seen' = [seen EXCEPT ![o] = saved[o].version]
    /\ view' = [view EXCEPT ![o] = saved[o].data]
    /\ events' = [events EXCEPT ![o] = (@ \intersect {"rerun"}) \union {"resumed", "rewound"}]
    /\ UNCHANGED <<work, reporter, network, granted, live, saved>>

-----------------------------------------------------------------------------
Next ==
    \/ \E a \in Attributes : Remove(a) \/ \E value \in {Falsy, Fresh} : Write(a, value)
    \/ Push
    \/ \E i \in DOMAIN data.list : SetElement(i)
    \/ Pop
    \/ ChangeChild
    \/ SaveChange
    \/ RestartReporter
    \/ \E o \in Observers :
          \/ Subscribe(o)
          \/ Sync(o)
          \/ ChangeOwnChild(o)
          \/ Resume(o)
          \/ \E kind \in asking[o] : Answer(o, kind)
          \/ \E s \in replies[o] :
                \/ Grant(o, s) \/ Confirm(o, s) \/ ConfirmAgain(o, s)
                \/ Synchronise(o, s)
          \/ \E u \in updates[o] :
                ArriveEarly(o, u) \/ Apply(o, u) \/ Drop(o, u)

\* No fairness: a message that is never taken off its channel is a lost one.
Spec == Init /\ [][Next]_vars

-----------------------------------------------------------------------------
(* Properties.                                                             *)

Never(o, kinds) == events[o] \intersect kinds = {}

\* d is e as observers show it: a field that is falsy may not be there.
Shows(d, e) ==
    /\ \A a \in Attributes : d.fields[a] \in {e.fields[a], Sent(e.fields[a])}
    /\ d.list = e.list

\* What makes an observer show something else than the reporter had.
Unfaithful == {"rerun", "gap", "own", "leftover", "resumed", "shrunk"}

\* An observer shows the data the reporter had at the observer's version, however
\* updates were delayed, dropped or overtaken, unless it applied one over a gap
\* or one that made the list shorter, counted a child of its own, kept fields
\* through a sync, resumed something else, or follows an earlier run of the
\* reporter.  (A field written falsy is shown as one that is not there.)
ObserversAreFaithful ==
    \A o \in Observers :
        live[o] /\ seen[o] # NaN /\ Never(o, Unfaithful) =>
            seen[o] \in DOMAIN past /\ Shows(view[o], past[seen[o]])

\* As long as nothing took the observer back to an older version, an update of
\* the reporter's run never replaces the value of a field it shows by an older
\* one, whichever run that value comes from.
UpdatesNeverGoBack ==
    [][\A o \in Observers : \A u \in updates[o] :
          Apply(o, u) /\ u.run = run /\ Never(o, {"rewound"}) =>
             \A a \in Attributes :
                \/ Absent \in {view[o].fields[a], view'[o].fields[a]}
                \/ view[o].fields[a] <= view'[o].fields[a]]_vars

\* What a restart of the observer resumes is what it showed, unless an update
\* was dropped, a snapshot was read or a child changed since it was stored.  The
\* list is stored otherwise than it is shown, and the two agree only as long as
\* the observer is faithful.
SavedCopyFollows ==
    \A o \in Observers :
        live[o] /\ saving /\ Never(o, {"late", "own", "synced"}) =>
            /\ saved[o].version = seen[o]
            /\ saved[o].data.fields = view[o].fields
            /\ Never(o, Unfaithful) => saved[o].data.list = view[o].list

\* DataProvisional: updates that arrive before the subscription's confirmation
\* are collected and "applied to the DataObjectObserver after confirmation".
EarlyUpdatesAreApplied ==
    [][\A o \in Observers :
          saving /\ ~live[o] /\ live'[o] => ~IsNewer(saved[o].version, seen'[o])]_vars
=============================================================================
