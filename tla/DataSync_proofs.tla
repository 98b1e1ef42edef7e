--------------------------- MODULE DataSync_proofs ---------------------------
(***************************************************************************)
(* Proofs about DataSync, for any observers and attributes and any bound.  *)
(* An observer follows the reporter's past because every message on its    *)
(* way does: an update of this run leads from one version of the past to   *)
(* the next, and a snapshot of this run is one of them.                    *)
(***************************************************************************)
EXTENDS DataSync, SequenceTheorems, TLAPS

\* A version there were enough changes for.
Counted == (0 .. work) \union {NaN}

\* The reporter is at the end of its past, and no saved version is beyond what
\* there were changes for.
ReporterIsCurrent ==
    /\ version \in Counted
    /\ version # NaN => past[version] = data
    /\ store.version \in Counted
    /\ \A i \in 1 .. Len(unsaved) : unsaved[i].version \in Counted

\* What the hyperty did to d, of which it was sent u, made it e.  Of what it
\* wrote to a field u has only what deepClone leaves.
Becomes(d, u, e) ==
    \/ /\ u.operation = "set" /\ u.place \in Attributes
       /\ \E x \in Values :
             u.value = Sent(x) /\ e = [d EXCEPT !.fields[u.place] = x]
    \/ /\ u.operation = "add" /\ u.place = Len(d.list) + 1
       /\ e = [d EXCEPT !.list = Append(@, u.value)]
    \/ /\ u.operation = "update" /\ u.place \in DOMAIN d.list
       /\ e = [d EXCEPT !.list = Put(@, u.place, u.value)]
    \/ /\ u.operation = "remove" /\ d.list # <<>> /\ u.place = Len(d.list)
       /\ e = [d EXCEPT !.list = SubSeq(@, 1, Len(@) - 1)]

\* The reporter's data change, and it posts u; no field becomes but falsy,
\* undefined or something new.
IsChange(u) ==
    /\ u.run = run /\ u.version = Successor(version)
    /\ data' \in Data /\ Becomes(data, u, data')
    /\ \A a \in Attributes : data'.fields[a] \in {Absent, Falsy, data.fields[a], Fresh}
    /\ u.operation = "set" => u.value \in {Absent, Fresh}
    /\ work < MaxWork /\ work' = work + 1
    /\ version' = u.version
    /\ past' = IF version' = NaN THEN past ELSE [past EXCEPT ![version'] = data']
    /\ unsaved' = IF saving THEN Append(unsaved, u) ELSE unsaved
    /\ updates' = [o \in Observers |->
                      IF reached[o] THEN updates[o] \union {u} ELSE updates[o]]
    /\ UNCHANGED <<saving, run, store, asking, reached, replies, observer>>

\* u leads from one version of the past to the next.
IsStep(u) ==
    /\ version # NaN
    /\ u.version \in 1 .. version
    /\ Becomes(past[u.version - 1], u, past[u.version])

UpdatesAreSteps ==
    \A o \in Observers : \A u \in updates[o] :
        /\ u.run <= run
        /\ u.run = run /\ u.version # NaN => IsStep(u)

\* d is what the reporter had at version v.
IsPast(v, d) ==
    /\ version # NaN
    /\ v \in 0 .. version
    /\ past[v] = d

SnapshotsArePast ==
    \A o \in Observers : \A s \in replies[o] :
        /\ s.run <= run
        /\ s.run = run /\ s.version # NaN => IsPast(s.version, s.data)

\* d is that as an observer shows it.
ShowsPast(v, d) ==
    /\ version # NaN
    /\ v \in 0 .. version
    /\ Shows(d, past[v])

FollowsReporter(o) == live[o] /\ seen[o] # NaN /\ Never(o, Unfaithful)

ViewsArePast == \A o \in Observers : FollowsReporter(o) => ShowsPast(seen[o], view[o])

\* Until an update interferes, a snapshot that is confirmed next is stored.
ConfirmationsAreStored ==
    \A o \in Observers :
        /\ live[o] => granted[o]
        /\ \A s \in replies[o] : s.kind = "confirm" =>
              /\ granted[o]
              /\ ~live[o] /\ saving /\ Never(o, {"late", "synced"}) =>
                    saved[o] = [version |-> s.version, data |-> s.data]

FaithInv == ReporterIsCurrent /\ UpdatesAreSteps /\ SnapshotsArePast /\ ViewsArePast
SavedInv == ConfirmationsAreStored /\ SavedCopyFollows
IInv     == TypeOK /\ FaithInv /\ SavedInv

-----------------------------------------------------------------------------
(* Types.                                                                  *)

\* A version that grows by one stays a version.
LEMMA SuccessorType ==
    ASSUME NEW v \in Versions
    PROVE  Successor(v) \in Versions
BY ValuesAssumption DEF Successor, Versions

\* What is done to a list leaves a list.
LEMMA ListTypes ==
    ASSUME NEW l \in Seq(Values), NEW p \in Nat \ {0}, NEW x \in Values
    PROVE  Inserted(l, p, x) \in Seq(Values) /\ Put(l, p, x) \in Seq(Values)
<1>1. Len(l) \in Nat /\ \A i \in 1 .. Len(l) : l[i] \in Values
  OBVIOUS
<1>2. Inserted(l, p, x) \in [1 .. Len(l) + 1 -> Values]
  BY <1>1 DEF Inserted
<1>3. Put(l, p, x) \in [1 .. (IF p <= Len(l) THEN Len(l) ELSE p) -> Values]
  BY <1>1 DEF Put, Values
<1>4. \A n \in Nat : [1 .. n -> Values] \subseteq Seq(Values)
  OBVIOUS
<1>5. Len(l) + 1 \in Nat /\ (IF p <= Len(l) THEN Len(l) ELSE p) \in Nat
  BY <1>1
<1> QED BY <1>2, <1>3, <1>4, <1>5

\* An update is of a field or of a place in the list.
LEMMA UpdateTypes ==
    ASSUME NEW u \in Updates
    PROVE  /\ u.run \in Nat /\ u.version \in Versions /\ u.value \in Values
           /\ \/ u.operation = "set" /\ u.place \in Attributes
              \/ u.operation \in {"add", "update", "remove"} /\ u.place \in Nat \ {0}
BY DEF Updates

\* An update changes data into data, shown or stored.
LEMMA WithType ==
    ASSUME NEW d \in Data, NEW u \in Updates
    PROVE  With(d, u) \in Data /\ Assigned(d, u) \in Data
<1>1. CASE u.operation = "set" /\ u.place \in Attributes
  BY <1>1, UpdateTypes DEF With, Assigned, Data
<1>2. CASE u.operation \in {"add", "update", "remove"} /\ u.place \in Nat \ {0}
  <2>1. /\ Inserted(d.list, u.place, u.value) \in Seq(Values)
        /\ Put(d.list, u.place, u.value) \in Seq(Values)
    BY <1>2, UpdateTypes, ListTypes DEF Data
  <2> QED BY <1>2, <2>1 DEF With, Assigned, Data
<1> QED BY <1>1, <1>2, UpdateTypes

\* What is saved is an entry.
LEMMA SaveType ==
    ASSUME NEW e \in Entries, NEW u \in Updates
    PROVE  Save(e, u) \in Entries
BY WithType, UpdateTypes DEF Save, Entries

\* A snapshot is stored as an entry.
LEMMA StoredType ==
    ASSUME TypeOK, NEW o \in Observers, NEW s \in Snapshots
    PROVE  Stored(o, s) \in Entries
BY DEF Stored, TypeOK, Snapshots, Entries

\* So is an update that reaches an observer's runtime.
LEMMA SaveUpdateType ==
    ASSUME TypeOK, NEW o \in Observers, NEW u \in Updates, SaveUpdate(o, u)
    PROVE  saved' \in [Observers -> Entries]
BY SaveType DEF SaveUpdate, TypeOK

\* Each operation of the hyperty on the data is a change with its update.
LEMMA ChangesOfData ==
    ASSUME TypeOK,
           \/ \E a \in Attributes : Remove(a) \/ \E value \in {Falsy, Fresh} : Write(a, value)
           \/ Push
           \/ \E i \in DOMAIN data.list : SetElement(i)
           \/ Pop
    PROVE  \E u \in Updates : IsChange(u)
<1>0. /\ data \in Data /\ data.list \in Seq(Values) /\ run \in Nat /\ work \in Nat
      /\ Fresh \in Values /\ Fresh # Falsy /\ Falsy \in Values /\ Absent \in Values
      /\ Successor(version) \in Versions
  BY SuccessorType DEF TypeOK, Data, Values, Fresh, Falsy
<1>1. ASSUME NEW a \in Attributes, NEW x \in Values, x \in {Absent, Falsy, Fresh},
             Write(a, x) \/ (x = Absent /\ Remove(a))
      PROVE  \E u \in Updates : IsChange(u)
  <2> DEFINE u == [run |-> run, version |-> Successor(version), operation |-> "set",
                   place |-> a, value |-> Sent(x)]
  <2>1. Sent(x) \in Values /\ Sent(x) \in {Absent, Fresh} /\ Sent(Absent) = Absent
    BY <1>0, <1>1, ValuesAssumption DEF Sent, Falsy
  <2>2. u \in Updates
    BY <1>0, <2>1 DEF Updates
  <2>3. data' = [data EXCEPT !.fields[a] = x]
    BY <1>1 DEF Write, Remove, Change
  <2>4. data' \in Data
    BY <1>0, <2>3 DEF Data
  <2>5. \A b \in Attributes : data'.fields[b] \in {Absent, Falsy, data.fields[b], Fresh}
    BY <1>0, <1>1, <2>3 DEF Data
  <2>6. Becomes(data, u, data')
    BY <2>3 DEF Becomes
  <2>7. IsChange(u)
    BY <1>1, <2>1, <2>4, <2>5, <2>6 DEF IsChange, Write, Remove, Change, Work
  <2> QED BY <2>2, <2>7
<1>2. ASSUME NEW l \in Seq(Values), data' = [data EXCEPT !.list = l]
      PROVE  /\ data' \in Data
             /\ \A b \in Attributes : data'.fields[b] = data.fields[b]
  BY <1>0, <1>2 DEF Data
<1>3. CASE Push
  <2> DEFINE u == [run |-> run, version |-> Successor(version), operation |-> "add",
                   place |-> Len(data.list) + 1, value |-> Fresh]
  <2>1. Append(data.list, Fresh) \in Seq(Values) /\ Len(data.list) + 1 \in Nat \ {0}
    BY <1>0
  <2>2. u \in Updates
    BY <1>0, <2>1 DEF Updates
  <2>3. data' = [data EXCEPT !.list = Append(data.list, Fresh)]
    BY <1>3 DEF Push, Change
  <2>4. Becomes(data, u, data')
    BY <2>3 DEF Becomes
  <2>5. data' \in Data /\ \A b \in Attributes : data'.fields[b] = data.fields[b]
    BY <1>2, <2>1, <2>3
  <2>6. IsChange(u)
    BY <1>3, <2>4, <2>5 DEF IsChange, Push, Change, Work
  <2> QED BY <2>2, <2>6
<1>4. ASSUME NEW i \in DOMAIN data.list, SetElement(i)
      PROVE  \E u \in Updates : IsChange(u)
  <2> DEFINE u == [run |-> run, version |-> Successor(version), operation |-> "update",
                   place |-> i, value |-> Fresh]
  <2>1. i \in Nat \ {0} /\ Put(data.list, i, Fresh) \in Seq(Values)
    <3>1. i \in 1 .. Len(data.list) /\ Len(data.list) \in Nat
      BY <1>0
    <3>2. i \in Nat \ {0}
      BY <3>1
    <3> QED BY <1>0, <3>2, ListTypes
  <2>2. u \in Updates
    BY <1>0, <2>1 DEF Updates
  <2>3. data' = [data EXCEPT !.list = Put(data.list, i, Fresh)]
    BY <1>4 DEF SetElement, Change
  <2>4. Becomes(data, u, data')
    BY <2>3 DEF Becomes
  <2>5. data' \in Data /\ \A b \in Attributes : data'.fields[b] = data.fields[b]
    BY <1>2, <2>1, <2>3
  <2>6. IsChange(u)
    BY <1>4, <2>4, <2>5 DEF IsChange, SetElement, Change, Work
  <2> QED BY <2>2, <2>6
<1>5. CASE Pop
  <2> DEFINE u == [run |-> run, version |-> Successor(version), operation |-> "remove",
                   place |-> Len(data.list), value |-> Absent]
  <2>1. /\ data.list # <<>> /\ Len(data.list) \in Nat \ {0}
        /\ SubSeq(data.list, 1, Len(data.list) - 1) \in Seq(Values)
    BY <1>0, <1>5 DEF Pop
  <2>2. u \in Updates
    BY <1>0, <2>1 DEF Updates
  <2>3. data' = [data EXCEPT !.list = SubSeq(data.list, 1, Len(data.list) - 1)]
    BY <1>5 DEF Pop, Change
  <2>4. Becomes(data, u, data')
    BY <2>1, <2>3 DEF Becomes
  <2>5. data' \in Data /\ \A b \in Attributes : data'.fields[b] = data.fields[b]
    BY <1>2, <2>1, <2>3
  <2>6. IsChange(u)
    BY <1>5, <2>4, <2>5 DEF IsChange, Pop, Change, Work
  <2> QED BY <2>2, <2>6
<1> QED BY <1>0, <1>1, <1>3, <1>4, <1>5

\* Every action keeps the types.
LEMMA TypeStep ==
    ASSUME TypeOK, [Next]_vars
    PROVE  TypeOK'
<1> USE DEF TypeOK
<1>1. ASSUME NEW u \in Updates, IsChange(u)
      PROVE  TypeOK'
  <2>1. work' \in 0 .. MaxWork
    <3>1. work < MaxWork /\ work' = work + 1
      BY <1>1 DEF IsChange
    <3>2. work \in Nat
      OBVIOUS
    <3> HIDE DEF TypeOK
    <3> QED BY <3>1, <3>2, BoundAssumption
  <2>2. /\ version' = u.version /\ version' \in Versions /\ data' \in Data
        /\ past' = IF version' = NaN THEN past ELSE [past EXCEPT ![version'] = data']
        /\ unsaved' = IF saving THEN Append(unsaved, u) ELSE unsaved
        /\ updates' = [o \in Observers |->
                          IF reached[o] THEN updates[o] \union {u} ELSE updates[o]]
        /\ UNCHANGED <<saving, run, store, asking, reached, replies, observer>>
    BY <1>1, UpdateTypes DEF IsChange
  <2>4. past' \in [0 .. MaxWork -> Data]
    BY <2>2
  <2>5. unsaved' \in Seq(Updates)
    <3>1. Append(unsaved, u) \in Seq(Updates)
      BY AppendProperties
    <3> QED BY <2>2, <3>1
  <2>6. updates' \in [Observers -> SUBSET Updates]
    BY <2>2
  <2> QED BY <2>1, <2>2, <2>4, <2>5, <2>6 DEF observer
<1>2. CASE ChangeChild
  <2>1. work' \in 0 .. MaxWork
    <3>1. work < MaxWork /\ work' = work + 1
      BY <1>2 DEF ChangeChild, Work
    <3>2. work \in Nat
      OBVIOUS
    <3> HIDE DEF TypeOK
    <3> QED BY <3>1, <3>2, BoundAssumption
  <2>2. version' \in Versions
    BY <1>2, SuccessorType DEF ChangeChild
  <2>3. past' \in [0 .. MaxWork -> Data]
    BY <1>2 DEF ChangeChild
  <2> QED BY <1>2, <2>1, <2>2, <2>3 DEF ChangeChild, observer, network
<1>3. CASE SaveChange
  <2>1. Head(unsaved) \in Updates /\ Tail(unsaved) \in Seq(Updates)
    BY <1>3, HeadTailProperties DEF SaveChange
  <2>2. unsaved' \in Seq(Updates) /\ store' \in Entries
    BY <1>3, <2>1, SaveType DEF SaveChange
  <2> QED BY <1>3, <2>2 DEF SaveChange, observer, network
<1>4. CASE RestartReporter
  <2>1. work' \in 0 .. MaxWork /\ run' \in Nat
    <3>1. work < MaxWork /\ work' = work + 1 /\ run' = run + 1
      BY <1>4 DEF RestartReporter, Work
    <3>2. work \in Nat /\ run \in Nat
      OBVIOUS
    <3> HIDE DEF TypeOK
    <3> QED BY <3>1, <3>2, BoundAssumption
  <2>5. version' \in Versions /\ data' \in Data
    BY <1>4 DEF RestartReporter, Entries
  <2>3. past' \in [0 .. MaxWork -> Data]
    BY <1>4 DEF RestartReporter, Entries
  <2>4. events' \in [Observers -> SUBSET Irregular]
    BY <1>4 DEF RestartReporter, Irregular
  <2>2. unsaved' \in Seq(Updates)
    BY <1>4 DEF RestartReporter
  <2> QED BY <1>4, <2>1, <2>2, <2>3, <2>4, <2>5 DEF RestartReporter, network
<1>5. ASSUME NEW o \in Observers, Subscribe(o) \/ Sync(o)
      PROVE  TypeOK'
  <2>1. work' \in 0 .. MaxWork
    BY <1>5, BoundAssumption DEF Subscribe, Sync, Work
  <2>2. reached' \in [Observers -> BOOLEAN]
    BY <1>5 DEF Subscribe, Sync
  <2>3. asking[o] \union {"subscribe"} \in SUBSET Kinds
        /\ asking[o] \union {"read"} \in SUBSET Kinds
    BY DEF Kinds
  <2>4. asking' \in [Observers -> SUBSET Kinds]
    BY <1>5, <2>3 DEF Subscribe, Sync
  <2> QED BY <1>5, <2>1, <2>2, <2>4 DEF Subscribe, Sync, reporter, observer
<1>6. ASSUME NEW o \in Observers, NEW kind \in asking[o], Answer(o, kind)
      PROVE  TypeOK'
  <2>1. [kind |-> kind, run |-> run, version |-> version, data |-> data] \in Snapshots
    BY DEF Snapshots
  <2>2. /\ asking' \in [Observers -> SUBSET Kinds]
        /\ replies' \in [Observers -> SUBSET Snapshots]
    BY <1>6, <2>1 DEF Answer
  <2> QED BY <1>6, <2>2 DEF Answer, reporter, observer
<1>7. ASSUME NEW o \in Observers, NEW s \in replies[o], Grant(o, s)
      PROVE  TypeOK'
  <2>1. s \in Snapshots /\ [s EXCEPT !.kind = "confirm"] \in Snapshots
    <3>1. replies[o] \in SUBSET Snapshots
      OBVIOUS
    <3>2. s \in Snapshots
      BY <3>1
    <3> QED BY <3>2 DEF Snapshots
  <2>2. replies' \in [Observers -> SUBSET Snapshots]
    BY <1>7, <2>1 DEF Grant
  <2>3. saved' \in [Observers -> Entries]
    BY <1>7, <2>1, StoredType DEF Grant
  <2>4. /\ granted' \in [Observers -> BOOLEAN]
        /\ events' \in [Observers -> SUBSET Irregular]
    BY <1>7 DEF Grant, Irregular
  <2> QED BY <1>7, <2>2, <2>3, <2>4 DEF Grant, reporter
<1>8. ASSUME NEW o \in Observers, NEW s \in replies[o], Confirm(o, s)
      PROVE  TypeOK'
  <2>1. s \in Snapshots
    OBVIOUS
  <2>2. /\ replies' \in [Observers -> SUBSET Snapshots]
        /\ live' \in [Observers -> BOOLEAN]
        /\ seen' \in [Observers -> Versions]
        /\ view' \in [Observers -> Data]
    BY <1>8, <2>1 DEF Confirm, Snapshots
  <2>3. events' \in [Observers -> SUBSET Irregular]
    BY <1>8 DEF Confirm, Rerun, Irregular
  <2> QED BY <1>8, <2>2, <2>3 DEF Confirm, reporter
<1>9. ASSUME NEW o \in Observers, NEW s \in replies[o], ConfirmAgain(o, s)
      PROVE  TypeOK'
  BY <1>9 DEF ConfirmAgain, reporter, observer, Kinds
<1>10. ASSUME NEW o \in Observers, NEW s \in replies[o], Synchronise(o, s)
       PROVE  TypeOK'
  <2>1. s \in Snapshots
    OBVIOUS
  <2>2. Assign(view[o], s.data) \in Data
    BY <2>1 DEF Assign, Data, Snapshots
  <2>3. /\ replies' \in [Observers -> SUBSET Snapshots]
        /\ seen' \in [Observers -> Versions]
        /\ view' \in [Observers -> Data]
    BY <1>10, <2>1, <2>2 DEF Synchronise, Snapshots
  <2>4. events' \in [Observers -> SUBSET Irregular]
    BY <1>10 DEF Synchronise, Rerun, Irregular
  <2> QED BY <1>10, <2>3, <2>4 DEF Synchronise, reporter
<1>11. ASSUME NEW o \in Observers, NEW u \in updates[o], ArriveEarly(o, u) \/ Drop(o, u)
       PROVE  TypeOK'
  <2>1. u \in Updates
    OBVIOUS
  <2>2. saved' \in [Observers -> Entries]
    BY <1>11, <2>1, SaveUpdateType DEF ArriveEarly, Drop
  <2>3. /\ updates' \in [Observers -> SUBSET Updates]
        /\ events' \in [Observers -> SUBSET Irregular]
    BY <1>11 DEF ArriveEarly, Drop, Irregular
  <2> QED BY <1>11, <2>2, <2>3 DEF ArriveEarly, Drop, reporter
<1>12. ASSUME NEW o \in Observers, NEW u \in updates[o], Apply(o, u)
       PROVE  TypeOK'
  <2>1. u \in Updates
    OBVIOUS
  <2>2. saved' \in [Observers -> Entries]
    BY <1>12, <2>1, SaveUpdateType DEF Apply
  <2>3. view' \in [Observers -> Data]
    BY <1>12, <2>1, WithType DEF Apply
  <2>4. /\ updates' \in [Observers -> SUBSET Updates]
        /\ seen' \in [Observers -> Versions]
    BY <1>12, <2>1, UpdateTypes DEF Apply
  <2>5. events' \in [Observers -> SUBSET Irregular]
    BY <1>12 DEF Apply, Rerun, Irregular
  <2> QED BY <1>12, <2>2, <2>3, <2>4, <2>5 DEF Apply, reporter
<1>13. ASSUME NEW o \in Observers, ChangeOwnChild(o)
       PROVE  TypeOK'
  <2>1. /\ work' \in 0 .. MaxWork
        /\ seen' \in [Observers -> Versions]
        /\ events' \in [Observers -> SUBSET Irregular]
    BY <1>13, SuccessorType, BoundAssumption DEF ChangeOwnChild, Work, Irregular
  <2> QED BY <1>13, <2>1 DEF ChangeOwnChild, network
<1>14. ASSUME NEW o \in Observers, Resume(o)
       PROVE  TypeOK'
  <2>1. /\ seen' \in [Observers -> Versions]
        /\ view' \in [Observers -> Data]
        /\ events' \in [Observers -> SUBSET Irregular]
    BY <1>14 DEF Resume, Entries, Irregular
  <2> QED BY <1>14, <2>1 DEF Resume, network, reporter
<1>15. CASE UNCHANGED vars
  BY <1>15 DEF vars, reporter, network, observer
<1>16. CASE \/ \E a \in Attributes : Remove(a) \/ \E value \in {Falsy, Fresh} : Write(a, value)
            \/ Push
            \/ \E i \in DOMAIN data.list : SetElement(i)
            \/ Pop
  BY <1>1, <1>16, ChangesOfData
<1> QED
  BY <1>2, <1>3, <1>4, <1>5, <1>6, <1>7, <1>8, <1>9, <1>10, <1>11, <1>12,
     <1>13, <1>14, <1>15, <1>16 DEF Next

-----------------------------------------------------------------------------
(* The reporter and its messages.                                          *)

\* What actions do to the reporter and its messages: they change its data, a
\* child's, save a change, start a new run, or leave the reporter alone; messages
\* may be taken off their channels, and only snapshots of the present are new.
ReporterStep ==
    \/ \E u \in Updates : IsChange(u)
    \/ ChangeChild
    \/ SaveChange
    \/ RestartReporter
    \/ /\ work' >= work /\ work' \in Nat /\ UNCHANGED reporter
       /\ \A o \in Observers : updates'[o] \subseteq updates[o]
       /\ \A o \in Observers : \A s \in replies'[o] :
             \/ s.run = run /\ s.version = version /\ s.data = data
             \/ \E r \in replies[o] :
                   s.run = r.run /\ s.version = r.version /\ s.data = r.data

LEMMA StepsOfReporter ==
    ASSUME TypeOK, [Next]_vars
    PROVE  ReporterStep
<1>0. work \in Nat
  BY DEF TypeOK
<1>1. CASE \/ \E a \in Attributes : Remove(a) \/ \E value \in {Falsy, Fresh} : Write(a, value)
           \/ Push
           \/ \E i \in DOMAIN data.list : SetElement(i)
           \/ Pop
  BY <1>1, ChangesOfData DEF ReporterStep
<1>2. ASSUME NEW o \in Observers, Subscribe(o) \/ Sync(o) \/ ChangeOwnChild(o) \/ Resume(o)
      PROVE  ReporterStep
  <2>1. work' >= work /\ work' \in Nat /\ UNCHANGED <<reporter, updates, replies>>
    BY <1>0, <1>2 DEF Subscribe, Sync, ChangeOwnChild, Resume, Work, reporter, network
  <2> QED BY <2>1 DEF ReporterStep
<1>3. ASSUME NEW o \in Observers, NEW kind \in asking[o], Answer(o, kind)
      PROVE  ReporterStep
  <2>1. work' >= work /\ work' \in Nat /\ UNCHANGED <<reporter, updates>>
    BY <1>0, <1>3 DEF Answer
  <2>2. ASSUME NEW p \in Observers, NEW s \in replies'[p]
        PROVE  s \in replies[p] \/ (s.run = run /\ s.version = version /\ s.data = data)
    BY <1>3, <2>2 DEF Answer, TypeOK
  <2> QED BY <2>1, <2>2 DEF ReporterStep
<1>4. ASSUME NEW o \in Observers, NEW s \in replies[o], Grant(o, s)
      PROVE  ReporterStep
  <2>1. work' >= work /\ work' \in Nat /\ UNCHANGED <<reporter, updates>>
    BY <1>0, <1>4 DEF Grant
  <2>2. ASSUME NEW p \in Observers, NEW r \in replies'[p]
        PROVE  \E q \in replies[p] : r.run = q.run /\ r.version = q.version /\ r.data = q.data
    <3>1. CASE r \in replies[p]
      BY <3>1
    <3>2. CASE p = o /\ r = [s EXCEPT !.kind = "confirm"]
      <4>1. s \in Snapshots
        BY DEF TypeOK
      <4>2. r.run = s.run /\ r.version = s.version /\ r.data = s.data
        BY <3>2, <4>1 DEF Snapshots
      <4> QED BY <3>2, <4>2
    <3> QED BY <1>4, <2>2, <3>1, <3>2 DEF Grant, TypeOK
  <2> QED BY <2>1, <2>2 DEF ReporterStep
<1>5. ASSUME NEW o \in Observers, NEW s \in replies[o],
             Confirm(o, s) \/ ConfirmAgain(o, s) \/ Synchronise(o, s)
      PROVE  ReporterStep
  <2>1. /\ work' >= work /\ work' \in Nat /\ UNCHANGED <<reporter, updates>>
        /\ replies' = [replies EXCEPT ![o] = @ \ {s}]
    BY <1>0, <1>5 DEF Confirm, ConfirmAgain, Synchronise
  <2>2. \A p \in Observers : replies'[p] \subseteq replies[p]
    BY <2>1 DEF TypeOK
  <2> QED BY <2>1, <2>2 DEF ReporterStep
<1>6. ASSUME NEW o \in Observers, NEW u \in updates[o],
             ArriveEarly(o, u) \/ Apply(o, u) \/ Drop(o, u)
      PROVE  ReporterStep
  <2>1. /\ work' >= work /\ work' \in Nat /\ UNCHANGED <<reporter, replies>>
        /\ updates' = [updates EXCEPT ![o] = @ \ {u}]
    BY <1>0, <1>6 DEF ArriveEarly, Apply, Drop
  <2>2. \A p \in Observers : updates'[p] \subseteq updates[p]
    BY <2>1 DEF TypeOK
  <2> QED BY <2>1, <2>2 DEF ReporterStep
<1>7. CASE UNCHANGED vars
  <2>1. work' >= work /\ work' \in Nat /\ UNCHANGED <<reporter, updates, replies>>
    BY <1>0, <1>7 DEF vars, network
  <2> QED BY <2>1 DEF ReporterStep
<1> QED
  BY <1>1, <1>2, <1>3, <1>4, <1>5, <1>6, <1>7 DEF Next, ReporterStep

\* A change of the reporter's data or of a child extends the past by a version.
LEMMA PastGrows ==
    ASSUME TypeOK, ReporterIsCurrent,
           ChangeChild \/ \E u \in Updates : IsChange(u)
    PROVE  /\ version = NaN => version' = NaN
           /\ version # NaN =>
                 /\ version \in Nat /\ version' = version + 1 /\ version' \in 0 .. MaxWork
                 /\ past'[version'] = data'
                 /\ \A v \in 0 .. version : past'[v] = past[v]
           /\ work' = work + 1 /\ run' = run /\ store' = store
<1>1. /\ version' = Successor(version)
      /\ past' = IF version' = NaN THEN past ELSE [past EXCEPT ![version'] = data']
      /\ work < MaxWork /\ work' = work + 1 /\ run' = run /\ store' = store
      /\ ChangeChild => data' = data
  BY DEF IsChange, ChangeChild, Work
<1>2. ASSUME version # NaN
      PROVE  /\ version \in Nat /\ version' = version + 1 /\ version' \in 0 .. MaxWork
             /\ version' # NaN
  BY <1>1, <1>2, BoundAssumption, ValuesAssumption
     DEF Successor, TypeOK, Counted, ReporterIsCurrent
<1>3. ASSUME version # NaN
      PROVE  /\ past'[version'] = data'
             /\ \A v \in 0 .. version : past'[v] = past[v]
  BY <1>1, <1>2, <1>3 DEF TypeOK
<1> QED BY <1>1, <1>2, <1>3 DEF Successor

\* What the reporter had at a version it still had after such a change.
LEMMA PastStays ==
    ASSUME TypeOK, ReporterIsCurrent,
           ChangeChild \/ \E u \in Updates : IsChange(u),
           NEW v, NEW d, IsPast(v, d)
    PROVE  IsPast(v, d)'
<1>1. /\ version \in Nat /\ version' = version + 1 /\ version' \in Nat
      /\ \A w \in 0 .. version : past'[w] = past[w]
  BY PastGrows DEF IsPast
<1>2. version' # NaN
  BY <1>1, ValuesAssumption
<1> QED BY <1>1, <1>2 DEF IsPast

LEMMA CurrentStep ==
    ASSUME TypeOK, ReporterIsCurrent, ReporterStep
    PROVE  ReporterIsCurrent'
<1>0. ASSUME work' >= work, work' \in Nat
      PROVE  Counted \subseteq Counted'
  BY <1>0 DEF Counted, TypeOK
<1>1. CASE ChangeChild \/ \E u \in Updates : IsChange(u)
  <2>0. work \in Nat /\ work' = work + 1 /\ Counted \subseteq Counted'
    BY <1>0, <1>1, PastGrows DEF TypeOK
  <2>1. version' \in Counted' /\ (version' # NaN => past'[version'] = data')
    BY <1>1, <2>0, PastGrows DEF ReporterIsCurrent, Counted
  <2>2. store'.version \in Counted'
    BY <1>1, <2>0, PastGrows DEF ReporterIsCurrent
  <2>3. CASE unsaved' = unsaved
    BY <2>0, <2>1, <2>2, <2>3 DEF ReporterIsCurrent
  <2>4. CASE \E u \in Updates : unsaved' = Append(unsaved, u) /\ u.version = version'
    <3>1. PICK u \in Updates : unsaved' = Append(unsaved, u) /\ u.version = version'
      BY <2>4
    <3>2. /\ Len(unsaved') = Len(unsaved) + 1
          /\ unsaved'[Len(unsaved) + 1] = u
          /\ \A i \in 1 .. Len(unsaved) : unsaved'[i] = unsaved[i]
      BY <3>1, AppendProperties DEF TypeOK
    <3>3. Len(unsaved) \in Nat
      BY DEF TypeOK
    <3>4. ASSUME NEW i \in 1 .. Len(unsaved')
          PROVE  unsaved'[i].version \in Counted'
      <4>1. CASE i \in 1 .. Len(unsaved)
        BY <2>0, <3>2, <4>1 DEF ReporterIsCurrent
      <4>2. CASE i = Len(unsaved) + 1
        BY <2>1, <3>1, <3>2, <4>2
      <4> QED BY <3>2, <3>3, <4>1, <4>2
    <3> QED BY <2>1, <2>2, <3>4 DEF ReporterIsCurrent
  <2>5. \/ unsaved' = unsaved
        \/ \E u \in Updates : unsaved' = Append(unsaved, u) /\ u.version = version'
    <3>1. CASE ChangeChild
      BY <3>1 DEF ChangeChild
    <3>2. ASSUME NEW u \in Updates, IsChange(u)
          PROVE  \/ unsaved' = unsaved
                 \/ \E w \in Updates : unsaved' = Append(unsaved, w) /\ w.version = version'
      BY <3>2 DEF IsChange
    <3> QED BY <1>1, <3>1, <3>2
  <2> QED BY <2>3, <2>4, <2>5
<1>2. CASE SaveChange
  <2>1. /\ Head(unsaved) = unsaved[1] /\ Len(unsaved) >= 1
        /\ Len(Tail(unsaved)) = Len(unsaved) - 1
        /\ \A i \in 1 .. Len(Tail(unsaved)) : Tail(unsaved)[i] = unsaved[i + 1]
    BY <1>2, HeadTailProperties DEF SaveChange, TypeOK
  <2>2. Len(unsaved) \in Nat
    BY DEF TypeOK
  <2>3. store'.version \in Counted
    BY <1>2, <2>1, <2>2 DEF SaveChange, Save, ReporterIsCurrent
  <2>4. ASSUME NEW i \in 1 .. Len(unsaved')
        PROVE  unsaved'[i].version \in Counted
    <3>1. i + 1 \in 1 .. Len(unsaved) /\ unsaved'[i] = unsaved[i + 1]
      BY <1>2, <2>1, <2>2 DEF SaveChange
    <3> QED BY <3>1 DEF ReporterIsCurrent
  <2> QED BY <1>2, <2>3, <2>4 DEF SaveChange, ReporterIsCurrent, Counted
<1>3. CASE RestartReporter
  <2>1. /\ work' = work + 1 /\ version' = store.version /\ data' = store.data
        /\ past' = [v \in 0 .. MaxWork |-> store.data] /\ store' = store /\ unsaved' = <<>>
        /\ work < MaxWork /\ work \in Nat
    BY <1>3 DEF RestartReporter, Work, TypeOK
  <2>2. store.version \in Counted' /\ (store.version # NaN => store.version \in 0 .. MaxWork)
    BY <2>1, BoundAssumption DEF ReporterIsCurrent, Counted
  <2>3. version' \in Counted' /\ (version' # NaN => past'[version'] = data')
    BY <2>1, <2>2
  <2>4. Len(unsaved') = 0
    BY <2>1
  <2> QED BY <2>1, <2>2, <2>3, <2>4 DEF ReporterIsCurrent
<1>4. CASE work' >= work /\ work' \in Nat /\ UNCHANGED reporter
  <2>1. UNCHANGED <<version, data, store, unsaved, past>>
    BY <1>4 DEF reporter
  <2>2. Counted \subseteq Counted'
    BY <1>4 DEF TypeOK, Counted
  <2> QED BY <2>1, <2>2 DEF ReporterIsCurrent
<1> QED BY <1>1, <1>2, <1>3, <1>4 DEF ReporterStep

LEMMA UpdatesStep ==
    ASSUME TypeOK, ReporterIsCurrent, UpdatesAreSteps, ReporterStep
    PROVE  UpdatesAreSteps'
<1>1. ASSUME ChangeChild \/ \E u \in Updates : IsChange(u),
             NEW o \in Observers, NEW u \in updates[o]
      PROVE  /\ u.run <= run'
             /\ u.run = run' /\ u.version # NaN => IsStep(u)'
  <2>1. run' = run /\ u.run <= run /\ (u.run = run /\ u.version # NaN => IsStep(u))
    BY <1>1, PastGrows DEF UpdatesAreSteps
  <2>2. ASSUME IsStep(u)
        PROVE  IsStep(u)'
    <3>1. /\ version \in Nat /\ version' = version + 1
          /\ \A w \in 0 .. version : past'[w] = past[w]
      BY <1>1, <2>2, PastGrows DEF IsStep
    <3>2. version' # NaN
      BY <3>1, ValuesAssumption
    <3>3. u.version \in 0 .. version /\ u.version - 1 \in 0 .. version /\ u.version \in 1 .. version'
      BY <2>2, <3>1 DEF IsStep
    <3> QED BY <2>2, <3>1, <3>2, <3>3 DEF IsStep
  <2> QED BY <2>1, <2>2
<1>2. CASE ChangeChild
  <2>1. updates' = updates
    BY <1>2 DEF ChangeChild, network
  <2> QED BY <1>1, <1>2, <2>1 DEF UpdatesAreSteps
<1>3. ASSUME NEW u \in Updates, IsChange(u)
      PROVE  UpdatesAreSteps'
  <2>1. /\ run' = run /\ run \in Nat
        /\ Becomes(data, u, data') /\ u.version = version' /\ u.run = run
        /\ \A o \in Observers : updates'[o] \subseteq updates[o] \union {u}
    BY <1>3 DEF IsChange, TypeOK
  <2>2. ASSUME version' # NaN
        PROVE  IsStep(u)'
    <3>1. /\ version # NaN /\ version \in Nat /\ version' = version + 1
          /\ past'[version'] = data'
          /\ \A v \in 0 .. version : past'[v] = past[v]
      BY <1>3, <2>2, PastGrows
    <3>2. past[version] = data /\ past'[version] = past[version]
      BY <3>1 DEF ReporterIsCurrent
    <3>3. u.version - 1 = version /\ u.version \in 1 .. version'
      BY <2>1, <3>1
    <3> QED BY <2>1, <2>2, <3>1, <3>2, <3>3 DEF IsStep
  <2>3. /\ u.run <= run'
        /\ u.run = run' /\ u.version # NaN => IsStep(u)'
    BY <2>1, <2>2
  <2> QED BY <1>1, <1>3, <2>1, <2>3 DEF UpdatesAreSteps
<1>4. CASE SaveChange
  BY <1>4 DEF SaveChange, UpdatesAreSteps, IsStep, network
<1>5. CASE RestartReporter
  <2>1. run' = run + 1 /\ run \in Nat /\ updates' = updates
    BY <1>5 DEF RestartReporter, network, TypeOK
  <2>2. ASSUME NEW o \in Observers, NEW u \in updates[o]
        PROVE  u.run <= run' /\ u.run # run'
    <3>1. u.run \in Nat /\ u.run <= run
      BY UpdateTypes DEF TypeOK, UpdatesAreSteps
    <3> QED BY <2>1, <3>1
  <2> QED BY <2>1, <2>2 DEF UpdatesAreSteps
<1>6. CASE UNCHANGED reporter /\ \A o \in Observers : updates'[o] \subseteq updates[o]
  BY <1>6 DEF reporter, UpdatesAreSteps, IsStep
<1> QED BY <1>2, <1>3, <1>4, <1>5, <1>6 DEF ReporterStep

LEMMA SnapshotsStep ==
    ASSUME TypeOK, ReporterIsCurrent, SnapshotsArePast, ReporterStep
    PROVE  SnapshotsArePast'
<1>1. CASE ChangeChild \/ \E u \in Updates : IsChange(u)
  <2>1. run' = run /\ replies' = replies
    BY <1>1 DEF IsChange, ChangeChild, network
  <2> QED BY <1>1, <2>1, PastStays DEF SnapshotsArePast
<1>2. CASE SaveChange
  BY <1>2 DEF SaveChange, SnapshotsArePast, IsPast, network
<1>3. CASE RestartReporter
  <2>1. run' = run + 1 /\ run \in Nat /\ replies' = replies
    BY <1>3 DEF RestartReporter, network, TypeOK
  <2>2. ASSUME NEW o \in Observers, NEW s \in replies[o]
        PROVE  s.run <= run' /\ s.run # run'
    <3>1. s.run \in Nat /\ s.run <= run
      BY DEF TypeOK, Snapshots, SnapshotsArePast
    <3> QED BY <2>1, <3>1
  <2> QED BY <2>1, <2>2 DEF SnapshotsArePast
<1>4. ASSUME UNCHANGED reporter,
             \A o \in Observers : \A s \in replies'[o] :
                \/ s.run = run /\ s.version = version /\ s.data = data
                \/ \E r \in replies[o] :
                      s.run = r.run /\ s.version = r.version /\ s.data = r.data
      PROVE  SnapshotsArePast'
  <2>1. UNCHANGED <<run, version, past>> /\ run \in Nat
    BY <1>4 DEF reporter, TypeOK
  <2>2. version # NaN => IsPast(version, data)
    BY DEF ReporterIsCurrent, Counted, IsPast, TypeOK
  <2>3. ASSUME NEW o \in Observers, NEW s \in replies'[o]
        PROVE  s.run <= run /\ (s.run = run /\ s.version # NaN => IsPast(s.version, s.data))
    <3>1. CASE s.run = run /\ s.version = version /\ s.data = data
      BY <2>1, <2>2, <3>1
    <3>2. ASSUME NEW r \in replies[o],
                 s.run = r.run /\ s.version = r.version /\ s.data = r.data
          PROVE  s.run <= run /\ (s.run = run /\ s.version # NaN => IsPast(s.version, s.data))
      BY <3>2 DEF SnapshotsArePast
    <3> QED BY <1>4, <2>3, <3>1, <3>2
  <2> QED BY <2>1, <2>3 DEF SnapshotsArePast, IsPast
<1> QED BY <1>1, <1>2, <1>3, <1>4 DEF ReporterStep

-----------------------------------------------------------------------------
(* The observers.                                                          *)

\* Nothing happens to p, or to what the reporter had.
LEMMA ViewsStay ==
    ASSUME NEW p \in Observers, FollowsReporter(p) => ShowsPast(seen[p], view[p]),
           UNCHANGED <<version, past>>,
           live'[p] = live[p], seen'[p] = seen[p], view'[p] = view[p],
           events[p] \subseteq events'[p]
    PROVE  (FollowsReporter(p) => ShowsPast(seen[p], view[p]))'
BY DEF FollowsReporter, Never, ShowsPast

\* A snapshot that leaves nothing of the view is the view.
LEMMA AssignAll ==
    ASSUME NEW d \in Data, NEW e \in Data,
           \A a \in Attributes : e.fields[a] = Absent => d.fields[a] = Absent
    PROVE  Assign(d, e) = e
BY DEF Assign, Data

\* What is there is shown by itself.
LEMMA ShownByItself ==
    ASSUME NEW d \in Data
    PROVE  Shows(d, d)
BY DEF Shows

\* An element added at the end of a list is added there by either operation.
LEMMA AtTheEnd ==
    ASSUME NEW l \in Seq(Values), NEW x \in Values
    PROVE  /\ Inserted(l, Len(l) + 1, x) = Append(l, x)
           /\ Put(l, Len(l) + 1, x) = Append(l, x)
<1>1. /\ Len(l) \in Nat /\ Append(l, x) \in Seq(Values) /\ Len(Append(l, x)) = Len(l) + 1
      /\ \A i \in 1 .. Len(l) : Append(l, x)[i] = l[i]
      /\ Append(l, x)[Len(l) + 1] = x
  BY AppendProperties
<1>2. Append(l, x) = [i \in 1 .. Len(l) + 1 |-> Append(l, x)[i]]
  <2>1. ASSUME NEW s \in Seq(Values)
        PROVE  s = [i \in 1 .. Len(s) |-> s[i]]
    OBVIOUS
  <2> QED BY <1>1, <2>1
<1>3. Inserted(l, Len(l) + 1, x) = [i \in 1 .. Len(l) + 1 |-> Append(l, x)[i]]
  BY <1>1 DEF Inserted
<1>4. Put(l, Len(l) + 1, x) = [i \in 1 .. Len(l) + 1 |-> Append(l, x)[i]]
  BY <1>1 DEF Put
<1> QED BY <1>2, <1>3, <1>4

\* What is done with an update to what is shown shows what the reporter did.
LEMMA ShowsNext ==
    ASSUME NEW d \in Data, NEW e \in Data, NEW f \in Data, NEW u \in Updates,
           Shows(d, e), Becomes(e, u, f), u.operation # "remove"
    PROVE  Shows(With(d, u), f)
<1>0. /\ d.list \in Seq(Values) /\ d.list = e.list /\ u.value \in Values
  BY UpdateTypes DEF Data, Shows
<1>1. ASSUME NEW x \in Values, u.operation = "set", u.place \in Attributes,
             u.value = Sent(x), f = [e EXCEPT !.fields[u.place] = x]
      PROVE  Shows(With(d, u), f)
  <2>1. With(d, u) = [d EXCEPT !.fields[u.place] = u.value]
    BY <1>1 DEF With
  <2>2. With(d, u).list = f.list
    BY <1>0, <1>1, <2>1 DEF Data
  <2>3. ASSUME NEW a \in Attributes
        PROVE  With(d, u).fields[a] \in {f.fields[a], Sent(f.fields[a])}
    BY <1>1, <2>1 DEF Data, Shows
  <2> QED BY <2>2, <2>3 DEF Shows
<1>2. CASE /\ u.operation = "add" /\ u.place = Len(e.list) + 1
           /\ f = [e EXCEPT !.list = Append(@, u.value)]
  <2>1. With(d, u) = [d EXCEPT !.list = Inserted(@, u.place, u.value)]
    BY <1>2 DEF With
  <2>2. With(d, u).list = f.list /\ With(d, u).fields = d.fields /\ f.fields = e.fields
    BY <1>0, <1>2, <2>1, AtTheEnd DEF Data
  <2> QED BY <2>2 DEF Shows
<1>3. CASE /\ u.operation = "update"
           /\ f = [e EXCEPT !.list = Put(@, u.place, u.value)]
  <2>1. With(d, u) = [d EXCEPT !.list = Put(@, u.place, u.value)]
    BY <1>3 DEF With
  <2>2. With(d, u).list = f.list /\ With(d, u).fields = d.fields /\ f.fields = e.fields
    BY <1>0, <1>3, <2>1 DEF Data
  <2> QED BY <2>2 DEF Shows
<1> QED BY <1>1, <1>2, <1>3 DEF Becomes

\* What an update applied without a gap starts from is what is shown.
LEMMA AppliesToTheView ==
    ASSUME TypeOK, ReporterIsCurrent, NEW o \in Observers, NEW u \in Updates,
           ShowsPast(seen[o], view[o]), IsStep(u), IsNewer(u.version, seen[o]), ~Misses(o, u)
    PROVE  /\ version # NaN /\ u.version \in 0 .. version
           /\ past[u.version - 1] \in Data /\ past[u.version] \in Data
           /\ Shows(view[o], past[u.version - 1])
           /\ Becomes(past[u.version - 1], u, past[u.version])
<1>1. /\ version \in Nat /\ u.version \in 1 .. version /\ seen[o] \in 0 .. version
      /\ version <= MaxWork
  BY BoundAssumption DEF ShowsPast, IsStep, TypeOK, Versions, ReporterIsCurrent, Counted
<1>2. seen[o] + 1 <= u.version
  BY DEF IsNewer
<1>3. /\ u.version - 1 \in seen[o] .. u.version - 1 /\ u.version \in 0 .. version
      /\ u.version \in 0 .. MaxWork /\ u.version - 1 \in 0 .. MaxWork
  BY <1>1, <1>2, BoundAssumption
<1>4. past[u.version - 1] = past[seen[o]]
  BY <1>3 DEF Misses
<1> QED BY <1>1, <1>3, <1>4 DEF ShowsPast, IsStep, TypeOK

\* An update applied without a gap leads from the view to the update's version.
LEMMA AppliesNext ==
    ASSUME TypeOK, ReporterIsCurrent, NEW o \in Observers, NEW u \in Updates,
           ShowsPast(seen[o], view[o]), IsStep(u), IsNewer(u.version, seen[o]),
           ~Misses(o, u), u.operation # "remove"
    PROVE  ShowsPast(u.version, With(view[o], u))
<1>1. view[o] \in Data
  BY DEF TypeOK
<1> QED BY <1>1, AppliesToTheView, ShowsNext DEF ShowsPast

LEMMA ViewsStep ==
    ASSUME TypeOK, FaithInv, ConfirmationsAreStored, [Next]_vars
    PROVE  ViewsArePast'
<1> SUFFICES ASSUME NEW p \in Observers
             PROVE  (FollowsReporter(p) => ShowsPast(seen[p], view[p]))'
  BY DEF ViewsArePast
<1>0. FollowsReporter(p) => ShowsPast(seen[p], view[p])
  BY DEF FaithInv, ViewsArePast
<1>1. ASSUME ChangeChild \/ \E u \in Updates : IsChange(u)
      PROVE  (FollowsReporter(p) => ShowsPast(seen[p], view[p]))'
  <2>1. UNCHANGED <<live, seen, view, events>>
    BY <1>1 DEF IsChange, ChangeChild, observer
  <2>2. ASSUME FollowsReporter(p)
        PROVE  ShowsPast(seen[p], view[p])'
    <3>1. PICK w, e, d : w = seen[p] /\ e = view[p] /\ d = past[w]
      OBVIOUS
    <3>2. IsPast(w, d) /\ Shows(e, d)
      BY <1>0, <2>2, <3>1 DEF IsPast, ShowsPast
    <3>3. IsPast(w, d)'
      BY <1>1, <3>2, PastStays DEF FaithInv
    <3> QED BY <2>1, <3>1, <3>2, <3>3 DEF IsPast, ShowsPast, Shows
  <2> QED BY <2>1, <2>2 DEF FollowsReporter, Never
<1>2. CASE \/ \E a \in Attributes : Remove(a) \/ \E value \in {Falsy, Fresh} : Write(a, value)
           \/ Push
           \/ \E i \in DOMAIN data.list : SetElement(i)
           \/ Pop
  BY <1>1, <1>2, ChangesOfData
<1>3. CASE RestartReporter
  <2>1. "rerun" \in events'[p]
    BY <1>3 DEF RestartReporter
  <2> QED BY <2>1 DEF FollowsReporter, Never, Unfaithful
<1>4. CASE SaveChange \/ UNCHANGED vars
  <2>1. UNCHANGED <<version, past, live, seen, view, events>>
    BY <1>4 DEF SaveChange, vars, observer, reporter
  <2> QED BY <1>0, <2>1, ViewsStay
<1>5. ASSUME NEW o \in Observers,
             \/ Subscribe(o) \/ Sync(o)
             \/ \E kind \in asking[o] : Answer(o, kind)
             \/ \E s \in replies[o] : ConfirmAgain(o, s)
      PROVE  (FollowsReporter(p) => ShowsPast(seen[p], view[p]))'
  <2>1. UNCHANGED <<version, past, live, seen, view, events>>
    BY <1>5 DEF Subscribe, Sync, Answer, ConfirmAgain, observer, reporter
  <2> QED BY <1>0, <2>1, ViewsStay
<1>6. ASSUME NEW o \in Observers, NEW s \in replies[o], Grant(o, s)
      PROVE  (FollowsReporter(p) => ShowsPast(seen[p], view[p]))'
  <2>1. UNCHANGED <<version, past, live, seen, view>>
    BY <1>6 DEF Grant, reporter
  <2>2. CASE p = o /\ ~granted[o]
    <3>1. ~live'[p]
      BY <2>1, <2>2 DEF ConfirmationsAreStored
    <3> QED BY <3>1 DEF FollowsReporter
  <2>3. CASE ~(p = o /\ ~granted[o])
    <3>1. events[p] \subseteq events'[p]
      BY <1>6, <2>3 DEF Grant, TypeOK
    <3> QED BY <1>0, <2>1, <3>1, ViewsStay
  <2> QED BY <2>2, <2>3
<1>7. ASSUME NEW o \in Observers, NEW s \in replies[o], Confirm(o, s)
      PROVE  (FollowsReporter(p) => ShowsPast(seen[p], view[p]))'
  <2>1. UNCHANGED <<run, version, past>>
    BY <1>7 DEF Confirm, reporter
  <2>2. CASE p # o
    <3>1. live'[p] = live[p] /\ seen'[p] = seen[p] /\ view'[p] = view[p] /\ events'[p] = events[p]
      BY <1>7, <2>2 DEF Confirm, TypeOK
    <3> QED BY <1>0, <2>1, <3>1, ViewsStay
  <2>3. CASE p = o
    <3>1. seen'[p] = s.version /\ view'[p] = s.data /\ Rerun(s) \subseteq events'[p]
      BY <1>7, <2>3 DEF Confirm, TypeOK
    <3>2. ASSUME FollowsReporter(p)'
          PROVE  s.run = run /\ s.version # NaN
      BY <3>1, <3>2 DEF FollowsReporter, Never, Unfaithful, Rerun
    <3>3. ASSUME FollowsReporter(p)'
          PROVE  IsPast(s.version, s.data)
      BY <3>2, <3>3 DEF FaithInv, SnapshotsArePast
    <3>4. Shows(s.data, s.data)
      BY ShownByItself DEF TypeOK, Snapshots
    <3> QED BY <2>1, <3>1, <3>3, <3>4 DEF IsPast, ShowsPast, Shows
  <2> QED BY <2>2, <2>3
<1>8. ASSUME NEW o \in Observers, NEW s \in replies[o], Synchronise(o, s)
      PROVE  (FollowsReporter(p) => ShowsPast(seen[p], view[p]))'
  <2>1. UNCHANGED <<run, version, past, live>>
    BY <1>8 DEF Synchronise, reporter
  <2>2. CASE p # o
    <3>1. live'[p] = live[p] /\ seen'[p] = seen[p] /\ view'[p] = view[p] /\ events'[p] = events[p]
      BY <1>8, <2>2 DEF Synchronise, TypeOK
    <3> QED BY <1>0, <2>1, <3>1, ViewsStay
  <2>3. CASE p = o
    <3>1. /\ seen'[p] = s.version /\ view'[p] = Assign(view[o], s.data)
          /\ Rerun(s) \subseteq events'[p]
          /\ (\E a \in Attributes :
                 s.data.fields[a] = Absent /\ view[o].fields[a] # Absent) =>
                "leftover" \in events'[p]
      BY <1>8, <2>3 DEF Synchronise, TypeOK
    <3>2. ASSUME FollowsReporter(p)'
          PROVE  /\ s.run = run /\ s.version # NaN
                 /\ \A a \in Attributes :
                       s.data.fields[a] = Absent => view[o].fields[a] = Absent
      BY <3>1, <3>2 DEF FollowsReporter, Never, Unfaithful, Rerun
    <3>3. view[o] \in Data /\ s.data \in Data
      BY DEF TypeOK, Snapshots
    <3>4. ASSUME FollowsReporter(p)'
          PROVE  IsPast(s.version, s.data) /\ Assign(view[o], s.data) = s.data
      BY <3>2, <3>3, <3>4, AssignAll DEF FaithInv, SnapshotsArePast
    <3>5. Shows(s.data, s.data)
      BY <3>3, ShownByItself
    <3> QED BY <2>1, <3>1, <3>4, <3>5 DEF IsPast, ShowsPast, Shows
  <2> QED BY <2>2, <2>3
<1>9. ASSUME NEW o \in Observers, NEW u \in updates[o], ArriveEarly(o, u) \/ Drop(o, u)
      PROVE  (FollowsReporter(p) => ShowsPast(seen[p], view[p]))'
  <2>1. UNCHANGED <<version, past, live, seen, view>>
    BY <1>9 DEF ArriveEarly, Drop, reporter
  <2>2. events[p] \subseteq events'[p]
    BY <1>9 DEF ArriveEarly, Drop, TypeOK
  <2> QED BY <1>0, <2>1, <2>2, ViewsStay
<1>10. ASSUME NEW o \in Observers, NEW u \in updates[o], Apply(o, u)
       PROVE  (FollowsReporter(p) => ShowsPast(seen[p], view[p]))'
  <2>1. UNCHANGED <<run, version, past, live>>
    BY <1>10 DEF Apply, reporter
  <2>2. CASE p # o
    <3>1. live'[p] = live[p] /\ seen'[p] = seen[p] /\ view'[p] = view[p] /\ events'[p] = events[p]
      BY <1>10, <2>2 DEF Apply, TypeOK
    <3> QED BY <1>0, <2>1, <3>1, ViewsStay
  <2>3. CASE p = o
    <3>1. /\ live[o] /\ IsNewer(u.version, seen[o])
          /\ seen'[p] = u.version /\ view'[p] = With(view[o], u)
          /\ events[o] \subseteq events'[p] /\ Rerun(u) \subseteq events'[p]
          /\ Misses(o, u) => "gap" \in events'[p]
          /\ u.operation = "remove" => "shrunk" \in events'[p]
      BY <1>10, <2>3 DEF Apply, TypeOK
    <3>2. ASSUME FollowsReporter(p)'
          PROVE  u.run = run /\ ~Misses(o, u) /\ u.operation # "remove" /\ FollowsReporter(o)
      BY <3>1, <3>2 DEF FollowsReporter, Never, Unfaithful, Rerun, IsNewer
    <3>3. ASSUME FollowsReporter(p)'
          PROVE  ShowsPast(seen[o], view[o]) /\ IsStep(u) /\ u \in Updates
      BY <1>0, <2>3, <3>1, <3>2, <3>3 DEF FaithInv, UpdatesAreSteps, IsNewer, TypeOK
    <3>4. ASSUME FollowsReporter(p)'
          PROVE  ShowsPast(u.version, With(view[o], u))
      BY <3>1, <3>2, <3>3, <3>4, AppliesNext DEF FaithInv
    <3> QED BY <2>1, <3>1, <3>4 DEF ShowsPast, Shows
  <2> QED BY <2>2, <2>3
<1>11. ASSUME NEW o \in Observers, ChangeOwnChild(o) \/ Resume(o)
       PROVE  (FollowsReporter(p) => ShowsPast(seen[p], view[p]))'
  <2>1. UNCHANGED <<version, past, live>>
    BY <1>11 DEF ChangeOwnChild, Resume, reporter
  <2>2. CASE p # o
    <3>1. live'[p] = live[p] /\ seen'[p] = seen[p] /\ view'[p] = view[p] /\ events'[p] = events[p]
      BY <1>11, <2>2 DEF ChangeOwnChild, Resume, TypeOK
    <3> QED BY <1>0, <2>1, <3>1, ViewsStay
  <2>3. CASE p = o
    <3>1. "own" \in events'[p] \/ "resumed" \in events'[p]
      BY <1>11, <2>3 DEF ChangeOwnChild, Resume, TypeOK
    <3> QED BY <3>1 DEF FollowsReporter, Never, Unfaithful
  <2> QED BY <2>2, <2>3
<1> QED
  BY <1>1, <1>2, <1>3, <1>4, <1>5, <1>6, <1>7, <1>8, <1>9, <1>10, <1>11 DEF Next

-----------------------------------------------------------------------------
(* The stored copies.                                                      *)

\* What is stored at o when s is confirmed next.
ConfirmationIsStored(o, s) ==
    /\ granted[o]
    /\ ~live[o] /\ saving /\ Never(o, {"late", "synced"}) =>
          saved[o] = [version |-> s.version, data |-> s.data]

\* Nothing but the events happens to an observer and its stored copy.
Untouched(o) ==
    /\ granted'[o] = granted[o] /\ live'[o] = live[o] /\ saving' = saving
    /\ seen'[o] = seen[o] /\ view'[o] = view[o] /\ saved'[o] = saved[o]
    /\ events[o] \subseteq events'[o]

CopyFollows(o) ==
    live[o] /\ saving /\ Never(o, {"late", "own", "synced"}) =>
        /\ saved[o].version = seen[o]
        /\ saved[o].data.fields = view[o].fields
        /\ Never(o, Unfaithful) => saved[o].data.list = view[o].list

ConfirmationsAreStoredAt(o) ==
    /\ live[o] => granted[o]
    /\ \A s \in replies[o] : s.kind = "confirm" => ConfirmationIsStored(o, s)

SavedInvAt(o) == ConfirmationsAreStoredAt(o) /\ CopyFollows(o)

LEMMA SavedInvIsLocal == SavedInv <=> \A o \in Observers : SavedInvAt(o)
BY DEF SavedInv, SavedInvAt, ConfirmationsAreStored, ConfirmationsAreStoredAt,
       ConfirmationIsStored, SavedCopyFollows, CopyFollows

LEMMA UntouchedCopy ==
    ASSUME NEW p \in Observers, SavedInvAt(p), Untouched(p),
           \A s \in replies'[p] : s.kind = "confirm" => s \in replies[p]
    PROVE  SavedInvAt(p)'
BY DEF SavedInvAt, ConfirmationsAreStoredAt, CopyFollows, ConfirmationIsStored,
       Untouched, Never

\* What an update does to a faithful view it does to the list stored of it.
LEMMA StoredAsShown ==
    ASSUME NEW d \in Data, NEW e \in Data, NEW f \in Data, NEW c \in Data,
           NEW u \in Updates, Shows(d, e), Becomes(e, u, f), u.operation # "remove",
           c.list = d.list
    PROVE  Assigned(c, u).list = With(d, u).list
<1>0. /\ d.list \in Seq(Values) /\ d.list = e.list /\ u.value \in Values
  BY UpdateTypes DEF Data, Shows
<1>1. CASE u.operation = "set"
  BY <1>1 DEF Assigned, With, Data
<1>2. CASE u.operation = "add" /\ u.place = Len(e.list) + 1
  <2>1. Inserted(d.list, u.place, u.value) = Put(c.list, u.place, u.value)
    BY <1>0, <1>2, AtTheEnd
  <2> QED BY <1>2, <2>1 DEF Assigned, With, Data
<1>3. CASE u.operation = "update"
  BY <1>3 DEF Assigned, With, Data
<1> QED BY <1>1, <1>2, <1>3 DEF Becomes

\* To the fields it does the same, whatever they were.
LEMMA FieldsAsShown ==
    ASSUME NEW d \in Data, NEW c \in Data, NEW u \in Updates, c.fields = d.fields
    PROVE  Assigned(c, u).fields = With(d, u).fields
<1>1. CASE u.operation = "set"
  BY <1>1 DEF Assigned, With, Data
<1>2. CASE u.operation \in {"add", "update", "remove"}
  BY <1>2 DEF Assigned, With, Data
<1> QED BY <1>1, <1>2, UpdateTypes

LEMMA SavedStep ==
    ASSUME TypeOK, FaithInv, SavedInv, [Next]_vars
    PROVE  SavedInv'
<1> SUFFICES ASSUME NEW p \in Observers
             PROVE  SavedInvAt(p)'
  BY SavedInvIsLocal DEF SavedInvAt, ConfirmationsAreStoredAt, CopyFollows,
     ConfirmationIsStored, SavedInv, ConfirmationsAreStored, SavedCopyFollows, Never
<1>0. SavedInvAt(p)
  BY SavedInvIsLocal
<1>1. ASSUME UNCHANGED <<saving, replies, observer>>
      PROVE  SavedInvAt(p)'
  BY <1>0, <1>1, UntouchedCopy DEF observer, Untouched
<1>2. CASE \/ \E a \in Attributes : Remove(a) \/ \E value \in {Falsy, Fresh} : Write(a, value)
           \/ Push
           \/ \E i \in DOMAIN data.list : SetElement(i)
           \/ Pop
  BY <1>1, <1>2 DEF Write, Remove, Push, SetElement, Pop, Change
<1>3. CASE ChangeChild \/ SaveChange \/ UNCHANGED vars
  BY <1>1, <1>3 DEF ChangeChild, SaveChange, vars, network, reporter
<1>4. CASE RestartReporter
  <2>1. /\ UNCHANGED <<saving, replies, granted, live, seen, view, saved>>
        /\ events[p] \subseteq events'[p]
    BY <1>4 DEF RestartReporter, network
  <2> QED BY <1>0, <2>1, UntouchedCopy DEF Untouched
<1>5. ASSUME NEW o \in Observers, Subscribe(o) \/ Sync(o)
      PROVE  SavedInvAt(p)'
  BY <1>1, <1>5 DEF Subscribe, Sync, reporter
<1>6. ASSUME NEW o \in Observers, NEW kind \in asking[o], Answer(o, kind)
      PROVE  SavedInvAt(p)'
  <2>1. UNCHANGED <<saving, granted, live, seen, view, saved, events>> /\ kind # "confirm"
    BY <1>6 DEF Answer, reporter, observer, TypeOK, Kinds
  <2>2. \A s \in replies'[p] : s.kind = "confirm" => s \in replies[p]
    BY <1>6, <2>1 DEF Answer, TypeOK
  <2> QED BY <1>0, <2>1, <2>2, UntouchedCopy DEF Untouched
<1>7. ASSUME NEW o \in Observers, NEW s \in replies[o], Grant(o, s)
      PROVE  SavedInvAt(p)'
  <2>1. UNCHANGED <<saving, live, seen, view>>
    BY <1>7 DEF Grant, reporter
  <2>2. CASE p # o
    <3>1. /\ granted'[p] = granted[p] /\ saved'[p] = saved[p] /\ events'[p] = events[p]
          /\ replies'[p] = replies[p]
      BY <1>7, <2>2 DEF Grant, TypeOK
    <3> QED BY <1>0, <2>1, <3>1, UntouchedCopy DEF Untouched
  <2>3. CASE p = o /\ granted[o]
    <3>1. granted'[p] /\ "synced" \in events'[p]
      BY <1>7, <2>3 DEF Grant, TypeOK
    <3> QED BY <3>1 DEF SavedInvAt, ConfirmationsAreStoredAt, CopyFollows,
                        ConfirmationIsStored, Never
  <2>4. CASE p = o /\ ~granted[o]
    <3>1. s \in Snapshots
      BY DEF TypeOK
    <3>2. /\ granted'[p] /\ ~live'[p]
          /\ saved'[p] = Stored(o, s)
          /\ replies'[p] = (replies[o] \ {s}) \union {[s EXCEPT !.kind = "confirm"]}
      BY <1>0, <1>7, <2>1, <2>4 DEF Grant, TypeOK, SavedInvAt, ConfirmationsAreStoredAt
    <3>3. ASSUME NEW r \in replies'[p], r.kind = "confirm"
          PROVE  r.version = s.version /\ r.data = s.data
      <4>1. r \notin replies[p]
        BY <1>0, <2>4, <3>3 DEF SavedInvAt, ConfirmationsAreStoredAt, ConfirmationIsStored
      <4>2. r = [s EXCEPT !.kind = "confirm"]
        BY <2>4, <3>2, <3>3, <4>1
      <4> QED BY <3>1, <4>2 DEF Snapshots
    <3>4. saving' => saved'[p] = [version |-> s.version, data |-> s.data]
      BY <2>1, <3>2 DEF Stored
    <3> QED BY <3>2, <3>3, <3>4 DEF SavedInvAt, ConfirmationsAreStoredAt, CopyFollows,
                                   ConfirmationIsStored
  <2> QED BY <2>2, <2>3, <2>4
<1>8. ASSUME NEW o \in Observers, NEW s \in replies[o], Confirm(o, s)
      PROVE  SavedInvAt(p)'
  <2>1. UNCHANGED <<saving, granted, saved>>
    BY <1>8 DEF Confirm, reporter
  <2>2. CASE p # o
    <3>1. /\ live'[p] = live[p] /\ seen'[p] = seen[p] /\ view'[p] = view[p]
          /\ events'[p] = events[p] /\ replies'[p] = replies[p]
      BY <1>8, <2>2 DEF Confirm, TypeOK
    <3> QED BY <1>0, <2>1, <3>1, UntouchedCopy DEF Untouched
  <2>3. CASE p = o
    <3>1. /\ s.kind = "confirm" /\ ~live[o]
          /\ live'[p] /\ seen'[p] = s.version /\ view'[p] = s.data
          /\ events[p] \intersect {"late", "synced"} \subseteq events'[p]
      BY <1>8, <2>3 DEF Confirm, TypeOK
    <3>2. ConfirmationIsStored(p, s)
      BY <1>0, <2>3, <3>1 DEF SavedInvAt, ConfirmationsAreStoredAt
    <3>3. CopyFollows(p)'
      BY <2>1, <2>3, <3>1, <3>2 DEF CopyFollows, ConfirmationIsStored, Never
    <3>4. ConfirmationsAreStoredAt(p)'
      BY <2>1, <2>3, <3>1, <3>2 DEF ConfirmationsAreStoredAt, ConfirmationIsStored
    <3> QED BY <3>3, <3>4 DEF SavedInvAt
  <2> QED BY <2>2, <2>3
<1>9. ASSUME NEW o \in Observers, NEW s \in replies[o], ConfirmAgain(o, s)
      PROVE  SavedInvAt(p)'
  <2>1. UNCHANGED <<saving, granted, live, seen, view, saved, events>>
    BY <1>9 DEF ConfirmAgain, reporter, observer
  <2>2. replies'[p] \subseteq replies[p]
    BY <1>9 DEF ConfirmAgain, TypeOK
  <2> QED BY <1>0, <2>1, <2>2, UntouchedCopy DEF Untouched
<1>10. ASSUME NEW o \in Observers, NEW s \in replies[o], Synchronise(o, s)
       PROVE  SavedInvAt(p)'
  <2>1. UNCHANGED <<saving, granted, live, saved>>
    BY <1>10 DEF Synchronise, reporter
  <2>2. CASE p # o
    <3>1. /\ seen'[p] = seen[p] /\ view'[p] = view[p]
          /\ events'[p] = events[p] /\ replies'[p] = replies[p]
      BY <1>10, <2>2 DEF Synchronise, TypeOK
    <3> QED BY <1>0, <2>1, <3>1, UntouchedCopy DEF Untouched
  <2>3. CASE p = o
    <3>1. live[o] /\ live'[p] /\ "synced" \in events'[p]
      BY <1>10, <2>1, <2>3 DEF Synchronise, TypeOK
    <3>2. granted'[p]
      BY <1>0, <2>1, <2>3, <3>1 DEF SavedInvAt, ConfirmationsAreStoredAt
    <3> QED BY <3>1, <3>2 DEF SavedInvAt, ConfirmationsAreStoredAt, CopyFollows,
                              ConfirmationIsStored, Never
  <2> QED BY <2>2, <2>3
<1>11. ASSUME NEW o \in Observers, NEW u \in updates[o], ArriveEarly(o, u) \/ Apply(o, u) \/ Drop(o, u)
       PROVE  SavedInvAt(p)'
  <2>1. UNCHANGED <<saving, replies, granted, live>>
    BY <1>11 DEF ArriveEarly, Apply, Drop, reporter
  <2>2. CASE p # o
    <3>1. /\ seen'[p] = seen[p] /\ view'[p] = view[p]
          /\ saved'[p] = saved[p] /\ events'[p] = events[p]
      BY <1>11, <2>2 DEF ArriveEarly, Apply, Drop, SaveUpdate, TypeOK
    <3> QED BY <1>0, <2>1, <3>1, UntouchedCopy DEF Untouched
  <2>3. CASE p = o /\ (Drop(o, u) \/ (ArriveEarly(o, u) /\ granted[o]))
    <3>1. granted[o] /\ "late" \in events'[p]
      BY <1>0, <2>3 DEF ArriveEarly, Drop, TypeOK, SavedInvAt, ConfirmationsAreStoredAt
    <3> QED BY <2>1, <2>3, <3>1 DEF SavedInvAt, ConfirmationsAreStoredAt, CopyFollows,
                              ConfirmationIsStored, Never
  <2>4. CASE p = o /\ ArriveEarly(o, u) /\ ~granted[o]
    <3>1. UNCHANGED <<saved, events, seen, view>>
      BY <2>4 DEF ArriveEarly
    <3> QED BY <1>0, <2>1, <3>1, UntouchedCopy DEF Untouched
  <2>5. CASE p = o /\ Apply(o, u)
    <3>1. /\ live[o] /\ u.version # NaN /\ events[p] \subseteq events'[p]
          /\ seen'[p] = u.version /\ view'[p] = With(view[p], u)
          /\ saving => saved'[p] = Save(saved[p], u)
      BY <2>5 DEF Apply, SaveUpdate, IsNewer, TypeOK
    <3>2. granted[p]
      BY <1>0, <2>5, <3>1 DEF SavedInvAt, ConfirmationsAreStoredAt
    <3>3. CopyFollows(p)'
      <4> SUFFICES ASSUME saving, Never(o, {"late", "own", "synced"})'
                   PROVE  /\ saved'[p].version = seen'[p]
                          /\ saved'[p].data.fields = view'[p].fields
                          /\ Never(p, Unfaithful)' => saved'[p].data.list = view'[p].list
        BY <2>1, <2>5 DEF CopyFollows
      <4>0. u \in Updates /\ view[p] \in Data /\ saved[p].data \in Data
        BY <2>5 DEF TypeOK, Entries
      <4>1. Never(o, {"late", "own", "synced"})
        BY <2>5, <3>1 DEF Never
      <4>2. /\ saved[p].version = seen[p] /\ saved[p].data.fields = view[p].fields
            /\ Never(p, Unfaithful) => saved[p].data.list = view[p].list
        BY <1>0, <2>5, <3>1, <4>1 DEF SavedInvAt, CopyFollows
      <4>3. /\ saved'[p].version = u.version /\ saved'[p].data = Assigned(saved[p].data, u)
        BY <3>1 DEF Save
      <4>4. ASSUME Never(p, Unfaithful)'
            PROVE  saved'[p].data.list = view'[p].list
        <5>1. Never(p, Unfaithful) /\ u.run = run /\ ~Misses(p, u) /\ u.operation # "remove"
          BY <2>5, <3>1, <4>4 DEF Apply, Never, Unfaithful, Rerun, TypeOK
        <5>2. IsNewer(u.version, seen[p]) /\ seen[p] # NaN
          BY <2>5 DEF Apply, IsNewer
        <5>3. ShowsPast(seen[p], view[p]) /\ IsStep(u)
          BY <2>5, <3>1, <5>1, <5>2 DEF FaithInv, ViewsArePast, FollowsReporter, UpdatesAreSteps
        <5>4. ReporterIsCurrent
          BY DEF FaithInv
        <5>5. /\ past[u.version - 1] \in Data /\ past[u.version] \in Data
              /\ Shows(view[p], past[u.version - 1])
              /\ Becomes(past[u.version - 1], u, past[u.version])
          BY <4>0, <5>1, <5>2, <5>3, <5>4, AppliesToTheView
        <5>6. Assigned(saved[p].data, u).list = With(view[p], u).list
          BY <4>0, <4>2, <5>1, <5>5, StoredAsShown
        <5> QED BY <3>1, <4>3, <5>6
      <4> QED BY <3>1, <4>0, <4>2, <4>3, <4>4, FieldsAsShown
    <3>4. ConfirmationsAreStoredAt(p)'
      BY <2>1, <2>5, <3>1, <3>2 DEF ConfirmationsAreStoredAt, ConfirmationIsStored
    <3> QED BY <3>3, <3>4 DEF SavedInvAt
  <2>6. \/ p # o
        \/ p = o /\ (Drop(o, u) \/ (ArriveEarly(o, u) /\ granted[o]))
        \/ p = o /\ ArriveEarly(o, u) /\ ~granted[o]
        \/ p = o /\ Apply(o, u)
    BY <1>11, Zenon
  <2> QED BY <2>2, <2>3, <2>4, <2>5, <2>6, Zenon
<1>12. ASSUME NEW o \in Observers, ChangeOwnChild(o) \/ Resume(o)
       PROVE  SavedInvAt(p)'
  <2>1. UNCHANGED <<saving, replies, granted, live, saved>>
    BY <1>12 DEF ChangeOwnChild, Resume, reporter, network
  <2>2. CASE p # o
    <3>1. seen'[p] = seen[p] /\ view'[p] = view[p] /\ events'[p] = events[p]
      BY <1>12, <2>2 DEF ChangeOwnChild, Resume, TypeOK
    <3> QED BY <1>0, <2>1, <3>1, UntouchedCopy DEF Untouched
  <2>3. CASE p = o
    <3>1. live[o] /\ granted[o]
      BY <1>0, <1>12, <2>3 DEF ChangeOwnChild, Resume, SavedInvAt, ConfirmationsAreStoredAt
    <3>2. ConfirmationsAreStoredAt(p)'
      BY <2>1, <2>3, <3>1 DEF ConfirmationsAreStoredAt, ConfirmationIsStored
    <3>3. CASE ChangeOwnChild(o)
      <4>1. "own" \in events'[p]
        BY <2>3, <3>3 DEF ChangeOwnChild, TypeOK
      <4> QED BY <3>2, <4>1 DEF SavedInvAt, CopyFollows, Never
    <3>4. CASE Resume(o)
      <4>1. saved[p] \in Entries /\ saved'[p] = saved[p]
        BY <2>1 DEF TypeOK
      <4>2. seen'[p] = saved[p].version /\ view'[p] = saved[p].data
        BY <2>3, <3>4 DEF Resume, TypeOK
      <4>3. CopyFollows(p)'
        BY <4>1, <4>2 DEF CopyFollows, Entries
      <4> QED BY <3>2, <4>3 DEF SavedInvAt
    <3> QED BY <1>12, <3>3, <3>4
  <2> QED BY <2>2, <2>3
<1> QED
  BY <1>2, <1>3, <1>4, <1>5, <1>6, <1>7, <1>8, <1>9, <1>10, <1>11, <1>12 DEF Next

-----------------------------------------------------------------------------
(* The order of values.                                                    *)

\* What the reporter wrote to fields after version v is falsy or at least x.
Precedes(x, v) ==
    version # NaN =>
        \A w \in v + 1 .. version : \A a \in Attributes :
            past[w].fields[a] \notin {Absent, Falsy, past[w - 1].fields[a]} =>
                x <= past[w].fields[a]

\* Writes take their values from work, which no restart sets back: x was written
\* already, and, if in this run, by version v.
IsDated(x, v) ==
    x # Absent => x <= work + 1 /\ (v # NaN => Precedes(x, v))

ReporterIsDated ==
    /\ \A a \in Attributes : data.fields[a] # Absent => data.fields[a] <= work + 1
    /\ \A a \in Attributes :
          store.data.fields[a] # Absent => store.data.fields[a] <= work + 1
    /\ \A i \in 1 .. Len(unsaved) :
          unsaved[i].operation = "set" /\ unsaved[i].value # Absent =>
              unsaved[i].value <= work + 1

\* An update of this run brings something new to its field, unless it clears it.
UpdatesAreDated ==
    \A o \in Observers : \A u \in updates[o] : u.operation = "set" =>
        /\ IsDated(u.value, u.version)
        /\ u.value # Falsy
        /\ u.run = run /\ u.version # NaN /\ u.value # Absent =>
              past[u.version - 1].fields[u.place] # u.value

SnapshotsAreDated ==
    \A o \in Observers : \A s \in replies[o] : \A a \in Attributes :
        IsDated(s.data.fields[a], s.version)

ViewIsDated(o) ==
    live[o] /\ Never(o, {"rewound"}) =>
        \A a \in Attributes : IsDated(view[o].fields[a], seen[o])

ViewsAreDated == \A o \in Observers : ViewIsDated(o)

OrderInv == ReporterIsDated /\ UpdatesAreDated /\ SnapshotsAreDated /\ ViewsAreDated

\* A value that was dated stays so.
LEMMA DatedStays ==
    ASSUME TypeOK, ReporterIsCurrent, ReporterStep,
           NEW x \in Values, NEW v \in Versions, IsDated(x, v)
    PROVE  IsDated(x, v)'
<1> SUFFICES ASSUME x # Absent
             PROVE  x <= work' + 1 /\ (v # NaN => Precedes(x, v)')
  BY DEF IsDated
<1>0. /\ x \in Nat /\ work \in Nat /\ x <= work + 1
      /\ v # NaN => Precedes(x, v) /\ v \in Nat
  BY DEF IsDated, Values, Versions, TypeOK
<1>1. CASE ChangeChild \/ \E u \in Updates : IsChange(u)
  <2>1. /\ version = NaN => version' = NaN
        /\ version # NaN =>
              /\ version \in Nat /\ version' = version + 1
              /\ past'[version'] = data'
              /\ \A w \in 0 .. version : past'[w] = past[w]
        /\ work' = work + 1
    BY <1>1, PastGrows
  <2>2. \A b \in Attributes :
           data'.fields[b] \notin {Absent, Falsy, data.fields[b]} => data'.fields[b] = work + 2
    BY <1>1 DEF ChangeChild, IsChange, Fresh
  <2>3. ASSUME v # NaN, version # NaN,
               NEW w \in v + 1 .. version + 1, NEW a \in Attributes,
               past'[w].fields[a] \notin {Absent, Falsy, past'[w - 1].fields[a]}
        PROVE  x <= past'[w].fields[a]
    <3>0. v \in Nat /\ w \in Nat /\ w - 1 \in 0 .. version /\ version \in Nat
      BY <1>0, <2>1, <2>3
    <3>1. CASE w <= version
      <4>1. past'[w] = past[w] /\ past'[w - 1] = past[w - 1] /\ w \in v + 1 .. version
        BY <2>1, <2>3, <3>0, <3>1
      <4> QED BY <1>0, <2>3, <4>1 DEF Precedes
    <3>2. CASE w = version + 1
      <4>1. past'[w] = data' /\ past'[w - 1] = past[version] /\ past[version] = data
        BY <2>1, <2>3, <3>0, <3>2 DEF ReporterIsCurrent
      <4>2. data'.fields[a] = work + 2
        BY <2>2, <2>3, <4>1
      <4> QED BY <1>0, <4>1, <4>2
    <3> QED BY <3>0, <3>1, <3>2, <2>3
  <2>4. x <= work' + 1
    BY <1>0, <2>1
  <2>5. CASE version = NaN
    BY <2>1, <2>4, <2>5 DEF Precedes
  <2>6. CASE version # NaN
    BY <2>1, <2>3, <2>4, <2>6 DEF Precedes
  <2> QED BY <2>5, <2>6
<1>2. CASE RestartReporter
  <2>1. /\ work' = work + 1 /\ version' = store.version
        /\ past' = [w \in 0 .. MaxWork |-> store.data]
        /\ work < MaxWork /\ MaxWork \in Nat
    BY <1>2, BoundAssumption DEF RestartReporter, Work
  <2>2. version' # NaN => version' \in 0 .. MaxWork
    BY <1>0, <2>1 DEF ReporterIsCurrent, Counted
  <2>3. ASSUME v # NaN, version' # NaN, NEW w \in v + 1 .. version'
        PROVE  past'[w] = past'[w - 1]
    <3>1. w \in 0 .. MaxWork /\ w - 1 \in 0 .. MaxWork
      BY <1>0, <2>1, <2>2, <2>3
    <3> QED BY <2>1, <3>1
  <2>4. v # NaN => Precedes(x, v)'
    BY <2>3 DEF Precedes
  <2>5. x <= work' + 1
    BY <1>0, <2>1
  <2> QED BY <2>4, <2>5
<1>3. CASE SaveChange \/ (work' >= work /\ work' \in Nat /\ UNCHANGED reporter)
  <2>1. UNCHANGED <<version, past>> /\ work' >= work /\ work' \in Nat
    BY <1>0, <1>3 DEF SaveChange, reporter
  <2>2. \A i, j, k \in Nat : i <= j + 1 /\ j <= k => i <= k + 1
    OBVIOUS
  <2>3. x <= work' + 1
    BY <1>0, <2>1, <2>2
  <2> QED BY <1>0, <2>1, <2>3 DEF Precedes
<1> QED BY <1>1, <1>2, <1>3 DEF ReporterStep

\* ... and is dated later as well.
LEMMA DatedLater ==
    ASSUME TypeOK, NEW x, NEW v \in Nat, NEW w \in Nat, v <= w, IsDated(x, v)
    PROVE  IsDated(x, w)
<1>1. v # NaN /\ w # NaN
  BY ValuesAssumption
<1>2. ASSUME Precedes(x, v) PROVE Precedes(x, w)
  <2>1. ASSUME version # NaN, NEW i \in w + 1 .. version PROVE i \in v + 1 .. version
    BY <2>1 DEF TypeOK, Versions
  <2> QED BY <1>2, <2>1 DEF Precedes
<1> QED BY <1>1, <1>2 DEF IsDated

LEMMA ReporterDatedStep ==
    ASSUME TypeOK, ReporterIsDated, ReporterStep
    PROVE  ReporterIsDated'
<1>0. work \in Nat /\ Absent \notin Nat
  BY ValuesAssumption DEF TypeOK
<1>1. /\ \A a \in Attributes : data.fields[a] \in Values /\ store.data.fields[a] \in Values
      /\ Len(unsaved) \in Nat /\ unsaved \in Seq(Updates)
      /\ \A i \in 1 .. Len(unsaved) : unsaved[i] \in Updates /\ unsaved[i].value \in Values
  <2>1. \A i \in 1 .. Len(unsaved) : unsaved[i] \in Updates
    BY DEF TypeOK
  <2> QED BY <2>1, UpdateTypes DEF TypeOK, Data, Entries
<1>2. ASSUME work' \in Nat, work' >= work, UNCHANGED <<data, store, unsaved>>
      PROVE  ReporterIsDated'
  BY <1>0, <1>1, <1>2 DEF ReporterIsDated, Values
<1>3. ASSUME NEW u \in Updates, IsChange(u)
      PROVE  ReporterIsDated'
  <2>1. /\ work' = work + 1 /\ store' = store
        /\ unsaved' = IF saving THEN Append(unsaved, u) ELSE unsaved
        /\ u.operation = "set" => u.value \in {Absent, work + 2}
        /\ \A b \in Attributes : data'.fields[b] \in {Absent, 0, data.fields[b], work + 2}
    BY <1>3 DEF IsChange, Fresh, Falsy
  <2>2. ASSUME NEW i \in 1 .. Len(unsaved'), unsaved'[i].operation = "set",
               unsaved'[i].value # Absent
        PROVE  unsaved'[i].value <= work + 2
    <3>1. CASE i \in 1 .. Len(unsaved) /\ unsaved'[i] = unsaved[i]
      BY <1>0, <1>1, <2>2, <3>1 DEF ReporterIsDated, Values
    <3>2. CASE unsaved'[i] = u
      BY <1>0, <2>1, <2>2, <3>2
    <3>3. CASE saving
      <4>1. /\ Len(unsaved') = Len(unsaved) + 1
            /\ unsaved'[Len(unsaved) + 1] = u
            /\ \A k \in 1 .. Len(unsaved) : unsaved'[k] = unsaved[k]
        BY <1>1, <2>1, <3>3, AppendProperties
      <4>2. i \in 1 .. Len(unsaved) \/ i = Len(unsaved) + 1
        BY <1>1, <4>1
      <4> QED BY <3>1, <3>2, <4>1, <4>2
    <3>4. CASE ~saving
      BY <2>1, <3>1, <3>4
    <3> QED BY <3>3, <3>4
  <2>3. ASSUME NEW b \in Attributes
        PROVE  /\ data'.fields[b] # Absent => data'.fields[b] <= work + 2
               /\ store.data.fields[b] # Absent => store.data.fields[b] <= work + 2
    <3>1. data.fields[b] # Absent => data.fields[b] \in Nat /\ data.fields[b] <= work + 1
      BY <1>1 DEF ReporterIsDated, Values
    <3>2. store.data.fields[b] # Absent =>
              store.data.fields[b] \in Nat /\ store.data.fields[b] <= work + 1
      BY <1>1 DEF ReporterIsDated, Values
    <3> QED BY <1>0, <2>1, <3>1, <3>2
  <2>4. work' + 1 = work + 2
    BY <1>0, <2>1
  <2> QED BY <2>1, <2>2, <2>3, <2>4 DEF ReporterIsDated
<1>4. CASE SaveChange
  <2>1. /\ Head(unsaved) = unsaved[1] /\ Len(unsaved) >= 1
        /\ Len(Tail(unsaved)) = Len(unsaved) - 1
        /\ \A i \in 1 .. Len(Tail(unsaved)) : Tail(unsaved)[i] = unsaved[i + 1]
    BY <1>4, HeadTailProperties DEF SaveChange, TypeOK
  <2>2. store.data \in Data /\ unsaved[1] \in Updates
    BY <1>1, <2>1 DEF TypeOK, Entries
  <2>3. /\ UNCHANGED <<work, data>> /\ unsaved' = Tail(unsaved)
        /\ store'.data = Assigned(store.data, unsaved[1])
    BY <1>4, <2>1 DEF SaveChange, Save
  <2>4. ASSUME NEW i \in 1 .. Len(unsaved'), unsaved'[i].operation = "set",
               unsaved'[i].value # Absent
        PROVE  unsaved'[i].value <= work + 1
    <3>1. i + 1 \in 1 .. Len(unsaved) /\ unsaved'[i] = unsaved[i + 1]
      BY <1>1, <2>1, <2>3
    <3> QED BY <2>4, <3>1 DEF ReporterIsDated
  <2>5. ASSUME NEW a \in Attributes, store'.data.fields[a] # Absent
        PROVE  store'.data.fields[a] <= work + 1
    <3>1. 1 \in 1 .. Len(unsaved)
      BY <1>1, <2>1
    <3>2. unsaved[1].operation = "set" /\ unsaved[1].value # Absent =>
              unsaved[1].value <= work + 1
      BY <3>1 DEF ReporterIsDated
    <3>3. \/ store'.data.fields[a] = store.data.fields[a]
          \/ unsaved[1].operation = "set" /\ store'.data.fields[a] = unsaved[1].value
      BY <2>2, <2>3 DEF Assigned, Data
    <3> QED BY <2>5, <3>2, <3>3 DEF ReporterIsDated
  <2> QED BY <2>3, <2>4, <2>5 DEF ReporterIsDated
<1>5. CASE RestartReporter
  <2>1. /\ work' = work + 1 /\ data' = store.data /\ store' = store /\ unsaved' = <<>>
    BY <1>5 DEF RestartReporter, Work
  <2>2. Len(unsaved') = 0
    BY <2>1
  <2> QED BY <1>0, <1>1, <2>1, <2>2 DEF ReporterIsDated, Values
<1>6. CASE ChangeChild
  <2>1. UNCHANGED <<data, store, unsaved>> /\ work' = work + 1
    BY <1>6 DEF ChangeChild, Work
  <2> QED BY <1>0, <1>2, <2>1
<1>7. CASE work' >= work /\ work' \in Nat /\ UNCHANGED reporter
  BY <1>2, <1>7 DEF reporter
<1> QED BY <1>3, <1>4, <1>5, <1>6, <1>7 DEF ReporterStep

LEMMA UpdatesDatedStep ==
    ASSUME TypeOK, ReporterIsCurrent, UpdatesAreSteps, ReporterIsDated, UpdatesAreDated,
           ReporterStep
    PROVE  UpdatesAreDated'
<1>0. work \in Nat /\ Absent \notin Nat
  BY ValuesAssumption DEF TypeOK
<1>1. ASSUME NEW o \in Observers, NEW u \in updates[o], u.operation = "set"
      PROVE  /\ IsDated(u.value, u.version)'
             /\ u.value # Falsy
             /\ u.run = run' /\ u.version # NaN /\ u.value # Absent =>
                   past'[u.version - 1].fields[u.place] # u.value
  <2>0. /\ u.value \in Values /\ u.version \in Versions /\ u.run \in Nat /\ run \in Nat
        /\ u.run <= run /\ u.value # Falsy
    BY <1>1, UpdateTypes DEF TypeOK, UpdatesAreSteps, UpdatesAreDated
  <2>1. IsDated(u.value, u.version)'
    BY <1>1, <2>0, DatedStays DEF UpdatesAreDated
  <2>2. CASE RestartReporter
    <3>1. u.run # run'
      BY <2>0, <2>2 DEF RestartReporter
    <3> QED BY <2>0, <2>1, <3>1
  <2>3. CASE ChangeChild \/ \E w \in Updates : IsChange(w)
    <3>1. run' = run
      BY <2>3, PastGrows
    <3>2. ASSUME u.run = run, u.version # NaN, u.value # Absent
          PROVE  past'[u.version - 1].fields[u.place] # u.value
      <4>1. version # NaN /\ u.version \in 1 .. version
        BY <3>2 DEF UpdatesAreSteps, IsStep
      <4>2. version \in Nat /\ \A w \in 0 .. version : past'[w] = past[w]
        BY <2>3, <4>1, PastGrows
      <4>3. u.version - 1 \in 0 .. version
        BY <4>1, <4>2
      <4> QED BY <1>1, <3>2, <4>2, <4>3 DEF UpdatesAreDated
    <3> QED BY <2>0, <2>1, <3>1, <3>2
  <2>4. CASE UNCHANGED <<run, past>>
    BY <1>1, <2>1, <2>4 DEF UpdatesAreDated
  <2> QED BY <2>2, <2>3, <2>4 DEF ReporterStep, SaveChange, reporter
<1>2. ASSUME \A o \in Observers : updates'[o] \subseteq updates[o]
      PROVE  UpdatesAreDated'
  BY <1>1, <1>2 DEF UpdatesAreDated
<1>3. ASSUME NEW u \in Updates, IsChange(u)
      PROVE  UpdatesAreDated'
  <2>1. /\ u.version = version'
        /\ u.operation = "set" => u.value \in {Absent, work + 2}
        /\ \A o \in Observers : updates'[o] \subseteq updates[o] \union {u}
    BY <1>3 DEF IsChange, TypeOK, Fresh
  <2>2. /\ work' = work + 1
        /\ version' # NaN =>
              /\ version # NaN /\ version \in Nat /\ version' = version + 1
              /\ \A w \in 0 .. version : past'[w] = past[w]
    BY <1>3, PastGrows
  <2>3. ASSUME u.operation = "set"
        PROVE  IsDated(u.value, u.version)' /\ u.value # Falsy
    <3>1. ASSUME u.version # NaN PROVE Precedes(u.value, u.version)'
      <4>1. version \in Nat /\ version' = version + 1 /\ u.version = version'
        BY <2>1, <2>2, <3>1
      <4>2. ASSUME NEW w \in u.version + 1 .. version' PROVE FALSE
        BY <4>1, <4>2
      <4> QED BY <4>2 DEF Precedes
    <3>2. ASSUME u.value # Absent PROVE u.value <= work' + 1
      <4>1. u.value = work + 2 /\ work' = work + 1
        BY <2>1, <2>2, <2>3, <3>2
      <4> QED BY <1>0, <4>1
    <3>3. u.value # Falsy
      BY <1>0, <2>1, <2>3 DEF Falsy
    <3> QED BY <3>1, <3>2, <3>3 DEF IsDated
  <2>4. ASSUME u.version # NaN, u.operation = "set", u.value # Absent
        PROVE  past'[u.version - 1].fields[u.place] # u.value
    <3>1. /\ version # NaN /\ u.version - 1 = version
          /\ past'[version] = past[version] /\ past[version] = data
      BY <2>1, <2>2, <2>4 DEF ReporterIsCurrent
    <3>2. u.place \in Attributes /\ u.value = work + 2
      BY <2>1, <2>4, UpdateTypes
    <3>3. data.fields[u.place] # work + 2
      <4>1. data.fields[u.place] \in Nat => data.fields[u.place] <= work + 1
        BY <1>0, <3>2 DEF ReporterIsDated
      <4> QED BY <1>0, <4>1
    <3> QED BY <3>1, <3>2, <3>3
  <2> QED BY <1>1, <2>1, <2>3, <2>4 DEF UpdatesAreDated
<1>4. CASE ChangeChild \/ SaveChange \/ RestartReporter
  BY <1>2, <1>4 DEF ChangeChild, SaveChange, RestartReporter, network
<1> QED BY <1>2, <1>3, <1>4 DEF ReporterStep

LEMMA SnapshotsDatedStep ==
    ASSUME TypeOK, ReporterIsCurrent, ReporterIsDated, SnapshotsAreDated, ReporterStep
    PROVE  SnapshotsAreDated'
<1>1. ASSUME NEW o \in Observers, NEW s \in replies[o], NEW a \in Attributes
      PROVE  IsDated(s.data.fields[a], s.version)'
  <2>1. s.data.fields[a] \in Values /\ s.version \in Versions
    BY DEF TypeOK, Snapshots, Data
  <2> QED BY <2>1, DatedStays DEF SnapshotsAreDated
<1>2. CASE replies' = replies
  BY <1>1, <1>2 DEF SnapshotsAreDated
<1>3. ASSUME \A o \in Observers : \A s \in replies'[o] :
                \/ s.run = run /\ s.version = version /\ s.data = data
                \/ \E r \in replies[o] :
                      s.run = r.run /\ s.version = r.version /\ s.data = r.data
      PROVE  SnapshotsAreDated'
  <2>1. ASSUME NEW a \in Attributes, NEW s, s.version = version, s.data = data
        PROVE  IsDated(s.data.fields[a], s.version)'
    <3>1. s.data.fields[a] \in Values /\ s.version \in Versions
      BY <2>1 DEF TypeOK, Data
    <3>2. version # NaN => version + 1 .. version = {}
      BY <2>1, <3>1 DEF Versions
    <3>3. IsDated(s.data.fields[a], s.version)
      BY <2>1, <3>2 DEF ReporterIsDated, IsDated, Precedes
    <3> QED BY <3>1, <3>3, DatedStays
  <2>2. ASSUME NEW o \in Observers, NEW s \in replies'[o], NEW a \in Attributes
        PROVE  IsDated(s.data.fields[a], s.version)'
    <3>1. CASE s.run = run /\ s.version = version /\ s.data = data
      BY <2>1, <3>1
    <3>2. ASSUME NEW r \in replies[o], s.version = r.version, s.data = r.data
          PROVE  IsDated(s.data.fields[a], s.version)'
      BY <1>1, <3>2
    <3> QED BY <1>3, <2>2, <3>1, <3>2
  <2> QED BY <2>2 DEF SnapshotsAreDated
<1> QED BY <1>2, <1>3 DEF ReporterStep, ChangeChild, IsChange, SaveChange, RestartReporter, network

\* A view that nothing happens to stays dated.
LEMMA ViewStaysDated ==
    ASSUME TypeOK, ReporterIsCurrent, ReporterStep, NEW p \in Observers, ViewIsDated(p),
           live'[p] = live[p], seen'[p] = seen[p], view'[p] = view[p],
           events[p] \subseteq events'[p]
    PROVE  ViewIsDated(p)'
<1> SUFFICES ASSUME live'[p], "rewound" \notin events'[p], NEW a \in Attributes
             PROVE  IsDated(view[p].fields[a], seen[p])'
  BY DEF ViewIsDated, Never
<1>1. PICK x \in Values, v \in Versions : x = view[p].fields[a] /\ v = seen[p]
  BY DEF TypeOK, Data
<1>2. IsDated(x, v)
  BY <1>1 DEF ViewIsDated, Never
<1>3. IsDated(x, v)'
  BY <1>2, DatedStays
<1> QED BY <1>1, <1>3 DEF IsDated, Precedes

\* So does one that is replaced by dated values.
LEMMA ViewIsReplaced ==
    ASSUME TypeOK, ReporterIsCurrent, ReporterStep, NEW p \in Observers,
           "rewound" \notin events'[p] =>
               \A a \in Attributes : \E x \in Values, v \in Versions :
                  x = view'[p].fields[a] /\ v = seen'[p] /\ IsDated(x, v)
    PROVE  ViewIsDated(p)'
<1> SUFFICES ASSUME live'[p], "rewound" \notin events'[p], NEW a \in Attributes
             PROVE  IsDated(view[p].fields[a], seen[p])'
  BY DEF ViewIsDated, Never
<1>1. PICK x \in Values, v \in Versions : x = view'[p].fields[a] /\ v = seen'[p] /\ IsDated(x, v)
  OBVIOUS
<1>2. IsDated(x, v)'
  BY <1>1, DatedStays
<1> QED BY <1>1, <1>2 DEF IsDated, Precedes

LEMMA ViewsDatedStep ==
    ASSUME TypeOK, TypeOK', ReporterIsCurrent, ConfirmationsAreStored, OrderInv,
           ReporterStep, [Next]_vars
    PROVE  ViewsAreDated'
<1> SUFFICES ASSUME NEW p \in Observers
             PROVE  ViewIsDated(p)'
  BY DEF ViewsAreDated
<1>0. ViewIsDated(p)
  BY DEF OrderInv, ViewsAreDated
<1>1. ASSUME \A o \in Observers : /\ live'[o] = live[o] /\ seen'[o] = seen[o]
                                  /\ view'[o] = view[o] /\ events[o] \subseteq events'[o]
      PROVE  ViewIsDated(p)'
  BY <1>0, <1>1, ViewStaysDated
<1>2. CASE \/ \E a \in Attributes : Remove(a) \/ \E value \in {Falsy, Fresh} : Write(a, value)
           \/ Push
           \/ \E i \in DOMAIN data.list : SetElement(i)
           \/ Pop
  BY <1>1, <1>2 DEF Write, Remove, Push, SetElement, Pop, Change, observer
<1>3. CASE ChangeChild \/ SaveChange \/ RestartReporter \/ UNCHANGED vars
  BY <1>1, <1>3 DEF ChangeChild, SaveChange, RestartReporter, vars, observer
<1>4. ASSUME NEW o \in Observers,
             \/ Subscribe(o) \/ Sync(o)
             \/ \E kind \in asking[o] : Answer(o, kind)
             \/ \E s \in replies[o] : ConfirmAgain(o, s)
      PROVE  ViewIsDated(p)'
  BY <1>1, <1>4 DEF Subscribe, Sync, Answer, ConfirmAgain, observer
<1>5. ASSUME NEW o \in Observers, NEW u \in updates[o], ArriveEarly(o, u) \/ Drop(o, u)
      PROVE  ViewIsDated(p)'
  <2>1. UNCHANGED <<live, seen, view>> /\ \A q \in Observers : events[q] \subseteq events'[q]
    BY <1>5 DEF ArriveEarly, Drop, TypeOK
  <2> QED BY <1>1, <2>1
<1>6. ASSUME NEW o \in Observers, NEW s \in replies[o], Grant(o, s)
      PROVE  ViewIsDated(p)'
  <2>1. UNCHANGED <<live, seen, view>>
    BY <1>6 DEF Grant
  <2>2. CASE p = o /\ ~granted[o]
    BY <2>1, <2>2 DEF ConfirmationsAreStored, ViewIsDated
  <2>3. CASE ~(p = o /\ ~granted[o])
    <3>1. events[p] \subseteq events'[p]
      BY <1>6, <2>3 DEF Grant, TypeOK
    <3> QED BY <1>0, <2>1, <3>1, ViewStaysDated
  <2> QED BY <2>2, <2>3
<1>7. ASSUME NEW o \in Observers, p # o,
             \/ \E s \in replies[o] : Confirm(o, s) \/ Synchronise(o, s)
             \/ \E u \in updates[o] : Apply(o, u)
             \/ ChangeOwnChild(o) \/ Resume(o)
      PROVE  ViewIsDated(p)'
  <2>1. live'[p] = live[p] /\ seen'[p] = seen[p] /\ view'[p] = view[p] /\ events'[p] = events[p]
    BY <1>7 DEF Confirm, Synchronise, Apply, ChangeOwnChild, Resume, TypeOK
  <2> QED BY <1>0, <2>1, ViewStaysDated
<1>8. ASSUME NEW s \in replies[p], Confirm(p, s)
      PROVE  ViewIsDated(p)'
  <2>1. seen'[p] = s.version /\ view'[p] = s.data /\ s \in Snapshots
    BY <1>8 DEF Confirm, TypeOK
  <2>2. ASSUME NEW a \in Attributes
        PROVE  \E x \in Values, v \in Versions :
                  x = view'[p].fields[a] /\ v = seen'[p] /\ IsDated(x, v)
    <3>1. s.data.fields[a] \in Values /\ s.version \in Versions
      BY <2>1 DEF Snapshots, Data
    <3> QED BY <2>1, <3>1 DEF OrderInv, SnapshotsAreDated
  <2> QED BY <2>2, ViewIsReplaced
<1>9. ASSUME NEW s \in replies[p], Synchronise(p, s)
      PROVE  ViewIsDated(p)'
  <2>1. /\ live[p] /\ s \in Snapshots
        /\ seen'[p] = s.version /\ view'[p] = Assign(view[p], s.data)
        /\ "rewound" \in events[p] => "rewound" \in events'[p]
        /\ IsNewer(seen[p], s.version) \/ NaN \in {seen[p], s.version} =>
              "rewound" \in events'[p]
    BY <1>9 DEF Synchronise, TypeOK
  <2>2. ASSUME "rewound" \notin events'[p], NEW a \in Attributes
        PROVE  \E x \in Values, v \in Versions :
                  x = view'[p].fields[a] /\ v = seen'[p] /\ IsDated(x, v)
    <3>1. /\ s.version \in Nat /\ seen[p] \in Nat /\ seen[p] <= s.version
          /\ s.version \in Versions
      BY <2>1, <2>2 DEF IsNewer, TypeOK, Snapshots, Versions
    <3>2. /\ s.data.fields[a] \in Values /\ view[p].fields[a] \in Values
          /\ view'[p].fields[a] = IF s.data.fields[a] = Absent THEN view[p].fields[a] ELSE s.data.fields[a]
      BY <2>1 DEF Assign, Snapshots, Data, TypeOK
    <3>3. IsDated(s.data.fields[a], s.version)
      BY DEF OrderInv, SnapshotsAreDated
    <3>4. IsDated(view[p].fields[a], s.version)
      <4>1. IsDated(view[p].fields[a], seen[p])
        BY <1>0, <2>1, <2>2 DEF ViewIsDated, Never
      <4> QED BY <3>1, <4>1, DatedLater
    <3> QED BY <2>1, <3>1, <3>2, <3>3, <3>4
  <2> QED BY <2>2, ViewIsReplaced
<1>10. ASSUME NEW u \in updates[p], Apply(p, u)
       PROVE  ViewIsDated(p)'
  <2>1. /\ live[p] /\ u \in Updates /\ IsNewer(u.version, seen[p])
        /\ seen'[p] = u.version /\ view'[p] = With(view[p], u)
        /\ "rewound" \in events[p] => "rewound" \in events'[p]
    BY <1>10 DEF Apply, TypeOK
  <2>2. ASSUME "rewound" \notin events'[p], NEW a \in Attributes
        PROVE  \E x \in Values, v \in Versions :
                  x = view'[p].fields[a] /\ v = seen'[p] /\ IsDated(x, v)
    <3>1. /\ u.version \in Nat /\ seen[p] \in Nat /\ seen[p] <= u.version
          /\ u.version \in Versions
      BY <2>1, UpdateTypes DEF IsNewer, TypeOK, Versions
    <3>2. /\ u.value \in Values /\ view[p].fields[a] \in Values
          /\ \/ view'[p].fields[a] = view[p].fields[a]
             \/ u.operation = "set" /\ view'[p].fields[a] = u.value
      <4>1. view[p] \in Data
        BY DEF TypeOK
      <4>2. \/ u.operation = "set"
            \/ With(view[p], u).fields = view[p].fields
        BY <4>1, <2>1, UpdateTypes DEF With, Data
      <4>3. u.operation = "set" =>
              With(view[p], u).fields[a] \in {view[p].fields[a], u.value}
        BY <4>1 DEF With, Data
      <4> QED BY <2>1, <4>1, <4>2, <4>3, UpdateTypes DEF Data
    <3>3. u.operation = "set" => IsDated(u.value, u.version)
      BY DEF OrderInv, UpdatesAreDated
    <3>4. IsDated(view[p].fields[a], u.version)
      <4>1. IsDated(view[p].fields[a], seen[p])
        BY <1>0, <2>1, <2>2 DEF ViewIsDated, Never
      <4> QED BY <3>1, <4>1, DatedLater
    <3> QED BY <2>1, <3>1, <3>2, <3>3, <3>4
  <2> QED BY <2>2, ViewIsReplaced
<1>11. CASE ChangeOwnChild(p)
  <2>1. /\ live[p] /\ seen'[p] = Successor(seen[p]) /\ view'[p] = view[p]
        /\ "rewound" \in events[p] => "rewound" \in events'[p]
    BY <1>11 DEF ChangeOwnChild, TypeOK
  <2>2. ASSUME "rewound" \notin events'[p], NEW a \in Attributes
        PROVE  \E x \in Values, v \in Versions :
                  x = view'[p].fields[a] /\ v = seen'[p] /\ IsDated(x, v)
    <3>1. view[p].fields[a] \in Values /\ seen[p] \in Versions /\ Successor(seen[p]) \in Versions
      BY SuccessorType DEF TypeOK, Data
    <3>2. IsDated(view[p].fields[a], seen[p])
      BY <1>0, <2>1, <2>2 DEF ViewIsDated, Never
    <3>3. IsDated(view[p].fields[a], Successor(seen[p]))
      <4>1. CASE seen[p] = NaN
        BY <3>2, <4>1 DEF Successor
      <4>2. CASE seen[p] # NaN
        <5>1. /\ seen[p] \in Nat /\ Successor(seen[p]) \in Nat
              /\ seen[p] <= Successor(seen[p])
          BY <3>1, <4>2 DEF Successor, Versions
        <5> QED BY <3>2, <5>1, DatedLater
      <4> QED BY <4>1, <4>2
    <3> QED BY <2>1, <3>1, <3>3
  <2> QED BY <2>2, ViewIsReplaced
<1>12. CASE Resume(p)
  <2>1. "rewound" \in events'[p]
    BY <1>12 DEF Resume, TypeOK
  <2> QED BY <2>1 DEF ViewIsDated, Never
<1> QED
  BY <1>2, <1>3, <1>4, <1>5, <1>6, <1>7, <1>8, <1>9, <1>10, <1>11, <1>12 DEF Next

\* An update that is applied is newer than what it replaces.
LEMMA AppliedIsLater ==
    ASSUME TypeOK, FaithInv, OrderInv, NEW o \in Observers, NEW u \in updates[o],
           Apply(o, u), u.run = run, Never(o, {"rewound"}), NEW a \in Attributes
    PROVE  \/ Absent \in {view[o].fields[a], view'[o].fields[a]}
           \/ view[o].fields[a] <= view'[o].fields[a]
<1>1. /\ live[o] /\ u \in Updates /\ view'[o] = With(view[o], u) /\ view[o] \in Data
      /\ u.version \in Nat /\ seen[o] \in Nat /\ seen[o] + 1 <= u.version
      /\ u.version # NaN /\ seen[o] # NaN
  BY UpdateTypes DEF Apply, IsNewer, TypeOK, Versions
<1>2. CASE ~(u.operation = "set" /\ a = u.place)
  <2>1. view'[o].fields[a] = view[o].fields[a] /\ view[o].fields[a] \in Values
    BY <1>1, <1>2, UpdateTypes DEF With, Data
  <2> QED BY <2>1 DEF Values
<1>3. CASE u.operation = "set" /\ a = u.place
  <2>1. view'[o].fields[a] = u.value
    BY <1>1, <1>3 DEF With, Data
  <2>2. /\ IsStep(u) /\ u.value # Falsy
        /\ u.value # Absent => past[u.version - 1].fields[a] # u.value
    BY <1>1, <1>3 DEF FaithInv, UpdatesAreSteps, OrderInv, UpdatesAreDated
  <2>3. /\ version # NaN /\ version \in Nat /\ u.version \in seen[o] + 1 .. version
        /\ u.version - 1 \in 0 .. MaxWork
    BY <1>1, <2>2, BoundAssumption DEF IsStep, TypeOK, FaithInv, ReporterIsCurrent, Counted
  <2>4. ASSUME u.value # Absent
        PROVE  past[u.version].fields[a] = u.value
    <3>1. past[u.version - 1] \in Data
      BY <2>3 DEF TypeOK
    <3>2. PICK x \in Values :
             /\ u.value = Sent(x)
             /\ past[u.version] = [past[u.version - 1] EXCEPT !.fields[u.place] = x]
      BY <1>3, <2>2 DEF IsStep, Becomes
    <3>3. u.value = x
      BY <2>4, <3>2 DEF Sent
    <3> QED BY <1>3, <3>1, <3>2, <3>3 DEF Data
  <2>5. ASSUME view[o].fields[a] # Absent, u.value # Absent
        PROVE  view[o].fields[a] <= u.value
    <3>1. Precedes(view[o].fields[a], seen[o])
      BY <1>1, <2>5 DEF OrderInv, ViewsAreDated, ViewIsDated, IsDated
    <3> QED BY <2>2, <2>3, <2>4, <2>5, <3>1 DEF Precedes
  <2> QED BY <2>1, <2>5
<1> QED BY <1>2, <1>3

-----------------------------------------------------------------------------
(* The theorems.                                                           *)

\* A reporter just created satisfies the invariant.
LEMMA InitIInv ==
    ASSUME Init
    PROVE  IInv
<1>1. MaxWork \in Nat /\ 0 \in 0 .. MaxWork /\ 0 \in Versions /\ NaN \in Versions /\ 0 \in Values
  BY BoundAssumption DEF Versions, Values
<1>2. data \in Data /\ Nothing \in Data
  <2>1. /\ data \in [fields : [Attributes -> {1, Absent}], list : {<<1>>}]
        /\ <<1>> \in Seq(Values) /\ <<>> \in Seq(Values)
    BY DEF Init, Values
  <2>2. Absent \in Values /\ 1 \in Values
    BY DEF Values
  <2> QED BY <2>1, <2>2 DEF Data, Nothing
<1>3. /\ work = 0 /\ saving \in BOOLEAN /\ run = 1 /\ version = 0
      /\ store = [version |-> NaN, data |-> IF saving THEN data ELSE Nothing]
      /\ unsaved = <<>> /\ past = [v \in 0 .. MaxWork |-> data]
  BY DEF Init
<1>4. /\ asking = [o \in Observers |-> {}] /\ reached = [o \in Observers |-> FALSE]
      /\ updates = [o \in Observers |-> {}] /\ replies = [o \in Observers |-> {}]
      /\ granted = [o \in Observers |-> FALSE] /\ live = [o \in Observers |-> FALSE]
      /\ seen = [o \in Observers |-> 0] /\ view = [o \in Observers |-> Nothing]
      /\ saved = [o \in Observers |-> [version |-> NaN, data |-> Nothing]]
      /\ events = [o \in Observers |-> {}]
  BY DEF Init
<1>5. store \in Entries /\ past \in [0 .. MaxWork -> Data] /\ unsaved \in Seq(Updates)
  BY <1>1, <1>2, <1>3 DEF Entries
<1>6. saved \in [Observers -> Entries] /\ seen \in [Observers -> Versions]
      /\ view \in [Observers -> Data]
  BY <1>1, <1>2, <1>4 DEF Entries
<1>7. TypeOK
  BY <1>1, <1>2, <1>3, <1>4, <1>5, <1>6 DEF TypeOK
<1>8. ReporterIsCurrent
  <2>1. Len(unsaved) = 0
    BY <1>3
  <2> QED BY <1>1, <1>3, <2>1 DEF ReporterIsCurrent, Counted
<1>9. FaithInv
  BY <1>4, <1>8 DEF FaithInv, UpdatesAreSteps, SnapshotsArePast, ViewsArePast, FollowsReporter
<1>10. SavedInv
  BY <1>4 DEF SavedInv, ConfirmationsAreStored, SavedCopyFollows
<1> QED BY <1>7, <1>9, <1>10 DEF IInv

\* The invariant is inductive, and so holds in every reachable state.
THEOREM DataSyncInvariant == Spec => []IInv
<1>1. Init => IInv
  BY InitIInv
<1>2. IInv /\ [Next]_vars => IInv'
  <2> SUFFICES ASSUME IInv, [Next]_vars
               PROVE  IInv'
    OBVIOUS
  <2>1. TypeOK /\ FaithInv /\ SavedInv /\ ConfirmationsAreStored
    BY DEF IInv, SavedInv
  <2>2. TypeOK' /\ ReporterStep
    BY <2>1, TypeStep, StepsOfReporter
  <2>3. FaithInv'
    BY <2>1, <2>2, CurrentStep, UpdatesStep, SnapshotsStep, ViewsStep DEF FaithInv
  <2> QED BY <2>1, <2>2, <2>3, SavedStep DEF IInv
<1> QED BY <1>1, <1>2, PTL DEF Spec

\* Every variable keeps its type: in particular versions stay numbers or NaN and
\* the counters of _onChange never leave the history.
THEOREM DataSyncTypeCorrect == Spec => []TypeOK
<1>1. IInv => TypeOK
  BY DEF IInv
<1> QED BY <1>1, DataSyncInvariant, PTL

\* An observer that met none of the irregular events shows what the reporter had
\* at the version the observer has, but for fields written falsy (_onChange,
\* _changeObject, Syncher.subscribe).
THEOREM DataSyncObserversAreFaithful == Spec => []ObserversAreFaithful
<1>1. IInv => ObserversAreFaithful
  <2> SUFFICES ASSUME IInv, NEW o \in Observers, FollowsReporter(o)
               PROVE  seen[o] \in DOMAIN past /\ Shows(view[o], past[seen[o]])
    BY DEF ObserversAreFaithful, FollowsReporter
  <2>1. ShowsPast(seen[o], view[o])
    BY DEF IInv, FaithInv, ViewsArePast
  <2>2. version \in Nat /\ version <= MaxWork
    BY <2>1, BoundAssumption DEF IInv, FaithInv, ReporterIsCurrent, Counted, TypeOK, ShowsPast
  <2> QED BY <2>1, <2>2, BoundAssumption DEF IInv, TypeOK, ShowsPast
<1> QED BY <1>1, DataSyncInvariant, PTL

\* What the observer's runtime stored is what the observer shows, until an update
\* is dropped, a snapshot is read or the observer counts a child of its own, and
\* for the list only as long as the observer is faithful (ObserverObject saves
\* by saveData what _changeObject applies in its own way).
THEOREM DataSyncSavedCopyFollows == Spec => []SavedCopyFollows
<1>1. IInv => SavedCopyFollows
  BY DEF IInv, SavedInv
<1> QED BY <1>1, DataSyncInvariant, PTL

\* A reporter just created has written nothing yet but its initial ones.
LEMMA InitOrderInv ==
    ASSUME Init, TypeOK
    PROVE  OrderInv
<1>1. /\ work = 0 /\ data \in [fields : [Attributes -> {1, Absent}], list : {<<1>>}]
      /\ store = [version |-> NaN, data |-> IF saving THEN data ELSE Nothing]
      /\ unsaved = <<>>
  BY DEF Init
<1>2. /\ \A o \in Observers : updates[o] = {} /\ replies[o] = {} /\ ~live[o]
  BY DEF Init
<1>3. ReporterIsDated
  <2>1. Len(unsaved) = 0 /\ store.data = IF saving THEN data ELSE Nothing
    BY <1>1
  <2>2. \A a \in Attributes : data.fields[a] # Absent => data.fields[a] = 1
    BY <1>1
  <2>3. \A a \in Attributes : Nothing.fields[a] = Absent
    BY DEF Nothing
  <2> QED BY <1>1, <2>1, <2>2, <2>3 DEF ReporterIsDated
<1> QED BY <1>2, <1>3
        DEF OrderInv, UpdatesAreDated, SnapshotsAreDated, ViewsAreDated, ViewIsDated

\* Everything on its way to an observer, and everything it shows, was written by
\* the version it comes with.
THEOREM DataSyncOrder == Spec => []OrderInv
<1>1. Init => OrderInv
  BY InitOrderInv, InitIInv DEF IInv
<1>2. IInv /\ IInv' /\ OrderInv /\ [Next]_vars => OrderInv'
  <2> SUFFICES ASSUME IInv, IInv', OrderInv, [Next]_vars
               PROVE  OrderInv'
    OBVIOUS
  <2>1. /\ TypeOK /\ TypeOK' /\ ReporterIsCurrent /\ UpdatesAreSteps /\ ConfirmationsAreStored
        /\ ReporterIsDated /\ UpdatesAreDated /\ SnapshotsAreDated
    BY DEF IInv, FaithInv, SavedInv, OrderInv
  <2>2. ReporterStep
    BY <2>1, StepsOfReporter
  <2> QED BY <2>1, <2>2, ReporterDatedStep, UpdatesDatedStep, SnapshotsDatedStep,
             ViewsDatedStep DEF OrderInv
<1> QED BY <1>1, <1>2, DataSyncInvariant, PTL DEF Spec

\* _changeObject never replaces a field's value by an older one of the same
\* reporter, over any restarts, unless a snapshot or a restart took the observer back.
THEOREM DataSyncUpdatesNeverGoBack == Spec => UpdatesNeverGoBack
<1>1. ASSUME IInv, OrderInv, [Next]_vars
      PROVE  [\A o \in Observers : \A u \in updates[o] :
                 Apply(o, u) /\ u.run = run /\ Never(o, {"rewound"}) =>
                    \A a \in Attributes :
                       \/ Absent \in {view[o].fields[a], view'[o].fields[a]}
                       \/ view[o].fields[a] <= view'[o].fields[a]]_vars
  BY <1>1, AppliedIsLater DEF IInv
<1> QED BY <1>1, DataSyncInvariant, DataSyncOrder, PTL DEF Spec, UpdatesNeverGoBack
=============================================================================
