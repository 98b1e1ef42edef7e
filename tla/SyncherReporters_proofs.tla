---------------------- MODULE SyncherReporters_proofs ----------------------
(***************************************************************************)
(* Proofs about SyncherReporters: what the manager's table holds listens,  *)
(* its subscribers are stored, and they were accepted unless resumed; and  *)
(* on that, what stays on the bus.                                         *)
(***************************************************************************)
EXTENDS SyncherReporters, SequenceTheorems, FiniteSetTheorems, TLAPS

Types ==
    /\ stage \in [Requests -> Stages]
    /\ object \in [Requests -> Optional(Requests)]
    /\ found \in [Requests -> Optional(Entries)]
    /\ reporter \in Optional(Requests)
    /\ subs \in [Requests -> SUBSET Subscribers]
    /\ subscribing \in Seq(Requests)
    /\ entry \in Optional(Entries)
    /\ listed \in [Entries -> SUBSET Subscribers]
    /\ disk \in Optional(SUBSET Subscribers)

Made(r) == object[r] = r

Fresh   == {"idle", "registering", "resuming"}
Creates == {"storing", "forwarding", "children"}
Resumes == {"reforwarding", "rechildren"}

\* Whatever names a ReporterObject names one that was made, by a request that
\* went past the step that makes it.
ObjectsAreMade ==
    /\ reporter # None => Made(reporter)
    /\ \A a \in asking : a.of \in Requests /\ Made(a.of)
    /\ \A q \in Requests :
          /\ object[q] # None => Made(object[q])
          /\ Listens(q) => Made(q)
          /\ subs[q] # {} => Made(q)
          /\ stage[q] \in Fresh => object[q] = None
          /\ stage[q] \in Creates \union Resumes => object[q] # None
          /\ stage[q] \in Resumes \union {"resuming"} => found[q] # None

\* The entry of a request that has not stored anything is nowhere.
EntriesAreFresh ==
    \A r \in Requests : stage[r] \in {"idle", "registering"} =>
        entry # r /\ \A q \in Requests : found[q] # r

\* o is in the table, or a request that works with it and with the stored entry
\* may yet put it there.
Backed(o) ==
    \/ o = reporter
    \/ \E q \in Requests :
          /\ object[q] = o
          /\ \/ stage[q] \in Creates
             \/ stage[q] \in Resumes /\ found[q] = entry

\* Such an object has its subscribers in the entry, and listens alone.
BackedAreStored ==
    odd \intersect {"overlap", "stale"} = {} =>
        /\ Len(subscribing) <= 1
        /\ \A o \in Requests : Listens(o) /\ Backed(o) =>
              entry # None /\ subs[o] \subseteq listed[entry]

IInv ==
    /\ Types
    /\ ObjectsAreMade
    /\ EntriesAreFresh
    /\ SubscribedWereAccepted
    /\ ReporterListens
    /\ BackedAreStored

-----------------------------------------------------------------------------
(* The listener list of the /subscription address.                         *)

\* Taking an element out of a list leaves the others, in their order.
LEMMA RemoveAtElements ==
    ASSUME NEW S, NEW list \in Seq(S), NEW i \in 1 .. Len(list)
    PROVE  /\ RemoveAt(list, i) \in Seq(S)
           /\ Len(RemoveAt(list, i)) = Len(list) - 1
           /\ \A k \in 1 .. Len(list) - 1 :
                 RemoveAt(list, i)[k] = IF k < i THEN list[k] ELSE list[k + 1]
<1> DEFINE left == SubSeq(list, 1, i - 1)
           right == SubSeq(list, i + 1, Len(list))
<1>0. Len(list) \in Nat /\ i \in Nat
  OBVIOUS
<1>1. /\ left \in Seq(S)
      /\ Len(left) = i - 1
      /\ \A k \in 1 .. i - 1 : left[k] = list[k]
  <2>1. \A k \in 1 .. i - 1 : list[k] \in S
    BY <1>0
  <2>2. /\ left \in Seq(S)
        /\ Len(left) = IF 1 <= i - 1 THEN (i - 1) - 1 + 1 ELSE 0
        /\ \A k \in 1 .. (i - 1) - 1 + 1 : left[k] = list[1 + k - 1]
    BY <1>0, <2>1, SubSeqProperties
  <2> QED BY <1>0, <2>2
<1>2. /\ right \in Seq(S)
      /\ Len(right) = Len(list) - i
      /\ \A k \in 1 .. Len(list) - i : right[k] = list[i + k]
  <2>1. \A k \in i + 1 .. Len(list) : list[k] \in S
    BY <1>0
  <2>2. /\ right \in Seq(S)
        /\ Len(right) = IF i + 1 <= Len(list) THEN Len(list) - (i + 1) + 1 ELSE 0
        /\ \A k \in 1 .. Len(list) - (i + 1) + 1 : right[k] = list[i + 1 + k - 1]
    BY <1>0, <2>1, SubSeqProperties
  <2> QED BY <1>0, <2>2
<1> HIDE DEF left, right
<1>3. /\ left \o right \in Seq(S)
      /\ Len(left \o right) = Len(left) + Len(right)
      /\ \A k \in 1 .. Len(left) + Len(right) :
            (left \o right)[k] = IF k <= Len(left) THEN left[k] ELSE right[k - Len(left)]
  BY <1>1, <1>2, ConcatProperties, Zenon
<1>4. Len(left) + Len(right) = Len(list) - 1
  BY <1>0, <1>1, <1>2
<1>5. ASSUME NEW k \in 1 .. Len(list) - 1
      PROVE  (left \o right)[k] = IF k < i THEN list[k] ELSE list[k + 1]
  <2>1. (left \o right)[k] = IF k <= Len(left) THEN left[k] ELSE right[k - Len(left)]
    BY <1>3, <1>4
  <2>2. CASE k < i
    BY <1>0, <1>1, <2>1, <2>2
  <2>3. CASE ~(k < i)
    <3>1. ~(k <= i - 1) /\ k - (i - 1) \in 1 .. Len(list) - i /\ i + (k - (i - 1)) = k + 1
      BY <1>0, <2>3
    <3>2. (left \o right)[k] = right[k - (i - 1)]
      BY <1>1, <2>1, <3>1
    <3> QED BY <1>2, <2>3, <3>1, <3>2
  <2> QED BY <2>2, <2>3
<1>6. RemoveAt(list, i) = left \o right
  BY DEF RemoveAt, left, right
<1> QED BY <1>3, <1>4, <1>5, <1>6, Zenon

\* It makes the list shorter and adds nothing.
LEMMA RemoveAtKeeps ==
    ASSUME NEW list \in Seq(Requests), NEW i \in 1 .. Len(list)
    PROVE  /\ RemoveAt(list, i) \in Seq(Requests)
           /\ Len(RemoveAt(list, i)) = Len(list) - 1
           /\ \A r : Occurs(r, RemoveAt(list, i)) => Occurs(r, list)
<1> DEFINE left == RemoveAt(list, i)
<1>1. /\ left \in Seq(Requests)
      /\ Len(left) = Len(list) - 1
      /\ \A k \in 1 .. Len(list) - 1 : left[k] = IF k < i THEN list[k] ELSE list[k + 1]
  BY RemoveAtElements, Zenon
<1> HIDE DEF left
<1>2. Len(list) \in Nat
  OBVIOUS
<1>3. \A r : Occurs(r, left) => Occurs(r, list)
  BY <1>1, <1>2 DEF Occurs
<1> QED BY <1>1, <1>3 DEF left

\* So does removing a listener, in the list or not: a list of one is then empty.
LEMMA DetachKeeps ==
    ASSUME NEW list \in Seq(Requests), NEW l
    PROVE  /\ Detach(list, l) \in Seq(Requests)
           /\ Len(list) <= 1 => Len(Detach(list, l)) = 0
           /\ \A r : Occurs(r, Detach(list, l)) => Occurs(r, list)
<1>0. Len(list) \in Nat
  OBVIOUS
<1>1. CASE Occurs(l, list)
  <2>1. PICK i \in 1 .. Len(list) :
           i = CHOOSE j \in 1 .. Len(list) : list[j] = l
    BY <1>1 DEF Occurs
  <2>2. Detach(list, l) = RemoveAt(list, i)
    BY <1>1, <2>1 DEF Detach
  <2> QED BY <1>0, <2>2, RemoveAtKeeps
<1>2. CASE ~Occurs(l, list) /\ list = <<>>
  BY <1>2 DEF Detach
<1>3. CASE ~Occurs(l, list) /\ list # <<>>
  <2>1. Len(list) \in 1 .. Len(list)
    BY <1>3
  <2>2. Detach(list, l) = RemoveAt(list, Len(list))
    BY <1>3 DEF Detach
  <2> QED BY <1>0, <2>1, <2>2, RemoveAtKeeps
<1> QED BY <1>1, <1>2, <1>3

\* A new listener is the only one added.
LEMMA AppendOccurs ==
    ASSUME NEW list \in Seq(Requests), NEW q \in Requests
    PROVE  /\ Append(list, q) \in Seq(Requests)
           /\ \A r : Occurs(r, Append(list, q)) <=> Occurs(r, list) \/ r = q
  BY DEF Occurs

-----------------------------------------------------------------------------
(* What the steps have in common.                                          *)

\* A request that had no ReporterObject gets one that is made, and no other
\* request's changes.
LEMMA TakeReporterMakes ==
    ASSUME Types, ObjectsAreMade, NEW q \in Requests, object[q] = None, TakeReporter(q)
    PROVE  /\ object' \in [Requests -> Optional(Requests)]
           /\ subscribing' \in Seq(Requests)
           /\ \A r \in Requests \ {q} : object'[r] = object[r]
           /\ object'[q] \in Requests
           /\ object'[object'[q]] = object'[q]
           /\ \A r \in Requests : Made(r) => object'[r] = r
           /\ \A r \in Requests : Listens(r) => Listens(r)'
           /\ \A r \in Requests : Listens(r)' => Listens(r) \/ (reporter = None /\ r = q)
           /\ ("stale" \in odd <=> "stale" \in odd')
           /\ odd \subseteq odd'
<1>1. /\ object \in [Requests -> Optional(Requests)]
      /\ reporter \in Optional(Requests)
      /\ subscribing \in Seq(Requests)
  BY DEF Types
<1>2. None \notin Requests
  BY NamesAssumption
<1>3. \A r \in Requests : Made(r) => r # q
  BY <1>2 DEF Made
<1>4. CASE reporter = None
  <2>1. /\ object' = [object EXCEPT ![q] = q]
        /\ subscribing' = Append(subscribing, q)
        /\ odd' = odd \/ odd' = odd \union {"overlap"}
    BY <1>4 DEF TakeReporter, NewReporterObject
  <2>2. /\ subscribing' \in Seq(Requests)
        /\ \A r : Occurs(r, subscribing') <=> Occurs(r, subscribing) \/ r = q
    BY <1>1, <2>1, AppendOccurs
  <2>3. /\ \A r \in Requests : Listens(r) => Listens(r)'
        /\ \A r \in Requests : Listens(r)' => Listens(r) \/ r = q
    BY <2>2 DEF Listens
  <2>4. /\ ("stale" \in odd <=> "stale" \in odd')
        /\ odd \subseteq odd'
    BY <2>1
  <2>5. /\ object' \in [Requests -> Optional(Requests)]
        /\ object'[q] = q
        /\ \A r \in Requests \ {q} : object'[r] = object[r]
    BY <1>1, <2>1 DEF Optional
  <2>6. \A r \in Requests : Made(r) => object'[r] = r
    BY <2>5 DEF Made
  <2>7. object'[q] \in Requests /\ object'[object'[q]] = object'[q]
    BY <2>5
  <2>8. \A r \in Requests : Listens(r)' => Listens(r) \/ (reporter = None /\ r = q)
    BY <1>4, <2>3
  <2> QED BY <2>2, <2>3, <2>4, <2>5, <2>6, <2>7, <2>8, Zenon
<1>5. CASE reporter # None
  <2>1. object' = [object EXCEPT ![q] = reporter] /\ UNCHANGED <<subscribing, odd>>
    BY <1>5 DEF TakeReporter
  <2>2. reporter \in Requests /\ Made(reporter)
    BY <1>1, <1>5 DEF Optional, ObjectsAreMade
  <2>3. /\ object' \in [Requests -> Optional(Requests)]
        /\ object'[q] = reporter
        /\ \A r \in Requests \ {q} : object'[r] = object[r]
    BY <1>1, <2>1
  <2>4. \A r \in Requests : Made(r) => object'[r] = r
    BY <1>3, <2>3 DEF Made
  <2>5. \A r \in Requests : Listens(r)' <=> Listens(r)
    BY <2>1 DEF Listens
  <2>6. object'[q] \in Requests /\ object'[object'[q]] = object'[q]
    BY <2>2, <2>3, <2>4
  <2>7. /\ subscribing' \in Seq(Requests)
        /\ ("stale" \in odd <=> "stale" \in odd')
        /\ odd \subseteq odd'
    BY <1>1, <2>1
  <2>8. \A r \in Requests : Listens(r)' => Listens(r) \/ (reporter = None /\ r = q)
    BY <2>5
  <2>9. \A r \in Requests : Listens(r) => Listens(r)'
    BY <2>5
  <2> QED BY <2>3, <2>4, <2>6, <2>7, <2>8, <2>9, Zenon
<1> QED BY <1>4, <1>5

\* Types are kept.
LEMMA TypesStep ==
    ASSUME Types, ObjectsAreMade, Next
    PROVE  Types'
<1> USE DEF Types, Optional
<1>1. ASSUME NEW q \in Requests,
             \/ Create(q) \/ RegistrationFails(q) \/ Stored(q) \/ NodeRefuses(q)
             \/ ChildrenRefused(q) \/ ResumeFails(q) \/ NodeAccepts(q)
      PROVE  Types'
  <2>1. stage' \in [Requests -> Stages]
    BY <1>1 DEF Create, RegistrationFails, Stored, NodeRefuses, ChildrenRefused, ResumeFails,
       NodeAccepts, Stages, Creating, Resuming, Closed
  <2>2. UNCHANGED <<object, reporter, subs, subscribing, found, entry, listed, disk>>
    BY <1>1 DEF Create, RegistrationFails, Stored, NodeRefuses, ChildrenRefused, ResumeFails,
       NodeAccepts, objects, stored
  <2> QED BY <2>1, <2>2
<1>2. ASSUME NEW q \in Requests, Registered(q) \/ ResumeCreate(q)
      PROVE  Types'
  <2>1. object[q] = None
    BY <1>2 DEF Registered, ResumeCreate, ObjectsAreMade, Fresh
  <2>2. /\ object' \in [Requests -> Optional(Requests)]
        /\ subscribing' \in Seq(Requests)
    BY <1>2, <2>1, TakeReporterMakes DEF Registered, ResumeCreate
  <2>3. stage' \in [Requests -> Stages]
    BY <1>2 DEF Registered, ResumeCreate, Stages, Creating, Resuming
  <2>4. entry' \in Optional(Entries)
    BY <1>2 DEF Registered, ResumeCreate, Store, Entries, stored
  <2>5. UNCHANGED <<reporter, subs, found, listed, disk>>
    BY <1>2 DEF Registered, ResumeCreate, Store, stored
  <2> QED BY <2>2, <2>3, <2>4, <2>5
<1>3. ASSUME NEW q \in Requests, Created(q) \/ Resume(q)
      PROVE  Types'
  <2>1. stage' \in [Requests -> Stages]
    BY <1>3 DEF Created, Resume, Stages, Resuming, Closed
  <2> QED BY <1>3, <2>1 DEF Created, Resume, objects, stored
<1>4. ASSUME NEW q \in Requests, Resumed(q)
      PROVE  Types'
  <2>1. object[q] \in Requests /\ found[q] \in Entries
    BY <1>4 DEF Resumed, ObjectsAreMade, Resumes
  <2>2. subs' \in [Requests -> SUBSET Subscribers]
    BY <1>4, <2>1 DEF Resumed, NewSubscriptions
  <2>3. stage' \in [Requests -> Stages]
    BY <1>4 DEF Resumed, Stages, Closed
  <2> QED BY <1>4, <2>1, <2>2, <2>3 DEF Resumed, stored
<1>5. ASSUME NEW s \in Subscribers, RemoteSubscribe(s) \/ RemoteUnSubscribe(s)
      PROVE  Types'
  <2>1. subs' \in [Requests -> SUBSET Subscribers]
    BY <1>5 DEF RemoteSubscribe, RemoteUnSubscribe
  <2> QED BY <1>5, <2>1 DEF RemoteSubscribe, RemoteUnSubscribe, stored
<1>6. ASSUME NEW a \in Asks, HypertyAccepts(a) \/ HypertyRefuses(a)
      PROVE  Types'
  <2>1. a.of \in Requests /\ a.who \in Subscribers
    BY DEF Asks
  <2>2. subs' \in [Requests -> SUBSET Subscribers]
    BY <1>6, <2>1 DEF HypertyAccepts, HypertyRefuses, NewSubscriptions, objects
  <2>3. listed' \in [Entries -> SUBSET Subscribers]
    BY <1>6, <2>1 DEF HypertyAccepts, HypertyRefuses, List
  <2>4. UNCHANGED <<stage, object, reporter, subscribing, found, entry, disk>>
    BY <1>6 DEF HypertyAccepts, HypertyRefuses, objects
  <2> QED BY <2>2, <2>3, <2>4
<1>7. CASE Delete
  <2>1. subscribing' \in Seq(Requests)
    BY <1>7, DetachKeeps DEF Delete, ReleaseListeners
  <2> QED BY <1>7, <2>1 DEF Delete
<1>8. ASSUME NEW g \in Goodbyes, DeliverDelete(g)
      PROVE  Types'
  BY <1>8 DEF DeliverDelete, objects, stored
<1>9. CASE Persist
  BY <1>9 DEF Persist, Current, objects
<1>10. CASE Restart
  <2>1. stage' \in [Requests -> Stages]
    BY <1>10 DEF Restart, Stages, Closed
  <2>2. listed' \in [Entries -> SUBSET Subscribers]
    BY <1>10 DEF Restart
  <2> QED BY <1>10, <2>1, <2>2 DEF Restart, Entries
<1> QED BY <1>1, <1>2, <1>3, <1>4, <1>5, <1>6, <1>7, <1>8, <1>9, <1>10 DEF Next


\* What names a ReporterObject names one that was made.
LEMMA MadeStep ==
    ASSUME Types, ObjectsAreMade, Next
    PROVE  ObjectsAreMade'
<1>0. /\ stage \in [Requests -> Stages]
      /\ object \in [Requests -> Optional(Requests)]
      /\ found \in [Requests -> Optional(Entries)]
      /\ reporter \in Optional(Requests)
      /\ subs \in [Requests -> SUBSET Subscribers]
      /\ subscribing \in Seq(Requests)
      /\ None \notin Requests
  BY NamesAssumption DEF Types
<1>1. ASSUME NEW q \in Requests,
             \/ Create(q) \/ RegistrationFails(q) \/ Stored(q) \/ NodeRefuses(q)
             \/ ChildrenRefused(q) \/ ResumeFails(q) \/ NodeAccepts(q)
      PROVE  ObjectsAreMade'
  <2>1. UNCHANGED <<object, reporter, subs, subscribing, found, asking>>
    BY <1>1 DEF Create, RegistrationFails, Stored, NodeRefuses, ChildrenRefused, ResumeFails,
       NodeAccepts, objects, stored, messages
  <2>2. /\ \A r \in Requests \ {q} : stage'[r] = stage[r]
        /\ stage'[q] \in Fresh => stage[q] \in Fresh
        /\ stage'[q] \in Creates => stage[q] \in Creates
        /\ stage'[q] \in Resumes => stage[q] \in Resumes
        /\ stage'[q] # "resuming"
    BY <1>0, <1>1 DEF Create, RegistrationFails, Stored, NodeRefuses, ChildrenRefused, ResumeFails,
       NodeAccepts, Fresh, Creates, Resumes
  <2> QED BY <2>1, <2>2 DEF ObjectsAreMade, Made, Listens
<1>2. ASSUME NEW q \in Requests, Registered(q) \/ ResumeCreate(q)
      PROVE  ObjectsAreMade'
  <2>1. object[q] = None
    BY <1>2 DEF Registered, ResumeCreate, ObjectsAreMade, Fresh
  <2>2. TakeReporter(q) /\ UNCHANGED <<reporter, subs, found, asking>>
    BY <1>2 DEF Registered, ResumeCreate, Store, stored, messages
  <2>3. /\ object' \in [Requests -> Optional(Requests)]
        /\ \A r \in Requests \ {q} : object'[r] = object[r]
        /\ object'[q] \in Requests
        /\ object'[object'[q]] = object'[q]
        /\ \A r \in Requests : Made(r) => object'[r] = r
        /\ \A r \in Requests : Listens(r)' => Listens(r) \/ (reporter = None /\ r = q)
    BY <2>1, <2>2, TakeReporterMakes
  <2>4. reporter = None => object'[q] = q
    BY <1>0, <2>2 DEF TakeReporter, NewReporterObject
  <2>5. /\ \A r \in Requests \ {q} : stage'[r] = stage[r]
        /\ stage'[q] \notin Fresh
        /\ stage'[q] \in Resumes => stage[q] = "resuming"
    BY <1>0, <1>2 DEF Registered, ResumeCreate, Fresh, Resumes
  <2>6. reporter' # None => object'[reporter'] = reporter'
    BY <1>0, <2>2, <2>3 DEF ObjectsAreMade, Optional, Made
  <2>7. \A a \in asking' : a.of \in Requests /\ object'[a.of] = a.of
    BY <2>2, <2>3 DEF ObjectsAreMade, Made
  <2>8. ASSUME NEW r \in Requests
        PROVE  /\ object'[r] # None => object'[object'[r]] = object'[r]
               /\ Listens(r)' => object'[r] = r
               /\ subs'[r] # {} => object'[r] = r
               /\ stage'[r] \in Fresh => object'[r] = None
               /\ stage'[r] \in Creates \union Resumes => object'[r] # None
               /\ stage'[r] \in Resumes \union {"resuming"} => found'[r] # None
    <3>1. object'[r] # None => object'[object'[r]] = object'[r]
      BY <1>0, <2>3 DEF ObjectsAreMade, Made, Optional
    <3>2. Listens(r)' => object'[r] = r
      BY <2>3, <2>4 DEF ObjectsAreMade
    <3>3. subs'[r] # {} => object'[r] = r
      BY <2>2, <2>3 DEF ObjectsAreMade
    <3>4. /\ stage'[r] \in Fresh => object'[r] = None
          /\ stage'[r] \in Creates \union Resumes => object'[r] # None
      BY <1>0, <2>3, <2>5 DEF ObjectsAreMade
    <3>5. stage'[r] \in Resumes \union {"resuming"} => found'[r] # None
      BY <2>2, <2>5 DEF ObjectsAreMade, Fresh
    <3> QED BY <3>1, <3>2, <3>3, <3>4, <3>5
  <2> QED BY <2>6, <2>7, <2>8 DEF ObjectsAreMade, Made
<1>3. ASSUME NEW q \in Requests, Created(q) \/ Resumed(q)
      PROVE  ObjectsAreMade'
  <2>1. object[q] # None /\ Made(object[q])
    BY <1>3 DEF Created, Resumed, ObjectsAreMade, Creates, Resumes
  <2>2. reporter' = object[q] /\ UNCHANGED <<object, subscribing, found, asking>>
    BY <1>3 DEF Created, Resumed, stored, messages
  <2>3. \A r \in Requests : subs'[r] # {} => subs[r] # {} \/ r = object[q]
    BY <1>0, <1>3 DEF Created, Resumed, NewSubscriptions
  <2>4. /\ \A r \in Requests \ {q} : stage'[r] = stage[r]
        /\ stage'[q] \notin Fresh \union Creates \union Resumes \union {"resuming"}
    BY <1>0, <1>3 DEF Created, Resumed, Fresh, Creates, Resumes
  <2> QED BY <2>1, <2>2, <2>3, <2>4 DEF ObjectsAreMade, Made, Listens
<1>4. ASSUME NEW q \in Requests, Resume(q)
      PROVE  ObjectsAreMade'
  <2>1. UNCHANGED <<object, reporter, subs, subscribing, asking>>
    BY <1>4 DEF Resume, objects, messages
  <2>2. /\ \A r \in Requests \ {q} : stage'[r] = stage[r] /\ found'[r] = found[r]
        /\ stage[q] \in Fresh
        /\ stage'[q] \notin Creates \union Resumes
        /\ stage'[q] = "resuming" => found'[q] # None
    BY <1>0, <1>4 DEF Resume, Fresh, Creates, Resumes
  <2> QED BY <2>1, <2>2 DEF ObjectsAreMade, Made, Listens
<1>5. ASSUME NEW s \in Subscribers, RemoteSubscribe(s)
      PROVE  ObjectsAreMade'
  <2>1. UNCHANGED <<stage, object, reporter, subs, subscribing, found>>
    BY <1>5 DEF RemoteSubscribe, stored
  <2>2. \A a \in asking' : a \in asking \/ (a.of \in Requests /\ Listens(a.of))
    BY <1>5 DEF RemoteSubscribe
  <2> QED BY <2>1, <2>2 DEF ObjectsAreMade, Made, Listens
<1>6. ASSUME NEW s \in Subscribers, RemoteUnSubscribe(s)
      PROVE  ObjectsAreMade'
  <2>1. UNCHANGED <<stage, object, reporter, subscribing, found, asking>>
    BY <1>6 DEF RemoteUnSubscribe, stored, messages
  <2>2. \A r \in Requests : subs'[r] # {} => subs[r] # {}
    BY <1>6 DEF RemoteUnSubscribe
  <2> QED BY <2>1, <2>2 DEF ObjectsAreMade, Made, Listens
<1>7. ASSUME NEW a \in Asks, HypertyAccepts(a) \/ HypertyRefuses(a)
      PROVE  ObjectsAreMade'
  <2>1. /\ a \in asking /\ asking' = asking \ {a}
        /\ UNCHANGED <<stage, object, reporter, subscribing, found>>
    BY <1>7 DEF HypertyAccepts, HypertyRefuses, objects
  <2>2. \A r \in Requests : subs'[r] # {} => subs[r] # {} \/ r = a.of
    BY <1>0, <1>7 DEF HypertyAccepts, HypertyRefuses, NewSubscriptions, objects
  <2> QED BY <2>1, <2>2 DEF ObjectsAreMade, Made, Listens
<1>8. CASE Delete
  <2>1. \A r \in Requests : Listens(r)' => Listens(r)
    BY <1>0, <1>8, DetachKeeps DEF Delete, ReleaseListeners, Listens
  <2>2. /\ reporter' = None
        /\ UNCHANGED <<stage, object, subs, found, asking>>
    BY <1>8 DEF Delete
  <2> QED BY <2>1, <2>2 DEF ObjectsAreMade, Made
<1>9. ASSUME NEW g \in Goodbyes, DeliverDelete(g)
      PROVE  ObjectsAreMade'
  BY <1>9 DEF DeliverDelete, objects, stored, ObjectsAreMade, Made, Listens
<1>10. CASE Persist
  BY <1>10 DEF Persist, objects, messages, ObjectsAreMade, Made, Listens
<1>11. CASE Restart
  BY <1>11 DEF Restart, ObjectsAreMade, Made, Listens, Occurs, Fresh, Creates, Resumes
<1> QED BY <1>1, <1>2, <1>3, <1>4, <1>5, <1>6, <1>7, <1>8, <1>9, <1>10, <1>11 DEF Next


\* The entry of a request is stored by that request's own step.
LEMMA FreshStep ==
    ASSUME Types, EntriesAreFresh, Next
    PROVE  EntriesAreFresh'
<1>0. /\ stage \in [Requests -> Stages]
      /\ found \in [Requests -> Optional(Entries)]
      /\ None \notin Requests /\ Loaded \notin Requests
  BY NamesAssumption DEF Types
<1>1. ASSUME NEW q \in Requests,
             \/ Create(q) \/ RegistrationFails(q) \/ Stored(q) \/ NodeRefuses(q)
             \/ ChildrenRefused(q) \/ ResumeFails(q) \/ NodeAccepts(q)
             \/ Created(q) \/ ResumeCreate(q) \/ Resumed(q)
      PROVE  EntriesAreFresh'
  <2>1. UNCHANGED <<found, entry>>
    BY <1>1 DEF Create, RegistrationFails, Stored, NodeRefuses, ChildrenRefused, ResumeFails,
       NodeAccepts, Created, ResumeCreate, Resumed, stored
  <2>2. \A r \in Requests : stage'[r] \in {"idle", "registering"} =>
            stage[r] \in {"idle", "registering"}
    BY <1>0, <1>1 DEF Create, RegistrationFails, Stored, NodeRefuses, ChildrenRefused, ResumeFails,
       NodeAccepts, Created, ResumeCreate, Resumed
  <2> QED BY <2>1, <2>2 DEF EntriesAreFresh
<1>2. ASSUME NEW q \in Requests, Registered(q)
      PROVE  EntriesAreFresh'
  <2>1. entry' \in {entry, q} /\ found' = found
    BY <1>2 DEF Registered, Store
  <2>2. \A r \in Requests : stage'[r] \in {"idle", "registering"} =>
            r # q /\ stage[r] \in {"idle", "registering"}
    BY <1>0, <1>2 DEF Registered
  <2> QED BY <2>1, <2>2 DEF EntriesAreFresh
<1>3. ASSUME NEW q \in Requests, Resume(q)
      PROVE  EntriesAreFresh'
  <2>1. entry' = entry /\ \A r \in Requests : found'[r] \in {found[r], entry}
    BY <1>0, <1>3 DEF Resume
  <2>2. \A r \in Requests : stage'[r] \in {"idle", "registering"} =>
            stage[r] \in {"idle", "registering"}
    BY <1>0, <1>3 DEF Resume
  <2> QED BY <2>1, <2>2 DEF EntriesAreFresh
<1>4. ASSUME \/ \E s \in Subscribers : RemoteSubscribe(s) \/ RemoteUnSubscribe(s)
             \/ \E a \in Asks : HypertyAccepts(a) \/ HypertyRefuses(a)
             \/ \E g \in Goodbyes : DeliverDelete(g)
             \/ Persist
      PROVE  EntriesAreFresh'
  <2>1. UNCHANGED <<stage, found, entry>>
    BY <1>4 DEF RemoteSubscribe, RemoteUnSubscribe, HypertyAccepts, HypertyRefuses,
       DeliverDelete, Persist, stored
  <2> QED BY <2>1 DEF EntriesAreFresh
<1>5. CASE Delete
  BY <1>0, <1>5 DEF Delete, EntriesAreFresh
<1>6. CASE Restart
  BY <1>0, <1>6 DEF Restart, EntriesAreFresh
<1> QED BY <1>1, <1>2, <1>3, <1>4, <1>5, <1>6 DEF Next

\* A subscriber is accepted before it gets a Subscription, or resumed.
LEMMA AcceptedStep ==
    ASSUME Types, ObjectsAreMade, SubscribedWereAccepted, Next
    PROVE  SubscribedWereAccepted'
<1>0. /\ stage \in [Requests -> Stages]
      /\ object \in [Requests -> Optional(Requests)]
      /\ found \in [Requests -> Optional(Entries)]
      /\ subs \in [Requests -> SUBSET Subscribers]
      /\ None \notin Requests
  BY NamesAssumption DEF Types
<1> DEFINE Ended(p) == stage[p] \in {"resumed", "dropped"}
\* While nobody gets a Subscription, it is enough that resumptions stay ended.
<1>1. ASSUME accepted' = accepted,
             \A q \in Requests : subs'[q] \subseteq subs[q],
             \A p \in Requests : object[p] # None /\ Ended(p) => object'[p] = object[p] /\ Ended(p)'
      PROVE  SubscribedWereAccepted'
  <2> SUFFICES ASSUME NEW q \in Requests,
                      (\A p \in Requests : object'[p] = q => ~Ended(p)')
               PROVE  subs'[q] \subseteq accepted
    BY <1>1 DEF SubscribedWereAccepted
  <2>1. \A p \in Requests : object[p] = q => ~Ended(p)
    BY <1>0, <1>1
  <2> QED BY <1>1, <2>1 DEF SubscribedWereAccepted
<1>2. ASSUME NEW q \in Requests,
             \/ Create(q) \/ RegistrationFails(q) \/ Stored(q) \/ NodeRefuses(q)
             \/ ChildrenRefused(q) \/ ResumeFails(q) \/ NodeAccepts(q)
             \/ Created(q) \/ Resume(q)
      PROVE  SubscribedWereAccepted'
  <2>1. UNCHANGED <<object, subs, accepted>>
    BY <1>2 DEF Create, RegistrationFails, Stored, NodeRefuses, ChildrenRefused, ResumeFails,
       NodeAccepts, Created, Resume, objects, history
  <2>2. \A p \in Requests : Ended(p) => Ended(p)'
    BY <1>0, <1>2 DEF Create, RegistrationFails, Stored, NodeRefuses, ChildrenRefused, ResumeFails,
       NodeAccepts, Created, Resume
  <2> QED BY <1>1, <2>1, <2>2
<1>3. ASSUME NEW q \in Requests, Registered(q) \/ ResumeCreate(q)
      PROVE  SubscribedWereAccepted'
  <2>1. object[q] = None
    BY <1>3 DEF Registered, ResumeCreate, ObjectsAreMade, Fresh
  <2>2. UNCHANGED <<subs, accepted>> /\ TakeReporter(q)
    BY <1>3 DEF Registered, ResumeCreate
  <2>3. \A r \in Requests \ {q} : object'[r] = object[r]
    BY <2>1, <2>2, TakeReporterMakes
  <2>4. \A p \in Requests \ {q} : stage'[p] = stage[p]
    BY <1>0, <1>3 DEF Registered, ResumeCreate
  <2> QED BY <1>1, <2>1, <2>2, <2>3, <2>4
<1>4. ASSUME NEW q \in Requests, Resumed(q)
      PROVE  SubscribedWereAccepted'
  <2>1. object[q] \in Requests /\ found[q] \in Entries
    BY <1>0, <1>4 DEF Resumed, ObjectsAreMade, Resumes, Optional
  <2>2. UNCHANGED <<object, accepted>>
    BY <1>4 DEF Resumed
  <2>3. /\ subs'[object[q]] \subseteq subs[object[q]] \union listed[found[q]]
        /\ \A r \in Requests \ {object[q]} : subs'[r] = subs[r]
    BY <1>0, <1>4, <2>1 DEF Resumed, NewSubscriptions
  <2>4. stage'[q] \in {"resumed", "dropped"} /\ \A r \in Requests \ {q} : stage'[r] = stage[r]
    BY <1>0, <1>4 DEF Resumed
  <2>5. stage[q] = "rechildren"
    BY <1>4 DEF Resumed
  <2> SUFFICES ASSUME NEW r \in Requests,
                      \A p \in Requests : object[p] = r => ~Ended(p)'
               PROVE  subs'[r] \subseteq accepted
    BY <2>2 DEF SubscribedWereAccepted
  <2>6. r # object[q]
    BY <2>4
  <2> QED BY <2>3, <2>4, <2>5, <2>6 DEF SubscribedWereAccepted
<1>5. ASSUME NEW a \in Asks, HypertyAccepts(a)
      PROVE  SubscribedWereAccepted'
  <2>1. \A r \in Requests : subs'[r] \subseteq subs[r] \union {a.who}
    BY <1>0, <1>5 DEF HypertyAccepts, NewSubscriptions
  <2>2. UNCHANGED <<stage, object>> /\ accepted' = accepted \union {a.who}
    BY <1>5 DEF HypertyAccepts
  <2> QED BY <2>1, <2>2 DEF SubscribedWereAccepted
<1>6. ASSUME NEW a \in Asks, HypertyRefuses(a)
      PROVE  SubscribedWereAccepted'
  <2>1. UNCHANGED <<stage, object, subs, accepted>>
    BY <1>6 DEF HypertyRefuses, objects
  <2> QED BY <2>1 DEF SubscribedWereAccepted
<1>7. ASSUME \/ \E s \in Subscribers : RemoteSubscribe(s) \/ RemoteUnSubscribe(s)
             \/ Delete
             \/ \E g \in Goodbyes : DeliverDelete(g)
             \/ Persist
      PROVE  SubscribedWereAccepted'
  <2>1. UNCHANGED <<stage, object, accepted>>
    BY <1>7 DEF RemoteSubscribe, RemoteUnSubscribe, Delete, DeliverDelete, Persist,
       objects, history
  <2>2. \A q \in Requests : subs'[q] \subseteq subs[q]
    BY <1>7 DEF RemoteSubscribe, RemoteUnSubscribe, Delete, DeliverDelete, Persist, objects
  <2> QED BY <1>1, <2>1, <2>2
<1>8. CASE Restart
  BY <1>8 DEF Restart, SubscribedWereAccepted
<1> QED BY <1>2, <1>3, <1>4, <1>5, <1>6, <1>7, <1>8 DEF Next


\* What is put in the table listens, unless it went stale.
LEMMA ListensStep ==
    ASSUME Types, ObjectsAreMade, ReporterListens, Next
    PROVE  ReporterListens'
<1>0. reporter \in Optional(Requests) /\ None \notin Requests
  BY NamesAssumption DEF Types
<1>1. ASSUME NEW q \in Requests, Registered(q) \/ ResumeCreate(q)
      PROVE  ReporterListens'
  <2>1. object[q] = None
    BY <1>1 DEF Registered, ResumeCreate, ObjectsAreMade, Fresh
  <2>2. TakeReporter(q) /\ reporter' = reporter
    BY <1>1 DEF Registered, ResumeCreate
  <2>3. /\ \A r \in Requests : Listens(r) => Listens(r)'
        /\ odd \subseteq odd'
    BY <2>1, <2>2, TakeReporterMakes
  <2> QED BY <1>0, <2>2, <2>3 DEF ReporterListens, Optional
<1>2. ASSUME NEW q \in Requests, Created(q) \/ Resumed(q)
      PROVE  ReporterListens'
  <2>1. /\ reporter' = object[q] /\ subscribing' = subscribing
        /\ "stale" \notin odd' => Listens(object[q])
    BY <1>2 DEF Created, Resumed, GoesOnWith
  <2> QED BY <2>1 DEF ReporterListens, Listens
<1>3. ASSUME \/ \E q \in Requests :
                   \/ Create(q) \/ RegistrationFails(q) \/ Stored(q)
                   \/ NodeAccepts(q) \/ NodeRefuses(q) \/ ChildrenRefused(q)
                   \/ Resume(q) \/ ResumeFails(q)
             \/ \E s \in Subscribers : RemoteSubscribe(s) \/ RemoteUnSubscribe(s)
             \/ \E a \in Asks : HypertyAccepts(a) \/ HypertyRefuses(a)
             \/ \E g \in Goodbyes : DeliverDelete(g)
             \/ Persist
      PROVE  ReporterListens'
  <2>1. UNCHANGED <<reporter, subscribing>>
    BY <1>3 DEF Create, RegistrationFails, Stored, NodeAccepts, NodeRefuses, ChildrenRefused,
       Resume, ResumeFails, RemoteSubscribe, RemoteUnSubscribe, HypertyAccepts, HypertyRefuses,
       DeliverDelete, Persist, objects
  <2>2. odd \subseteq odd'
    BY <1>3 DEF Create, RegistrationFails, Stored, NodeAccepts, NodeRefuses, ChildrenRefused,
       Resume, ResumeFails, RemoteSubscribe, RemoteUnSubscribe, HypertyAccepts, HypertyRefuses,
       DeliverDelete, Persist, GoesOnWith, history
  <2> QED BY <2>1, <2>2 DEF ReporterListens, Listens
<1>4. CASE Delete \/ Restart
  BY <1>4 DEF Delete, Restart, ReporterListens
<1> QED BY <1>1, <1>2, <1>3, <1>4 DEF Next

\* The subscribers of what is, or may yet be put, in the table are stored.
LEMMA BackedStep ==
    ASSUME Types, ObjectsAreMade, EntriesAreFresh, BackedAreStored, Next
    PROVE  BackedAreStored'
<1>0. /\ stage \in [Requests -> Stages]
      /\ object \in [Requests -> Optional(Requests)]
      /\ found \in [Requests -> Optional(Entries)]
      /\ reporter \in Optional(Requests)
      /\ subs \in [Requests -> SUBSET Subscribers]
      /\ subscribing \in Seq(Requests)
      /\ entry \in Optional(Entries)
      /\ listed \in [Entries -> SUBSET Subscribers]
      /\ None \notin Requests
  BY NamesAssumption DEF Types
<1> DEFINE Calm == odd \intersect {"overlap", "stale"} = {}
\* Unless subscribers are added, it is enough that nothing more is backed.
<1>1. ASSUME odd \subseteq odd',
             UNCHANGED <<subscribing, entry>>,
             \A o \in Requests : subs'[o] \subseteq subs[o],
             \A e \in Entries : listed[e] \subseteq listed'[e],
             Calm' => \A o \in Requests : Listens(o) /\ Backed(o)' => Backed(o)
      PROVE  BackedAreStored'
  <2> SUFFICES ASSUME Calm'
               PROVE  /\ Len(subscribing') <= 1
                      /\ \A o \in Requests : Listens(o)' /\ Backed(o)' =>
                            entry' # None /\ subs'[o] \subseteq listed'[entry']
    BY DEF BackedAreStored
  <2>1. Calm
    BY <1>1
  <2>2. ASSUME NEW o \in Requests, Listens(o)', Backed(o)'
        PROVE  entry' # None /\ subs'[o] \subseteq listed'[entry']
    <3>1. Listens(o) /\ Backed(o)
      BY <1>1, <2>2 DEF Listens
    <3>2. entry # None /\ subs[o] \subseteq listed[entry]
      BY <2>1, <3>1 DEF BackedAreStored
    <3>3. entry \in Entries
      BY <1>0, <3>2 DEF Optional
    <3> QED BY <1>1, <3>2, <3>3
  <2> QED BY <1>1, <2>1, <2>2 DEF BackedAreStored
<1>2. ASSUME NEW q \in Requests,
             \/ Create(q) \/ RegistrationFails(q) \/ Stored(q) \/ NodeRefuses(q)
             \/ ChildrenRefused(q) \/ ResumeFails(q) \/ NodeAccepts(q) \/ Resume(q)
      PROVE  BackedAreStored'
  <2>1. UNCHANGED <<object, reporter, subscribing, subs, entry, listed>>
    BY <1>2 DEF Create, RegistrationFails, Stored, NodeRefuses, ChildrenRefused, ResumeFails,
       NodeAccepts, Resume, objects, stored
  <2>2. odd \subseteq odd'
    BY <1>2 DEF Create, RegistrationFails, Stored, NodeRefuses, ChildrenRefused, ResumeFails,
       NodeAccepts, Resume, GoesOnWith, history
  <2>3. \A p \in Requests :
           /\ stage'[p] \in Creates => stage[p] \in Creates
           /\ stage'[p] \in Resumes => stage[p] \in Resumes /\ found'[p] = found[p]
    BY <1>0, <1>2 DEF Create, RegistrationFails, Stored, NodeRefuses, ChildrenRefused, ResumeFails,
       NodeAccepts, Resume, Creates, Resumes, stored
  <2>4. \A o \in Requests : Backed(o)' => Backed(o)
    BY <2>1, <2>3 DEF Backed
  <2> QED BY <1>1, <2>1, <2>2, <2>4
<1>3. ASSUME NEW q \in Requests, Registered(q) \/ ResumeCreate(q)
      PROVE  BackedAreStored'
  <2>1. object[q] = None
    BY <1>3 DEF Registered, ResumeCreate, ObjectsAreMade, Fresh
  <2>2. TakeReporter(q) /\ UNCHANGED <<reporter, subs, listed, found>>
    BY <1>3 DEF Registered, ResumeCreate, Store, stored
  <2>3. /\ \A r \in Requests \ {q} : object'[r] = object[r]
        /\ \A r \in Requests : Listens(r)' => Listens(r) \/ (reporter = None /\ r = q)
        /\ odd \subseteq odd'
    BY <2>1, <2>2, TakeReporterMakes
  <2>4. \A p \in Requests \ {q} : stage'[p] = stage[p]
    BY <1>0, <1>3 DEF Registered, ResumeCreate
  <2>5. CASE reporter = None
    <3>1. /\ subscribing' = Append(subscribing, q)
          /\ odd' = IF subscribing # <<>> THEN odd \union {"overlap"} ELSE odd
      BY <2>2, <2>5 DEF TakeReporter, NewReporterObject
    <3> SUFFICES ASSUME Calm'
                 PROVE  /\ Len(subscribing') <= 1
                        /\ \A o \in Requests : Listens(o)' /\ Backed(o)' =>
                              entry' # None /\ subs'[o] \subseteq listed'[entry']
      BY DEF BackedAreStored
    <3>2. subscribing = <<>>
      BY <3>1
    <3>3. Len(subscribing') <= 1 /\ \A o \in Requests : Listens(o)' => o = q
      BY <1>0, <3>1, <3>2 DEF Listens, Occurs
    <3>4. subs'[q] = {}
      BY <1>0, <2>1, <2>2 DEF ObjectsAreMade, Made
    <3>5. ASSUME Backed(q)'
          PROVE  entry' # None
      <4>1. \A p \in Requests \ {q} : object'[p] # q
        BY <1>0, <2>1, <2>3 DEF ObjectsAreMade, Made
      <4>2. stage'[q] \in Creates \/ (stage'[q] \in Resumes /\ found'[q] = entry')
        BY <1>0, <2>2, <2>5, <3>5, <4>1 DEF Backed
      <4>3. CASE Registered(q)
        BY <1>0, <4>3 DEF Registered, Store
      <4>4. CASE ResumeCreate(q)
        <5>1. found[q] # None /\ found' = found /\ stage'[q] \notin Creates
          BY <1>0, <4>4 DEF ResumeCreate, ObjectsAreMade, Creates, stored
        <5> QED BY <4>2, <5>1
      <4> QED BY <1>3, <4>3, <4>4
    <3> QED BY <3>3, <3>4, <3>5
  <2>6. CASE reporter # None
    <3>1. object'[q] = reporter /\ UNCHANGED <<subscribing, odd>>
      BY <1>0, <2>2, <2>6 DEF TakeReporter
    <3>2. \A o \in Requests : Backed(o)' =>
             \/ Backed(o)
             \/ \E p \in Requests \ {q} :
                   object[p] = o /\ stage[p] \in Resumes /\ found[p] = entry'
      BY <2>2, <2>3, <2>4, <3>1 DEF Backed
    <3>3. CASE entry' = entry
      <4>1. \A o \in Requests : Backed(o)' => Backed(o)
        BY <3>2, <3>3 DEF Backed
      <4> QED BY <1>1, <2>2, <3>1, <3>3, <4>1
    <3>4. CASE entry' # entry
      <4>1. entry = None /\ entry' = q /\ stage[q] = "registering"
        BY <1>3, <3>4 DEF Registered, Store, ResumeCreate, stored
      <4>2. \A p \in Requests : found[p] # q
        BY <4>1 DEF EntriesAreFresh
      <4>3. \A o \in Requests : Backed(o)' => Backed(o)
        BY <3>2, <4>1, <4>2
      <4>4. Calm => \A o \in Requests : ~(Listens(o) /\ Backed(o))
        BY <4>1 DEF BackedAreStored
      <4>5. \A o \in Requests : Listens(o)' => Listens(o)
        BY <3>1 DEF Listens
      <4> QED BY <3>1, <4>3, <4>4, <4>5 DEF BackedAreStored
    <3> QED BY <3>3, <3>4
  <2> QED BY <2>5, <2>6
<1>4. ASSUME NEW q \in Requests, Created(q)
      PROVE  BackedAreStored'
  <2>1. /\ reporter' = object[q]
        /\ UNCHANGED <<object, subs, subscribing, found, entry, listed>>
        /\ odd \subseteq odd'
    BY <1>4 DEF Created, GoesOnWith, stored
  <2>2. \A p \in Requests :
           /\ stage'[p] \in Creates => stage[p] \in Creates
           /\ stage'[p] \in Resumes => stage[p] \in Resumes
    BY <1>0, <1>4 DEF Created, Creates, Resumes
  <2>3. stage[q] \in Creates
    BY <1>4 DEF Created, Creates
  <2>4. \A o \in Requests : Backed(o)' => Backed(o)
    BY <2>1, <2>2, <2>3 DEF Backed
  <2> QED BY <1>1, <2>1, <2>4
<1>5. ASSUME NEW q \in Requests, Resumed(q)
      PROVE  BackedAreStored'
  <2>1. /\ reporter' = object[q]
        /\ UNCHANGED <<object, subscribing, found, entry, listed>>
        /\ odd \subseteq odd'
        /\ stage[q] \in Resumes
    BY <1>5 DEF Resumed, stored, Resumes
  <2>2. /\ \A r \in Requests \ {object[q]} : subs'[r] = subs[r]
        /\ subs'[object[q]] \subseteq subs[object[q]] \union listed[found[q]]
    BY <1>0, <1>5, <2>1 DEF Resumed, NewSubscriptions, ObjectsAreMade, Optional
  <2>3. \A p \in Requests :
           /\ stage'[p] \in Creates => stage[p] \in Creates
           /\ stage'[p] \in Resumes => stage[p] \in Resumes
    BY <1>0, <1>5 DEF Resumed, Creates, Resumes
  <2> SUFFICES ASSUME Calm'
               PROVE  /\ Len(subscribing') <= 1
                      /\ \A o \in Requests : Listens(o)' /\ Backed(o)' =>
                            entry' # None /\ subs'[o] \subseteq listed'[entry']
    BY DEF BackedAreStored
  <2>4. Calm /\ Listens(object[q]) /\ found[q] = entry
    BY <1>5, <2>1 DEF Resumed
  <2>5. \A o \in Requests : Backed(o)' => Backed(o)
    BY <2>1, <2>3, <2>4 DEF Backed
  <2>6. Len(subscribing') <= 1
    BY <2>1, <2>4 DEF BackedAreStored
  <2>7. ASSUME NEW o \in Requests, Listens(o)', Backed(o)'
        PROVE  entry' # None /\ subs'[o] \subseteq listed'[entry']
    <3>1. Listens(o) /\ Backed(o)
      BY <2>1, <2>5, <2>7 DEF Listens
    <3>2. entry # None /\ subs[o] \subseteq listed[entry]
      BY <2>4, <3>1 DEF BackedAreStored
    <3> QED BY <2>1, <2>2, <2>4, <3>2
  <2> QED BY <2>6, <2>7
<1>6. ASSUME NEW a \in Asks, HypertyAccepts(a)
      PROVE  BackedAreStored'
  <2>1. /\ UNCHANGED <<stage, object, reporter, subscribing, found, entry>>
        /\ odd \subseteq odd'
        /\ List(a.who)
    BY <1>6 DEF HypertyAccepts, GoesOnWith
  <2>2. \A r \in Requests : subs'[r] \subseteq subs[r] \union {a.who}
    BY <1>0, <1>6 DEF HypertyAccepts, NewSubscriptions
  <2>3. \A o \in Requests : Listens(o)' /\ Backed(o)' => Listens(o) /\ Backed(o)
    BY <2>1 DEF Listens, Backed
  <2>4. entry # None => listed'[entry] = listed[entry] \union {a.who}
    BY <1>0, <2>1 DEF List, Optional
  <2>5. Calm' => Calm
    BY <2>1
  <2> QED BY <2>1, <2>2, <2>3, <2>4, <2>5 DEF BackedAreStored
<1>7. ASSUME \/ \E s \in Subscribers : RemoteSubscribe(s) \/ RemoteUnSubscribe(s)
             \/ \E a \in Asks : HypertyRefuses(a)
             \/ \E g \in Goodbyes : DeliverDelete(g)
             \/ Persist
      PROVE  BackedAreStored'
  <2>1. UNCHANGED <<stage, object, reporter, subscribing, found, entry>>
    BY <1>7 DEF RemoteSubscribe, RemoteUnSubscribe, HypertyRefuses, DeliverDelete, Persist,
       objects, stored
  <2>2. odd \subseteq odd'
    BY <1>7 DEF RemoteSubscribe, RemoteUnSubscribe, HypertyRefuses, DeliverDelete, Persist, history
  <2>3. \A o \in Requests : subs'[o] \subseteq subs[o]
    BY <1>7 DEF RemoteSubscribe, RemoteUnSubscribe, HypertyRefuses, DeliverDelete, Persist, objects
  <2>4. \A e \in Entries : listed[e] \subseteq listed'[e]
    BY <1>0, <1>7 DEF RemoteSubscribe, RemoteUnSubscribe, HypertyRefuses, List, DeliverDelete,
       Persist, stored
  <2>5. \A o \in Requests : Backed(o)' => Backed(o)
    BY <2>1 DEF Backed
  <2> QED BY <1>1, <2>1, <2>2, <2>3, <2>4, <2>5
<1>8. CASE Delete
  <2>1. subscribing' = Detach(subscribing, reporter) /\ odd' = odd
    BY <1>8 DEF Delete, ReleaseListeners, history
  <2>2. Calm' => Len(subscribing') = 0
    BY <1>0, <2>1, DetachKeeps DEF BackedAreStored
  <2> QED BY <2>2 DEF BackedAreStored, Listens, Occurs
<1>9. CASE Restart
  BY <1>9 DEF Restart, BackedAreStored, Listens, Occurs
<1> QED BY <1>2, <1>3, <1>4, <1>5, <1>6, <1>7, <1>8, <1>9 DEF Next

-----------------------------------------------------------------------------
(* The theorems.                                                           *)

LEMMA InitIInv ==
    Init => IInv
<1> SUFFICES ASSUME Init PROVE IInv
  OBVIOUS
<1> USE DEF Init
<1>1. Types
  BY DEF Types, Optional, Stages
<1>2. ObjectsAreMade /\ EntriesAreFresh
  BY NamesAssumption DEF ObjectsAreMade, EntriesAreFresh, Made, Listens, Occurs, Fresh, Creates,
     Resumes
<1>3. SubscribedWereAccepted /\ ReporterListens
  BY DEF SubscribedWereAccepted, ReporterListens
<1>4. BackedAreStored
  BY DEF BackedAreStored, Listens, Occurs
<1> QED BY <1>1, <1>2, <1>3, <1>4 DEF IInv

LEMMA IInvIsInductive ==
    IInv /\ [Next]_vars => IInv'
<1> SUFFICES ASSUME IInv, [Next]_vars PROVE IInv'
  OBVIOUS
<1>1. CASE Next
  BY <1>1, TypesStep, MadeStep, FreshStep, AcceptedStep, ListensStep, BackedStep,
     Zenon DEF IInv
<1>2. CASE UNCHANGED vars
  <2> USE <1>2 DEF vars, objects, messages, stored, history
  <2>1. Types' /\ ObjectsAreMade' /\ EntriesAreFresh'
    BY DEF IInv, Types, ObjectsAreMade, EntriesAreFresh, Made, Listens
  <2>2. SubscribedWereAccepted' /\ ReporterListens'
    BY DEF IInv, SubscribedWereAccepted, ReporterListens, Listens
  <2>3. BackedAreStored'
    BY DEF IInv, BackedAreStored, Backed, Listens
  <2> QED BY <2>1, <2>2, <2>3 DEF IInv
<1> QED BY <1>1, <1>2

\* The inductive invariant holds in every reachable state.
THEOREM ReportersInvariant ==
    Spec => []IInv
<1> QED BY InitIInv, IInvIsInductive, PTL DEF Spec

\* The ReporterObject that _reporters holds listens for subscriptions, unless a
\* request put it there after its delete.
THEOREM ReportersReporterListens ==
    Spec => []ReporterListens
<1>1. IInv => ReporterListens
  BY DEF IInv
<1> QED BY <1>1, ReportersInvariant, PTL

\* Whoever is subscribed to the ReporterObject of the table is listed by the
\* stored entry, unless two ReporterObjects listened or one was deleted meanwhile.
THEOREM ReportersSubscribedAreStored ==
    Spec => []SubscribedAreStored
<1>1. IInv => SubscribedAreStored
  <2> SUFFICES ASSUME IInv, reporter # None, odd \intersect {"overlap", "stale"} = {}
               PROVE  entry # None /\ subs[reporter] \subseteq listed[entry]
    BY DEF SubscribedAreStored
  <2>1. reporter \in Requests
    BY DEF IInv, Types, Optional
  <2>2. Listens(reporter) /\ Backed(reporter)
    BY DEF IInv, ReporterListens, Backed
  <2> QED BY <2>1, <2>2 DEF IInv, BackedAreStored
<1> QED BY <1>1, ReportersInvariant, PTL

\* Without a resumption nobody has a Subscription whom the hyperty did not accept.
THEOREM ReportersSubscribedWereAccepted ==
    Spec => []SubscribedWereAccepted
<1>1. IInv => SubscribedWereAccepted
  BY DEF IInv
<1> QED BY <1>1, ReportersInvariant, PTL

-----------------------------------------------------------------------------
(* What stays on the bus.  A listener that should be in the list of        *)
(* /changes is never removed in place of another, the object's changes are *)
(* published as long as somebody is subscribed, and nothing listens for    *)
(* ever.                                                                   *)
(*                                                                         *)
(* A release takes listeners off the list one by one, by recursion over    *)
(* the sequence of those to release.  What it leaves is found by induction *)
(* over that sequence: the least index at which a claim fails would        *)
(* contradict the step before it.                                          *)

BusTypes ==
    /\ changes \in Seq(Listeners)
    /\ published \in BOOLEAN
    /\ forwards \in SUBSET Requests
    /\ handle \in [Requests -> Optional(Requests)]
    /\ asking \in SUBSET Asks
    /\ asked \in 0 .. MaxAsks
    /\ goodbyes \in SUBSET Goodbyes
    /\ accepted \in SUBSET Subscribers
    /\ odd \in SUBSET Oddities

\* No listener of the list is removed in place of another.
Good == odd \intersect {"again", "stale"} = {}

Distinct(list) == \A i, j \in 1 .. Len(list) : list[i] = list[j] => i = j

\* A ReporterObject listens to /subscription once.
ListenersAreDistinct == Distinct(subscribing)

\* The first Subscription had the address published.
SubscribedArePublished ==
    /\ \A q \in Requests : subs[q] # {} => published
    /\ \A g \in goodbyes : g.left # {} => published

\* The publish listener stays.
PublisherStays == Good /\ published => Occurs(Publisher, changes)

\* What listens is in the table, or a request that has not ended well holds it.
ListenersAreHeld ==
    odd = {} =>
        \A q \in Requests : Listens(q) =>
            \/ reporter = q
            \/ \E p \in Requests : object[p] = q /\ stage[p] \in UnderWay \union Failed

\* A forward can be removed by its ReporterObject, or another request for the
\* same object took the handle.
ForwardsHaveHandles ==
    \A f \in forwards :
        /\ object[f] # None
        /\ \/ handle[object[f]] = f
           \/ \E p \in Requests \ {f} : object[p] = object[f]

\* A ReporterObject that has a handle listens.
HandlesAreHeld ==
    odd = {} => \A o \in Requests : handle[o] # None => Listens(o)

BusInv ==
    /\ BusTypes
    /\ ListenersAreDistinct
    /\ SubscribedArePublished
    /\ PublisherStays
    /\ ListenersStay
    /\ ListenersAreHeld
    /\ ForwardsHaveHandles
    /\ HandlesAreHeld

-----------------------------------------------------------------------------
(* Induction over the indices of a sequence.                               *)

\* A set of natural numbers has a least element.
LEMMA LeastNat ==
    ASSUME NEW T \in SUBSET Nat, T # {}
    PROVE  \E x \in T : \A y \in T : x <= y
<1> DEFINE R == OpToRel(<, Nat)
<1>1. IsWellFoundedOn(R, Nat)
  BY NatLessThanWellFounded
<1>2. \A x, y \in Nat : <<y, x>> \in R <=> y < x
  BY DEF OpToRel
<1> HIDE DEF R
<1>3. PICK x \in T : \A y \in T : <<y, x>> \notin R
  BY <1>1, WFMin, Zenon
<1>4. \A y \in T : ~(y < x)
  BY <1>2, <1>3
<1> QED BY <1>3, <1>4

\* What holds of 0, and of an index whenever it holds of the one before, holds
\* of all.
LEMMA IndexInduction ==
    ASSUME NEW n \in Nat, NEW G, 0 \in G, \A i \in 1 .. n : i - 1 \in G => i \in G
    PROVE  \A i \in 0 .. n : i \in G
<1> DEFINE T == {i \in 0 .. n : i \notin G}
<1>1. ASSUME T # {} PROVE FALSE
  <2>1. T \in SUBSET Nat
    OBVIOUS
  <2> HIDE DEF T
  <2>2. PICK i \in T : \A j \in T : i <= j
    BY <1>1, <2>1, LeastNat, Zenon
  <2>3. i \in 1 .. n /\ i \notin G
    BY <2>2 DEF T
  <2>4. i - 1 \in 0 .. n /\ ~(i <= i - 1)
    BY <2>3
  <2>5. i - 1 \in G
    BY <2>2, <2>4 DEF T
  <2> QED BY <2>3, <2>5
<1> QED BY <1>1

\* An operation repeated for each index of a sequence: the function that says
\* what it gives after each of them exists.
LEMMA DetachPickedSteps ==
    ASSUME NEW list, NEW ls, NEW picked, Len(ls) \in Nat
    PROVE  \E after :
              /\ after[0] = list
              /\ \A i \in 1 .. Len(ls) :
                    after[i] = IF i \in picked THEN Detach(after[i - 1], ls[i]) ELSE after[i - 1]
              /\ DetachPicked(list, ls, picked) = after[Len(ls)]
<1> DEFINE Step(x, i) == IF i \in picked THEN Detach(x, ls[i]) ELSE x
           Runs(f, n) == f = [i \in 0 .. n |-> IF i = 0 THEN list ELSE Step(f[i - 1], i)]
           G == {n \in 0 .. Len(ls) : \E f : Runs(f, n)}
<1>1. DetachPicked(list, ls, picked) = (CHOOSE f : Runs(f, Len(ls)))[Len(ls)]
  BY DEF DetachPicked
<1> HIDE DEF Step
<1>2. 0 \in G
  <2>1. Runs([i \in 0 .. 0 |-> list], 0)
    OBVIOUS
  <2> HIDE DEF Runs
  <2>2. 0 \in 0 .. Len(ls)
    OBVIOUS
  <2> QED BY <2>1, <2>2
<1>3. ASSUME NEW n \in 1 .. Len(ls), n - 1 \in G
      PROVE  n \in G
  <2>1. PICK f : Runs(f, n - 1)
    BY <1>3
  <2> DEFINE g == [i \in 0 .. n |-> IF i < n THEN f[i] ELSE Step(f[n - 1], n)]
  <2>2. ASSUME NEW i \in 0 .. n
        PROVE  g[i] = IF i = 0 THEN list ELSE Step(g[i - 1], i)
    <3>1. CASE i = 0
      BY <2>1, <3>1
    <3>2. CASE i # 0 /\ i < n
      <4>1. g[i] = f[i] /\ g[i - 1] = f[i - 1] /\ i \in 0 .. n - 1
        BY <3>2
      <4> QED BY <2>1, <3>2, <4>1
    <3>3. CASE i = n
      <4>1. n # 0 /\ n - 1 \in 0 .. n /\ n - 1 < n
        OBVIOUS
      <4>2. g[n] = Step(f[n - 1], n) /\ g[n - 1] = f[n - 1]
        BY <4>1
      <4> QED BY <3>3, <4>1, <4>2
    <3> QED BY <3>1, <3>2, <3>3
  <2>3. Runs(g, n)
    <3>1. [i \in 0 .. n |-> IF i = 0 THEN list ELSE Step(g[i - 1], i)] =
             [i \in 0 .. n |-> g[i]]
      BY <2>2
    <3>2. g = [i \in 0 .. n |-> g[i]]
      OBVIOUS
    <3> HIDE DEF g
    <3> QED BY <3>1, <3>2
  <2> HIDE DEF Runs
  <2> QED BY <2>3
<1>4. Len(ls) \in G
  <2> HIDE DEF G
  <2>1. \A n \in 0 .. Len(ls) : n \in G
    BY <1>2, <1>3, IndexInduction
  <2> QED BY <2>1
<1>5. PICK f : Runs(f, Len(ls)) /\ f = CHOOSE h : Runs(h, Len(ls))
  <2> HIDE DEF Runs
  <2> QED BY <1>4
<1>6. f[0] = list
  BY <1>5
<1>7. \A i \in 1 .. Len(ls) : f[i] = Step(f[i - 1], i)
  BY <1>5
<1>8. DetachPicked(list, ls, picked) = f[Len(ls)]
  BY <1>1, <1>5, Zenon
<1> QED BY <1>6, <1>7, <1>8, Zenon DEF Step

-----------------------------------------------------------------------------
(* The bus's listener lists.                                               *)

\* MsgListener.remove gives a list of the same listeners, and every other one
\* stays if the one to remove is there.
LEMMA DetachSpares ==
    ASSUME NEW S, NEW list \in Seq(S), NEW l
    PROVE  /\ Detach(list, l) \in Seq(S)
           /\ Occurs(l, list) => \A k : Occurs(k, list) /\ k # l => Occurs(k, Detach(list, l))
<1>0. Len(list) \in Nat
  OBVIOUS
<1>1. CASE Occurs(l, list)
  <2>1. PICK i \in 1 .. Len(list) : list[i] = l /\ Detach(list, l) = RemoveAt(list, i)
    BY <1>1 DEF Occurs, Detach
  <2>2. /\ RemoveAt(list, i) \in Seq(S)
        /\ Len(RemoveAt(list, i)) = Len(list) - 1
        /\ \A k \in 1 .. Len(list) - 1 :
              RemoveAt(list, i)[k] = IF k < i THEN list[k] ELSE list[k + 1]
    BY RemoveAtElements, Zenon
  <2>3. ASSUME NEW k, Occurs(k, list), k # l
        PROVE  Occurs(k, RemoveAt(list, i))
    <3>1. PICK j \in 1 .. Len(list) : list[j] = k
      BY <2>3 DEF Occurs
    <3>2. j # i
      BY <2>1, <2>3, <3>1
    <3>3. PICK m \in 1 .. Len(list) - 1 : RemoveAt(list, i)[m] = k
      <4>1. CASE j < i
        <5>1. j \in 1 .. Len(list) - 1
          BY <1>0, <4>1
        <5> QED BY <2>2, <3>1, <4>1, <5>1
      <4>2. CASE j > i
        <5>1. j - 1 \in 1 .. Len(list) - 1 /\ ~(j - 1 < i) /\ (j - 1) + 1 = j
          BY <1>0, <4>2
        <5>2. RemoveAt(list, i)[j - 1] = list[j]
          BY <2>2, <5>1
        <5> QED BY <3>1, <5>1, <5>2
      <4> QED BY <1>0, <3>2, <4>1, <4>2
    <3> QED BY <2>2, <3>3 DEF Occurs
  <2> QED BY <2>1, <2>2, <2>3
<1>2. CASE ~Occurs(l, list) /\ list = <<>>
  BY <1>2 DEF Detach
<1>3. CASE ~Occurs(l, list) /\ list # <<>>
  <2>1. Len(list) \in 1 .. Len(list)
    BY <1>3
  <2>2. Detach(list, l) = RemoveAt(list, Len(list))
    BY <1>3 DEF Detach
  <2> QED BY <1>3, <2>1, <2>2, RemoveAtElements
<1> QED BY <1>1, <1>2, <1>3

\* A list without repetition stays one, without the listener removed.
LEMMA DetachDistinct ==
    ASSUME NEW S, NEW list \in Seq(S), NEW l, Distinct(list)
    PROVE  /\ Distinct(Detach(list, l))
           /\ Occurs(l, list) => ~Occurs(l, Detach(list, l))
<1>0. Len(list) \in Nat
  OBVIOUS
<1>1. ASSUME NEW i \in 1 .. Len(list)
      PROVE  Distinct(RemoveAt(list, i)) /\ ~Occurs(list[i], RemoveAt(list, i))
  <2> DEFINE from(k) == IF k < i THEN k ELSE k + 1
             left == RemoveAt(list, i)
  <2>1. /\ Len(left) = Len(list) - 1
        /\ \A k \in 1 .. Len(list) - 1 : left[k] = IF k < i THEN list[k] ELSE list[k + 1]
    BY RemoveAtElements, Zenon
  <2> HIDE DEF left
  <2>2. \A k \in 1 .. Len(list) - 1 :
           from(k) \in 1 .. Len(list) /\ from(k) # i /\ left[k] = list[from(k)]
    BY <1>0, <2>1
  <2>3. \A j, k \in 1 .. Len(list) - 1 : from(j) = from(k) => j = k
    BY <1>0
  <2> HIDE DEF from
  <2>4. Distinct(left)
    BY <2>1, <2>2, <2>3 DEF Distinct
  <2>5. ~Occurs(list[i], left)
    BY <2>1, <2>2 DEF Distinct, Occurs
  <2> QED BY <2>4, <2>5 DEF left
<1>2. CASE Occurs(l, list)
  <2>1. PICK i \in 1 .. Len(list) : list[i] = l /\ Detach(list, l) = RemoveAt(list, i)
    BY <1>2 DEF Occurs, Detach
  <2> QED BY <1>1, <2>1
<1>3. CASE ~Occurs(l, list)
  <2>1. CASE list = <<>>
    BY <1>3, <2>1 DEF Detach
  <2>2. CASE list # <<>>
    <3>1. Len(list) \in 1 .. Len(list)
      BY <2>2
    <3> QED BY <1>1, <1>3, <2>2, <3>1 DEF Detach
  <2> QED BY <2>1, <2>2
<1> QED BY <1>2, <1>3

\* What Append and concatenation add.
LEMMA ListsGrow ==
    ASSUME NEW S, NEW list \in Seq(S), NEW l \in S, NEW more \in Seq(S)
    PROVE  /\ Append(list, l) \in Seq(S) /\ list \o more \in Seq(S)
           /\ \A k : Occurs(k, Append(list, l)) <=> Occurs(k, list) \/ k = l
           /\ \A k : Occurs(k, list \o more) <=> Occurs(k, list) \/ Occurs(k, more)
<1>0. Len(list) \in Nat /\ Len(more) \in Nat
  OBVIOUS
<1>1. Append(list, l) \in Seq(S) /\ \A k : Occurs(k, Append(list, l)) <=> Occurs(k, list) \/ k = l
  BY DEF Occurs
<1>2. /\ list \o more \in Seq(S)
      /\ Len(list \o more) = Len(list) + Len(more)
      /\ \A i \in 1 .. Len(list) + Len(more) :
            (list \o more)[i] = IF i <= Len(list) THEN list[i] ELSE more[i - Len(list)]
  BY ConcatProperties, Zenon
<1>3. ASSUME NEW k, Occurs(k, list \o more)
      PROVE  Occurs(k, list) \/ Occurs(k, more)
  <2>1. PICK i \in 1 .. Len(list) + Len(more) : (list \o more)[i] = k
    BY <1>2, <1>3 DEF Occurs
  <2>2. CASE i <= Len(list)
    BY <1>0, <1>2, <2>1, <2>2 DEF Occurs
  <2>3. CASE ~(i <= Len(list))
    <3>1. i - Len(list) \in 1 .. Len(more)
      BY <1>0, <2>3
    <3> QED BY <1>2, <2>1, <2>3, <3>1 DEF Occurs
  <2> QED BY <2>2, <2>3
<1>4. ASSUME NEW k, Occurs(k, list)
      PROVE  Occurs(k, list \o more)
  <2>1. PICK i \in 1 .. Len(list) : list[i] = k
    BY <1>4 DEF Occurs
  <2>2. i \in 1 .. Len(list) + Len(more) /\ i <= Len(list)
    BY <1>0
  <2> QED BY <1>2, <2>1, <2>2 DEF Occurs
<1>5. ASSUME NEW k, Occurs(k, more)
      PROVE  Occurs(k, list \o more)
  <2>1. PICK i \in 1 .. Len(more) : more[i] = k
    BY <1>5 DEF Occurs
  <2>2. /\ i + Len(list) \in 1 .. Len(list) + Len(more)
        /\ ~(i + Len(list) <= Len(list))
        /\ (i + Len(list)) - Len(list) = i
    BY <1>0
  <2>3. (list \o more)[i + Len(list)] = more[i]
    BY <1>2, <2>2
  <2> QED BY <1>2, <2>1, <2>2, <2>3 DEF Occurs
<1> QED BY <1>1, <1>2, <1>3, <1>4, <1>5, Zenon

\* Releasing listeners that are on the bus, each once, leaves every other one.
LEMMA DetachPickedSpares ==
    ASSUME NEW S, NEW list \in Seq(S), NEW ls, Len(ls) \in Nat, NEW picked
    PROVE  /\ DetachPicked(list, ls, picked) \in Seq(S)
           /\ (\A i \in 1 .. Len(ls) : i \in picked =>
                  /\ Occurs(ls[i], list)
                  /\ \A j \in 1 .. Len(ls) : j \in picked /\ ls[i] = ls[j] => i = j)
              => \A k : Occurs(k, list) /\ (\A i \in 1 .. Len(ls) : i \in picked => ls[i] # k)
                    => Occurs(k, DetachPicked(list, ls, picked))
<1>1. PICK after :
         /\ after[0] = list
         /\ \A i \in 1 .. Len(ls) :
               after[i] = IF i \in picked THEN Detach(after[i - 1], ls[i]) ELSE after[i - 1]
         /\ DetachPicked(list, ls, picked) = after[Len(ls)]
  BY DetachPickedSteps
<1> DEFINE n == Len(ls)
<1>a. n \in Nat
  OBVIOUS
<1> HIDE DEF n
<1>0. n \in Nat /\ 0 \in 0 .. n /\ n \in 0 .. n
  BY <1>a
<1>2. /\ after[0] = list
      /\ \A i \in 1 .. n :
            after[i] = IF i \in picked THEN Detach(after[i - 1], ls[i]) ELSE after[i - 1]
      /\ DetachPicked(list, ls, picked) = after[n]
  BY <1>1 DEF n
<1>3. \A i \in 0 .. n : after[i] \in Seq(S)
  <2> DEFINE G == {i \in 0 .. n : after[i] \in Seq(S)}
  <2>1. 0 \in G
    BY <1>0, <1>2
  <2>2. ASSUME NEW i \in 1 .. n, i - 1 \in G
        PROVE  i \in G
    <3>1. Detach(after[i - 1], ls[i]) \in Seq(S)
      BY <2>2, DetachSpares, Zenon
    <3>2. i \in 0 .. n
      OBVIOUS
    <3> QED BY <1>2, <2>2, <3>1, <3>2
  <2> HIDE DEF G
  <2>3. \A i \in 0 .. n : i \in G
    BY <1>0, <2>1, <2>2, IndexInduction
  <2> QED BY <2>3 DEF G
<1>4. ASSUME \A i \in 1 .. n : i \in picked =>
                /\ Occurs(ls[i], list)
                /\ \A j \in 1 .. n : j \in picked /\ ls[i] = ls[j] => i = j
      PROVE  \A k : Occurs(k, list) /\ (\A i \in 1 .. n : i \in picked => ls[i] # k)
                => Occurs(k, after[n])
  \* Nothing is gone after i steps but what those steps released.
  <2> DEFINE Left(k, i) == Occurs(k, list) /\ \A j \in 1 .. i : j \in picked => ls[j] # k
             G == {i \in 0 .. n : \A k : Left(k, i) => Occurs(k, after[i])}
  <2>1. 0 \in G
    BY <1>0, <1>2
  <2>2. ASSUME NEW i \in 1 .. n, i - 1 \in G
        PROVE  i \in G
    <3>1. \A k : Left(k, i) => Left(k, i - 1)
      OBVIOUS
    <3>2. \A k : Left(k, i - 1) => Occurs(k, after[i - 1])
      BY <2>2
    <3>3. i \in 0 .. n /\ i - 1 \in 0 .. n /\ i \in 1 .. i
      BY <1>0
    <3>4. CASE i \in picked
      <4>1. Left(ls[i], i - 1)
        <5>1. \A j \in 1 .. i - 1 : j \in 1 .. n /\ j # i
          BY <1>0
        <5> QED BY <1>4, <3>4, <5>1
      <4>2. Occurs(ls[i], after[i - 1])
        BY <3>2, <4>1
      <4>3. \A k : Left(k, i) => k # ls[i]
        BY <3>3, <3>4
      <4>4. after[i] = Detach(after[i - 1], ls[i])
        BY <1>2, <3>4
      <4>5. after[i - 1] \in Seq(S)
        BY <1>3, <3>3
      <4> HIDE DEF Left
      <4>6. \A k : Occurs(k, after[i - 1]) /\ k # ls[i] => Occurs(k, after[i])
        BY <4>2, <4>4, <4>5, DetachSpares, Zenon
      <4> QED BY <3>1, <3>2, <3>3, <4>3, <4>6
    <3>5. CASE i \notin picked
      <4>1. after[i] = after[i - 1]
        BY <1>2, <3>5
      <4> HIDE DEF Left
      <4> QED BY <3>1, <3>2, <3>3, <4>1
    <3> QED BY <3>4, <3>5
  <2> HIDE DEF G
  <2>3. \A i \in 0 .. n : i \in G
    BY <1>0, <2>1, <2>2, IndexInduction
  <2> QED BY <1>0, <2>3 DEF G
<1> QED BY <1>0, <1>2, <1>3, <1>4, Zenon DEF n

\* The listeners of S, in some order: each of them once, and no other.
LEMMA OrderedListeners ==
    ASSUME NEW q \in Requests, NEW S \in SUBSET Subscribers, NEW ls \in DeleteListenersOf(q, S)
    PROVE  /\ ls \in Seq(Listeners)
           /\ ls = <<>> <=> S = {}
           /\ Distinct(ls)
           /\ \A l : Occurs(l, ls) <=> \E s \in S : l = DeleteListener(q, s)
<1> DEFINE n == Cardinality(S)
<1>1. IsFiniteSet(S) /\ n \in Nat
  BY SubscribersAssumption, FS_Subset, FS_CardinalityType, Zenon
<1>2. PICK order \in SetToSeqs(S) : ls = [i \in DOMAIN order |-> DeleteListener(q, order[i])]
  BY DEF DeleteListenersOf
<1>3. /\ order \in [1 .. n -> S]
      /\ \A i, j \in 1 .. n : i # j => order[i] # order[j]
  BY DEF SetToSeqs
<1>4. \A s \in S : \E i \in 1 .. n : order[i] = s
  <2>1. order \in Injection(1 .. n, S)
    BY <1>3 DEF Injection, IsInjective
  <2>2. Cardinality(1 .. n) = n
    BY <1>1, FS_Interval
  <2>3. order \in Surjection(1 .. n, S)
    BY <1>1, <2>1, <2>2, FS_Injection, Zenon
  <2> QED BY <2>3 DEF Surjection
<1>5. n = 0 <=> S = {}
  BY <1>1, FS_EmptySet
<1> HIDE DEF n
<1>6. /\ DOMAIN ls = 1 .. n
      /\ \A i \in 1 .. n : ls[i] = DeleteListener(q, order[i]) /\ order[i] \in S
  BY <1>2, <1>3
<1>7. \A s \in Subscribers : DeleteListener(q, s) \in Listeners
  BY DEF DeleteListener, Listeners
<1>8. \A s, t : DeleteListener(q, s) = DeleteListener(q, t) => s = t
  BY DEF DeleteListener
<1>9. ls = [i \in 1 .. n |-> ls[i]] /\ \A i \in 1 .. n : ls[i] \in Listeners
  BY <1>2, <1>3, <1>6, <1>7
<1>10. ls \in Seq(Listeners) /\ Len(ls) = n
  BY <1>1, <1>9 DEF n
<1>11. ls = <<>> <=> S = {}
  BY <1>1, <1>5, <1>10 DEF n
<1>12. Distinct(ls)
  BY <1>3, <1>6, <1>8, <1>10 DEF Distinct
<1>13. \A l : Occurs(l, ls) <=> \E s \in S : l = DeleteListener(q, s)
  BY <1>4, <1>6, <1>10 DEF Occurs
<1> QED BY <1>10, <1>11, <1>12, <1>13

-----------------------------------------------------------------------------
(* What the steps do to the list of /changes.                              *)

\* Listeners of different roles, objects or hyperties are different.
LEMMA ListenersDiffer ==
    ASSUME NEW q, NEW r, NEW s, NEW t
    PROVE  /\ Publisher # Recorder(q) /\ Publisher # DeleteListener(q, s)
           /\ Recorder(q) # DeleteListener(r, s)
           /\ Recorder(q) = Recorder(r) => q = r
           /\ DeleteListener(q, s) = DeleteListener(r, t) => q = r /\ s = t
<1>1. /\ Publisher.role = "publish" /\ Recorder(q).role = "record"
      /\ DeleteListener(q, s).role = "delete" /\ DeleteListener(r, s).role = "delete"
      /\ Recorder(q).of = q /\ Recorder(r).of = r
      /\ DeleteListener(q, s).of = q /\ DeleteListener(r, t).of = r
      /\ DeleteListener(q, s).who = s /\ DeleteListener(r, t).who = t
  BY DEF Publisher, Recorder, DeleteListener
<1> QED BY <1>1

LEMMA TheyAreListeners ==
    ASSUME NEW q \in Requests
    PROVE  /\ Publisher \in Listeners /\ Recorder(q) \in Listeners
           /\ \A s \in Subscribers : DeleteListener(q, s) \in Listeners
  BY DEF Publisher, Recorder, DeleteListener, Listeners

\* New Subscriptions add their listeners, and the one that publishes if it is
\* the first time.
LEMMA NewSubscriptionsJoin ==
    ASSUME Types, BusTypes, NEW q \in Requests, NEW S \in SUBSET Subscribers,
           NewSubscriptions(q, S)
    PROVE  /\ published' = (published \/ S # {})
           /\ changes' \in Seq(Listeners)
           /\ \A k : Occurs(k, changes) => Occurs(k, changes')
           /\ \A s \in S : Occurs(DeleteListener(q, s), changes')
           /\ S # {} /\ ~published => Occurs(Publisher, changes')
<1>1. published' = (published \/ S # {})
  BY DEF NewSubscriptions
<1>2. PICK ls \in DeleteListenersOf(q, S) :
         changes' = IF ls = <<>> THEN changes
                    ELSE Publishing(Append(changes, Head(ls)), S) \o Tail(ls)
  BY DEF NewSubscriptions
<1>3. /\ ls \in Seq(Listeners)
      /\ ls = <<>> <=> S = {}
      /\ \A s \in S : Occurs(DeleteListener(q, s), ls)
  BY OrderedListeners
<1>4. changes \in Seq(Listeners) /\ Publisher \in Listeners
  BY TheyAreListeners DEF BusTypes
<1>5. CASE ls = <<>>
  BY <1>1, <1>2, <1>3, <1>4, <1>5
<1>6. CASE ls # <<>>
  <2>1. /\ Head(ls) \in Listeners /\ Tail(ls) \in Seq(Listeners)
        /\ \A k : Occurs(k, ls) => k = Head(ls) \/ Occurs(k, Tail(ls))
    <3>1. Head(ls) \in Listeners /\ Tail(ls) \in Seq(Listeners) /\ Len(ls) \in Nat
      BY <1>3, <1>6
    <3>2. /\ Len(Tail(ls)) = Len(ls) - 1 /\ Head(ls) = ls[1]
          /\ \A i \in 1 .. Len(ls) - 1 : Tail(ls)[i] = ls[i + 1]
      BY <1>3, <1>6
    <3>3. ASSUME NEW i \in 1 .. Len(ls), i # 1
          PROVE  Occurs(ls[i], Tail(ls))
      <4>1. i - 1 \in 1 .. Len(ls) - 1 /\ (i - 1) + 1 = i
        BY <3>1, <3>3
      <4>2. Tail(ls)[i - 1] = ls[i]
        BY <3>2, <4>1
      <4> QED BY <3>2, <4>1, <4>2 DEF Occurs
    <3> QED BY <3>1, <3>2, <3>3 DEF Occurs
  <2> DEFINE first == Append(changes, Head(ls))
             both == Publishing(first, S)
  <2>2. /\ first \in Seq(Listeners)
        /\ \A k : Occurs(k, first) <=> Occurs(k, changes) \/ k = Head(ls)
    BY <1>4, <2>1, ListsGrow, Zenon
  <2> HIDE DEF first
  <2>3. /\ both \in Seq(Listeners)
        /\ \A k : Occurs(k, first) => Occurs(k, both)
        /\ S # {} /\ ~published => Occurs(Publisher, both)
    <3>1. /\ Append(first, Publisher) \in Seq(Listeners)
          /\ \A k : Occurs(k, Append(first, Publisher)) <=> Occurs(k, first) \/ k = Publisher
      BY <1>4, <2>2, ListsGrow, Zenon
    <3> QED BY <2>2, <3>1, Zenon DEF Publishing
  <2> HIDE DEF both
  <2>4. /\ both \o Tail(ls) \in Seq(Listeners)
        /\ \A k : Occurs(k, both \o Tail(ls)) <=> Occurs(k, both) \/ Occurs(k, Tail(ls))
    BY <1>4, <2>1, <2>3, ListsGrow, Zenon
  <2>5. changes' = both \o Tail(ls)
    BY <1>2, <1>6 DEF first, both
  <2> QED BY <1>1, <1>3, <2>1, <2>2, <2>3, <2>4, <2>5, Zenon
<1> QED BY <1>5, <1>6

\* The Subscriptions to s are released, and nothing else if their listeners are
\* on the bus.
LEMMA ReleasedForSpares ==
    ASSUME Types, BusTypes, NEW s \in Subscribers
    PROVE  /\ ReleasedFor(s) \in Seq(Listeners)
           /\ /\ ListenersAreDistinct
              /\ \A q \in Requests : HasSubscription(q, s) => Occurs(DeleteListener(q, s), changes)
              => \A k : /\ Occurs(k, changes)
                        /\ \A q \in Requests : HasSubscription(q, s) => DeleteListener(q, s) # k
                        => Occurs(k, ReleasedFor(s))
<1> DEFINE n == Len(subscribing)
           ls == [i \in DOMAIN subscribing |-> DeleteListener(subscribing[i], s)]
<1>1. /\ n \in Nat /\ DOMAIN subscribing = 1 .. n
      /\ \A i \in 1 .. n : subscribing[i] \in Requests
      /\ changes \in Seq(Listeners)
  BY DEF Types, BusTypes
<1>2. Len(ls) = n /\ \A i \in 1 .. n : ls[i] = DeleteListener(subscribing[i], s)
  BY <1>1
<1>3. \A i \in 1 .. n : i \in Holding(s) => HasSubscription(subscribing[i], s)
  BY <1>1 DEF Holding, HasSubscription, Listens, Occurs
<1>4. ReleasedFor(s) = DetachPicked(changes, ls, Holding(s))
  BY DEF ReleasedFor
<1> HIDE DEF n, ls
<1>5. /\ DetachPicked(changes, ls, Holding(s)) \in Seq(Listeners)
      /\ (\A i \in 1 .. n : i \in Holding(s) =>
             /\ Occurs(ls[i], changes)
             /\ \A j \in 1 .. n : j \in Holding(s) /\ ls[i] = ls[j] => i = j)
         => \A k : Occurs(k, changes) /\ (\A i \in 1 .. n : i \in Holding(s) => ls[i] # k)
               => Occurs(k, DetachPicked(changes, ls, Holding(s)))
  <2>1. Len(ls) \in Nat
    BY <1>1, <1>2
  <2>2. /\ DetachPicked(changes, ls, Holding(s)) \in Seq(Listeners)
        /\ (\A i \in 1 .. Len(ls) : i \in Holding(s) =>
               /\ Occurs(ls[i], changes)
               /\ \A j \in 1 .. Len(ls) : j \in Holding(s) /\ ls[i] = ls[j] => i = j)
           => \A k : Occurs(k, changes) /\ (\A i \in 1 .. Len(ls) : i \in Holding(s) => ls[i] # k)
                 => Occurs(k, DetachPicked(changes, ls, Holding(s)))
    BY <1>1, <2>1, DetachPickedSpares
  <2> QED BY <1>2, <2>2, Zenon
<1>6. ASSUME ListenersAreDistinct,
             \A q \in Requests : HasSubscription(q, s) => Occurs(DeleteListener(q, s), changes),
             NEW k, Occurs(k, changes),
             \A q \in Requests : HasSubscription(q, s) => DeleteListener(q, s) # k
      PROVE  Occurs(k, ReleasedFor(s))
  <2>1. \A i \in 1 .. n : i \in Holding(s) => Occurs(ls[i], changes) /\ ls[i] # k
    BY <1>1, <1>2, <1>3, <1>6
  <2>2. \A i, j \in 1 .. n : ls[i] = ls[j] => i = j
    <3>1. \A i, j \in 1 .. n : subscribing[i] = subscribing[j] => i = j
      BY <1>6 DEF ListenersAreDistinct, Distinct, n
    <3> QED BY <1>2, <3>1, ListenersDiffer
  <2> QED BY <1>4, <1>5, <1>6, <2>1, <2>2, Zenon
<1> QED BY <1>4, <1>5, <1>6, Zenon

\* A ReporterObject is released, and nothing else if its listeners are on the bus.
LEMMA ReleaseListenersSpares ==
    ASSUME Types, BusTypes, NEW q \in Requests, ReleaseListeners(q)
    PROVE  /\ changes' \in Seq(Listeners)
           /\ /\ Occurs(Recorder(q), changes)
              /\ \A s \in subs[q] : Occurs(DeleteListener(q, s), changes)
              => \A k : /\ Occurs(k, changes)
                        /\ k # Recorder(q)
                        /\ \A s \in subs[q] : k # DeleteListener(q, s)
                        => Occurs(k, changes')
<1>1. PICK order \in DeleteListenersOf(q, subs[q]) :
         changes' = DetachAll(changes, <<Recorder(q)>> \o order)
  BY DEF ReleaseListeners
<1>2. /\ order \in Seq(Listeners)
      /\ Distinct(order)
      /\ \A l : Occurs(l, order) <=> \E s \in subs[q] : l = DeleteListener(q, s)
  <2>1. subs[q] \in SUBSET Subscribers
    BY DEF Types
  <2> QED BY <2>1, OrderedListeners
<1>3. changes \in Seq(Listeners) /\ Recorder(q) \in Listeners /\ Len(order) \in Nat
  BY <1>2, TheyAreListeners DEF BusTypes
<1> DEFINE ls == <<Recorder(q)>> \o order
           n == Len(ls)
<1>4. /\ ls \in Seq(Listeners)
      /\ n = 1 + Len(order)
      /\ ls[1] = Recorder(q)
      /\ \A i \in 2 .. n : ls[i] = order[i - 1]
  <2>1. <<Recorder(q)>> \in Seq(Listeners)
    BY <1>3
  <2>2. /\ Len(<<Recorder(q)>>) = 1
        /\ <<Recorder(q)>>[1] = Recorder(q)
    OBVIOUS
  <2>3. /\ ls \in Seq(Listeners)
        /\ Len(ls) = Len(<<Recorder(q)>>) + Len(order)
        /\ \A i \in 1 .. Len(<<Recorder(q)>>) + Len(order) :
              ls[i] = IF i <= Len(<<Recorder(q)>>) THEN <<Recorder(q)>>[i]
                      ELSE order[i - Len(<<Recorder(q)>>)]
    BY <1>2, <2>1, ConcatProperties
  <2> HIDE DEF ls
  <2> QED BY <1>3, <2>2, <2>3
<1> HIDE DEF ls
<1>5. n \in Nat /\ DOMAIN ls = 1 .. n
  BY <1>4
<1> HIDE DEF n
<1>6. changes' = DetachPicked(changes, ls, 1 .. n)
  BY <1>1, <1>5 DEF DetachAll, ls
<1>7. /\ changes' \in Seq(Listeners)
      /\ (\A i \in 1 .. n : Occurs(ls[i], changes) /\ \A j \in 1 .. n : ls[i] = ls[j] => i = j)
         => \A k : Occurs(k, changes) /\ (\A i \in 1 .. n : ls[i] # k) => Occurs(k, changes')
  <2>1. /\ DetachPicked(changes, ls, 1 .. n) \in Seq(Listeners)
        /\ (\A i \in 1 .. n : i \in 1 .. n =>
               /\ Occurs(ls[i], changes)
               /\ \A j \in 1 .. n : j \in 1 .. n /\ ls[i] = ls[j] => i = j)
           => \A k : Occurs(k, changes) /\ (\A i \in 1 .. n : i \in 1 .. n => ls[i] # k)
                 => Occurs(k, DetachPicked(changes, ls, 1 .. n))
    BY <1>3, <1>5, DetachPickedSpares DEF n
  <2> QED BY <1>6, <2>1, Zenon
<1>8. ASSUME NEW i \in 2 .. n
      PROVE  i - 1 \in 1 .. Len(order) /\ \E s \in subs[q] : ls[i] = DeleteListener(q, s)
  <2>1. i - 1 \in 1 .. Len(order)
    BY <1>3, <1>4, <1>5 DEF n
  <2>2. Occurs(ls[i], order)
    BY <1>4, <2>1 DEF Occurs
  <2> QED BY <1>2, <2>1, <2>2
<1>9. ASSUME NEW i \in 1 .. n, NEW j \in 1 .. n, ls[i] = ls[j]
      PROVE  i = j
  <2>1. i = 1 \/ i \in 2 .. n
    BY <1>5
  <2>2. j = 1 \/ j \in 2 .. n
    BY <1>5
  <2>3. \A m \in 2 .. n : ls[m] # ls[1]
    BY <1>4, <1>8, ListenersDiffer
  <2>4. CASE i \in 2 .. n /\ j \in 2 .. n
    <3>1. order[i - 1] = order[j - 1]
      BY <1>4, <1>9, <2>4
    <3>2. i - 1 = j - 1
      BY <1>2, <1>8, <2>4, <3>1 DEF Distinct
    <3> QED BY <1>5, <3>2
  <2> QED BY <1>9, <2>1, <2>2, <2>3, <2>4
<1>10. \A i \in 1 .. n : ls[i] = Recorder(q) \/ \E s \in subs[q] : ls[i] = DeleteListener(q, s)
  <2>1. \A i \in 1 .. n : i = 1 \/ i \in 2 .. n
    BY <1>5
  <2> QED BY <1>4, <1>8, <2>1
<1> QED BY <1>7, <1>9, <1>10, Zenon

-----------------------------------------------------------------------------
(* The steps.                                                              *)

\* An object that was not there gets a recorder, and nobody's listener goes.
LEMMA TakeReporterJoins ==
    ASSUME Types, ObjectsAreMade, BusTypes, ListenersAreDistinct,
           NEW q \in Requests, object[q] = None, TakeReporter(q)
    PROVE  /\ changes' \in Seq(Listeners)
           /\ \A k : Occurs(k, changes) => Occurs(k, changes')
           /\ \A r \in Requests : Listens(r)' => Listens(r) \/ (r = q /\ Occurs(Recorder(q), changes'))
           /\ Distinct(subscribing')
           /\ odd' \in SUBSET Oddities
           /\ Good' => Good
<1>1. changes \in Seq(Listeners) /\ subscribing \in Seq(Requests) /\ odd \in SUBSET Oddities
  BY DEF Types, BusTypes
<1>2. CASE reporter = None
  <2>1. /\ subscribing' = Append(subscribing, q)
        /\ changes' = Append(changes, Recorder(q))
        /\ odd' = odd \/ odd' = odd \union {"overlap"}
    BY <1>2 DEF TakeReporter, NewReporterObject
  <2>2. /\ changes' \in Seq(Listeners)
        /\ \A k : Occurs(k, changes') <=> Occurs(k, changes) \/ k = Recorder(q)
    BY <1>1, <2>1, ListsGrow, TheyAreListeners, Zenon
  <2>3. \A r : Occurs(r, subscribing') <=> Occurs(r, subscribing) \/ r = q
    BY <1>1, <2>1, ListsGrow, Zenon
  <2>4. ~Occurs(q, subscribing)
    BY NamesAssumption DEF ObjectsAreMade, Made, Listens
  <2>5. Distinct(subscribing')
    <3>1. /\ Len(subscribing) \in Nat
          /\ Len(subscribing') = Len(subscribing) + 1
          /\ \A i \in 1 .. Len(subscribing) : subscribing'[i] = subscribing[i]
          /\ subscribing'[Len(subscribing) + 1] = q
      BY <1>1, <2>1
    <3>2. \A i, j \in 1 .. Len(subscribing) : subscribing[i] = subscribing[j] => i = j
      BY DEF ListenersAreDistinct, Distinct
    <3>3. \A i \in 1 .. Len(subscribing) : subscribing[i] # q
      BY <2>4 DEF Occurs
    <3>4. \A i \in 1 .. Len(subscribing) + 1 :
             i \in 1 .. Len(subscribing) \/ i = Len(subscribing) + 1
      BY <3>1
    <3> QED BY <3>1, <3>2, <3>3, <3>4, Zenon DEF Distinct
  <2>6. odd' \in SUBSET Oddities /\ (Good' => Good)
    BY <1>1, <2>1 DEF Oddities, Good
  <2> QED BY <2>2, <2>3, <2>5, <2>6 DEF Listens
<1>3. CASE reporter # None
  <2>1. UNCHANGED <<subscribing, changes, odd>>
    BY <1>3 DEF TakeReporter
  <2> QED BY <1>1, <2>1 DEF Listens, Good, ListenersAreDistinct
<1> QED BY <1>2, <1>3

\* Types are kept.
LEMMA BusTypesStep ==
    ASSUME Types, ObjectsAreMade, BusTypes, ListenersAreDistinct, Next
    PROVE  BusTypes'
<1>0. /\ object \in [Requests -> Optional(Requests)]
      /\ found \in [Requests -> Optional(Entries)]
      /\ reporter \in Optional(Requests)
      /\ subs \in [Requests -> SUBSET Subscribers]
      /\ listed \in [Entries -> SUBSET Subscribers]
  BY DEF Types
<1>1. ASSUME NEW q \in Requests,
             \/ Create(q) \/ RegistrationFails(q) \/ Stored(q) \/ NodeRefuses(q)
             \/ ChildrenRefused(q) \/ ResumeFails(q) \/ Resume(q)
      PROVE  BusTypes'
  BY <1>1 DEF Create, RegistrationFails, Stored, NodeRefuses, ChildrenRefused, ResumeFails, Resume,
     objects, messages, history, BusTypes
<1>2. ASSUME NEW q \in Requests, Registered(q) \/ ResumeCreate(q)
      PROVE  BusTypes'
  <2>1. object[q] = None
    BY <1>2 DEF Registered, ResumeCreate, ObjectsAreMade, Fresh
  <2>2. changes' \in Seq(Listeners) /\ odd' \in SUBSET Oddities
    BY <1>2, <2>1, TakeReporterJoins DEF Registered, ResumeCreate
  <2>3. UNCHANGED <<published, forwards, handle, asking, asked, goodbyes, accepted>>
    BY <1>2 DEF Registered, ResumeCreate, messages
  <2> QED BY <2>2, <2>3 DEF BusTypes
<1>3. ASSUME NEW q \in Requests, NodeAccepts(q)
      PROVE  BusTypes'
  <2>1. odd' \in SUBSET Oddities
    BY <1>3 DEF NodeAccepts, GoesOnWith, BusTypes, Oddities
  <2>2. /\ forwards' \in SUBSET Requests
        /\ handle' \in [Requests -> Optional(Requests)]
    BY <1>3 DEF NodeAccepts, BusTypes, Optional
  <2>3. UNCHANGED <<changes, published, asking, asked, goodbyes, accepted>>
    BY <1>3 DEF NodeAccepts, messages
  <2> QED BY <2>1, <2>2, <2>3 DEF BusTypes
<1>4. ASSUME NEW q \in Requests, Created(q)
      PROVE  BusTypes'
  <2>1. odd' \in SUBSET Oddities
    BY <1>4 DEF Created, GoesOnWith, BusTypes, Oddities
  <2>2. UNCHANGED <<changes, published, forwards, handle, asking, asked, goodbyes, accepted>>
    BY <1>4 DEF Created, messages
  <2> QED BY <2>1, <2>2 DEF BusTypes
<1>5. ASSUME NEW q \in Requests, Resumed(q)
      PROVE  BusTypes'
  <2>1. object[q] \in Requests /\ found[q] \in Entries
    BY <1>0, <1>5 DEF Resumed, ObjectsAreMade, Resumes, Optional
  <2>2. changes' \in Seq(Listeners) /\ published' \in BOOLEAN
    <3>1. listed[found[q]] \ subs[object[q]] \in SUBSET Subscribers
      BY <1>0, <2>1
    <3>2. NewSubscriptions(object[q], listed[found[q]] \ subs[object[q]])
      BY <1>5 DEF Resumed
    <3>3. published' \in BOOLEAN
      BY <3>2 DEF NewSubscriptions, BusTypes
    <3> QED BY <2>1, <3>1, <3>2, <3>3, NewSubscriptionsJoin, Zenon
  <2>3. odd' \in SUBSET Oddities
    BY <1>5 DEF Resumed, BusTypes, Oddities
  <2>4. UNCHANGED <<forwards, handle, asking, asked, goodbyes, accepted>>
    BY <1>5 DEF Resumed, messages
  <2> QED BY <2>2, <2>3, <2>4 DEF BusTypes
<1>6. ASSUME NEW s \in Subscribers, RemoteSubscribe(s)
      PROVE  BusTypes'
  <2>1. changes' \in Seq(Listeners)
    BY <1>6, ReleasedForSpares DEF RemoteSubscribe
  <2>2. asked + 1 \in 1 .. MaxAsks
    BY <1>6, BoundAssumption DEF RemoteSubscribe, BusTypes
  <2>3. asking' \in SUBSET Asks
    BY <1>6, <2>2 DEF RemoteSubscribe, Asks, BusTypes
  <2>4. odd' \in SUBSET Oddities
    BY <1>6 DEF RemoteSubscribe, BusTypes, Oddities
  <2>5. asked' \in 0 .. MaxAsks
    BY <1>6, <2>2, BoundAssumption DEF RemoteSubscribe
  <2>6. UNCHANGED <<published, forwards, handle, goodbyes, accepted>>
    BY <1>6 DEF RemoteSubscribe
  <2> QED BY <2>1, <2>3, <2>4, <2>5, <2>6 DEF BusTypes
<1>7. ASSUME NEW s \in Subscribers, RemoteUnSubscribe(s)
      PROVE  BusTypes'
  <2>1. changes' \in Seq(Listeners)
    BY <1>7, ReleasedForSpares DEF RemoteUnSubscribe
  <2>2. UNCHANGED <<published, forwards, handle, asking, asked, goodbyes, accepted, odd>>
    BY <1>7 DEF RemoteUnSubscribe, messages, history
  <2> QED BY <2>1, <2>2 DEF BusTypes
<1>8. ASSUME NEW a \in Asks, HypertyAccepts(a)
      PROVE  BusTypes'
  <2>1. a.of \in Requests /\ a.who \in Subscribers
    BY DEF Asks
  <2>2. changes' \in Seq(Listeners) /\ published' \in BOOLEAN
    <3>1. {a.who} \ subs[a.of] \in SUBSET Subscribers
      BY <2>1
    <3>2. NewSubscriptions(a.of, {a.who} \ subs[a.of])
      BY <1>8 DEF HypertyAccepts
    <3>3. published' \in BOOLEAN
      BY <3>2 DEF NewSubscriptions, BusTypes
    <3> QED BY <2>1, <3>1, <3>2, <3>3, NewSubscriptionsJoin, Zenon
  <2>3. odd' \in SUBSET Oddities
    BY <1>8 DEF HypertyAccepts, GoesOnWith, BusTypes, Oddities
  <2>4. asking' \in SUBSET Asks /\ accepted' \in SUBSET Subscribers
    BY <1>8, <2>1 DEF HypertyAccepts, BusTypes
  <2>5. UNCHANGED <<forwards, handle, asked, goodbyes>>
    BY <1>8 DEF HypertyAccepts
  <2> QED BY <2>2, <2>3, <2>4, <2>5 DEF BusTypes
<1>9. ASSUME NEW a \in Asks, HypertyRefuses(a)
      PROVE  BusTypes'
  BY <1>9 DEF HypertyRefuses, objects, BusTypes
<1>10. CASE Delete
  <2>1. reporter \in Requests /\ ReleaseListeners(reporter)
    BY <1>0, <1>10 DEF Delete, Optional
  <2>2. changes' \in Seq(Listeners)
    BY <2>1, ReleaseListenersSpares
  <2>3. /\ forwards' \in SUBSET Requests
        /\ handle' \in [Requests -> Optional(Requests)]
    BY <2>1 DEF ReleaseListeners, BusTypes, Optional
  <2>4. goodbyes' \in SUBSET Goodbyes
    BY <1>0, <1>10, <2>1 DEF Delete, BusTypes, Goodbyes
  <2>5. UNCHANGED <<published, asking, asked, accepted, odd>>
    BY <1>10 DEF Delete, history
  <2> QED BY <2>2, <2>3, <2>4, <2>5 DEF BusTypes
<1>11. ASSUME NEW g \in Goodbyes, DeliverDelete(g)
      PROVE  BusTypes'
  BY <1>11 DEF DeliverDelete, objects, history, BusTypes
<1>12. CASE Persist
  BY <1>12 DEF Persist, objects, messages, history, BusTypes
<1>13. CASE Restart
  <2>1. /\ changes' = <<>> /\ published' = FALSE /\ forwards' = {}
        /\ handle' = [q \in Requests |-> None]
        /\ asking' = {} /\ goodbyes' = {} /\ odd' = {}
        /\ UNCHANGED <<asked, accepted>>
    BY <1>13 DEF Restart
  <2>2. handle' \in [Requests -> Optional(Requests)]
    BY <2>1 DEF Optional
  <2>3. changes' \in Seq(Listeners)
    BY <2>1
  <2> QED BY <2>1, <2>2, <2>3 DEF BusTypes
<1> QED BY <1>1, <1>2, <1>3, <1>4, <1>5, <1>6, <1>7, <1>8, <1>9, <1>10, <1>11, <1>12, <1>13 DEF Next

\* A ReporterObject is made, and so listens, once.
LEMMA DistinctStep ==
    ASSUME Types, ObjectsAreMade, BusTypes, ListenersAreDistinct, Next
    PROVE  ListenersAreDistinct'
<1>1. ASSUME NEW q \in Requests, Registered(q) \/ ResumeCreate(q)
      PROVE  ListenersAreDistinct'
  <2>1. object[q] = None
    BY <1>1 DEF Registered, ResumeCreate, ObjectsAreMade, Fresh
  <2> QED BY <1>1, <2>1, TakeReporterJoins DEF Registered, ResumeCreate, ListenersAreDistinct
<1>2. CASE Delete
  <2>1. subscribing' = Detach(subscribing, reporter)
    BY <1>2 DEF Delete, ReleaseListeners
  <2>2. subscribing \in Seq(Requests)
    BY DEF Types
  <2> QED BY <2>1, <2>2, DetachDistinct DEF ListenersAreDistinct
<1>3. CASE Restart
  BY <1>3 DEF Restart, ListenersAreDistinct, Distinct
<1>4. ASSUME \/ \E q \in Requests :
                   \/ Create(q) \/ RegistrationFails(q) \/ Stored(q) \/ NodeAccepts(q)
                   \/ NodeRefuses(q) \/ ChildrenRefused(q) \/ Created(q) \/ Resume(q)
                   \/ ResumeFails(q) \/ Resumed(q)
             \/ \E s \in Subscribers : RemoteSubscribe(s) \/ RemoteUnSubscribe(s)
             \/ \E a \in Asks : HypertyAccepts(a) \/ HypertyRefuses(a)
             \/ \E g \in Goodbyes : DeliverDelete(g)
             \/ Persist
      PROVE  ListenersAreDistinct'
  <2>1. subscribing' = subscribing
    BY <1>4 DEF Create, RegistrationFails, Stored, NodeAccepts, NodeRefuses, ChildrenRefused,
       Created, Resume, ResumeFails, Resumed, RemoteSubscribe, RemoteUnSubscribe, HypertyAccepts,
       HypertyRefuses, DeliverDelete, Persist, objects
  <2> QED BY <2>1 DEF ListenersAreDistinct
<1> QED BY <1>1, <1>2, <1>3, <1>4 DEF Next

\* Subscriptions and departures are published ones.
LEMMA PublishedStep ==
    ASSUME Types, ObjectsAreMade, BusTypes, SubscribedArePublished, Next
    PROVE  SubscribedArePublished'
<1>0. /\ subs \in [Requests -> SUBSET Subscribers]
      /\ object \in [Requests -> Optional(Requests)]
      /\ reporter \in Optional(Requests)
  BY DEF Types
<1>1. ASSUME NEW o \in Requests, NEW S, NewSubscriptions(o, S), goodbyes' = goodbyes
      PROVE  SubscribedArePublished'
  <2>1. /\ published' = (published \/ S # {})
        /\ \A q \in Requests : subs'[q] = IF q = o THEN subs[q] \union S ELSE subs[q]
    BY <1>0, <1>1 DEF NewSubscriptions
  <2> QED BY <1>1, <2>1 DEF SubscribedArePublished
<1>2. ASSUME NEW q \in Requests, Resumed(q)
      PROVE  SubscribedArePublished'
  <2>1. object[q] \in Requests
    BY <1>0, <1>2 DEF Resumed, ObjectsAreMade, Resumes, Optional
  <2> QED BY <1>1, <1>2, <2>1 DEF Resumed, messages
<1>3. ASSUME NEW a \in Asks, HypertyAccepts(a)
      PROVE  SubscribedArePublished'
  <2>1. a.of \in Requests
    BY DEF Asks
  <2> QED BY <1>1, <1>3, <2>1 DEF HypertyAccepts
<1>4. CASE Delete
  <2>1. /\ UNCHANGED <<subs, published>>
        /\ goodbyes' = goodbyes \union {[of |-> reporter, left |-> subs[reporter]]}
        /\ reporter \in Requests
    BY <1>0, <1>4 DEF Delete, Optional
  <2> QED BY <2>1 DEF SubscribedArePublished
<1>5. CASE Restart
  BY <1>5 DEF Restart, SubscribedArePublished
<1>6. ASSUME \/ \E q \in Requests :
                   \/ Create(q) \/ RegistrationFails(q) \/ Registered(q) \/ Stored(q)
                   \/ NodeAccepts(q) \/ NodeRefuses(q) \/ ChildrenRefused(q) \/ Created(q)
                   \/ Resume(q) \/ ResumeFails(q) \/ ResumeCreate(q)
             \/ \E s \in Subscribers : RemoteSubscribe(s) \/ RemoteUnSubscribe(s)
             \/ \E a \in Asks : HypertyRefuses(a)
             \/ \E g \in Goodbyes : DeliverDelete(g)
             \/ Persist
      PROVE  SubscribedArePublished'
  <2>1. published' = published /\ goodbyes' \subseteq goodbyes
    BY <1>6 DEF Create, RegistrationFails, Registered, Stored, NodeAccepts, NodeRefuses,
       ChildrenRefused, Created, Resume, ResumeFails, ResumeCreate, RemoteSubscribe,
       RemoteUnSubscribe, HypertyRefuses, DeliverDelete, Persist, objects, messages
  <2>2. \A q \in Requests : subs'[q] \subseteq subs[q]
    BY <1>6 DEF Create, RegistrationFails, Registered, Stored, NodeAccepts, NodeRefuses,
       ChildrenRefused, Created, Resume, ResumeFails, ResumeCreate, RemoteSubscribe,
       RemoteUnSubscribe, HypertyRefuses, DeliverDelete, Persist, objects
  <2> QED BY <2>1, <2>2 DEF SubscribedArePublished
<1> QED BY <1>2, <1>3, <1>4, <1>5, <1>6 DEF Next

\* No step takes a listener off the bus that should stay, as long as each
\* Subscription is released once and nothing goes on with what was deleted.
LEMMA StaysStep ==
    ASSUME Types, ObjectsAreMade, ReporterListens, BusTypes, ListenersAreDistinct,
           SubscribedArePublished, PublisherStays, ListenersStay, Next
    PROVE  PublisherStays' /\ ListenersStay'
<1>0. /\ subs \in [Requests -> SUBSET Subscribers]
      /\ object \in [Requests -> Optional(Requests)]
      /\ found \in [Requests -> Optional(Entries)]
      /\ listed \in [Entries -> SUBSET Subscribers]
      /\ reporter \in Optional(Requests)
      /\ subscribing \in Seq(Requests)
      /\ None \notin Requests
  BY NamesAssumption DEF Types
\* What each case has to show: who listens, or is published, and is there.
<1>1. ASSUME Good' => /\ published' => Occurs(Publisher, changes')
                      /\ \A q \in Requests : Listens(q)' =>
                            /\ Occurs(Recorder(q), changes')
                            /\ \A s \in subs'[q] : Occurs(DeleteListener(q, s), changes')
      PROVE  PublisherStays' /\ ListenersStay'
  <2>1. PublisherStays'
    BY <1>1, Zenon DEF PublisherStays, Publisher
  <2>2. ListenersStay'
    BY <1>1, Zenon DEF ListenersStay, Good, Recorder, DeleteListener
  <2> QED BY <2>1, <2>2
<1>2. Good => /\ published => Occurs(Publisher, changes)
              /\ \A q \in Requests : Listens(q) =>
                    /\ Occurs(Recorder(q), changes)
                    /\ \A s \in subs[q] : Occurs(DeleteListener(q, s), changes)
  BY DEF PublisherStays, ListenersStay, Good
<1>3. ASSUME \/ \E q \in Requests :
                   \/ Create(q) \/ RegistrationFails(q) \/ Stored(q) \/ NodeAccepts(q)
                   \/ NodeRefuses(q) \/ ChildrenRefused(q) \/ Created(q) \/ Resume(q)
                   \/ ResumeFails(q)
             \/ \E a \in Asks : HypertyRefuses(a)
             \/ \E g \in Goodbyes : DeliverDelete(g)
             \/ Persist
      PROVE  PublisherStays' /\ ListenersStay'
  <2>1. UNCHANGED <<subs, subscribing, changes, published>>
    BY <1>3 DEF Create, RegistrationFails, Stored, NodeAccepts, NodeRefuses, ChildrenRefused,
       Created, Resume, ResumeFails, HypertyRefuses, DeliverDelete, Persist, objects
  <2>2. odd \subseteq odd'
    BY <1>3 DEF Create, RegistrationFails, Stored, NodeAccepts, NodeRefuses, ChildrenRefused,
       Created, Resume, ResumeFails, HypertyRefuses, DeliverDelete, Persist, GoesOnWith, history
  <2> QED BY <1>1, <1>2, <2>1, <2>2 DEF Good, Listens
<1>4. ASSUME NEW q \in Requests, Registered(q) \/ ResumeCreate(q)
      PROVE  PublisherStays' /\ ListenersStay'
  <2>1. object[q] = None /\ subs[q] = {}
    BY <1>0, <1>4 DEF Registered, ResumeCreate, ObjectsAreMade, Fresh, Made
  <2>2. UNCHANGED <<subs, published>> /\ TakeReporter(q)
    BY <1>4 DEF Registered, ResumeCreate
  <2>3. /\ \A k : Occurs(k, changes) => Occurs(k, changes')
        /\ \A r \in Requests : Listens(r)' =>
              Listens(r) \/ (r = q /\ Occurs(Recorder(q), changes'))
        /\ Good' => Good
    BY <2>1, <2>2, TakeReporterJoins
  <2>4. ASSUME Good', NEW r \in Requests, Listens(r)'
        PROVE  /\ Occurs(Recorder(r), changes')
               /\ \A s \in subs'[r] : Occurs(DeleteListener(r, s), changes')
    BY <1>2, <2>1, <2>2, <2>3, <2>4
  <2> QED BY <1>1, <1>2, <2>2, <2>3, <2>4
<1>5. ASSUME NEW o \in Requests, NEW S \in SUBSET Subscribers, NewSubscriptions(o, S),
             subscribing' = subscribing, odd \subseteq odd'
      PROVE  PublisherStays' /\ ListenersStay'
  <2>1. /\ published' = (published \/ S # {})
        /\ \A k : Occurs(k, changes) => Occurs(k, changes')
        /\ \A s \in S : Occurs(DeleteListener(o, s), changes')
        /\ S # {} /\ ~published => Occurs(Publisher, changes')
    BY <1>5, NewSubscriptionsJoin
  <2>2. \A q \in Requests : subs'[q] = IF q = o THEN subs[q] \union S ELSE subs[q]
    BY <1>0, <1>5 DEF NewSubscriptions
  <2>3. Good' => Good
    BY <1>5 DEF Good
  <2>4. \A q : Listens(q)' <=> Listens(q)
    BY <1>5 DEF Listens
  <2>5. ASSUME Good', NEW r \in Requests, Listens(r)'
        PROVE  /\ Occurs(Recorder(r), changes')
               /\ \A s \in subs'[r] : Occurs(DeleteListener(r, s), changes')
    BY <1>2, <2>1, <2>2, <2>3, <2>4, <2>5
  <2> QED BY <1>1, <1>2, <2>1, <2>3, <2>5
<1>6. ASSUME NEW q \in Requests, Resumed(q)
      PROVE  PublisherStays' /\ ListenersStay'
  <2>1. object[q] \in Requests /\ found[q] \in Entries
    BY <1>0, <1>6 DEF Resumed, ObjectsAreMade, Resumes, Optional
  <2>2. listed[found[q]] \ subs[object[q]] \in SUBSET Subscribers
    BY <1>0, <2>1
  <2>3. /\ NewSubscriptions(object[q], listed[found[q]] \ subs[object[q]])
        /\ subscribing' = subscribing
        /\ odd \subseteq odd'
    BY <1>6 DEF Resumed
  <2> QED BY <1>5, <2>1, <2>2, <2>3
<1>7. ASSUME NEW a \in Asks, HypertyAccepts(a)
      PROVE  PublisherStays' /\ ListenersStay'
  <2>1. a.of \in Requests /\ {a.who} \ subs[a.of] \in SUBSET Subscribers
    BY DEF Asks
  <2>2. /\ NewSubscriptions(a.of, {a.who} \ subs[a.of])
        /\ subscribing' = subscribing
        /\ odd \subseteq odd'
    BY <1>7 DEF HypertyAccepts, GoesOnWith
  <2> QED BY <1>5, <2>1, <2>2
\* The first time, no ReporterObject that listens has a Subscription to release.
<1>8. ASSUME NEW s \in Subscribers, RemoteSubscribe(s)
      PROVE  PublisherStays' /\ ListenersStay'
  <2>1. /\ changes' = ReleasedFor(s)
        /\ odd' = IF \E q \in Requests : HasSubscription(q, s)
                  THEN odd \union {"again"} ELSE odd
        /\ UNCHANGED <<subs, subscribing, published>>
    BY <1>8 DEF RemoteSubscribe
  <2>2. Good' => Good /\ ~\E q \in Requests : HasSubscription(q, s)
    BY <2>1 DEF Good
  <2>3. Good' => \A k : Occurs(k, changes) => Occurs(k, changes')
    BY <2>1, <2>2, ReleasedForSpares, Zenon
  <2>4. \A q : Listens(q)' <=> Listens(q)
    BY <2>1 DEF Listens
  <2> QED BY <1>1, <1>2, <2>1, <2>2, <2>3, <2>4
<1>9. ASSUME NEW s \in Subscribers, RemoteUnSubscribe(s)
      PROVE  PublisherStays' /\ ListenersStay'
  <2>1. /\ changes' = ReleasedFor(s)
        /\ UNCHANGED <<subscribing, published, odd>>
        /\ \A q \in Requests : subs'[q] = IF Listens(q) THEN subs[q] \ {s} ELSE subs[q]
    BY <1>9 DEF RemoteUnSubscribe, history
  <2>2. (Good' <=> Good) /\ \A q : Listens(q)' <=> Listens(q)
    BY <2>1 DEF Good, Listens
  <2>3. Good => \A q \in Requests :
                   HasSubscription(q, s) => Occurs(DeleteListener(q, s), changes)
    BY <1>2 DEF HasSubscription
  <2>4. Good => \A k : /\ Occurs(k, changes)
                       /\ \A q \in Requests : HasSubscription(q, s) => DeleteListener(q, s) # k
                       => Occurs(k, changes')
    BY <2>1, <2>3, ReleasedForSpares, Zenon
  <2>5. ASSUME Good
        PROVE  /\ published => Occurs(Publisher, changes')
               /\ \A q \in Requests : Listens(q) =>
                     /\ Occurs(Recorder(q), changes')
                     /\ \A t \in subs'[q] : Occurs(DeleteListener(q, t), changes')
    <3>1. published => Occurs(Publisher, changes')
      BY <1>2, <2>4, <2>5, ListenersDiffer
    <3>2. ASSUME NEW q \in Requests, Listens(q)
          PROVE  Occurs(Recorder(q), changes')
      BY <1>2, <2>4, <2>5, <3>2, ListenersDiffer
    <3>3. ASSUME NEW q \in Requests, Listens(q), NEW t \in subs'[q]
          PROVE  Occurs(DeleteListener(q, t), changes')
      <4>1. t \in subs[q] /\ t # s
        BY <2>1, <3>3
      <4>2. \A r : DeleteListener(r, s) # DeleteListener(q, t)
        BY <4>1, ListenersDiffer
      <4> QED BY <1>2, <2>4, <2>5, <3>3, <4>1, <4>2
    <3> QED BY <3>1, <3>2, <3>3
  <2> QED BY <1>1, <2>1, <2>2, <2>5
\* What is deleted listened, with all its listeners.
<1>10. CASE Delete
  <2>1. /\ reporter \in Requests
        /\ ReleaseListeners(reporter)
        /\ subscribing' = Detach(subscribing, reporter)
        /\ UNCHANGED <<subs, published, odd>>
    BY <1>0, <1>10 DEF Delete, ReleaseListeners, Optional, history
  <2>2. Good' <=> Good
    BY <2>1 DEF Good
  <2>3. \A q : Listens(q)' => Listens(q)
    <3>1. \A q : Occurs(q, Detach(subscribing, reporter)) => Occurs(q, subscribing)
      BY <1>0, DetachKeeps
    <3> QED BY <2>1, <3>1 DEF Listens
  <2>4. Good => Listens(reporter)
    BY <2>1, <1>0 DEF Good, ReporterListens
  <2>5. Good => \A q : Listens(q)' => q # reporter
    <3>1. Occurs(reporter, subscribing) => ~Occurs(reporter, Detach(subscribing, reporter))
      BY <1>0, DetachDistinct DEF ListenersAreDistinct
    <3> QED BY <2>1, <2>4, <3>1 DEF Listens
  <2>6. Good => \A k : /\ Occurs(k, changes)
                       /\ k # Recorder(reporter)
                       /\ \A s \in subs[reporter] : k # DeleteListener(reporter, s)
                       => Occurs(k, changes')
    BY <1>2, <2>1, <2>4, ReleaseListenersSpares, Zenon
  <2>7. ASSUME Good, NEW q \in Requests, Listens(q), q # reporter
        PROVE  /\ Occurs(Recorder(q), changes')
               /\ \A s \in subs[q] : Occurs(DeleteListener(q, s), changes')
    <3>1. Occurs(Recorder(q), changes')
      BY <1>2, <2>6, <2>7, ListenersDiffer
    <3>2. ASSUME NEW s \in subs[q]
          PROVE  Occurs(DeleteListener(q, s), changes')
      <4>1. Occurs(DeleteListener(q, s), changes)
        BY <1>2, <2>7
      <4> QED BY <2>6, <2>7, <4>1, ListenersDiffer
    <3> QED BY <3>1, <3>2
  <2>8. Good /\ published => Occurs(Publisher, changes')
    BY <1>2, <2>6, ListenersDiffer
  <2> QED BY <1>1, <2>1, <2>2, <2>3, <2>5, <2>7, <2>8
<1>11. CASE Restart
  BY <1>1, <1>11 DEF Restart, Listens, Occurs
<1> QED BY <1>3, <1>4, <1>6, <1>7, <1>8, <1>9, <1>10, <1>11 DEF Next

\* With one listener at most, none is forgotten by the table and the requests.
LEMMA HeldStep ==
    ASSUME Types, ObjectsAreMade, BackedAreStored, ReporterListens, ListenersAreHeld, Next
    PROVE  ListenersAreHeld'
<1>0. /\ stage \in [Requests -> Stages]
      /\ object \in [Requests -> Optional(Requests)]
      /\ reporter \in Optional(Requests)
      /\ subscribing \in Seq(Requests)
      /\ None \notin Requests
  BY NamesAssumption DEF Types
<1> DEFINE Held(q) == \/ reporter = q
                      \/ \E p \in Requests : object[p] = q /\ stage[p] \in UnderWay \union Failed
\* Unless the table changes, it is enough that requests keep what they hold
\* until they end well.
<1>1. ASSUME odd' = {} => odd = {},
             reporter' = reporter,
             \A q : Listens(q)' => Listens(q),
             \A p \in Requests : /\ object[p] # None => object'[p] = object[p]
                                 /\ stage[p] \in UnderWay \union Failed =>
                                       stage'[p] \in UnderWay \union Failed
      PROVE  ListenersAreHeld'
  <2> SUFFICES ASSUME odd' = {}, NEW q \in Requests, Listens(q)'
               PROVE  Held(q)'
    BY DEF ListenersAreHeld
  <2>1. Held(q)
    BY <1>1 DEF ListenersAreHeld
  <2> QED BY <1>0, <1>1, <2>1
<1>2. ASSUME NEW q \in Requests,
             \/ Create(q) \/ RegistrationFails(q) \/ Stored(q) \/ NodeAccepts(q)
             \/ NodeRefuses(q) \/ ChildrenRefused(q) \/ Resume(q) \/ ResumeFails(q)
      PROVE  ListenersAreHeld'
  <2>1. UNCHANGED <<object, reporter, subscribing>>
    BY <1>2 DEF Create, RegistrationFails, Stored, NodeAccepts, NodeRefuses, ChildrenRefused,
       Resume, ResumeFails, objects
  <2>2. odd \subseteq odd'
    BY <1>2 DEF Create, RegistrationFails, Stored, NodeAccepts, NodeRefuses, ChildrenRefused,
       Resume, ResumeFails, GoesOnWith, history
  <2>3. \A p \in Requests : stage[p] \in UnderWay \union Failed =>
                               stage'[p] \in UnderWay \union Failed
    BY <1>0, <1>2 DEF Create, RegistrationFails, Stored, NodeAccepts, NodeRefuses,
       ChildrenRefused, Resume, ResumeFails, UnderWay, Failed, Creating, Resuming
  <2> QED BY <1>1, <2>1, <2>2, <2>3 DEF Listens
<1>3. ASSUME NEW q \in Requests, Registered(q) \/ ResumeCreate(q)
      PROVE  ListenersAreHeld'
  <2>1. object[q] = None
    BY <1>3 DEF Registered, ResumeCreate, ObjectsAreMade, Fresh
  <2>2. TakeReporter(q) /\ reporter' = reporter
    BY <1>3 DEF Registered, ResumeCreate
  <2>3. /\ \A r \in Requests \ {q} : object'[r] = object[r]
        /\ \A r \in Requests : Listens(r)' => Listens(r) \/ (reporter = None /\ r = q)
        /\ odd \subseteq odd'
    BY <2>1, <2>2, TakeReporterMakes
  <2>4. \A p \in Requests : stage[p] \in UnderWay \union Failed =>
                               stage'[p] \in UnderWay \union Failed
    BY <1>0, <1>3 DEF Registered, ResumeCreate, UnderWay, Failed, Creating, Resuming
  <2>5. stage'[q] \in UnderWay
    BY <1>0, <1>3 DEF Registered, ResumeCreate, UnderWay, Creating, Resuming
  <2>6. reporter = None => object'[q] = q
    BY <1>0, <2>2 DEF TakeReporter, NewReporterObject
  <2> SUFFICES ASSUME odd' = {}, NEW r \in Requests, Listens(r)'
               PROVE  Held(r)'
    BY DEF ListenersAreHeld
  <2>7. CASE Listens(r)
    <3>1. Held(r)
      BY <2>3, <2>7 DEF ListenersAreHeld
    <3> QED BY <1>0, <2>1, <2>2, <2>3, <2>4, <3>1
  <2>8. CASE reporter = None /\ r = q
    BY <2>5, <2>6, <2>8
  <2> QED BY <2>3, <2>7, <2>8
<1>4. ASSUME NEW q \in Requests, Created(q) \/ Resumed(q)
      PROVE  ListenersAreHeld'
  <2>1. /\ reporter' = object[q] /\ subscribing' = subscribing
        /\ odd' = {} => odd = {} /\ Listens(object[q])
    BY <1>4 DEF Created, Resumed, GoesOnWith
  <2> SUFFICES ASSUME odd' = {}, NEW r \in Requests, Listens(r)'
               PROVE  r = object[q]
    BY <2>1 DEF ListenersAreHeld
  <2>2. Len(subscribing) <= 1
    BY <2>1 DEF BackedAreStored
  <2> QED BY <1>0, <2>1, <2>2 DEF Listens, Occurs
<1>5. ASSUME \/ \E s \in Subscribers : RemoteSubscribe(s) \/ RemoteUnSubscribe(s)
             \/ \E a \in Asks : HypertyAccepts(a) \/ HypertyRefuses(a)
             \/ \E g \in Goodbyes : DeliverDelete(g)
             \/ Persist
      PROVE  ListenersAreHeld'
  <2>1. UNCHANGED <<stage, object, reporter, subscribing>>
    BY <1>5 DEF RemoteSubscribe, RemoteUnSubscribe, HypertyAccepts, HypertyRefuses, DeliverDelete,
       Persist, objects
  <2>2. odd \subseteq odd'
    BY <1>5 DEF RemoteSubscribe, RemoteUnSubscribe, HypertyAccepts, HypertyRefuses, DeliverDelete,
       Persist, GoesOnWith, history
  <2> QED BY <1>1, <2>1, <2>2 DEF Listens
<1>6. CASE Delete
  <2>1. odd' = odd /\ subscribing' = Detach(subscribing, reporter)
    BY <1>6 DEF Delete, ReleaseListeners, history
  <2>2. odd = {} => Len(subscribing) <= 1
    BY DEF BackedAreStored
  <2>3. odd = {} => Len(subscribing') = 0
    BY <1>0, <2>1, <2>2, DetachKeeps
  <2> QED BY <2>1, <2>3 DEF ListenersAreHeld, Listens, Occurs
<1>7. CASE Restart
  BY <1>7 DEF Restart, ListenersAreHeld, Listens, Occurs
<1> QED BY <1>2, <1>3, <1>4, <1>5, <1>6, <1>7 DEF Next

\* Forwards and their handles.
LEMMA ForwardsStep ==
    ASSUME Types, ObjectsAreMade, BackedAreStored, ReporterListens, BusTypes,
           ForwardsHaveHandles, HandlesAreHeld, Next
    PROVE  ForwardsHaveHandles' /\ HandlesAreHeld'
<1>0. /\ object \in [Requests -> Optional(Requests)]
      /\ reporter \in Optional(Requests)
      /\ subscribing \in Seq(Requests)
      /\ handle \in [Requests -> Optional(Requests)]
      /\ forwards \subseteq Requests
      /\ None \notin Requests
  BY NamesAssumption DEF Types, BusTypes
<1>1. ASSUME UNCHANGED <<object, handle, forwards>>, odd' = {} => odd = {},
             \A o \in Requests : Listens(o) => Listens(o)'
      PROVE  ForwardsHaveHandles' /\ HandlesAreHeld'
  BY <1>1 DEF ForwardsHaveHandles, HandlesAreHeld
<1>2. ASSUME \/ \E q \in Requests :
                   \/ Create(q) \/ RegistrationFails(q) \/ Stored(q) \/ NodeRefuses(q)
                   \/ ChildrenRefused(q) \/ Created(q) \/ Resume(q) \/ ResumeFails(q)
                   \/ Resumed(q)
             \/ \E s \in Subscribers : RemoteSubscribe(s) \/ RemoteUnSubscribe(s)
             \/ \E a \in Asks : HypertyAccepts(a) \/ HypertyRefuses(a)
             \/ \E g \in Goodbyes : DeliverDelete(g)
             \/ Persist
      PROVE  ForwardsHaveHandles' /\ HandlesAreHeld'
  <2>1. UNCHANGED <<object, handle, forwards, subscribing>>
    BY <1>2 DEF Create, RegistrationFails, Stored, NodeRefuses, ChildrenRefused, Created, Resume,
       ResumeFails, Resumed, RemoteSubscribe, RemoteUnSubscribe, HypertyAccepts, HypertyRefuses,
       DeliverDelete, Persist, objects
  <2>2. odd \subseteq odd'
    BY <1>2 DEF Create, RegistrationFails, Stored, NodeRefuses, ChildrenRefused, Created, Resume,
       ResumeFails, Resumed, RemoteSubscribe, RemoteUnSubscribe, HypertyAccepts, HypertyRefuses,
       DeliverDelete, Persist, GoesOnWith, history
  <2> QED BY <1>1, <2>1, <2>2 DEF Listens
<1>3. ASSUME NEW q \in Requests, Registered(q) \/ ResumeCreate(q)
      PROVE  ForwardsHaveHandles' /\ HandlesAreHeld'
  <2>1. object[q] = None
    BY <1>3 DEF Registered, ResumeCreate, ObjectsAreMade, Fresh
  <2>2. TakeReporter(q) /\ UNCHANGED <<forwards, handle>>
    BY <1>3 DEF Registered, ResumeCreate
  <2>3. /\ \A r \in Requests \ {q} : object'[r] = object[r]
        /\ \A r \in Requests : Listens(r) => Listens(r)'
        /\ odd \subseteq odd'
    BY <2>1, <2>2, TakeReporterMakes
  <2>4. ForwardsHaveHandles'
    <3> SUFFICES ASSUME NEW f \in forwards
                 PROVE  /\ object'[f] # None
                        /\ \/ handle[object'[f]] = f
                           \/ \E p \in Requests \ {f} : object'[p] = object'[f]
      BY <2>2 DEF ForwardsHaveHandles
    <3>1. /\ object[f] # None
          /\ \/ handle[object[f]] = f
             \/ \E p \in Requests \ {f} : object[p] = object[f]
      BY DEF ForwardsHaveHandles
    <3>2. object'[f] = object[f]
      BY <1>0, <2>1, <2>3, <3>1
    <3>3. \A p \in Requests : object[p] = object[f] => object'[p] = object[p]
      BY <2>1, <2>3, <3>1
    <3> QED BY <3>1, <3>2, <3>3
  <2>5. HandlesAreHeld'
    BY <2>2, <2>3 DEF HandlesAreHeld
  <2> QED BY <2>4, <2>5
<1>4. ASSUME NEW q \in Requests, NodeAccepts(q)
      PROVE  ForwardsHaveHandles' /\ HandlesAreHeld'
  <2>1. object[q] \in Requests
    BY <1>0, <1>4 DEF NodeAccepts, ObjectsAreMade, Creates, Resumes, Optional
  <2>2. /\ forwards' = forwards \union {q}
        /\ \A o \in Requests : handle'[o] = IF o = object[q] THEN q ELSE handle[o]
        /\ UNCHANGED <<object, subscribing>>
        /\ odd' = {} => odd = {} /\ Listens(object[q])
    BY <1>0, <1>4 DEF NodeAccepts, GoesOnWith
  <2>3. ForwardsHaveHandles'
    <3> SUFFICES ASSUME NEW f \in forwards \union {q}
                 PROVE  /\ object[f] # None
                        /\ \/ handle'[object[f]] = f
                           \/ \E p \in Requests \ {f} : object[p] = object[f]
      BY <2>2 DEF ForwardsHaveHandles
    <3>1. CASE f = q
      BY <1>0, <2>1, <2>2, <3>1
    <3>2. CASE f # q /\ object[f] = object[q]
      BY <1>0, <2>1, <3>2
    <3>3. CASE f # q /\ object[f] # object[q]
      <4>1. /\ object[f] # None
            /\ \/ handle[object[f]] = f
               \/ \E p \in Requests \ {f} : object[p] = object[f]
        BY <3>3 DEF ForwardsHaveHandles
      <4>2. object[f] \in Requests
        BY <1>0, <3>3, <4>1 DEF Optional
      <4> QED BY <2>2, <3>3, <4>1, <4>2
    <3> QED BY <3>1, <3>2, <3>3
  <2>4. HandlesAreHeld'
    BY <2>1, <2>2 DEF HandlesAreHeld, Listens
  <2> QED BY <2>3, <2>4
<1>5. CASE Delete
  <2>1. /\ reporter \in Requests
        /\ subscribing' = Detach(subscribing, reporter)
        /\ forwards' = forwards \ {handle[reporter]}
        /\ \A o \in Requests : handle'[o] = IF o = reporter THEN None ELSE handle[o]
        /\ UNCHANGED <<object, odd>>
    BY <1>0, <1>5 DEF Delete, ReleaseListeners, Optional, history
  <2>2. ForwardsHaveHandles'
    <3> SUFFICES ASSUME NEW f \in forwards \ {handle[reporter]}
                 PROVE  /\ object[f] # None
                        /\ \/ handle'[object[f]] = f
                           \/ \E p \in Requests \ {f} : object[p] = object[f]
      BY <2>1 DEF ForwardsHaveHandles
    <3>1. /\ object[f] # None
          /\ \/ handle[object[f]] = f
             \/ \E p \in Requests \ {f} : object[p] = object[f]
      BY DEF ForwardsHaveHandles
    <3>2. object[f] \in Requests
      BY <1>0, <3>1 DEF Optional
    <3> QED BY <2>1, <3>1, <3>2
  \* If the table's ReporterObject listens, no other one does.
  <2>3. HandlesAreHeld'
    <3> SUFFICES ASSUME odd = {}, NEW o \in Requests, handle'[o] # None
                 PROVE  FALSE
      BY <2>1 DEF HandlesAreHeld
    <3>1. o # reporter /\ Listens(o)
      BY <2>1 DEF HandlesAreHeld
    <3>2. Listens(reporter) /\ Len(subscribing) <= 1
      BY <1>0, <2>1 DEF ReporterListens, BackedAreStored
    <3> QED BY <1>0, <3>1, <3>2 DEF Listens, Occurs
  <2> QED BY <2>2, <2>3
<1>6. CASE Restart
  BY <1>6 DEF Restart, ForwardsHaveHandles, HandlesAreHeld
<1> QED BY <1>2, <1>3, <1>4, <1>5, <1>6 DEF Next

-----------------------------------------------------------------------------
(* The theorems.                                                           *)

LEMMA InitBusInv ==
    Init => BusInv
<1> SUFFICES ASSUME Init PROVE BusInv
  OBVIOUS
<1> USE DEF Init
<1>1. BusTypes
  <2>1. 0 \in 0 .. MaxAsks
    BY BoundAssumption
  <2>2. changes \in Seq(Listeners) /\ handle \in [Requests -> Optional(Requests)]
    BY DEF Optional
  <2> QED BY <2>1, <2>2 DEF BusTypes
<1>2. /\ ListenersAreDistinct /\ SubscribedArePublished /\ PublisherStays /\ ListenersStay
      /\ ListenersAreHeld /\ ForwardsHaveHandles /\ HandlesAreHeld
  BY DEF ListenersAreDistinct, Distinct, SubscribedArePublished, PublisherStays, ListenersStay,
     ListenersAreHeld, ForwardsHaveHandles, HandlesAreHeld, Listens, Occurs
<1> QED BY <1>1, <1>2 DEF BusInv

LEMMA BusInvIsInductive ==
    IInv /\ BusInv /\ [Next]_vars => BusInv'
<1> SUFFICES ASSUME IInv, BusInv, [Next]_vars PROVE BusInv'
  OBVIOUS
<1> USE DEF IInv, BusInv
<1>1. CASE Next
  BY <1>1, BusTypesStep, DistinctStep, PublishedStep, StaysStep, HeldStep, ForwardsStep, Zenon
<1>2. CASE UNCHANGED vars
  <2> USE <1>2 DEF vars, objects, messages, stored, history
  <2>1. BusTypes' /\ ListenersAreDistinct' /\ SubscribedArePublished'
    BY DEF BusTypes, ListenersAreDistinct, SubscribedArePublished
  <2>2. PublisherStays' /\ ListenersStay'
    BY DEF PublisherStays, ListenersStay, Good, Listens
  <2>3. ListenersAreHeld' /\ ForwardsHaveHandles' /\ HandlesAreHeld'
    BY DEF ListenersAreHeld, ForwardsHaveHandles, HandlesAreHeld, Listens
  <2> QED BY <2>1, <2>2, <2>3
<1> QED BY <1>1, <1>2

\* What is on the bus stays as the invariant says, in every reachable state.
THEOREM ReportersBusInvariant ==
    Spec => [](IInv /\ BusInv)
<1>1. Init => IInv /\ BusInv
  BY InitIInv, InitBusInv
<1>2. (IInv /\ BusInv) /\ [Next]_vars => (IInv /\ BusInv)'
  BY IInvIsInductive, BusInvIsInductive
<1> QED BY <1>1, <1>2, PTL DEF Spec

\* Every variable of the manager, the bus and the store has its type, the
\* listener lists included, whatever is released in whatever order.
THEOREM ReportersTypeCorrect ==
    Spec => []TypeOK
<1>1. IInv /\ BusInv => TypeOK
  BY DEF IInv, Types, BusInv, BusTypes, TypeOK
<1> QED BY <1>1, ReportersBusInvariant, PTL

\* A ReporterObject that gets subscriptions has its recorder and the delete
\* listeners of all its Subscriptions on the bus, unless one was released twice or
\* after its object was deleted.
THEOREM ReportersListenersStay ==
    Spec => []ListenersStay
<1>1. IInv /\ BusInv => ListenersStay
  BY DEF BusInv
<1> QED BY <1>1, ReportersBusInvariant, PTL

\* With the same exceptions, the changes of an object that somebody is subscribed
\* to are published.
THEOREM ReportersChangesArePublished ==
    Spec => []ChangesArePublished
<1>1. IInv /\ BusInv => ChangesArePublished
  BY DEF BusInv, PublisherStays, SubscribedArePublished, Good, ChangesArePublished
<1> QED BY <1>1, ReportersBusInvariant, PTL

\* With the same exceptions, a delete that was sent while somebody was subscribed
\* finds the listener that publishes it, although its object was released before.
THEOREM ReportersDeleteReachesObservers ==
    Spec => []DeleteReachesObservers
<1>1. IInv /\ BusInv => DeleteReachesObservers
  BY DEF BusInv, PublisherStays, SubscribedArePublished, Good, DeleteReachesObservers
<1> QED BY <1>1, ReportersBusInvariant, PTL

\* Nothing listens or forwards for ever, but what a failed request left behind or
\* the forward whose handle another request took.
THEOREM ReportersNothingIsOrphaned ==
    Spec => []NothingIsOrphaned
<1>1. IInv /\ BusInv => NothingIsOrphaned
  <2> SUFFICES ASSUME IInv, BusInv, odd = {}
               PROVE  /\ \A q \in Requests : Listens(q) =>
                            \/ reporter = q
                            \/ \E p \in Requests :
                                  object[p] = q /\ stage[p] \in UnderWay \union Failed
                      /\ \A f \in forwards : ~Listens(object[f]) =>
                            \E p \in Requests \ {f} : object[p] = object[f]
    BY DEF NothingIsOrphaned
  <2>1. ASSUME NEW f \in forwards, ~Listens(object[f])
        PROVE  \E p \in Requests \ {f} : object[p] = object[f]
    <3>1. f \in Requests /\ f # None /\ object[f] \in Optional(Requests)
      BY NamesAssumption DEF IInv, Types, BusInv, BusTypes
    <3>2. /\ object[f] # None
          /\ \/ handle[object[f]] = f
             \/ \E p \in Requests \ {f} : object[p] = object[f]
      BY DEF BusInv, ForwardsHaveHandles
    <3>3. object[f] \in Requests
      BY <3>1, <3>2 DEF Optional
    <3>4. handle[object[f]] # None => Listens(object[f])
      BY <3>3 DEF BusInv, HandlesAreHeld
    <3> QED BY <2>1, <3>1, <3>2, <3>4
  <2> QED BY <2>1 DEF BusInv, ListenersAreHeld
<1> QED BY <1>1, ReportersBusInvariant, PTL
=============================================================================
