----------------------- MODULE SyncherObservers_proofs -----------------------
(***************************************************************************)
(* Proofs about SyncherObservers, for any hyperties, domains and requests. *)
(* The inductive invariant is the conjunction of the checked invariants    *)
(* with what a pending resumption inherits from the entry it was found in. *)
(***************************************************************************)
EXTENDS SyncherObservers, SequenceTheorems, TLAPS

\* The reporter accepted a hyperty of h's domain.
VouchedFor(h) == \E g \in accepted : DomainOf[g] = DomainOf[h]

\* The entry a resumption was found in may be gone when its descriptor comes,
\* but it listed a hyperty of the same domain.
ResumingAreVouchedFor ==
    \A q \in Requests : stage[q] = "resuming" => VouchedFor(sender[q])

IInv ==
    /\ TypeOK
    /\ StoredAreAccepted
    /\ ResumingAreVouchedFor
    /\ FeedsAreVouchedFor
    /\ OneSubscriptionEach
    /\ SubscribedAreStored

-----------------------------------------------------------------------------
(* The listener list.                                                      *)

\* small holds nothing that large does not.
Within(small, large) ==
    \A i \in 1 .. Len(small) : \E j \in 1 .. Len(large) : small[i] = large[j]

\* Taking an element out of a list moves those behind it up by one.
LEMMA WithoutIndexElements ==
    ASSUME NEW list \in Seq(Listeners), NEW i \in 1 .. Len(list)
    PROVE  /\ WithoutIndex(list, i) \in Seq(Listeners)
           /\ Len(WithoutIndex(list, i)) = Len(list) - 1
           /\ \A k \in 1 .. Len(list) - 1 :
                 WithoutIndex(list, i)[k] = IF k <= i - 1 THEN list[k] ELSE list[k + 1]
<1> DEFINE left == SubSeq(list, 1, i - 1)
           right == SubSeq(list, i + 1, Len(list))
<1>0. Len(list) \in Nat /\ i \in Nat
  OBVIOUS
<1>1. /\ left \in Seq(Listeners)
      /\ Len(left) = i - 1
      /\ \A k \in 1 .. i - 1 : left[k] = list[k]
  <2>1. \A k \in 1 .. i - 1 : list[k] \in Listeners
    BY <1>0
  <2>2. /\ left \in Seq(Listeners)
        /\ Len(left) = IF 1 <= i - 1 THEN (i - 1) - 1 + 1 ELSE 0
        /\ \A k \in 1 .. (i - 1) - 1 + 1 : left[k] = list[1 + k - 1]
    BY <1>0, <2>1, SubSeqProperties
  <2> QED BY <1>0, <2>2
<1>2. /\ right \in Seq(Listeners)
      /\ Len(right) = Len(list) - i
      /\ \A k \in 1 .. Len(list) - i : right[k] = list[i + k]
  <2>1. \A k \in i + 1 .. Len(list) : list[k] \in Listeners
    BY <1>0
  <2>2. /\ right \in Seq(Listeners)
        /\ Len(right) = IF i + 1 <= Len(list) THEN Len(list) - (i + 1) + 1 ELSE 0
        /\ \A k \in 1 .. Len(list) - (i + 1) + 1 : right[k] = list[i + 1 + k - 1]
    BY <1>0, <2>1, SubSeqProperties
  <2> QED BY <1>0, <2>2
<1> HIDE DEF left, right
<1>3. /\ left \o right \in Seq(Listeners)
      /\ Len(left \o right) = Len(list) - 1
      /\ \A k \in 1 .. Len(list) - 1 :
            (left \o right)[k] = IF k <= i - 1 THEN left[k] ELSE right[k - (i - 1)]
  <2>1. left \in Seq(Listeners) /\ right \in Seq(Listeners)
    BY <1>1, <1>2
  <2>2. /\ left \o right \in Seq(Listeners)
        /\ Len(left \o right) = Len(left) + Len(right)
        /\ \A k \in 1 .. Len(left) + Len(right) :
              (left \o right)[k] = IF k <= Len(left) THEN left[k] ELSE right[k - Len(left)]
    BY <2>1, ConcatProperties, Zenon
  <2>3. Len(left) + Len(right) = Len(list) - 1
    BY <1>0, <1>1, <1>2
  <2> QED BY <1>1, <2>2, <2>3, Zenon
<1>4. ASSUME NEW k \in 1 .. Len(list) - 1
      PROVE  (left \o right)[k] = IF k <= i - 1 THEN list[k] ELSE list[k + 1]
  <2>1. CASE k <= i - 1
    BY <1>0, <1>1, <1>3, <2>1
  <2>2. CASE k > i - 1
    <3>1. ~(k <= i - 1) /\ k - (i - 1) \in 1 .. Len(list) - i
          /\ i + (k - (i - 1)) = k + 1
      BY <1>0, <2>2
    <3>2. (left \o right)[k] = right[k - (i - 1)]
      BY <1>3, <3>1
    <3>3. right[k - (i - 1)] = list[k + 1]
      BY <1>2, <3>1
    <3> QED BY <3>1, <3>2, <3>3
  <2>3. k <= i - 1 \/ k > i - 1
    BY <1>0
  <2> QED BY <2>1, <2>2, <2>3, Zenon
<1>5. WithoutIndex(list, i) = left \o right
  BY DEF WithoutIndex, left, right
<1> QED BY <1>3, <1>4, <1>5

\* Taking an element out of a list adds none.
LEMMA WithoutIndexWithin ==
    ASSUME NEW list \in Seq(Listeners), NEW i \in 1 .. Len(list)
    PROVE  /\ WithoutIndex(list, i) \in Seq(Listeners)
           /\ Within(WithoutIndex(list, i), list)
<1> DEFINE rest == WithoutIndex(list, i)
<1>1. /\ rest \in Seq(Listeners)
      /\ Len(rest) = Len(list) - 1
      /\ \A k \in 1 .. Len(list) - 1 : rest[k] = IF k <= i - 1 THEN list[k] ELSE list[k + 1]
  BY WithoutIndexElements
<1>2. Len(list) \in Nat /\ i \in Nat
  OBVIOUS
<1> HIDE DEF rest
<1>3. ASSUME NEW k \in 1 .. Len(rest)
      PROVE  \E j \in 1 .. Len(list) : rest[k] = list[j]
  <2>1. k \in 1 .. Len(list) /\ k + 1 \in 1 .. Len(list) /\ k \in 1 .. Len(list) - 1
    BY <1>1, <1>2
  <2> QED BY <1>1, <2>1
<1> QED BY <1>1, <1>3 DEF Within, rest

\* ... and it takes no other away.
LEMMA WithoutIndexSpares ==
    ASSUME NEW list \in Seq(Listeners), NEW i \in 1 .. Len(list), NEW l,
           Occurs(l, list), list[i] # l
    PROVE  Occurs(l, WithoutIndex(list, i))
<1> DEFINE rest == WithoutIndex(list, i)
<1>1. /\ Len(rest) = Len(list) - 1
      /\ \A k \in 1 .. Len(list) - 1 : rest[k] = IF k <= i - 1 THEN list[k] ELSE list[k + 1]
  BY WithoutIndexElements
<1>2. Len(list) \in Nat /\ i \in Nat
  OBVIOUS
<1>3. PICK j \in 1 .. Len(list) : list[j] = l
  BY DEF Occurs
<1> HIDE DEF rest
<1>4. CASE j < i
  <2>1. j \in 1 .. Len(list) - 1 /\ j <= i - 1
    BY <1>2, <1>4
  <2> QED BY <1>1, <1>3, <2>1 DEF Occurs, rest
<1>5. CASE j > i
  <2>1. j - 1 \in 1 .. Len(list) - 1 /\ ~(j - 1 <= i - 1) /\ (j - 1) + 1 = j
    BY <1>2, <1>5
  <2>2. rest[j - 1] = l
    BY <1>1, <1>3, <2>1
  <2> QED BY <1>1, <2>1, <2>2 DEF Occurs, rest
<1>6. j < i \/ j > i
  BY <1>2, <1>3
<1> QED BY <1>4, <1>5, <1>6

\* Neither does removing a listener, in the list or not.
LEMMA RemoveWithin ==
    ASSUME NEW list \in Seq(Listeners), NEW l
    PROVE  /\ Remove(list, l) \in Seq(Listeners)
           /\ Within(Remove(list, l), list)
<1>1. CASE Occurs(l, list)
  <2>1. PICK i \in 1 .. Len(list) :
           i = CHOOSE j \in 1 .. Len(list) : list[j] = l
    BY <1>1 DEF Occurs
  <2>2. Remove(list, l) = WithoutIndex(list, i)
    BY <1>1, <2>1 DEF Remove
  <2> QED BY <2>2, WithoutIndexWithin
<1>2. CASE ~Occurs(l, list) /\ list = <<>>
  BY <1>2 DEF Remove, Within
<1>3. CASE ~Occurs(l, list) /\ list # <<>>
  <2>1. Len(list) \in 1 .. Len(list)
    BY <1>3
  <2>2. Remove(list, l) = WithoutIndex(list, Len(list))
    BY <1>3 DEF Remove
  <2> QED BY <2>1, <2>2, WithoutIndexWithin
<1> QED BY <1>1, <1>2, <1>3

\* Nor does releasing a Subscription, once or twice.
LEMMA ReleaseWithin ==
    ASSUME NEW list \in Seq(Listeners), NEW q
    PROVE  /\ Release(list, q) \in Seq(Listeners)
           /\ Within(Release(list, q), list)
<1> DEFINE once == Remove(list, DeleteListener(q))
<1>1. once \in Seq(Listeners) /\ Within(once, list)
  BY RemoveWithin
<1> HIDE DEF once
<1>2. /\ Remove(once, Forwarder(q)) \in Seq(Listeners)
      /\ Within(Remove(once, Forwarder(q)), once)
  BY <1>1, RemoveWithin
<1>3. Release(list, q) = Remove(once, Forwarder(q))
  BY DEF Release, once
<1> QED BY <1>1, <1>2, <1>3 DEF Within

\* A departure leaves a part of the bus's list.
LEMMA RemoveSubscriptionWithin ==
    ASSUME TypeOK, NEW h
    PROVE  /\ RemoveSubscription(h) \in Seq(Listeners)
           /\ Within(RemoveSubscription(h), listeners)
<1>1. listeners \in Seq(Listeners)
  BY DEF TypeOK
<1>2. CASE \E q \in table : sender[q] = h
  <2>1. RemoveSubscription(h) =
           Release(listeners, CHOOSE q \in table : sender[q] = h)
    BY <1>2 DEF RemoveSubscription
  <2> QED BY <1>1, <2>1, ReleaseWithin
<1>3. CASE ~\E q \in table : sender[q] = h
  BY <1>1, <1>3 DEF RemoveSubscription, Within
<1> QED BY <1>2, <1>3

\* A list with nothing new in it feeds nobody who was not vouched for.
LEMMA WithinKeepsFeeds ==
    ASSUME TypeOK, FeedsAreVouchedFor, Within(listeners', listeners),
           sender' = sender, accepted \subseteq accepted'
    PROVE  FeedsAreVouchedFor'
BY DEF TypeOK, FeedsAreVouchedFor, Within

\* The recorder and the two listeners of a Subscription are added at the end.
LEMMA AddedListeners ==
    ASSUME TypeOK, NEW q \in Requests
    PROVE  LET first  == WithObserver(q)
               second == NewSubscription(first, q)
           IN  /\ first \in Seq(Listeners)
               /\ second \in Seq(Listeners)
               /\ \A i \in 1 .. Len(first) :
                     \/ \E j \in 1 .. Len(listeners) : first[i] = listeners[j]
                     \/ first[i] = Recorder(q)
               /\ \A i \in 1 .. Len(second) :
                     \/ \E j \in 1 .. Len(listeners) : second[i] = listeners[j]
                     \/ second[i] \in {Recorder(q), DeleteListener(q), Forwarder(q)}
<1> DEFINE first == WithObserver(q)
           pair == <<DeleteListener(q), Forwarder(q)>>
<1>1. /\ Recorder(q) \in Listeners
      /\ DeleteListener(q) \in Listeners
      /\ Forwarder(q) \in Listeners
  BY DEF Recorder, DeleteListener, Forwarder, Listeners, Roles
<1>2. /\ first \in Seq(Listeners)
      /\ \A i \in 1 .. Len(first) :
            \/ \E j \in 1 .. Len(listeners) : first[i] = listeners[j]
            \/ first[i] = Recorder(q)
  <2>1. listeners \in Seq(Listeners)
    BY DEF TypeOK
  <2>2. CASE observer = None
    <3>1. first = Append(listeners, Recorder(q))
      BY <2>2 DEF WithObserver
    <3> HIDE DEF first
    <3> QED BY <1>1, <2>1, <3>1
  <2>3. CASE observer # None
    BY <2>1, <2>3 DEF WithObserver
  <2> QED BY <2>2, <2>3
<1>3. pair \in Seq(Listeners) /\ Len(pair) = 2
      /\ pair[1] = DeleteListener(q) /\ pair[2] = Forwarder(q)
  BY <1>1
<1> HIDE DEF first, pair
<1>4. /\ first \o pair \in Seq(Listeners)
      /\ Len(first \o pair) = Len(first) + 2
      /\ \A i \in 1 .. Len(first) + 2 :
            (first \o pair)[i] = IF i <= Len(first) THEN first[i] ELSE pair[i - Len(first)]
  <2>1. first \in Seq(Listeners) /\ pair \in Seq(Listeners)
    BY <1>2, <1>3
  <2>2. /\ first \o pair \in Seq(Listeners)
        /\ Len(first \o pair) = Len(first) + Len(pair)
        /\ \A i \in 1 .. Len(first) + Len(pair) :
              (first \o pair)[i] = IF i <= Len(first) THEN first[i] ELSE pair[i - Len(first)]
    BY <2>1, ConcatProperties, Zenon
  <2> QED BY <1>3, <2>2, Zenon
<1>5. ASSUME NEW i \in 1 .. Len(first) + 2
      PROVE  \/ \E j \in 1 .. Len(listeners) : (first \o pair)[i] = listeners[j]
             \/ (first \o pair)[i] \in {Recorder(q), DeleteListener(q), Forwarder(q)}
  <2>0. Len(first) \in Nat
    BY <1>2
  <2>1. CASE i <= Len(first)
    <3>1. (first \o pair)[i] = first[i] /\ i \in 1 .. Len(first)
      BY <1>4, <2>0, <2>1
    <3> QED BY <1>2, <3>1
  <2>2. CASE i = Len(first) + 1
    <3>1. i - Len(first) = 1 /\ ~(i <= Len(first))
      BY <2>0, <2>2
    <3>2. (first \o pair)[i] = pair[1]
      BY <1>4, <3>1
    <3> QED BY <1>3, <3>2
  <2>3. CASE i = Len(first) + 2
    <3>1. i - Len(first) = 2 /\ ~(i <= Len(first))
      BY <2>0, <2>3
    <3>2. (first \o pair)[i] = pair[2]
      BY <1>4, <3>1
    <3> QED BY <1>3, <3>2
  <2>4. i <= Len(first) \/ i = Len(first) + 1 \/ i = Len(first) + 2
    BY <2>0
  <2> QED BY <2>1, <2>2, <2>3, <2>4, Zenon
<1>6. NewSubscription(WithObserver(q), q) = first \o pair
  BY DEF NewSubscription, first, pair
<1>7. first = WithObserver(q)
  BY DEF first
<1> QED BY <1>2, <1>4, <1>5, <1>6, <1>7
-----------------------------------------------------------------------------
(* The inductive invariant.                                                *)

LEMMA InitEstablishesIInv == Init => IInv
<1> SUFFICES ASSUME Init PROVE IInv
  OBVIOUS
<1>1. <<>> \in Seq(Listeners) /\ Len(<<>>) = 0
  OBVIOUS
<1>2. TypeOK
  BY <1>1 DEF Init, TypeOK, Stages
<1>3. FeedsAreVouchedFor
  BY <1>1 DEF Init, FeedsAreVouchedFor
<1> QED BY <1>2, <1>3
        DEF Init, IInv, StoredAreAccepted, ResumingAreVouchedFor,
            OneSubscriptionEach, SubscribedAreStored

\* A step that only moves a request along, and makes it neither resume nor
\* count as subscribed, keeps the invariant.
LEMMA MovingKeepsIInv ==
    ASSUME IInv, NEW q \in Requests, NEW s \in Stages \ {"resuming", "subscribed"},
           stage' = [stage EXCEPT ![q] = s],
           UNCHANGED <<sender, observer, table, listeners, closing, deleted,
                       stored, disk, accepted>>
    PROVE  IInv'
BY DEF IInv, TypeOK, StoredAreAccepted, ResumingAreVouchedFor, VouchedFor,
       FeedsAreVouchedFor, OneSubscriptionEach, SubscribedAreStored

\* AddSubscription adds listeners for the hyperty of q only, and q itself to the
\* table only if no other Subscription of that hyperty is there.
LEMMA AddSubscriptionEffect ==
    ASSUME TypeOK, NEW q \in Requests, AddSubscription(q, WithObserver(q))
    PROVE  /\ listeners' \in Seq(Listeners)
           /\ \A i \in 1 .. Len(listeners') :
                 \/ \E j \in 1 .. Len(listeners) : listeners'[i] = listeners[j]
                 \/ listeners'[i] \in {Recorder(q), DeleteListener(q), Forwarder(q)}
           /\ \/ table' = table
              \/ /\ table' = table \union {q}
                 /\ ~\E p \in table : sender[p] = sender[q]
<1> DEFINE first == WithObserver(q)
           second == NewSubscription(first, q)
<1>1. /\ first \in Seq(Listeners)
      /\ second \in Seq(Listeners)
      /\ \A i \in 1 .. Len(first) :
            \/ \E j \in 1 .. Len(listeners) : first[i] = listeners[j]
            \/ first[i] = Recorder(q)
      /\ \A i \in 1 .. Len(second) :
            \/ \E j \in 1 .. Len(listeners) : second[i] = listeners[j]
            \/ second[i] \in {Recorder(q), DeleteListener(q), Forwarder(q)}
  BY AddedListeners
<1>2. \/ listeners' = first /\ table' = table
      \/ /\ listeners' = second
         /\ table' = table \union {q}
         /\ ~\E p \in table : sender[p] = sender[q]
  BY DEF AddSubscription
<1> HIDE DEF first, second
<1> QED BY <1>1, <1>2

\* A hyperty that was vouched for may be given a Subscription.
LEMMA AddSubscriptionKeepsFeeds ==
    ASSUME TypeOK, TypeOK', FeedsAreVouchedFor, NEW q \in Requests,
           AddSubscription(q, WithObserver(q)), sender' = sender,
           accepted \subseteq accepted', VouchedFor(sender[q])'
    PROVE  FeedsAreVouchedFor'
<1> SUFFICES ASSUME NEW i \in 1 .. Len(listeners'), listeners'[i].role = "forward"
             PROVE  \E h \in accepted' : DomainOf[h] = DomainOf[sender[listeners'[i].of]]
  BY DEF FeedsAreVouchedFor
<1>1. CASE \E j \in 1 .. Len(listeners) : listeners'[i] = listeners[j]
  BY <1>1 DEF FeedsAreVouchedFor
<1>2. CASE listeners'[i] \in {Recorder(q), DeleteListener(q), Forwarder(q)}
  <2>1. listeners'[i].of = q
    BY <1>2 DEF Recorder, DeleteListener, Forwarder
  <2> QED BY <2>1 DEF VouchedFor
<1> QED BY <1>1, <1>2, AddSubscriptionEffect

\* One Subscription each survives the addition.
LEMMA AddSubscriptionKeepsOneEach ==
    ASSUME TypeOK, OneSubscriptionEach, NEW q \in Requests,
           AddSubscription(q, WithObserver(q)), sender' = sender
    PROVE  OneSubscriptionEach'
BY AddSubscriptionEffect DEF OneSubscriptionEach

\* A departure keeps the invariant: the table and the entry go together.
LEMMA LocalUnSubscribeKeepsIInv ==
    ASSUME IInv, NEW h, LocalUnSubscribe(h), closing' \in [Requests -> {"no", "asked", "left"}],
           UNCHANGED <<sender, stage, deleted, disk, accepted>>
    PROVE  IInv'
<1>1. /\ listeners' \in Seq(Listeners)
      /\ Within(listeners', listeners)
  BY RemoveSubscriptionWithin DEF LocalUnSubscribe, IInv
<1>2. TypeOK'
  BY <1>1 DEF LocalUnSubscribe, DeleteResource, IInv, TypeOK
<1>3. FeedsAreVouchedFor'
  BY <1>1, WithinKeepsFeeds DEF IInv
<1> QED BY <1>2, <1>3
        DEF LocalUnSubscribe, DeleteResource, IInv, StoredAreAccepted,
            ResumingAreVouchedFor, VouchedFor, OneSubscriptionEach, SubscribedAreStored

LEMMA SubscribeKeepsIInv ==
    ASSUME IInv, NEW q \in Requests, Subscribe(q)
    PROVE  IInv'
<1>1. PICK s \in {"node", "reporter", "dropped"} : stage' = [stage EXCEPT ![q] = s]
  BY DEF Subscribe
<1>2. s \in Stages \ {"resuming", "subscribed"}
  BY DEF Stages, Waiting, Closed
<1> QED BY <1>1, <1>2, MovingKeepsIInv DEF Subscribe

LEMMA NodeAcceptsKeepsIInv ==
    ASSUME IInv, NEW q \in Requests, NodeAccepts(q)
    PROVE  IInv'
<1>1. "reporter" \in Stages \ {"resuming", "subscribed"}
  BY DEF Stages, Waiting
<1> QED BY <1>1, MovingKeepsIInv DEF NodeAccepts

LEMMA NodeRefusesKeepsIInv ==
    ASSUME IInv, NEW q \in Requests, NodeRefuses(q)
    PROVE  IInv'
<1>1. "refused" \in Stages \ {"resuming", "subscribed"}
  BY DEF Stages, Closed
<1> QED BY <1>1, MovingKeepsIInv DEF NodeRefuses

LEMMA ReporterRefusesKeepsIInv ==
    ASSUME IInv, NEW q \in Requests, ReporterRefuses(q)
    PROVE  IInv'
<1>1. PICK s \in {"offline", "dropped"} : stage' = [stage EXCEPT ![q] = s]
  BY DEF ReporterRefuses
<1>2. s \in Stages \ {"resuming", "subscribed"}
  BY DEF Stages, Waiting, Closed
<1> QED BY <1>1, <1>2, MovingKeepsIInv DEF ReporterRefuses

LEMMA ResumeFailsKeepsIInv ==
    ASSUME IInv, NEW q \in Requests, ResumeFails(q)
    PROVE  IInv'
<1>1. "refused" \in Stages \ {"resuming", "subscribed"}
  BY DEF Stages, Closed
<1> QED BY <1>1, MovingKeepsIInv DEF ResumeFails

\* The reporter's 200: the hyperty is accepted, so it may be fed and stored.
LEMMA ReporterAcceptsKeepsIInv ==
    ASSUME IInv, NEW q \in Requests, ReporterAccepts(q)
    PROVE  IInv'
<1>0. TypeOK /\ sender[q] \in Hyperties
  BY RequestsAssumption DEF IInv, TypeOK
<1>1. /\ accepted' = accepted \union {sender[q]}
      /\ Store(q)
      /\ stage' = [stage EXCEPT ![q] = "subscribed"]
      /\ UNCHANGED <<sender, closing, deleted, disk>>
      /\ \/ observer' = q /\ AddSubscription(q, WithObserver(q))
         \/ UNCHANGED <<observer, table, listeners>>
  BY DEF ReporterAccepts, ProcessSuccessfullSubscription
<1>2. /\ listeners' \in Seq(Listeners)
      /\ table' \in SUBSET Requests
      /\ table' \subseteq table \union {q}
  BY <1>0, <1>1, AddSubscriptionEffect DEF TypeOK
<1>3. TypeOK'
  BY <1>0, <1>1, <1>2 DEF TypeOK, Stages, Closed, Store
<1>4. StoredAreAccepted'
  BY <1>1 DEF IInv, StoredAreAccepted, Store
<1>5. ResumingAreVouchedFor'
  BY <1>0, <1>1 DEF IInv, TypeOK, ResumingAreVouchedFor, VouchedFor
<1>6. FeedsAreVouchedFor'
  <2>1. VouchedFor(sender[q])'
    BY <1>1 DEF VouchedFor
  <2>2. CASE AddSubscription(q, WithObserver(q))
    BY <1>0, <1>1, <1>3, <2>1, <2>2, AddSubscriptionKeepsFeeds DEF IInv
  <2>3. CASE UNCHANGED listeners
    BY <1>1, <2>3 DEF IInv, FeedsAreVouchedFor
  <2> QED BY <1>1, <2>2, <2>3
<1>7. OneSubscriptionEach'
  <2>1. CASE AddSubscription(q, WithObserver(q))
    BY <1>0, <1>1, <2>1, AddSubscriptionKeepsOneEach DEF IInv
  <2>2. CASE UNCHANGED table
    BY <1>1, <2>2 DEF IInv, OneSubscriptionEach
  <2> QED BY <1>1, <2>1, <2>2
<1>8. SubscribedAreStored'
  BY <1>0, <1>1, <1>2 DEF IInv, TypeOK, SubscribedAreStored, Store
<1> QED BY <1>3, <1>4, <1>5, <1>6, <1>7, <1>8 DEF IInv

\* A resumption starts from an entry that lists accepted hyperties only.
LEMMA ResumeKeepsIInv ==
    ASSUME IInv, NEW q \in Requests, Resume(q)
    PROVE  IInv'
<1>1. CASE Resumable(sender[q])
  <2>1. stage' = [stage EXCEPT ![q] = "resuming"]
    BY <1>1 DEF Resume
  <2>2. VouchedFor(sender[q])
    BY <1>1 DEF Resumable, HasSubscription, CheckProtostubResume, VouchedFor,
                IInv, StoredAreAccepted
  <2>3. ResumingAreVouchedFor'
    BY <2>1, <2>2 DEF Resume, IInv, TypeOK, ResumingAreVouchedFor, VouchedFor
  <2> QED BY <2>1, <2>3
          DEF Resume, IInv, TypeOK, Stages, StoredAreAccepted, FeedsAreVouchedFor,
              OneSubscriptionEach, SubscribedAreStored
<1>2. CASE ~Resumable(sender[q])
  <2>1. stage' = [stage EXCEPT ![q] = "refused"]
    BY <1>2 DEF Resume
  <2>2. "refused" \in Stages \ {"resuming", "subscribed"}
    BY DEF Stages, Closed
  <2> QED BY <2>1, <2>2, MovingKeepsIInv DEF Resume
<1> QED BY <1>1, <1>2

\* What a resumption inherited is enough to feed its hyperty.
LEMMA ResumeSubscriptionKeepsIInv ==
    ASSUME IInv, NEW q \in Requests, ResumeSubscription(q)
    PROVE  IInv'
<1>1. PICK s \in {"resumed", "dropped"} : stage' = [stage EXCEPT ![q] = s]
  BY DEF ResumeSubscription
<1>2. /\ TypeOK
      /\ stage[q] = "resuming"
      /\ observer' \in Requests \union {None}
      /\ AddSubscription(q, WithObserver(q))
      /\ UNCHANGED <<sender, closing, deleted, stored, disk, accepted>>
  BY DEF ResumeSubscription, IInv, TypeOK
<1>3. /\ listeners' \in Seq(Listeners)
      /\ table' \in SUBSET Requests
      /\ table' \subseteq table \union {q}
  BY <1>2, AddSubscriptionEffect DEF TypeOK
<1>4. TypeOK'
  BY <1>1, <1>2, <1>3 DEF TypeOK, Stages, Closed
<1>5. VouchedFor(sender[q])
  BY <1>2 DEF IInv, ResumingAreVouchedFor
<1>6. FeedsAreVouchedFor'
  <2>1. VouchedFor(sender[q])'
    BY <1>2, <1>5 DEF VouchedFor
  <2> QED BY <1>2, <1>4, <2>1, AddSubscriptionKeepsFeeds DEF IInv
<1>7. OneSubscriptionEach'
  BY <1>2, AddSubscriptionKeepsOneEach DEF IInv
<1>8. StoredAreAccepted' /\ ResumingAreVouchedFor'
  BY <1>1, <1>2 DEF IInv, TypeOK, StoredAreAccepted, ResumingAreVouchedFor, VouchedFor
<1>9. SubscribedAreStored'
  BY <1>1, <1>2, <1>3 DEF IInv, TypeOK, SubscribedAreStored
<1> QED BY <1>4, <1>6, <1>7, <1>8, <1>9 DEF IInv

LEMMA HypertyLeavesKeepsIInv ==
    ASSUME IInv, NEW q \in Requests, HypertyLeaves(q)
    PROVE  IInv'
<1>1. closing' \in [Requests -> {"no", "asked", "left"}]
  BY DEF HypertyLeaves, IInv, TypeOK
<1>2. CASE LocalUnSubscribe(sender[q])
  BY <1>1, <1>2, LocalUnSubscribeKeepsIInv DEF HypertyLeaves
<1>3. CASE UNCHANGED <<observer, table, listeners, stored>>
  BY <1>1, <1>3
     DEF HypertyLeaves, IInv, TypeOK, StoredAreAccepted, ResumingAreVouchedFor,
         VouchedFor, FeedsAreVouchedFor, OneSubscriptionEach, SubscribedAreStored
<1> QED BY <1>2, <1>3 DEF HypertyLeaves

LEMMA DeleteAnsweredKeepsIInv ==
    ASSUME IInv, NEW q \in Requests, DeleteAnswered(q)
    PROVE  IInv'
<1>1. /\ listeners' \in Seq(Listeners)
      /\ Within(listeners', listeners)
  <2>1. listeners \in Seq(Listeners)
    BY DEF IInv, TypeOK
  <2>2. CASE listeners' = Release(listeners, q)
    BY <2>1, <2>2, ReleaseWithin
  <2>3. CASE listeners' = listeners
    BY <2>1, <2>3 DEF Within
  <2> QED BY <2>2, <2>3 DEF DeleteAnswered
<1>2. TypeOK'
  BY <1>1 DEF DeleteAnswered, IInv, TypeOK
<1>3. FeedsAreVouchedFor'
  BY <1>1, WithinKeepsFeeds DEF DeleteAnswered, IInv
<1> QED BY <1>2, <1>3
        DEF DeleteAnswered, IInv, StoredAreAccepted, ResumingAreVouchedFor,
            VouchedFor, OneSubscriptionEach, SubscribedAreStored

LEMMA RemoteDeleteKeepsIInv == IInv /\ RemoteDelete => IInv'
BY DEF RemoteDelete, IInv, TypeOK, StoredAreAccepted, ResumingAreVouchedFor,
       VouchedFor, FeedsAreVouchedFor, OneSubscriptionEach, SubscribedAreStored

LEMMA PersistKeepsIInv == IInv /\ Persist => IInv'
BY DEF Persist, session, IInv, TypeOK, StoredAreAccepted, ResumingAreVouchedFor,
       VouchedFor, FeedsAreVouchedFor, OneSubscriptionEach, SubscribedAreStored

LEMMA RestartKeepsIInv == IInv /\ Restart => IInv'
<1> SUFFICES ASSUME IInv, Restart PROVE IInv'
  OBVIOUS
<1>1. <<>> \in Seq(Listeners) /\ Len(<<>>) = 0
  OBVIOUS
<1>2. TypeOK'
  BY <1>1 DEF Restart, IInv, TypeOK, Stages, Closed
<1>3. FeedsAreVouchedFor'
  BY <1>1 DEF Restart, FeedsAreVouchedFor
<1>4. ResumingAreVouchedFor'
  BY DEF Restart, ResumingAreVouchedFor
<1> QED BY <1>2, <1>3, <1>4
        DEF Restart, IInv, StoredAreAccepted, OneSubscriptionEach, SubscribedAreStored

LEMMA NextKeepsIInv == IInv /\ [Next]_vars => IInv'
<1> SUFFICES ASSUME IInv, [Next]_vars PROVE IInv'
  OBVIOUS
<1>1. CASE UNCHANGED vars
  BY <1>1 DEF vars, session, IInv, TypeOK, StoredAreAccepted, ResumingAreVouchedFor,
              VouchedFor, FeedsAreVouchedFor, OneSubscriptionEach, SubscribedAreStored
<1>2. ASSUME NEW h \in Hyperties, UnSubscribe(h) PROVE IInv'
  <2>1. closing' \in [Requests -> {"no", "asked", "left"}]
    BY <1>2 DEF UnSubscribe, IInv, TypeOK
  <2> QED BY <1>2, <2>1, LocalUnSubscribeKeepsIInv DEF UnSubscribe
<1> QED BY <1>1, <1>2, SubscribeKeepsIInv, NodeAcceptsKeepsIInv, NodeRefusesKeepsIInv,
           ReporterAcceptsKeepsIInv, ReporterRefusesKeepsIInv, ResumeKeepsIInv,
           ResumeSubscriptionKeepsIInv, ResumeFailsKeepsIInv, HypertyLeavesKeepsIInv,
           DeleteAnsweredKeepsIInv, RemoteDeleteKeepsIInv, PersistKeepsIInv,
           RestartKeepsIInv
        DEF Next

-----------------------------------------------------------------------------
(* The theorems.                                                           *)

\* The inductive invariant holds in every reachable state.
THEOREM ObserversInvariant == Spec => []IInv
BY InitEstablishesIInv, NextKeepsIInv, PTL DEF Spec

\* Type correctness.
THEOREM ObserversTypeCorrect == Spec => []TypeOK
<1>1. IInv => TypeOK
  BY DEF IInv
<1> QED BY <1>1, ObserversInvariant, PTL

\* Across restarts, only hyperties the reporter accepted are listed by the
\* store, in memory and on the disk.
THEOREM ObserversStoredAreAccepted == Spec => []StoredAreAccepted
<1>1. IInv => StoredAreAccepted
  BY DEF IInv
<1> QED BY <1>1, ObserversInvariant, PTL

\* Nobody is sent the changes unless a hyperty of its domain was accepted,
\* whatever resumptions outlive the entry they were found in.
THEOREM ObserversFeedsAreVouchedFor == Spec => []FeedsAreVouchedFor
<1>1. IInv => FeedsAreVouchedFor
  BY DEF IInv
<1> QED BY <1>1, ObserversInvariant, PTL

\* A hyperty has one Subscription at most.
THEOREM ObserversOneSubscriptionEach == Spec => []OneSubscriptionEach
<1>1. IInv => OneSubscriptionEach
  BY DEF IInv
<1> QED BY <1>1, ObserversInvariant, PTL

\* A Subscription made at the reporter's 200 can be resumed after a restart
\* for as long as the observer holds it.
THEOREM ObserversSubscribedAreStored == Spec => []SubscribedAreStored
<1>1. IInv => SubscribedAreStored
  BY DEF IInv
<1> QED BY <1>1, ObserversInvariant, PTL

-----------------------------------------------------------------------------
(* What a single step may not do.                                          *)

\* Until the reporter deletes the object no delete handshake is open, and each
\* Subscription of the table has both its listeners on the bus: releasing one
\* finds them, and so takes no other off the bus.
HoldersListen ==
    ~deleted =>
        /\ \A q \in Requests : closing[q] = "no"
        /\ \A q \in table : IsListening(DeleteListener(q)) /\ IsListening(Forwarder(q))

\* A listener that is in the list is the only one Remove takes out.
LEMMA RemoveSpares ==
    ASSUME NEW list \in Seq(Listeners), NEW l, NEW k,
           Occurs(l, list), Occurs(k, list), k # l
    PROVE  Occurs(k, Remove(list, l))
<1>1. PICK i \in 1 .. Len(list) :
         /\ i = CHOOSE j \in 1 .. Len(list) : list[j] = l
         /\ list[i] = l
  BY DEF Occurs
<1>2. Remove(list, l) = WithoutIndex(list, i)
  BY <1>1 DEF Remove
<1> QED BY <1>1, <1>2, WithoutIndexSpares

\* A Subscription whose two listeners are in the list is released alone.
LEMMA ReleaseSpares ==
    ASSUME NEW list \in Seq(Listeners), NEW q, NEW k,
           Occurs(DeleteListener(q), list), Occurs(Forwarder(q), list),
           Occurs(k, list), k \notin {DeleteListener(q), Forwarder(q)}
    PROVE  Occurs(k, Release(list, q))
<1> DEFINE once == Remove(list, DeleteListener(q))
<1>1. once \in Seq(Listeners)
  BY RemoveWithin
<1>2. DeleteListener(q) # Forwarder(q)
  BY DEF DeleteListener, Forwarder
<1>3. Occurs(k, once) /\ Occurs(Forwarder(q), once)
  BY <1>2, RemoveSpares
<1> HIDE DEF once
<1>4. Occurs(k, Remove(once, Forwarder(q)))
  BY <1>1, <1>3, RemoveSpares
<1>5. Release(list, q) = Remove(once, Forwarder(q))
  BY DEF Release, once
<1> QED BY <1>4, <1>5

\* Appending leaves what is in a list there.
LEMMA ConcatOccurs ==
    ASSUME NEW list \in Seq(Listeners), NEW more \in Seq(Listeners), NEW k
    PROVE  Occurs(k, list \o more) <=> Occurs(k, list) \/ Occurs(k, more)
<1>0. Len(list) \in Nat /\ Len(more) \in Nat
  OBVIOUS
<1>1. /\ Len(list \o more) = Len(list) + Len(more)
      /\ \A i \in 1 .. Len(list) + Len(more) :
            (list \o more)[i] = IF i <= Len(list) THEN list[i] ELSE more[i - Len(list)]
  BY ConcatProperties, Zenon
<1> DEFINE all == list \o more
<1>2. /\ Len(all) = Len(list) + Len(more)
      /\ \A i \in 1 .. Len(list) + Len(more) :
            all[i] = IF i <= Len(list) THEN list[i] ELSE more[i - Len(list)]
  BY <1>1
<1> HIDE DEF all
<1>3. ASSUME NEW i \in 1 .. Len(all), all[i] = k
      PROVE  Occurs(k, list) \/ Occurs(k, more)
  <2>1. CASE i <= Len(list)
    BY <1>0, <1>2, <1>3, <2>1 DEF Occurs
  <2>2. CASE i > Len(list)
    <3>1. i - Len(list) \in 1 .. Len(more) /\ ~(i <= Len(list))
      BY <1>0, <1>2, <2>2
    <3> QED BY <1>2, <1>3, <3>1 DEF Occurs
  <2> QED BY <1>0, <2>1, <2>2
<1>4. ASSUME NEW i \in 1 .. Len(list), list[i] = k PROVE Occurs(k, all)
  <2>1. i \in 1 .. Len(all) /\ i <= Len(list) /\ i \in 1 .. Len(list) + Len(more)
    BY <1>0, <1>2
  <2> QED BY <1>2, <1>4, <2>1 DEF Occurs
<1>5. ASSUME NEW i \in 1 .. Len(more), more[i] = k PROVE Occurs(k, all)
  <2>1. /\ Len(list) + i \in 1 .. Len(all) /\ ~(Len(list) + i <= Len(list))
        /\ Len(list) + i \in 1 .. Len(list) + Len(more)
        /\ (Len(list) + i) - Len(list) = i
    BY <1>0, <1>2
  <2>2. all[Len(list) + i] = k
    BY <1>2, <1>5, <2>1
  <2> QED BY <2>1, <2>2 DEF Occurs
<1>6. Occurs(k, all) <=> Occurs(k, list) \/ Occurs(k, more)
  BY <1>3, <1>4, <1>5 DEF Occurs
<1> QED BY <1>6 DEF all

\* What was on the bus stays there when a Subscription is added, and the new
\* Subscription's listeners join it.
LEMMA AddSubscriptionJoins ==
    ASSUME TypeOK, NEW q \in Requests, AddSubscription(q, WithObserver(q))
    PROVE  /\ \A k : IsListening(k) => IsListening(k)'
           /\ \/ \E p \in table : sender[p] = sender[q] /\ table' = table
              \/ /\ table' = table \union {q}
                 /\ IsListening(DeleteListener(q))' /\ IsListening(Forwarder(q))'
<1> DEFINE first == WithObserver(q)
           pair == <<DeleteListener(q), Forwarder(q)>>
<1>1. first \in Seq(Listeners) /\ listeners \in Seq(Listeners)
  BY AddedListeners DEF TypeOK
<1>2. /\ pair \in Seq(Listeners)
      /\ Len(pair) = 2 /\ pair[1] = DeleteListener(q) /\ pair[2] = Forwarder(q)
  BY DEF DeleteListener, Forwarder, Listeners, Roles
<1>3. Occurs(DeleteListener(q), pair) /\ Occurs(Forwarder(q), pair)
  <2> HIDE DEF pair
  <2>1. 1 \in 1 .. Len(pair) /\ 2 \in 1 .. Len(pair)
    BY <1>2
  <2> QED BY <1>2, <2>1 DEF Occurs
<1>4. ASSUME NEW k, Occurs(k, listeners) PROVE Occurs(k, first)
  <2>1. CASE observer = None
    <3>1. Recorder(q) \in Listeners
      BY DEF Recorder, Listeners, Roles
    <3> DEFINE more == <<Recorder(q)>>
    <3>2. first = listeners \o more /\ more \in Seq(Listeners)
      BY <1>1, <2>1, <3>1, AppendIsConcat DEF WithObserver
    <3> HIDE DEF more
    <3>3. Occurs(k, listeners \o more)
      BY <1>1, <1>4, <3>2, ConcatOccurs
    <3> QED BY <3>2, <3>3
  <2>2. CASE observer # None
    BY <1>4, <2>2 DEF WithObserver
  <2> QED BY <2>1, <2>2
<1> HIDE DEF first, pair
<1>5. \/ /\ \E p \in table : sender[p] = sender[q]
         /\ listeners' = first /\ table' = table
      \/ /\ listeners' = first \o pair
         /\ table' = table \union {q}
  BY DEF AddSubscription, NewSubscription, first, pair
<1>6. \A k : /\ Occurs(k, first) => Occurs(k, first \o pair)
             /\ Occurs(k, pair) => Occurs(k, first \o pair)
  BY <1>1, <1>2, ConcatOccurs
<1>7. \A k : IsListening(k)' <=> Occurs(k, listeners')
  BY DEF IsListening
<1>8. \A k : IsListening(k) <=> Occurs(k, listeners)
  BY DEF IsListening
<1> QED BY <1>3, <1>4, <1>5, <1>6, <1>7, <1>8 DEF IsListening

LEMMA InitEstablishesHoldersListen == Init => HoldersListen
BY DEF Init, HoldersListen

\* A departure empties the table, a delete and a restart take the premise away,
\* and every other step leaves the listeners it finds.
LEMMA NextKeepsHoldersListen ==
    IInv /\ HoldersListen /\ [Next]_vars => HoldersListen'
<1> SUFFICES ASSUME IInv, HoldersListen, [Next]_vars, ~deleted'
             PROVE  /\ \A q \in Requests : closing'[q] = "no"
                    /\ \A q \in table' :
                          IsListening(DeleteListener(q))' /\ IsListening(Forwarder(q))'
  BY DEF HoldersListen, DeleteListener, Forwarder
<1>0. TypeOK
  BY DEF IInv
<1>1. ASSUME UNCHANGED <<table, listeners, closing, deleted>>
      PROVE  /\ \A q \in Requests : closing'[q] = "no"
             /\ \A q \in table' :
                   IsListening(DeleteListener(q))' /\ IsListening(Forwarder(q))'
  BY <1>1 DEF HoldersListen, IsListening, DeleteListener, Forwarder
<1>2. ASSUME NEW q \in Requests, AddSubscription(q, WithObserver(q)),
             UNCHANGED <<closing, deleted>>
      PROVE  /\ \A p \in Requests : closing'[p] = "no"
             /\ \A p \in table' :
                   IsListening(DeleteListener(p))' /\ IsListening(Forwarder(p))'
  <2>1. /\ \A p \in Requests : closing[p] = "no"
        /\ \A p \in table : IsListening(DeleteListener(p)) /\ IsListening(Forwarder(p))
    BY <1>2 DEF HoldersListen
  <2> QED BY <1>0, <1>2, <2>1, AddSubscriptionJoins
<1>3. ASSUME table' = {}, \A q \in Requests : closing'[q] = "no"
      PROVE  /\ \A q \in Requests : closing'[q] = "no"
             /\ \A q \in table' :
                   IsListening(DeleteListener(q))' /\ IsListening(Forwarder(q))'
  BY <1>3
<1>4. CASE UNCHANGED vars
  BY <1>1, <1>4 DEF vars, session
<1>5. CASE \E q \in Requests :
              \/ Subscribe(q) \/ NodeAccepts(q) \/ NodeRefuses(q)
              \/ ReporterRefuses(q) \/ Resume(q) \/ ResumeFails(q)
  BY <1>1, <1>5 DEF Subscribe, NodeAccepts, NodeRefuses, ReporterRefuses, Resume, ResumeFails
<1>6. ASSUME NEW q \in Requests, ReporterAccepts(q)
      PROVE  \/ UNCHANGED <<table, listeners, closing, deleted>>
             \/ AddSubscription(q, WithObserver(q)) /\ UNCHANGED <<closing, deleted>>
  BY <1>6 DEF ReporterAccepts, ProcessSuccessfullSubscription
<1>7. ASSUME NEW q \in Requests, ResumeSubscription(q)
      PROVE  AddSubscription(q, WithObserver(q)) /\ UNCHANGED <<closing, deleted>>
  BY <1>7 DEF ResumeSubscription
<1>8. ASSUME NEW q \in Requests PROVE ~HypertyLeaves(q) /\ ~DeleteAnswered(q)
  BY <1>8 DEF HypertyLeaves, DeleteAnswered, HoldersListen
<1>9. CASE \E h \in Hyperties : UnSubscribe(h)
  BY <1>3, <1>9 DEF UnSubscribe, LocalUnSubscribe, HoldersListen
<1>10. ~RemoteDelete
  BY DEF RemoteDelete
<1>11. CASE Persist
  BY <1>1, <1>11 DEF Persist, session
<1>12. CASE Restart
  BY <1>3, <1>12 DEF Restart
<1> QED BY <1>1, <1>2, <1>4, <1>5, <1>6, <1>7, <1>8, <1>9, <1>10, <1>11, <1>12 DEF Next

\* A departure before the deletion releases the Subscription that the leaving
\* hyperty has in the table, which is still listening.
LEMMA DepartureSpares ==
    ASSUME IInv, HoldersListen, NEW h \in Hyperties, UnSubscribe(h), ~deleted,
           NEW i \in 1 .. Len(listeners)
    PROVE  \/ listeners[i].role # "record" /\ sender[listeners[i].of] = h
           \/ Occurs(listeners[i], listeners')
<1>1. listeners \in Seq(Listeners) /\ listeners' = RemoveSubscription(h)
  BY DEF IInv, TypeOK, UnSubscribe, LocalUnSubscribe
<1>2. Occurs(listeners[i], listeners)
  BY DEF Occurs
<1>3. CASE \E q \in table : sender[q] = h
  <2>1. PICK p \in table : /\ p = CHOOSE q \in table : sender[q] = h
                           /\ sender[p] = h
    BY <1>3
  <2>2. listeners' = Release(listeners, p)
    BY <1>1, <1>3, <2>1 DEF RemoveSubscription
  <2>3. Occurs(DeleteListener(p), listeners) /\ Occurs(Forwarder(p), listeners)
    BY DEF HoldersListen, IsListening
  <2>4. CASE listeners[i] \in {DeleteListener(p), Forwarder(p)}
    BY <2>1, <2>4 DEF DeleteListener, Forwarder
  <2>5. CASE listeners[i] \notin {DeleteListener(p), Forwarder(p)}
    BY <1>1, <1>2, <2>2, <2>3, <2>5, ReleaseSpares
  <2> QED BY <2>4, <2>5
<1>4. CASE ~\E q \in table : sender[q] = h
  BY <1>1, <1>2, <1>4 DEF RemoveSubscription
<1> QED BY <1>3, <1>4

\* A resumed hyperty gets a Subscription of its own, or has one that listens.
LEMMA ResumptionFeeds ==
    ASSUME IInv, HoldersListen, NEW q \in Requests, ResumeSubscription(q), ~deleted
    PROVE  IsFed(sender[q])'
<1>1. /\ TypeOK
      /\ AddSubscription(q, WithObserver(q))
      /\ sender' = sender
  BY DEF IInv, ResumeSubscription
<1>2. PICK p \in Requests : sender[p] = sender[q] /\ IsListening(Forwarder(p))'
  <2>1. \A p \in table : IsListening(Forwarder(p)) /\ p \in Requests
    BY <1>1 DEF HoldersListen, TypeOK
  <2> QED BY <1>1, <2>1, AddSubscriptionJoins
<1>3. PICK i \in 1 .. Len(listeners') : listeners'[i] = Forwarder(p)
  BY <1>2 DEF IsListening, Occurs, Forwarder
<1>4. listeners'[i].role = "forward" /\ listeners'[i].of = p
  BY <1>3 DEF Forwarder
<1> QED BY <1>1, <1>2, <1>4 DEF IsFed

\* Until the object is deleted every Subscription the observer holds has both
\* its listeners on the bus, and no delete handshake is open.
THEOREM ObserversHoldersListen == Spec => []HoldersListen
BY ObserversInvariant, InitEstablishesHoldersListen, NextKeepsHoldersListen, PTL DEF Spec

\* Until the object is deleted, MsgListener.remove finds what a departure
\* releases: no listener of another Subscription or ObserverObject is taken.
THEOREM ObserversDeparturesSpareOthers == Spec => DeparturesSpareOthers
<1>1. ASSUME IInv, HoldersListen, [Next]_vars
      PROVE  [\A h \in Hyperties : UnSubscribe(h) /\ ~deleted =>
                 \A i \in 1 .. Len(listeners) :
                    \/ listeners[i].role # "record" /\ sender[listeners[i].of] = h
                    \/ Occurs(listeners[i], listeners')]_vars
  BY <1>1, DepartureSpares
<1> QED BY <1>1, ObserversInvariant, ObserversHoldersListen, PTL
        DEF Spec, DeparturesSpareOthers

\* Until the object is deleted, a hyperty whose subscription is resumed is sent
\* the changes, whichever Subscription of its the observer holds.
THEOREM ObserversResumedAreFed == Spec => ResumedAreFed
<1>1. ASSUME IInv, HoldersListen, [Next]_vars
      PROVE  [\A q \in Requests : ResumeSubscription(q) /\ ~deleted => IsFed(sender[q])']_vars
  BY <1>1, ResumptionFeeds
<1> QED BY <1>1, ObserversInvariant, ObserversHoldersListen, PTL DEF Spec, ResumedAreFed
=============================================================================
