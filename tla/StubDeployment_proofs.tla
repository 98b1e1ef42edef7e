------------------------- MODULE StubDeployment_proofs -------------------------
(***************************************************************************)
(* Proofs about StubDeployment, for any callers and any bounds.  The       *)
(* inductive invariant says where the status of an entry can come from: a  *)
(* stub that was deployed and announced itself, whose "created" is the     *)
(* first of its events and is over before the entry counts as ready.       *)
(***************************************************************************)
EXTENDS StubDeployment, SequenceTheorems, TLAPS

\* A stub speaks only after its sandbox was told to deploy it, and only the
\* deployment of such a stub gives the entry its address.
SpeakersWereDeployed ==
    \A l \in Loads :
        stub[l] \in Announced \/ entry.url = l => load[l] \in {"deploying", "loaded", "failed"}

\* What is on the bus was sent by a stub that announced itself.
EventsAreAnnounced == \A i \in 1 .. Len(events) : stub[events[i].from] \in Announced

\* An entry is ready by an event of the stub it has the address of.
ReadyAreAnnounced ==
    entry.status \in Ready => entry.url \in Loads /\ stub[entry.url] \in Announced

\* "created" is the first event of a stub, and until it is handled the entry
\* of the stub is not ready.
CreatedComesFirst ==
    \A i \in 1 .. Len(events) :
        events[i].value = "created" =>
            /\ \A k \in 1 .. i - 1 : events[k].from # events[i].from
            /\ entry.url = events[i].from => entry.status \notin Ready

\* Whoever waits and was not late is still to be woken.
WaitersAreWoken == CreatedIsOver => \A c \in Callers : caller[c] = "waiting" => c \in late

\* An entry is never absent again once a caller had the stub deployed.
AskedIsEntered == \A l \in Loads : asker[l] # None => entry.status # "absent"

IInv ==
    /\ TypeOK
    /\ SpeakersWereDeployed
    /\ EventsAreAnnounced
    /\ ReadyAreAnnounced
    /\ CreatedComesFirst
    /\ WaitersAreWoken
    /\ AskedIsEntered
    /\ ResolvedAreDeployed
    /\ CallersDeployOnce

-----------------------------------------------------------------------------
(* Steps of the registry and of the deployments: no stub speaks.           *)

Placed == {"deploying", "loaded", "failed"}

\* What a deployment may do to the entry: nothing, mark it as failed, or put
\* in a new one, without an address or with that of a stub yet to start.
EntryIsRenewed ==
    \/ entry'.url = entry.url /\ entry'.status \in {entry.status, "deployment-failed"}
    \/ /\ entry'.status \notin Ready \union {"absent"}
       /\ entry'.url # None => stub[entry'.url] = "absent" /\ load'[entry'.url] \in Placed

\* Whoever begins to wait is late, or will be woken.
WaitersAreCounted ==
    /\ late \subseteq late'
    /\ \A c \in Callers : caller'[c] = "waiting" =>
          caller[c] = "waiting" \/ c \in late' \/ ~CreatedIsOver

\* Such a step keeps what is known of the stubs and of who waits for them.
LEMMA QuietStep ==
    ASSUME IInv, TypeOK', UNCHANGED stubs, EntryIsRenewed, WaitersAreCounted,
           \A m \in Loads : load[m] \in Placed => load'[m] \in Placed
    PROVE  /\ SpeakersWereDeployed' /\ EventsAreAnnounced' /\ ReadyAreAnnounced'
           /\ CreatedComesFirst' /\ WaitersAreWoken'
           /\ entry.status # "absent" => entry'.status # "absent"
<1> USE NamesAssumption
<1>0. /\ stub' = stub /\ events' = events
      /\ entry.url \in Loads \union {None} /\ entry'.url \in Loads \union {None}
      /\ load \in [Loads -> Stages] /\ load' \in [Loads -> Stages]
      /\ stub \in [Loads -> Announced \union {"absent"}]
      /\ events \in Seq(Events)
  BY DEF IInv, TypeOK, stubs
<1>1. "absent" \notin Announced /\ "absent" \notin Ready /\ "deployment-failed" \notin Ready
  BY DEF Announced, Ready
<1>2. SpeakersWereDeployed'
  BY <1>0, <1>1 DEF IInv, SpeakersWereDeployed, EntryIsRenewed, Placed
<1>3. EventsAreAnnounced'
  BY <1>0 DEF IInv, EventsAreAnnounced
<1>4. ReadyAreAnnounced'
  BY <1>0, <1>1 DEF IInv, ReadyAreAnnounced, EntryIsRenewed
<1>5. CreatedComesFirst'
  <2>1. CASE entry'.status \notin Ready
    BY <1>0, <2>1 DEF IInv, CreatedComesFirst
  <2>2. CASE entry'.status \in Ready
    BY <1>0, <1>1, <2>2 DEF IInv, CreatedComesFirst, EntryIsRenewed
  <2> QED BY <2>1, <2>2
<1>6. CreatedIsOver' => CreatedIsOver
  BY <1>0, <1>1 DEF CreatedIsOver, EntryIsRenewed
<1>7. WaitersAreWoken'
  BY <1>6 DEF IInv, WaitersAreWoken, WaitersAreCounted
<1>8. entry.status # "absent" => entry'.status # "absent"
  BY DEF EntryIsRenewed
<1> QED BY <1>2, <1>3, <1>4, <1>5, <1>7, <1>8

\* No step of this kind makes an announced stub silent.
LEMMA ResolvedStay ==
    ASSUME IInv, TypeOK', \A m \in Loads : stub[m] \in Announced => stub'[m] \in Announced,
           \A c \in Callers : caller'[c] = "resolved" =>
               \/ caller[c] = "resolved" /\ answer'[c] = answer[c]
               \/ answer'[c] \in Loads /\ stub'[answer'[c]] \in Announced
    PROVE  ResolvedAreDeployed'
BY DEF IInv, ResolvedAreDeployed

LEMMA TellAskerEffect ==
    ASSUME TypeOK, NEW l \in Loads, NEW e \in [status : Statuses, url : Loads \union {None}],
           TellAsker(l, e)
    PROVE  /\ entry' \in [status : Statuses, url : Loads \union {None}]
           /\ entry'.url = e.url /\ entry'.status \in {e.status, "deployment-failed"}
           /\ caller' \in [Callers -> {"asking", "waiting", "resolved", "rejected"}]
           /\ \A c \in Callers : caller'[c] \in {caller[c], "rejected"}
           /\ answer' = answer /\ late' = late
BY DEF TellAsker, TypeOK, Statuses

\* The steps of a deployment but the one that gives its stub an address.
LEMMA PlainLoadStep ==
    ASSUME IInv, NEW l \in Loads, NEW to \in Stages,
           load[l] \in Placed => to \in Placed,
           Step(l, load[l], to),
           hollow' \in SUBSET Loads,
           TellAsker(l, entry) \/ UNCHANGED <<entry, callers>>,
           UNCHANGED stubs
    PROVE  IInv'
<1>0. /\ load' = [load EXCEPT ![l] = to] /\ table' = table /\ asker' = asker
  BY DEF Step
<1>1. /\ entry' \in [status : Statuses, url : Loads \union {None}]
      /\ entry'.url = entry.url /\ entry'.status \in {entry.status, "deployment-failed"}
      /\ caller' \in [Callers -> {"asking", "waiting", "resolved", "rejected"}]
      /\ \A c \in Callers : caller'[c] \in {caller[c], "rejected"}
      /\ answer' = answer /\ late' = late
  BY TellAskerEffect DEF IInv, TypeOK, callers
<1>2. TypeOK'
  BY <1>0, <1>1 DEF IInv, TypeOK, stubs
<1>3. EntryIsRenewed /\ WaitersAreCounted
  BY <1>1 DEF EntryIsRenewed, WaitersAreCounted
<1>4. \A m \in Loads : load[m] \in Placed => load'[m] \in Placed
  BY <1>0 DEF IInv, TypeOK
<1>5. ResolvedAreDeployed'
  BY <1>1, <1>2, ResolvedStay DEF stubs
<1>6. AskedIsEntered' /\ CallersDeployOnce'
  BY <1>0, <1>2, <1>3, <1>4, QuietStep DEF IInv, AskedIsEntered, CallersDeployOnce
<1> QED BY <1>2, <1>3, <1>4, <1>5, <1>6, QuietStep DEF IInv

\* registerStub: the stub that gets the address has not started.
LEMMA RegisterStep ==
    ASSUME IInv, NEW l \in Loads, NEW h \in BOOLEAN, Register(l, h)
    PROVE  IInv'
<1> DEFINE registered == [status |-> "deploying", url |-> l]
<1>0. /\ load[l] \in {"package", "creating"} /\ table' = table /\ asker' = asker
      /\ load' = [load EXCEPT ![l] = IF h THEN "failed" ELSE "deploying"]
      /\ hollow' \in SUBSET Loads /\ UNCHANGED stubs
  BY DEF Register, HasSandbox, Step, IInv, TypeOK
<1>1. registered \in [status : Statuses, url : Loads \union {None}]
  BY DEF Statuses
<1>2. /\ entry' \in [status : Statuses, url : Loads \union {None}]
      /\ entry'.url = l /\ entry'.status \in {"deploying", "deployment-failed"}
      /\ caller' \in [Callers -> {"asking", "waiting", "resolved", "rejected"}]
      /\ \A c \in Callers : caller'[c] \in {caller[c], "rejected"}
      /\ answer' = answer /\ late' = late
  <2>1. CASE h
    <3>1. TellAsker(l, registered)
      BY <2>1 DEF Register
    <3>2. TypeOK
      BY DEF IInv
    <3> HIDE DEF registered
    <3>3. /\ entry' \in [status : Statuses, url : Loads \union {None}]
          /\ entry'.url = registered.url
          /\ entry'.status \in {registered.status, "deployment-failed"}
          /\ caller' \in [Callers -> {"asking", "waiting", "resolved", "rejected"}]
          /\ \A c \in Callers : caller'[c] \in {caller[c], "rejected"}
          /\ answer' = answer /\ late' = late
      BY <1>1, <3>1, <3>2, TellAskerEffect
    <3> QED BY <3>3 DEF registered
  <2>2. CASE ~h
    BY <1>1, <2>2 DEF Register, callers, IInv, TypeOK
  <2> QED BY <2>1, <2>2
<1>3. TypeOK'
  BY <1>0, <1>2 DEF IInv, TypeOK, stubs, Stages
<1>4. stub[l] = "absent"
  BY <1>0 DEF IInv, TypeOK, SpeakersWereDeployed
<1>5. \A m \in Loads : load[m] \in Placed => load'[m] \in Placed
  BY <1>0 DEF IInv, TypeOK, Placed
<1>6. load'[l] \in Placed
  BY <1>0 DEF IInv, TypeOK, Placed
<1>7. EntryIsRenewed /\ WaitersAreCounted
  BY <1>2, <1>4, <1>6 DEF EntryIsRenewed, WaitersAreCounted, Ready
<1>8. ResolvedAreDeployed'
  BY <1>0, <1>2, <1>3, ResolvedStay DEF stubs
<1>9. AskedIsEntered' /\ CallersDeployOnce'
  BY <1>0, <1>2 DEF IInv, AskedIsEntered, CallersDeployOnce
<1> QED BY <1>0, <1>3, <1>5, <1>7, <1>8, <1>9, QuietStep DEF IInv

LEMMA LoadStepKeeps ==
    ASSUME IInv, NEW l \in Loads, LoadStep(l)
    PROVE  IInv'
<1>1. CASE GotDescriptor(l)
  <2>1. /\ load[l] = "descriptor" /\ Step(l, load[l], "package")
        /\ UNCHANGED <<entry, callers>> /\ UNCHANGED stubs
        /\ hollow' \in SUBSET Loads
    BY <1>1 DEF GotDescriptor, Step, IInv, TypeOK
  <2>2. "package" \in Stages /\ (load[l] \in Placed => "package" \in Placed)
    BY <2>1 DEF Stages, Placed
  <2> QED BY <2>1, <2>2, PlainLoadStep
<1>2. CASE GotPackage(l)
  <2>1. /\ load[l] = "package" /\ Step(l, load[l], "creating")
        /\ UNCHANGED <<entry, callers>> /\ UNCHANGED stubs
        /\ hollow' \in SUBSET Loads
    BY <1>2 DEF GotPackage, Step, IInv, TypeOK
  <2>2. "creating" \in Stages /\ (load[l] \in Placed => "creating" \in Placed)
    BY <2>1 DEF Stages, Placed
  <2> QED BY <2>1, <2>2, PlainLoadStep
<1>3. CASE NoPackage(l)
  <2>1. /\ load[l] = "package" /\ Step(l, load[l], "creating")
        /\ TellAsker(l, entry) /\ UNCHANGED stubs
        /\ hollow' \in SUBSET Loads
    BY <1>3 DEF NoPackage, Step, IInv, TypeOK
  <2>2. "creating" \in Stages /\ (load[l] \in Placed => "creating" \in Placed)
    BY <2>1 DEF Stages, Placed
  <2> QED BY <2>1, <2>2, PlainLoadStep
<1>4. CASE GiveUp(l)
  <2>1. /\ load[l] \in {"descriptor", "package", "creating"} /\ Step(l, load[l], "failed")
        /\ TellAsker(l, entry) /\ UNCHANGED stubs
        /\ hollow' \in SUBSET Loads
    BY <1>4 DEF GiveUp, Step, IInv, TypeOK
  <2>2. "failed" \in Stages /\ (load[l] \in Placed => "failed" \in Placed)
    BY <2>1 DEF Stages, Placed
  <2> QED BY <2>1, <2>2, PlainLoadStep
<1>5. CASE \E h \in BOOLEAN : Register(l, h)
  BY <1>5, RegisterStep
<1>6. CASE Deployed(l)
  <2>1. /\ load[l] = "deploying" /\ Step(l, load[l], "loaded")
        /\ UNCHANGED <<entry, callers>> /\ UNCHANGED stubs
        /\ hollow' \in SUBSET Loads
    BY <1>6 DEF Deployed, Step, IInv, TypeOK
  <2>2. "loaded" \in Stages /\ (load[l] \in Placed => "loaded" \in Placed)
    BY <2>1 DEF Stages, Placed
  <2> QED BY <2>1, <2>2, PlainLoadStep
<1>7. CASE NotDeployed(l)
  <2>1. /\ load[l] = "deploying" /\ Step(l, load[l], "failed")
        /\ TellAsker(l, entry) /\ UNCHANGED stubs
        /\ hollow' \in SUBSET Loads
    BY <1>7 DEF NotDeployed, Step, IInv, TypeOK
  <2>2. "failed" \in Stages /\ (load[l] \in Placed => "failed" \in Placed)
    BY <2>1 DEF Stages, Placed
  <2> QED BY <2>1, <2>2, PlainLoadStep
<1> QED BY <1>1, <1>2, <1>3, <1>4, <1>5, <1>6, <1>7 DEF LoadStep

-----------------------------------------------------------------------------
(* Asking.                                                                 *)

\* What discoverProtostub and discoverIdpProxy leave.
LEMMA DiscoverEffect ==
    ASSUME IInv, NEW l \in Loads, NEW c \in Callers \union {None}, Discover(l, c)
    PROVE  /\ entry' \in [status : Statuses, url : Loads \union {None}]
           /\ entry'.url = None /\ entry'.status \in {"deploying", "in-progress"}
           /\ load' \in [Loads -> Stages] /\ asker' = [asker EXCEPT ![l] = c]
           /\ hollow' = hollow
           /\ \A m \in Loads : load[m] \in Placed => load'[m] \in Placed
<1>1. load[l] = "idle"
  BY DEF Discover, Loads
<1> QED BY <1>1, BoundAssumption DEF Discover, IInv, TypeOK, Statuses, Announced, Stages, Placed, Loads

LEMMA LegacyFailsKeeps ==
    ASSUME IInv, NEW c \in Callers, LegacyFails(c)
    PROVE  IInv'
<1>1. TypeOK'
  BY DEF LegacyFails, IInv, TypeOK, loads, stubs
<1>2. EntryIsRenewed /\ WaitersAreCounted
  BY DEF LegacyFails, IInv, TypeOK, EntryIsRenewed, WaitersAreCounted
<1>3. UNCHANGED stubs /\ load' = load /\ asker' = asker /\ entry' = entry
  BY DEF LegacyFails, loads
<1>4. \A d \in Callers : caller'[d] = "resolved" => caller[d] = "resolved" /\ answer'[d] = answer[d]
  BY DEF LegacyFails, IInv, TypeOK
<1>5. ResolvedAreDeployed'
  BY <1>1, <1>3, <1>4, ResolvedStay DEF stubs
<1>6. AskedIsEntered' /\ CallersDeployOnce'
  BY <1>3 DEF IInv, AskedIsEntered, CallersDeployOnce
<1> QED BY <1>1, <1>2, <1>3, <1>5, <1>6, QuietStep DEF IInv

LEMMA LoadDirectlyKeeps ==
    ASSUME IInv, NEW l \in Loads, LoadDirectly(l)
    PROVE  IInv'
<1> USE NamesAssumption
<1>1. Discover(l, None) /\ UNCHANGED <<table, callers, stubs>>
  BY DEF LoadDirectly
<1>2. /\ entry' \in [status : Statuses, url : Loads \union {None}]
      /\ entry'.url = None /\ entry'.status \in {"deploying", "in-progress"}
      /\ load' \in [Loads -> Stages] /\ asker' = [asker EXCEPT ![l] = None]
      /\ hollow' = hollow
      /\ \A m \in Loads : load[m] \in Placed => load'[m] \in Placed
  BY <1>1, DiscoverEffect
<1>3. TypeOK'
  BY <1>1, <1>2 DEF IInv, TypeOK, callers, stubs
<1>4. EntryIsRenewed /\ WaitersAreCounted
  BY <1>1, <1>2 DEF EntryIsRenewed, WaitersAreCounted, Ready, callers
<1>5. ResolvedAreDeployed'
  BY <1>1, <1>3, ResolvedStay DEF callers, stubs
<1>6. AskedIsEntered' /\ CallersDeployOnce'
  BY <1>2 DEF IInv, TypeOK, AskedIsEntered, CallersDeployOnce
<1> QED BY <1>1, <1>2, <1>3, <1>4, <1>5, <1>6, QuietStep DEF IInv

LEMMA ResolveKeeps ==
    ASSUME IInv, NEW c \in Callers, ResolveNormalStub(c)
    PROVE  IInv'
<1> USE NamesAssumption
<1>0. UNCHANGED stubs /\ table' = table
  BY DEF ResolveNormalStub
<1>1. CASE /\ entry.status \in Ready
           /\ caller' = [caller EXCEPT ![c] = "resolved"]
           /\ answer' = [answer EXCEPT ![c] = entry.url]
           /\ UNCHANGED <<entry, late, loads>>
  <2>1. TypeOK'
    BY <1>0, <1>1 DEF IInv, TypeOK, loads, stubs
  <2>2. EntryIsRenewed /\ WaitersAreCounted
    BY <1>1 DEF IInv, TypeOK, EntryIsRenewed, WaitersAreCounted
  <2>3. entry.url \in Loads /\ stub[entry.url] \in Announced
    BY <1>1 DEF IInv, ReadyAreAnnounced
  <2>4. ResolvedAreDeployed'
    BY <1>0, <1>1, <2>3 DEF IInv, TypeOK, ResolvedAreDeployed, stubs
  <2>5. AskedIsEntered' /\ CallersDeployOnce'
    BY <1>1 DEF IInv, AskedIsEntered, CallersDeployOnce, loads
  <2>6. load' = load
    BY <1>1 DEF loads
  <2> QED BY <1>0, <2>1, <2>2, <2>4, <2>5, <2>6, QuietStep DEF IInv
<1>2. CASE Wait(c) /\ entry.status # "absent" /\ UNCHANGED <<entry, loads>>
  <2>1. TypeOK'
    BY <1>0, <1>2 DEF Wait, IInv, TypeOK, loads, stubs
  <2>2. EntryIsRenewed /\ WaitersAreCounted
    BY <1>2 DEF Wait, IInv, TypeOK, EntryIsRenewed, WaitersAreCounted
  <2>3. ResolvedAreDeployed'
    BY <1>0, <1>2 DEF Wait, IInv, TypeOK, ResolvedAreDeployed, stubs
  <2>4. AskedIsEntered' /\ CallersDeployOnce'
    BY <1>2 DEF IInv, AskedIsEntered, CallersDeployOnce, loads
  <2>5. load' = load
    BY <1>2 DEF loads
  <2> QED BY <1>0, <2>1, <2>2, <2>3, <2>4, <2>5, QuietStep DEF IInv
<1>3. ASSUME NEW l \in Loads, Wait(c), entry.status = "absent", Discover(l, c)
      PROVE  IInv'
  <2>1. /\ entry' \in [status : Statuses, url : Loads \union {None}]
        /\ entry'.url = None /\ entry'.status \in {"deploying", "in-progress"}
        /\ load' \in [Loads -> Stages] /\ asker' = [asker EXCEPT ![l] = c]
        /\ hollow' = hollow
        /\ \A m \in Loads : load[m] \in Placed => load'[m] \in Placed
    BY <1>3, DiscoverEffect
  <2>2. TypeOK'
    BY <1>0, <1>3, <2>1 DEF Wait, IInv, TypeOK, stubs
  <2>3. EntryIsRenewed
    BY <2>1 DEF EntryIsRenewed, Ready
  <2>4. WaitersAreCounted
    BY <1>3 DEF Wait, IInv, TypeOK, WaitersAreCounted
  <2>5. ResolvedAreDeployed'
    BY <1>0, <1>3 DEF Wait, IInv, TypeOK, ResolvedAreDeployed, stubs
  <2>6. \A m \in Loads : asker[m] = None
    BY <1>3 DEF IInv, AskedIsEntered
  <2>7. AskedIsEntered' /\ CallersDeployOnce'
    BY <2>1, <2>6 DEF IInv, TypeOK, AskedIsEntered, CallersDeployOnce
  <2> QED BY <1>0, <2>1, <2>2, <2>3, <2>4, <2>5, <2>7, QuietStep DEF IInv
<1> QED BY <1>1, <1>2, <1>3 DEF ResolveNormalStub

-----------------------------------------------------------------------------
(* The stub's own steps.                                                   *)

\* A stub says "created" once, and first.
LEMMA AnnounceKeeps ==
    ASSUME IInv, NEW l \in Loads, NEW v \in Announced, Announce(l, v)
    PROVE  IInv'
<1> USE NamesAssumption
<1> DEFINE new == [from |-> l, value |-> v]
           N == Len(events)
<1>0. /\ UNCHANGED <<table, entry, caller, answer, late, load, asker, hollow>>
      /\ stub' = [stub EXCEPT ![l] = v] /\ events' = Append(events, new)
  BY DEF Announce, callers, loads
<1>1. new \in Events /\ events \in Seq(Events) /\ N \in Nat
  BY DEF Events, IInv, TypeOK
<1>2. /\ events' \in Seq(Events) /\ Len(events') = N + 1 /\ events'[N + 1] = new
      /\ \A i \in 1 .. N : events'[i] = events[i] /\ events[i] \in Events
  BY <1>0, <1>1
<1>3. stub' \in [Loads -> Announced \union {"absent"}]
      /\ \A m \in Loads : stub'[m] = IF m = l THEN v ELSE stub[m]
  BY <1>0 DEF IInv, TypeOK
<1> HIDE DEF new, N
<1>4. sent' \in 0 .. MaxEvents
  BY BoundAssumption DEF Announce, IInv, TypeOK
<1>5. TypeOK'
  BY <1>0, <1>2, <1>3, <1>4 DEF IInv, TypeOK
<1>6. \A m \in Loads : stub[m] \in Announced => stub'[m] \in Announced
  BY <1>3
<1>7. load[l] \in {"deploying", "loaded", "failed"}
  BY DEF Announce, IInv, TypeOK, SpeakersWereDeployed, Announced
<1>8. SpeakersWereDeployed'
  BY <1>0, <1>3, <1>7 DEF IInv, SpeakersWereDeployed
<1>9. EventsAreAnnounced'
  <2>1. ASSUME NEW i \in 1 .. N + 1
        PROVE  stub'[events'[i].from] \in Announced
    <3>1. CASE i = N + 1
      BY <1>2, <1>3, <3>1 DEF new
    <3>2. CASE i \in 1 .. N
      BY <1>2, <1>6, <3>2 DEF IInv, EventsAreAnnounced, N, Events
    <3> QED BY <1>1, <3>1, <3>2
  <2> QED BY <1>2, <2>1 DEF EventsAreAnnounced
<1>10. ReadyAreAnnounced'
  BY <1>0, <1>6 DEF IInv, ReadyAreAnnounced
<1>11. v = "created" <=> stub[l] = "absent"
  BY DEF Announce, Successors, IInv, TypeOK, Announced
<1>12. v = "created" => /\ \A k \in 1 .. N : events[k].from # l
                        /\ entry.url = l => entry.status \notin Ready
  BY <1>11 DEF IInv, EventsAreAnnounced, ReadyAreAnnounced, N, Announced
<1>13. CreatedComesFirst'
  <2>1. ASSUME NEW i \in 1 .. N + 1, events'[i].value = "created"
        PROVE  /\ \A k \in 1 .. i - 1 : events'[k].from # events'[i].from
               /\ entry'.url = events'[i].from => entry'.status \notin Ready
    <3>1. CASE i = N + 1
      <4>1. events'[i].from = l /\ v = "created"
        BY <1>2, <2>1, <3>1 DEF new
      <4>2. \A k \in 1 .. i - 1 : k \in 1 .. N
        BY <1>1, <3>1
      <4> QED BY <1>0, <1>2, <1>12, <4>1, <4>2
    <3>2. CASE i \in 1 .. N
      <4>1. \A k \in 1 .. i - 1 : k \in 1 .. N
        BY <1>1, <3>2
      <4> QED BY <1>0, <1>2, <2>1, <3>2, <4>1 DEF IInv, CreatedComesFirst, N
    <3> QED BY <1>1, <3>1, <3>2
  <2> QED BY <1>2, <2>1 DEF CreatedComesFirst
<1>14. WaitersAreWoken'
  <2>1. ASSUME CreatedIsOver'
        PROVE  CreatedIsOver
    <3>1. /\ entry.url \in Loads /\ stub'[entry.url] \in Announced
          /\ \A i \in 1 .. N + 1 : events'[i] # [from |-> entry.url, value |-> "created"]
      BY <1>0, <1>2, <2>1 DEF CreatedIsOver
    <3>2. ~(entry.url = l /\ v = "created")
      BY <1>1, <1>2, <3>1 DEF new
    <3>3. stub[entry.url] \in Announced
      BY <1>3, <1>11, <3>1, <3>2 DEF IInv, TypeOK
    <3>4. \A i \in 1 .. N : events[i] # [from |-> entry.url, value |-> "created"]
      BY <1>1, <1>2, <3>1
    <3> QED BY <3>1, <3>3, <3>4 DEF CreatedIsOver, N
  <2> QED BY <1>0, <2>1 DEF IInv, WaitersAreWoken
<1>15. ResolvedAreDeployed'
  BY <1>0, <1>5, <1>6, ResolvedStay
<1>16. AskedIsEntered' /\ CallersDeployOnce'
  BY <1>0 DEF IInv, AskedIsEntered, CallersDeployOnce
<1> QED BY <1>5, <1>8, <1>9, <1>10, <1>13, <1>14, <1>15, <1>16 DEF IInv

\* The registry handles the first event on the bus: its stub announced itself,
\* and "created" wakes all who wait for that stub.
LEMMA StatusEventKeeps ==
    ASSUME IInv, OnStatusEvent
    PROVE  IInv'
<1> USE NamesAssumption
<1> DEFINE e == Head(events)
           N == Len(events)
           woken == {c \in Callers : entry.url = e.from /\ e.value = "created" /\ caller[c] = "waiting"}
<1>0. /\ UNCHANGED <<table, late, load, asker, hollow, stub, sent>>
      /\ events # <<>> /\ events' = Tail(events)
      /\ entry' = IF entry.url = e.from THEN [entry EXCEPT !.status = e.value] ELSE entry
      /\ caller' = [c \in Callers |-> IF c \in woken THEN "resolved" ELSE caller[c]]
      /\ answer' = [c \in Callers |-> IF c \in woken THEN entry.url ELSE answer[c]]
  BY DEF OnStatusEvent, loads
<1>1. /\ N \in Nat /\ N > 0 /\ e = events[1] /\ e \in Events /\ events' \in Seq(Events)
      /\ Len(events') = N - 1
      /\ \A i \in 1 .. N - 1 : i + 1 \in 1 .. N /\ events'[i] = events[i + 1]
  BY <1>0 DEF IInv, TypeOK
<1>2. e.from \in Loads /\ e.value \in Announced /\ stub[e.from] \in Announced
  <2>1. 1 \in 1 .. N
    BY <1>1
  <2> QED BY <1>1, <2>1 DEF IInv, EventsAreAnnounced, Events
<1> HIDE DEF e, N
<1>3. /\ entry' \in [status : Statuses, url : Loads \union {None}]
      /\ entry'.url = entry.url
      /\ entry'.status = IF entry.url = e.from THEN e.value ELSE entry.status
  BY <1>0, <1>2 DEF IInv, TypeOK, Statuses
<1>4. TypeOK'
  BY <1>0, <1>1, <1>3 DEF IInv, TypeOK
<1>5. SpeakersWereDeployed' /\ AskedIsEntered' /\ CallersDeployOnce'
  BY <1>0, <1>2, <1>3 DEF IInv, SpeakersWereDeployed, AskedIsEntered, CallersDeployOnce, Announced
<1>6. EventsAreAnnounced'
  BY <1>0, <1>1 DEF IInv, EventsAreAnnounced, N
<1>7. ReadyAreAnnounced'
  BY <1>0, <1>2, <1>3 DEF IInv, ReadyAreAnnounced
<1>8. \A i \in 2 .. N : events[i].value = "created" => events[i].from # e.from
  <2> SUFFICES ASSUME NEW i \in 2 .. N, events[i].value = "created"
               PROVE  events[i].from # e.from
    OBVIOUS
  <2>1. i \in 1 .. N /\ 1 \in 1 .. i - 1
    BY <1>1
  <2> QED BY <1>1, <2>1 DEF IInv, CreatedComesFirst, N
<1>9. CreatedComesFirst'
  <2> SUFFICES ASSUME NEW i \in 1 .. N - 1, events[i + 1].value = "created"
               PROVE  /\ \A k \in 1 .. i - 1 : events'[k].from # events[i + 1].from
                      /\ entry.url = events[i + 1].from => entry'.status \notin Ready
    BY <1>1, <1>3 DEF CreatedComesFirst
  <2>1. i + 1 \in 1 .. N /\ i + 1 \in 2 .. N
        /\ \A k \in 1 .. i - 1 : k \in 1 .. N - 1 /\ k + 1 \in 1 .. (i + 1) - 1
    BY <1>1
  <2>2. \A k \in 1 .. (i + 1) - 1 : events[k].from # events[i + 1].from
    BY <2>1 DEF IInv, CreatedComesFirst, N
  <2>3. \A k \in 1 .. i - 1 : events'[k].from # events[i + 1].from
    BY <1>1, <2>1, <2>2
  <2>4. events[i + 1].from # e.from
    BY <1>8, <2>1
  <2>5. entry.url = events[i + 1].from => entry.status \notin Ready
    BY <2>1 DEF IInv, CreatedComesFirst, N
  <2> QED BY <1>3, <2>3, <2>4, <2>5
<1>10. WaitersAreWoken'
  <2> SUFFICES ASSUME CreatedIsOver', NEW c \in Callers, caller'[c] = "waiting"
               PROVE  c \in late
    BY <1>0 DEF WaitersAreWoken
  <2>1. c \notin woken /\ caller[c] = "waiting"
    BY <1>0 DEF IInv, TypeOK
  <2>2. entry.url \in Loads /\ stub[entry.url] \in Announced
        /\ \A i \in 1 .. N - 1 : events[i + 1] # [from |-> entry.url, value |-> "created"]
    BY <1>0, <1>1, <1>3 DEF CreatedIsOver
  <2>3. CASE entry.url = e.from /\ e.value = "created"
    BY <2>1, <2>3
  <2>4. CASE ~(entry.url = e.from /\ e.value = "created")
    <3>1. e # [from |-> entry.url, value |-> "created"]
      BY <2>4
    <3>2. ASSUME NEW i \in 1 .. N
          PROVE  events[i] # [from |-> entry.url, value |-> "created"]
      <4>1. CASE i = 1
        BY <1>1, <3>1, <4>1
      <4>2. CASE i # 1
        <5>1. i - 1 \in 1 .. N - 1 /\ i = (i - 1) + 1
          BY <1>1, <4>2
        <5>2. \A j \in 1 .. N - 1 : i = j + 1 => events[i] # [from |-> entry.url, value |-> "created"]
          BY <2>2
        <5> QED BY <5>1, <5>2
      <4> QED BY <4>1, <4>2
    <3> QED BY <2>1, <2>2, <3>2 DEF CreatedIsOver, N, IInv, WaitersAreWoken
  <2> QED BY <2>3, <2>4
<1>11. ResolvedAreDeployed'
  <2>1. \A c \in Callers : caller'[c] = "resolved" =>
            \/ caller[c] = "resolved" /\ answer'[c] = answer[c]
            \/ answer'[c] \in Loads /\ stub'[answer'[c]] \in Announced
    BY <1>0, <1>2 DEF IInv, TypeOK
  <2> QED BY <1>0, <1>4, <2>1, ResolvedStay
<1> QED BY <1>4, <1>5, <1>6, <1>7, <1>9, <1>10, <1>11 DEF IInv

-----------------------------------------------------------------------------
LEMMA InitIInv == Init => IInv
<1> SUFFICES ASSUME Init
             PROVE  IInv
  OBVIOUS
<1> USE NamesAssumption, BoundAssumption
<1>1. TypeOK
  BY DEF Init, TypeOK, Statuses, Stages, Announced
<1>2. /\ entry.url = None /\ "absent" \notin Announced /\ "absent" \notin Ready
      /\ events = <<>> /\ \A c \in Callers : caller[c] = "asking"
  BY DEF Init, Announced, Ready
<1>3. /\ SpeakersWereDeployed /\ EventsAreAnnounced /\ ReadyAreAnnounced
      /\ CreatedComesFirst /\ WaitersAreWoken /\ AskedIsEntered
  BY <1>2 DEF Init, SpeakersWereDeployed, EventsAreAnnounced, ReadyAreAnnounced,
              CreatedComesFirst, WaitersAreWoken, AskedIsEntered, CreatedIsOver
<1>4. ResolvedAreDeployed /\ CallersDeployOnce
  BY <1>2 DEF Init, ResolvedAreDeployed, CallersDeployOnce
<1> QED BY <1>1, <1>3, <1>4 DEF IInv

LEMMA NextIInv == IInv /\ [Next]_vars => IInv'
<1> SUFFICES ASSUME IInv, [Next]_vars
             PROVE  IInv'
  OBVIOUS
<1>1. ASSUME NEW c \in Callers, LegacyFails(c) \/ ResolveNormalStub(c)
      PROVE  IInv'
  BY <1>1, LegacyFailsKeeps, ResolveKeeps
<1>2. ASSUME NEW l \in Loads, LoadDirectly(l) \/ LoadStep(l)
      PROVE  IInv'
  BY <1>2, LoadDirectlyKeeps, LoadStepKeeps
<1>3. ASSUME NEW l \in Loads, NEW v \in Announced, Announce(l, v)
      PROVE  IInv'
  BY <1>3, AnnounceKeeps
<1>4. CASE OnStatusEvent
  BY <1>4, StatusEventKeeps
<1>5. CASE UNCHANGED vars
  BY <1>5 DEF vars, callers, loads, stubs, IInv, TypeOK, SpeakersWereDeployed, EventsAreAnnounced,
              ReadyAreAnnounced, CreatedComesFirst, WaitersAreWoken, AskedIsEntered,
              CreatedIsOver, ResolvedAreDeployed, CallersDeployOnce
<1> QED BY <1>1, <1>2, <1>3, <1>4, <1>5 DEF Next

LEMMA SpecIInv == Spec => []IInv
BY InitIInv, NextIInv, PTL DEF Spec

\* Entries, callers, deployments and events stay what the registry and the
\* loader make them.
THEOREM TypeCorrect == Spec => []TypeOK
<1>1. IInv => TypeOK
  BY DEF IInv
<1> QED BY <1>1, SpecIInv, PTL

\* Whoever is told an address by resolveNormalStub, or woken with one, is told
\* that of a stub that was deployed and announced itself.
THEOREM ResolvedAddressesExist == Spec => []ResolvedAreDeployed
<1>1. IInv => ResolvedAreDeployed
  BY DEF IInv
<1> QED BY <1>1, SpecIInv, PTL

\* However many messages need the stub while it is deployed, one of them at
\* most has it deployed, whatever fails and whatever the application loads.
THEOREM OneDeploymentForAll == Spec => []CallersDeployOnce
<1>1. IInv => CallersDeployOnce
  BY DEF IInv
<1> QED BY <1>1, SpecIInv, PTL

\* When the entry is ready nobody waits for it who asked before its "created"
\* was over: no such caller is forgotten when the watchers are called.
THEOREM WaitersAreNotForgotten == Spec => []NobodyWaitsForReady
<1>1. ASSUME IInv
      PROVE  NobodyWaitsForReady
  <2>1. CASE entry.status \in Ready
    <3>1. entry.url \in Loads /\ stub[entry.url] \in Announced
      BY <1>1, <2>1 DEF IInv, ReadyAreAnnounced
    <3>2. \A i \in 1 .. Len(events) : events[i] # [from |-> entry.url, value |-> "created"]
      BY <1>1, <2>1 DEF IInv, CreatedComesFirst
    <3> QED BY <1>1, <3>1, <3>2 DEF IInv, WaitersAreWoken, CreatedIsOver, NobodyWaitsForReady
  <2>2. CASE entry.status \notin Ready
    BY <2>2 DEF NobodyWaitsForReady
  <2> QED BY <2>1, <2>2
<1> QED BY <1>1, SpecIInv, PTL
===============================================================================
