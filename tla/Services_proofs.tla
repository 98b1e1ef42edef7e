--------------------------- MODULE Services_proofs ---------------------------
(***************************************************************************)
(* The inductive invariants of the services that register, find and store  *)
(* what hyperties are and use - registration, the subscriptions to its     *)
(* status, searches, resources and the catalogue - and the theorems of the *)
(* composition, for these and for the services of ServicesPeople_proofs.   *)
(***************************************************************************)
EXTENDS ServicesPeople_proofs

-----------------------------------------------------------------------------
(* Registration.                                                           *)

\* The calls, and the addresses of the keys.
LoadRecords ==
    [stage : Registration!Stages, descriptor : Descriptors, reuse : 0 .. MaxAddresses + 1,
     address : 0 .. MaxAddresses, user : Residents \union {Registration!NoUser},
     resume : BOOLEAN]

\* The maps from keys to addresses.
AddressMaps == [Registration!DescriptorKeys -> 0 .. MaxAddresses]
\* The writes of such maps.
Writings == [by : Loads, urls : AddressMaps]
\* What the domain knows of an address.
Known == [status : {"unknown", "live", "disconnected"},
          user : Residents \union {Registration!NoUser}]

\* How far a call is tells whether it has an address, which a timer keeps alive
\* once it is stored.
StageFits(r, running, callers, count) ==
    /\ r.stage \in {"idle", "address"} => r.address = 0
    /\ r.stage \in {"identity", "storing", "registering", "creating", "registered"} =>
          r.address # 0
    /\ r.stage \in {"registering", "creating", "registered"} => r.address \in running
    /\ r.reuse \in 1 .. MaxAddresses => r.reuse \in callers /\ r.reuse <= count
    /\ r.address <= count

\* A load awaits one write at most.
WritesFit(ws, calls) ==
    /\ \A i \in 1 .. Len(ws) : calls[ws[i].by].stage = "storing"
    /\ \A i, j \in 1 .. Len(ws) : i # j => ws[i].by # ws[j].by

\* Who is listed has an address.
ListedFit(ls, calls) ==
    \A i \in 1 .. Len(ls) :
        calls[ls[i]].stage \notin {"idle", "gone"} /\ calls[ls[i]].address # 0

\* The addresses that a map gives are allocated, and of the key that owns them,
\* unless they were asked for.
MapFits(map, owner, callers, count) ==
    \A k \in Registration!DescriptorKeys :
        /\ map[k] <= count
        /\ map[k] \in callers \union {0} \/ owner[map[k]] = k

\* A load's address was asked for, or is of its key.
CallFits(r, owner, callers) ==
    r.address \in callers \union {0} \/ owner[r.address] = Registration!Key(r.descriptor)

\* Every address in a map, a write or a load is its owner's, unless it was asked for.
OwnersFit(owner) ==
    /\ MapFits(urls, owner, given, fresh) /\ MapFits(saved, owner, given, fresh)
    /\ \A i \in 1 .. Len(writes) : MapFits(writes[i].urls, owner, given, fresh)
    /\ \A l \in Loads : CallFits(load[l], owner, given)

\* Who owns the addresses.
Owners == [Registration!Addresses -> Registration!DescriptorKeys]

\* Who registered is alone with an address that is live for the domain, or expired there.
DomainKnows ==
    \A l \in Loads :
        load[l].stage = "registered" /\ Registration!Alone(l) /\ load[l].address \notin closed =>
            /\ domain[load[l].address].status = "live" \/ load[l].address \in expired
            /\ \/ domain[load[l].address] = Registration!Unknown
               \/ domain[load[l].address].user = load[l].user

\* The types of the parts of the state.
Shaped ==
    /\ load \in [Loads -> LoadRecords]
    /\ urls \in AddressMaps /\ saved \in AddressMaps
    /\ writes \in Seq(Writings)
    /\ listed \in Seq(Loads)
    /\ timers \subseteq Registration!Addresses /\ closing \subseteq closed
    /\ domain \in [Registration!Addresses -> Known]
    /\ fresh \in 0 .. MaxAddresses
    /\ given \subseteq Registration!Addresses /\ closed \subseteq Registration!Addresses
    /\ expired \subseteq Registration!Addresses

\* Loads, maps and the domain agree on addresses, for some owners of them.
RegistrationInv ==
    /\ Shaped
    /\ \A l \in Loads : StageFits(load[l], timers, given, fresh)
    /\ WritesFit(writes, load)
    /\ ListedFit(listed, load)
    /\ DomainKnows
    /\ \E owner \in Owners : OwnersFit(owner)

\* A descriptor has a key.
LEMMA KeyIs == \A d \in Descriptors : Registration!Key(d) \in Registration!DescriptorKeys
BY DEF Registration!DescriptorKeys

\* The type invariant, with names for its parts.
LEMMA ShapedIsTypeOK ==
    Shaped <=> Registration!TypeOK
BY DEF Shaped, Registration!TypeOK, LoadRecords, AddressMaps, Writings, Known

\* Nothing is loaded: the invariant holds at first.
LEMMA RegistrationInit ==
    ASSUME Registration!Init
    PROVE  RegistrationInv
<1> DEFINE first == CHOOSE d \in Descriptors : TRUE
           none == [stage |-> "idle", descriptor |-> first, reuse |-> 0, address |-> 0,
                    user |-> Registration!NoUser, resume |-> FALSE]
<1>1. /\ load = [l \in Loads |-> none]
      /\ urls = [k \in Registration!DescriptorKeys |-> 0] /\ saved = urls
      /\ writes = <<>> /\ listed = <<>>
      /\ timers = {} /\ closing = {} /\ given = {} /\ closed = {}
      /\ expired = {}
      /\ domain = [a \in Registration!Addresses |-> Registration!Unknown]
      /\ fresh = 0
  BY DEF Registration!Init
<1>2. first \in Descriptors
  BY SomeDescriptor
<1> HIDE DEF first
<1>3. 0 \in 0 .. MaxAddresses /\ 0 \in 0 .. MaxAddresses + 1
  BY AddressNumbers
<1>4. none \in LoadRecords /\ none.stage = "idle" /\ none.address = 0 /\ none.reuse = 0
  BY <1>2, <1>3 DEF LoadRecords, Registration!Stages
<1> HIDE DEF none
<1>5. Registration!Unknown \in Known
  BY DEF Registration!Unknown, Known
<1>6. <<>> \in Seq(Writings) /\ <<>> \in Seq(Loads) /\ Len(<<>>) = 0
  OBVIOUS
<1>7. Shaped
  BY <1>1, <1>3, <1>4, <1>5, <1>6 DEF Shaped, AddressMaps
<1>8. \A l \in Loads : StageFits(load[l], timers, given, fresh)
  BY <1>1, <1>4 DEF StageFits
<1>9. WritesFit(writes, load) /\ ListedFit(listed, load)
  BY <1>1, <1>6 DEF WritesFit, ListedFit
<1>10. DomainKnows
  BY <1>1, <1>4 DEF DomainKnows
<1> DEFINE owner == [a \in Registration!Addresses |-> Registration!Key(first)]
<1>11. owner \in Owners
  BY <1>2, KeyIs DEF Owners
<1> HIDE DEF owner
<1>12. OwnersFit(owner)
  BY <1>1, <1>4, <1>6 DEF OwnersFit, MapFits, CallFits
<1> QED BY <1>7, <1>8, <1>9, <1>10, <1>11, <1>12 DEF RegistrationInv

\* More addresses, asked for or allocated, disturb nothing.
LEMMA MapFitsMore ==
    ASSUME NEW map \in AddressMaps, NEW owner, NEW callers, NEW more, callers \subseteq more,
           NEW count \in Nat, NEW larger \in Nat, count <= larger,
           MapFits(map, owner, callers, count)
    PROVE  MapFits(map, owner, more, larger)
<1> SUFFICES ASSUME NEW k \in Registration!DescriptorKeys
             PROVE  map[k] <= larger /\ (map[k] \in more \union {0} \/ owner[map[k]] = k)
  BY DEF MapFits
<1>1. map[k] \in 0 .. MaxAddresses /\ map[k] <= count
  BY DEF AddressMaps, MapFits
<1>2. map[k] \in Nat
  BY <1>1, AddressNumbers
<1>3. map[k] \in callers \union {0} \/ owner[map[k]] = k
  BY DEF MapFits
<1> QED BY <1>1, <1>2, <1>3

\* Owners of addresses stay owners while maps and writes stay, and more is given.
LEMMA OwnersFitMore ==
    ASSUME Shaped, NEW owner, OwnersFit(owner), UNCHANGED <<urls, saved, writes>>,
           given \subseteq given', fresh' \in Nat, fresh <= fresh',
           \A l \in Loads : CallFits(load[l], owner, given)'
    PROVE  OwnersFit(owner)'
<1>1. /\ urls \in AddressMaps /\ saved \in AddressMaps /\ fresh \in Nat
      /\ writes \in Seq(Writings)
  BY AddressNumbers DEF Shaped
<1>2. MapFits(urls, owner, given', fresh') /\ MapFits(saved, owner, given', fresh')
  BY <1>1, MapFitsMore DEF OwnersFit
<1>3. ASSUME NEW i \in 1 .. Len(writes)
      PROVE  MapFits(writes[i].urls, owner, given', fresh')
  <2>1. writes[i] \in Writings
    BY <1>1, ElementOfSeq
  <2>2. writes[i].urls \in AddressMaps
    BY <2>1 DEF Writings
  <2>3. MapFits(writes[i].urls, owner, given, fresh)
    BY DEF OwnersFit
  <2> QED BY <1>1, <2>2, <2>3, MapFitsMore
<1> QED BY <1>2, <1>3 DEF OwnersFit

\* The other calls stay as they are.
LEMMA OthersStay ==
    ASSUME RegistrationInv, NEW l \in Loads, NEW new \in LoadRecords,
           load' = [load EXCEPT ![l] = new],
           timers \subseteq timers', given \subseteq given',
           fresh' \in 0 .. MaxAddresses, fresh <= fresh',
           StageFits(new, timers', given', fresh')
    PROVE  /\ load' \in [Loads -> LoadRecords]
           /\ load'[l] = new /\ \A m \in Loads : m # l => load'[m] = load[m]
           /\ \A m \in Loads : StageFits(load'[m], timers', given', fresh')
<1>1. load \in [Loads -> LoadRecords] /\ fresh \in Nat /\ fresh' \in Nat
  BY AddressNumbers DEF RegistrationInv, Shaped
<1>2. ASSUME NEW m \in Loads
      PROVE  StageFits(load[m], timers', given', fresh')
  <2>1. load[m] \in LoadRecords
    BY <1>1
  <2>2. load[m].reuse \in Nat /\ load[m].address \in Nat
    BY <2>1, AddressNumbers DEF LoadRecords
  <2>3. StageFits(load[m], timers, given, fresh)
    BY DEF RegistrationInv
  <2> QED BY <1>1, <2>2, <2>3 DEF StageFits
<1> QED BY <1>1, <1>2

\* A call goes on with what it has: its address is taken by it before and after.
LEMMA GoesOn ==
    ASSUME RegistrationInv, NEW l \in Loads, NEW new \in LoadRecords,
           load' = [load EXCEPT ![l] = new],
           new.address = load[l].address, new.descriptor = load[l].descriptor,
           load[l].stage \notin {"idle", "gone"}, new.stage \notin {"idle", "gone"}
    PROVE  /\ ListedFit(listed, load')
           /\ \A owner \in Owners : OwnersFit(owner) =>
                 \A m \in Loads : CallFits(load'[m], owner, given)
           /\ \A m \in Loads : m # l /\ Registration!Alone(m)' =>
                 Registration!Alone(m) /\ load[m].address # load[l].address
<1>1. /\ load \in [Loads -> LoadRecords] /\ load' \in [Loads -> LoadRecords]
      /\ load'[l] = new /\ \A m \in Loads : m # l => load'[m] = load[m]
      /\ listed \in Seq(Loads)
  BY DEF RegistrationInv, Shaped
<1>2. ListedFit(listed, load')
  <2> SUFFICES ASSUME NEW i \in 1 .. Len(listed)
               PROVE  /\ load'[listed[i]].stage \notin {"idle", "gone"}
                      /\ load'[listed[i]].address # 0
    BY DEF ListedFit
  <2>1. listed[i] \in Loads
    BY <1>1, ElementOfSeq
  <2>2. load[listed[i]].stage \notin {"idle", "gone"} /\ load[listed[i]].address # 0
    BY DEF RegistrationInv, ListedFit
  <2> QED BY <1>1, <2>1, <2>2
<1>3. ASSUME NEW owner \in Owners, OwnersFit(owner), NEW m \in Loads
      PROVE  CallFits(load'[m], owner, given)
  <2>1. CallFits(load[m], owner, given)
    BY <1>3 DEF OwnersFit
  <2> QED BY <1>1, <2>1 DEF CallFits
<1>4. ASSUME NEW m \in Loads, m # l, Registration!Alone(m)'
      PROVE  Registration!Alone(m) /\ load[m].address # load[l].address
  <2>1. \A n \in Loads \ {m} :
           load'[n].stage \in {"idle", "gone"} \/ load'[n].address # load'[m].address
    BY <1>4 DEF Registration!Alone
  <2>2. load'[m] = load[m]
    BY <1>1, <1>4
  <2>3. \A n \in Loads \ {m} :
           load[n].stage \in {"idle", "gone"} \/ load[n].address # load[m].address
    BY <1>1, <2>1, <2>2
  <2>4. load[m].address # load[l].address
    BY <1>4, <2>3
  <2> QED BY <2>3, <2>4 DEF Registration!Alone
<1> QED BY <1>2, <1>3, <1>4

\* The registration with the domain goes on, or nothing comes of the call.
LEMMA DomainStep ==
    ASSUME RegistrationInv, NEW l \in Loads,
           NEW stage \in {"failed", "registered", "creating", "stuck"},
           Registration!Goes(l, stage),
           load[l].stage \in {"address", "identity", "registering", "creating"},
           stage \in {"registered", "creating"} => load[l].stage \in {"registering", "creating"},
           domain' \in [Registration!Addresses -> Known],
           expired' \subseteq Registration!Addresses,
           \A a \in Registration!Addresses : a # load[l].address =>
              domain'[a] = domain[a] /\ (a \in expired => a \in expired'),
           stage = "registered" =>
              /\ domain'[load[l].address].status = "live"
              /\ domain'[load[l].address].user = load[l].user,
           UNCHANGED <<urls, saved, writes, listed, timers, closing, fresh, given, closed>>
    PROVE  RegistrationInv'
<1> DEFINE new == [load[l] EXCEPT !.stage = stage]
<1>1. load' = [load EXCEPT ![l] = new]
  BY DEF Registration!Goes
<1>2. load \in [Loads -> LoadRecords] /\ Shaped
  BY DEF RegistrationInv, Shaped
<1>3. load[l] \in LoadRecords
  BY <1>2
<1>4. /\ new \in LoadRecords /\ new.stage = stage /\ new.address = load[l].address
      /\ new.descriptor = load[l].descriptor /\ new.reuse = load[l].reuse
      /\ new.user = load[l].user
  BY <1>3 DEF LoadRecords, Registration!Stages
<1> HIDE DEF new
<1>5. StageFits(new, timers', given', fresh')
  <2>1. StageFits(load[l], timers, given, fresh)
    BY DEF RegistrationInv
  <2> QED BY <1>4, <2>1 DEF StageFits
<1>6. fresh' \in 0 .. MaxAddresses /\ fresh <= fresh'
  BY <1>2, AddressNumbers DEF Shaped
<1>7. /\ load' \in [Loads -> LoadRecords]
      /\ load'[l] = new /\ \A m \in Loads : m # l => load'[m] = load[m]
      /\ \A m \in Loads : StageFits(load'[m], timers', given', fresh')
  BY <1>1, <1>4, <1>5, <1>6, OthersStay
<1>8. /\ ListedFit(listed, load')
      /\ \A owner \in Owners : OwnersFit(owner) =>
            \A m \in Loads : CallFits(load'[m], owner, given)
      /\ \A m \in Loads : m # l /\ Registration!Alone(m)' =>
            Registration!Alone(m) /\ load[m].address # load[l].address
  BY <1>1, <1>4, GoesOn
<1>9. Shaped'
  BY <1>2, <1>7 DEF Shaped
<1>10. WritesFit(writes, load)'
  <2> SUFFICES ASSUME NEW i \in 1 .. Len(writes)
               PROVE  load'[writes[i].by].stage = "storing"
    BY DEF RegistrationInv, WritesFit
  <2>1. writes[i] \in Writings
    BY <1>2, ElementOfSeq DEF Shaped
  <2>2. writes[i].by \in Loads /\ load[writes[i].by].stage = "storing"
    BY <2>1 DEF RegistrationInv, WritesFit, Writings
  <2> QED BY <1>7, <2>2
<1>11. DomainKnows'
  <2> SUFFICES ASSUME NEW m \in Loads, load'[m].stage = "registered",
                      Registration!Alone(m)', load'[m].address \notin closed
               PROVE  /\ domain'[load'[m].address].status = "live" \/ load'[m].address \in expired'
                      /\ \/ domain'[load'[m].address] = Registration!Unknown
                         \/ domain'[load'[m].address].user = load'[m].user
    BY DEF DomainKnows
  <2>1. CASE m = l
    BY <1>4, <1>7, <2>1
  <2>2. CASE m # l
    <3>1. /\ Registration!Alone(m) /\ load[m].address # load[l].address
          /\ load'[m] = load[m]
      BY <1>7, <1>8, <2>2
    <3>2. /\ domain[load[m].address].status = "live" \/ load[m].address \in expired
          /\ \/ domain[load[m].address] = Registration!Unknown
             \/ domain[load[m].address].user = load[m].user
      BY <3>1 DEF RegistrationInv, DomainKnows
    <3>3. load[m].address \in Registration!Addresses
      <4>1. load[m] \in LoadRecords /\ StageFits(load[m], timers, given, fresh)
        BY <1>2 DEF RegistrationInv
      <4> QED BY <3>1, <4>1, AddressNumbers DEF StageFits, LoadRecords, Registration!Addresses
    <3> QED BY <3>1, <3>2, <3>3
  <2> QED BY <2>1, <2>2
<1>12. PICK owner \in Owners : OwnersFit(owner)
  BY DEF RegistrationInv
<1>13. OwnersFit(owner)'
  <2>1. \A m \in Loads : CallFits(load'[m], owner, given')
    BY <1>8, <1>12
  <2>2. fresh' \in Nat
    BY <1>6, AddressNumbers
  <2> QED BY <1>2, <1>6, <1>12, <2>1, <2>2, OwnersFitMore
<1> QED BY <1>7, <1>8, <1>9, <1>10, <1>11, <1>13 DEF RegistrationInv

\* A call that goes on with the domain has an address, and a timer for it.
LEMMA AddressIs ==
    ASSUME RegistrationInv, NEW l \in Loads,
           load[l].stage \in {"registering", "creating", "registered"}
    PROVE  load[l].address \in Registration!Addresses /\ load[l].address \in timers
<1>1. load[l] \in LoadRecords /\ StageFits(load[l], timers, given, fresh)
  BY DEF RegistrationInv, Shaped
<1>2. load[l].address \in 0 .. MaxAddresses /\ load[l].address # 0 /\ load[l].address \in timers
  BY <1>1 DEF LoadRecords, StageFits
<1> QED BY <1>2, AddressNumbers DEF Registration!Addresses

\* What the domain is told of a load is live, with its user.
LEMMA LiveIsKnown ==
    ASSUME RegistrationInv, NEW l \in Loads
    PROVE  /\ Registration!Live(l) \in Known
           /\ Registration!Live(l).status = "live" /\ Registration!Live(l).user = load[l].user
<1>1. load[l] \in LoadRecords
  BY DEF RegistrationInv, Shaped
<1>2. load[l].user \in Residents \union {Registration!NoUser}
  BY <1>1 DEF LoadRecords
<1> QED BY <1>2 DEF Registration!Live, Known

\* The domain's answers to a registration.
LEMMA DomainSteps ==
    ASSUME RegistrationInv, NEW l \in Loads,
           \/ Registration!Fail(l) \/ Registration!Registered(l)
           \/ Registration!NotFound(l) \/ Registration!NotRegistered(l)
    PROVE  RegistrationInv'
<1>1. domain \in [Registration!Addresses -> Known] /\ expired \subseteq Registration!Addresses
  BY DEF RegistrationInv, Shaped
<1>2. CASE Registration!Fail(l)
  <2>1. /\ Registration!Goes(l, "failed") /\ load[l].stage \in {"address", "identity"}
        /\ UNCHANGED <<urls, saved, writes, listed, timers, closing, domain, expired, fresh, given,
                       closed>>
    BY <1>2 DEF Registration!Fail
  <2> QED BY <1>1, <2>1, DomainStep
<1>3. CASE Registration!Registered(l)
  <2>1. /\ Registration!Goes(l, "registered") /\ load[l].stage \in {"registering", "creating"}
        /\ domain' = [domain EXCEPT ![load[l].address] = Registration!Live(l)]
        /\ expired' = expired \ {load[l].address}
        /\ UNCHANGED <<urls, saved, writes, listed, timers, closing, fresh, given, closed>>
    BY <1>3 DEF Registration!Registered
  <2>2. load[l].address \in Registration!Addresses
    BY <2>1, AddressIs
  <2>3. /\ domain' \in [Registration!Addresses -> Known]
        /\ \A a \in Registration!Addresses : a # load[l].address => domain'[a] = domain[a]
        /\ domain'[load[l].address] = Registration!Live(l)
    BY <1>1, <2>1, <2>2, LiveIsKnown
  <2>4. /\ expired' \subseteq Registration!Addresses
        /\ \A a \in Registration!Addresses : a # load[l].address /\ a \in expired => a \in expired'
    BY <1>1, <2>1
  <2> QED BY <2>1, <2>3, <2>4, LiveIsKnown, DomainStep
<1>4. CASE Registration!NotFound(l)
  <2>1. PICK stage \in {"creating", "stuck"} : Registration!Goes(l, stage)
    BY <1>4 DEF Registration!NotFound
  <2>2. /\ load[l].stage = "registering"
        /\ UNCHANGED <<urls, saved, writes, listed, timers, closing, domain, expired, fresh, given,
                       closed>>
    BY <1>4 DEF Registration!NotFound
  <2> QED BY <1>1, <2>1, <2>2, DomainStep
<1>5. CASE Registration!NotRegistered(l)
  <2>1. Registration!Goes(l, "stuck")
    BY <1>5 DEF Registration!NotRegistered
  <2>2. /\ load[l].stage \in {"registering", "creating"}
        /\ domain' \in {domain, [domain EXCEPT ![load[l].address] = Registration!Live(l)]}
        /\ expired' \in {expired, expired \ {load[l].address}}
        /\ UNCHANGED <<urls, saved, writes, listed, timers, closing, fresh, given, closed>>
    BY <1>5 DEF Registration!NotRegistered
  <2>3. /\ domain' \in [Registration!Addresses -> Known]
        /\ \A a \in Registration!Addresses : a # load[l].address => domain'[a] = domain[a]
    BY <1>1, <2>2, LiveIsKnown
  <2>4. /\ expired' \subseteq Registration!Addresses
        /\ \A a \in Registration!Addresses : a # load[l].address /\ a \in expired => a \in expired'
    BY <1>1, <2>2
  <2> QED BY <2>1, <2>2, <2>3, <2>4, DomainStep
<1> QED BY <1>2, <1>3, <1>4, <1>5

\* What the domain has of the addresses changes, but not of those who registered
\* and did not unregister.
LEMMA DomainMoves ==
    ASSUME RegistrationInv, UNCHANGED <<load, urls, saved, writes, timers, fresh, given>>,
           listed' \in Seq(Loads), ListedFit(listed', load),
           domain' \in [Registration!Addresses -> Known],
           closed \subseteq closed', closed' \subseteq Registration!Addresses,
           closing' \subseteq closed', expired' \subseteq Registration!Addresses,
           \A a \in Registration!Addresses :
               a \notin closed' =>
                   /\ domain[a].status = "live" \/ a \in expired =>
                         domain'[a].status = "live" \/ a \in expired'
                   /\ \/ domain'[a] = Registration!Unknown
                      \/ domain[a] # Registration!Unknown /\ domain'[a].user = domain[a].user
    PROVE  RegistrationInv'
<1>1. Shaped'
  BY DEF RegistrationInv, Shaped
<1>2. \A l \in Loads : StageFits(load[l], timers, given, fresh)'
  BY DEF RegistrationInv
<1>3. DomainKnows'
  <2> SUFFICES ASSUME NEW l \in Loads, load[l].stage = "registered",
                      Registration!Alone(l), load[l].address \notin closed'
               PROVE  /\ domain'[load[l].address].status = "live" \/ load[l].address \in expired'
                      /\ \/ domain'[load[l].address] = Registration!Unknown
                         \/ domain'[load[l].address].user = load[l].user
    BY DEF DomainKnows, Registration!Alone
  <2>1. load[l].address \in Registration!Addresses /\ load[l].address \in timers
    BY AddressIs
  <2>2. /\ domain[load[l].address].status = "live" \/ load[l].address \in expired
        /\ \/ domain[load[l].address] = Registration!Unknown
           \/ domain[load[l].address].user = load[l].user
    BY DEF RegistrationInv, DomainKnows
  <2> QED BY <2>1, <2>2
<1>4. \E owner \in Owners : OwnersFit(owner)'
  <2>1. PICK owner \in Owners : OwnersFit(owner)
    BY DEF RegistrationInv
  <2>2. OwnersFit(owner)'
    BY <2>1 DEF OwnersFit
  <2> QED BY <2>2
<1>5. WritesFit(writes, load)' /\ ListedFit(listed, load)'
  BY DEF RegistrationInv
<1>6. Owners' = Owners
  BY DEF Owners
<1> QED BY <1>1, <1>2, <1>3, <1>4, <1>5, <1>6 DEF RegistrationInv

\* Keeping alive, expiring and closing an address.
LEMMA DomainMoved ==
    ASSUME RegistrationInv, NEW a \in Registration!Addresses,
           \/ Registration!KeepAlive(a) \/ Registration!Expire(a) \/ Registration!Closed(a)
    PROVE  RegistrationInv'
<1>1. /\ domain \in [Registration!Addresses -> Known] /\ listed \in Seq(Loads)
      /\ ListedFit(listed, load) /\ closing \subseteq closed
      /\ closed \subseteq Registration!Addresses /\ expired \subseteq Registration!Addresses
  BY DEF RegistrationInv, Shaped
<1>2. domain[a] \in Known /\ Registration!Unknown \in Known
  BY <1>1 DEF Known, Registration!Unknown
<1>3. ASSUME NEW status \in {"live", "disconnected"}, NEW new,
             new = [domain[a] EXCEPT !.status = status]
      PROVE  new \in Known /\ new.status = status /\ new.user = domain[a].user
  BY <1>2, <1>3 DEF Known
<1>4. CASE Registration!KeepAlive(a)
  <2> DEFINE new == [domain[a] EXCEPT !.status = "live"]
  <2>1. /\ domain' = [domain EXCEPT ![a] = new] /\ expired' = expired \ {a}
        /\ domain[a] # Registration!Unknown
        /\ UNCHANGED <<load, urls, saved, writes, listed, timers, closing, fresh, given, closed>>
    BY <1>4 DEF Registration!KeepAlive
  <2>2. new \in Known /\ new.status = "live" /\ new.user = domain[a].user
    BY <1>3
  <2> HIDE DEF new
  <2>3. domain' \in [Registration!Addresses -> Known]
    BY <1>1, <2>1, <2>2
  <2>4. \A b \in Registration!Addresses :
           IF b = a THEN domain'[b] = new ELSE domain'[b] = domain[b]
    BY <1>1, <2>1
  <2>5. \A b \in Registration!Addresses :
           /\ domain[b].status = "live" \/ b \in expired =>
                 domain'[b].status = "live" \/ b \in expired'
           /\ \/ domain'[b] = Registration!Unknown
              \/ domain[b] # Registration!Unknown /\ domain'[b].user = domain[b].user
    BY <2>1, <2>2, <2>4
  <2> QED BY <1>1, <2>1, <2>3, <2>5, DomainMoves
<1>5. CASE Registration!Expire(a)
  <2> DEFINE new == [domain[a] EXCEPT !.status = "disconnected"]
  <2>1. /\ domain' \in {[domain EXCEPT ![a] = new], [domain EXCEPT ![a] = Registration!Unknown]}
        /\ expired' = expired \union {a} /\ domain[a] # Registration!Unknown
        /\ UNCHANGED <<load, urls, saved, writes, listed, timers, closing, fresh, given, closed>>
    BY <1>5 DEF Registration!Expire, Registration!Unknown
  <2>2. new \in Known /\ new.user = domain[a].user
    BY <1>3
  <2> HIDE DEF new
  <2>3. /\ domain' \in [Registration!Addresses -> Known]
        /\ \A b \in Registration!Addresses : b # a => domain'[b] = domain[b]
        /\ domain'[a] \in {new, Registration!Unknown}
    BY <1>1, <1>2, <2>1, <2>2
  <2>4. \A b \in Registration!Addresses :
           /\ domain[b].status = "live" \/ b \in expired =>
                 domain'[b].status = "live" \/ b \in expired'
           /\ \/ domain'[b] = Registration!Unknown
              \/ domain[b] # Registration!Unknown /\ domain'[b].user = domain[b].user
    BY <2>1, <2>2, <2>3
  <2> QED BY <1>1, <2>1, <2>3, <2>4, DomainMoves
<1>6. CASE Registration!Closed(a)
  <2> DEFINE new == [domain[a] EXCEPT !.status = "disconnected"]
  <2>1. /\ domain' \in {domain, [domain EXCEPT ![a] = new]}
        /\ a \in closing /\ closing' = closing \ {a}
        /\ UNCHANGED <<load, urls, saved, writes, listed, timers, expired, fresh, given, closed>>
    BY <1>6 DEF Registration!Closed, Registration!Disconnect
  <2>2. new \in Known
    BY <1>3
  <2> HIDE DEF new
  <2>3. /\ domain' \in [Registration!Addresses -> Known]
        /\ \A b \in Registration!Addresses : b # a => domain'[b] = domain[b]
    BY <1>1, <2>1, <2>2
  <2>4. a \in closed'
    BY <1>1, <2>1
  <2> QED BY <1>1, <2>1, <2>3, <2>4, DomainMoves
<1> QED BY <1>4, <1>5, <1>6

\* A data object is unregistered.
LEMMA ObjectUnregistered ==
    ASSUME RegistrationInv, NEW l \in Loads, Registration!UnregisterDataObject(l)
    PROVE  RegistrationInv'
<1> DEFINE a == load[l].address
           new == [domain[a] EXCEPT !.status = "disconnected"]
<1>1. /\ domain \in [Registration!Addresses -> Known] /\ listed \in Seq(Loads)
      /\ ListedFit(listed, load) /\ closing \subseteq closed
      /\ closed \subseteq Registration!Addresses /\ expired \subseteq Registration!Addresses
  BY DEF RegistrationInv, Shaped
<1>2. /\ domain' \in {domain, [domain EXCEPT ![a] = new]}
      /\ closed' = closed \union {a} /\ load[l].stage = "registered"
      /\ UNCHANGED <<load, urls, saved, writes, listed, timers, closing, expired, fresh, given>>
  BY DEF Registration!UnregisterDataObject, Registration!Disconnect
<1>3. a \in Registration!Addresses
  BY <1>2, AddressIs
<1>4. new \in Known
  <2>1. domain[a] \in Known
    BY <1>1, <1>3
  <2> QED BY <2>1 DEF Known
<1> HIDE DEF new, a
<1>5. /\ domain' \in [Registration!Addresses -> Known]
      /\ \A b \in Registration!Addresses : b # a => domain'[b] = domain[b]
  BY <1>1, <1>2, <1>4
<1>6. closed \subseteq closed' /\ closed' \subseteq Registration!Addresses /\ closing' \subseteq closed'
  BY <1>1, <1>2, <1>3
<1>7. a \in closed'
  BY <1>2
<1> QED BY <1>1, <1>2, <1>5, <1>6, <1>7, DomainMoves

\* Every hyperty that is listed is asked to close.
LEMMA AllUnregistered ==
    ASSUME RegistrationInv, Registration!UnregisterAll
    PROVE  RegistrationInv'
<1> DEFINE as == {load[listed[i]].address : i \in DOMAIN listed}
<1>1. /\ load \in [Loads -> LoadRecords] /\ listed \in Seq(Loads)
      /\ domain \in [Registration!Addresses -> Known]
      /\ ListedFit(listed, load) /\ closing \subseteq closed
      /\ closed \subseteq Registration!Addresses /\ expired \subseteq Registration!Addresses
  BY DEF RegistrationInv, Shaped
<1>2. /\ closing' = closing \union as /\ closed' = closed \union as
      /\ UNCHANGED <<load, urls, saved, writes, listed, timers, domain, expired, fresh, given>>
  BY DEF Registration!UnregisterAll
<1>3. as \subseteq Registration!Addresses
  <2> SUFFICES ASSUME NEW i \in DOMAIN listed
               PROVE  load[listed[i]].address \in Registration!Addresses
    OBVIOUS
  <2>1. listed[i] \in Loads /\ i \in 1 .. Len(listed)
    BY <1>1, ElementOfSeq
  <2>2. load[listed[i]] \in LoadRecords /\ load[listed[i]].address # 0
    BY <1>1, <2>1 DEF ListedFit
  <2>3. load[listed[i]].address \in 0 .. MaxAddresses
    BY <2>2 DEF LoadRecords
  <2> QED BY <2>2, <2>3, AddressNumbers DEF Registration!Addresses
<1> HIDE DEF as
<1>4. closed \subseteq closed' /\ closed' \subseteq Registration!Addresses /\ closing' \subseteq closed'
  BY <1>1, <1>2, <1>3
<1> QED BY <1>1, <1>2, <1>4, DomainMoves

\* What is left when an element is removed was there.
LEMMA RemoveAtIs ==
    ASSUME NEW S, NEW s \in Seq(S), NEW i \in 1 .. Len(s)
    PROVE  /\ Registration!RemoveAt(s, i) \in Seq(S)
           /\ \A k \in 1 .. Len(Registration!RemoveAt(s, i)) :
                 \E j \in 1 .. Len(s) : Registration!RemoveAt(s, i)[k] = s[j]
<1> DEFINE a == SubSeq(s, 1, i - 1)
           b == SubSeq(s, i + 1, Len(s))
<1>1. Registration!RemoveAt(s, i) = a \o b
  BY DEF Registration!RemoveAt
<1>2. Len(s) \in Nat /\ i \in Nat /\ \A j \in 1 .. Len(s) : s[j] \in S
  BY ElementOfSeq
<1>3. a \in Seq(S) /\ Len(a) = i - 1 /\ \A k \in 1 .. i - 1 : a[k] = s[k]
  BY <1>2
<1>4. b \in Seq(S) /\ Len(b) = Len(s) - i /\ \A k \in 1 .. Len(s) - i : b[k] = s[k + i]
  BY <1>2
<1> HIDE DEF a, b
<1>5. a \o b \in Seq(S) /\ Len(a \o b) = Len(a) + Len(b)
  <2>1. a \in Seq(S) /\ b \in Seq(S)
    BY <1>3, <1>4
  <2> QED BY <2>1, ConcatProperties
<1>6. ASSUME NEW k \in 1 .. Len(a \o b)
      PROVE  \E j \in 1 .. Len(s) : (a \o b)[k] = s[j]
  <2>1. CASE k \in 1 .. i - 1
    <3>1. (a \o b)[k] = a[k]
      BY <1>2, <1>3, <1>4, <2>1
    <3>2. k \in 1 .. Len(s)
      BY <1>2, <2>1
    <3> QED BY <1>3, <2>1, <3>1, <3>2
  <2>2. CASE k \notin 1 .. i - 1
    <3>1. k - (i - 1) \in 1 .. Len(s) - i
      BY <1>2, <1>3, <1>4, <1>5, <2>2
    <3>2. (a \o b)[k] = b[k - (i - 1)]
      BY <1>2, <1>3, <1>4, <1>5, <2>2
    <3>3. k - (i - 1) + i \in 1 .. Len(s)
      BY <1>2, <3>1
    <3> QED BY <1>4, <3>1, <3>2, <3>3
  <2> QED BY <2>1, <2>2
<1> QED BY <1>1, <1>5, <1>6

\* The first entry of an address is one of it.
LEMMA FirstEntryIs ==
    ASSUME listed \in Seq(Loads), NEW a, Registration!Entries(a) # {}
    PROVE  /\ Registration!First(Registration!Entries(a)) \in 1 .. Len(listed)
           /\ load[listed[Registration!First(Registration!Entries(a))]].address = a
<1> DEFINE T == Registration!Entries(a)
<1>1. T \subseteq 1 .. Len(listed) /\ \A i \in T : load[listed[i]].address = a
  BY DEF Registration!Entries
<1>2. T \in SUBSET Nat
  BY <1>1
<1> HIDE DEF T
<1>3. T # {}
  BY DEF T
<1>4. \E i \in T : \A j \in T : i <= j
  BY <1>2, <1>3, LeastNat
<1>5. Registration!First(T) \in T
  BY <1>4, Zenon DEF Registration!First
<1> QED BY <1>1, <1>5 DEF T

\* A hyperty is unregistered: the first entry with its address goes.
LEMMA HypertyUnregistered ==
    ASSUME RegistrationInv, NEW a \in Registration!Addresses, Registration!UnregisterHyperty(a)
    PROVE  RegistrationInv'
<1> DEFINE i == Registration!First(Registration!Entries(a))
<1>1. /\ Registration!Entries(a) # {} /\ listed' = Registration!RemoveAt(listed, i)
      /\ UNCHANGED <<load, urls, saved, writes, timers, closing, domain, expired, fresh, given,
                     closed>>
  BY DEF Registration!UnregisterHyperty
<1>2. /\ domain \in [Registration!Addresses -> Known] /\ listed \in Seq(Loads)
      /\ ListedFit(listed, load) /\ closing \subseteq closed
      /\ closed \subseteq Registration!Addresses /\ expired \subseteq Registration!Addresses
  BY DEF RegistrationInv, Shaped
<1>3. i \in 1 .. Len(listed)
  BY <1>1, <1>2, FirstEntryIs
<1> HIDE DEF i
<1>4. /\ listed' \in Seq(Loads)
      /\ \A k \in 1 .. Len(listed') : \E j \in 1 .. Len(listed) : listed'[k] = listed[j]
  BY <1>1, <1>2, <1>3, RemoveAtIs
<1>5. ListedFit(listed', load)
  BY <1>2, <1>4 DEF ListedFit
<1> QED BY <1>1, <1>2, <1>4, <1>5, DomainMoves

\* A load begins, and may ask for an address of its own.
LEMMA LoadNext ==
    ASSUME RegistrationInv, NEW l \in Loads, NEW d \in Descriptors,
           NEW reuse \in 0 .. Registration!ReuseKey, NEW resume \in BOOLEAN,
           Registration!Load(l, d, reuse, resume)
    PROVE  RegistrationInv'
<1> DEFINE new == [load[l] EXCEPT !.stage = "address", !.descriptor = d, !.reuse = reuse,
                                  !.resume = resume /\ d.kind = "object"]
<1>1. /\ load[l].stage = "idle" /\ (reuse \in Registration!Addresses => reuse <= fresh)
      /\ given' = IF reuse \in Registration!Addresses THEN given \union {reuse} ELSE given
      /\ UNCHANGED <<urls, saved, writes, listed, timers, closing, domain, expired, fresh, closed>>
  BY DEF Registration!Load
<1>2. /\ load \in [Loads -> LoadRecords] /\ Shaped /\ listed \in Seq(Loads)
      /\ writes \in Seq(Writings)
  BY DEF RegistrationInv, Shaped
<1>3. load' = [load EXCEPT ![l] = new]
  BY <1>2 DEF Registration!Load
<1>4. load[l] \in LoadRecords /\ StageFits(load[l], timers, given, fresh)
  BY <1>2 DEF RegistrationInv
<1>5. /\ new \in LoadRecords /\ new.stage = "address" /\ new.address = load[l].address
      /\ new.reuse = reuse
  <2>1. reuse \in 0 .. MaxAddresses + 1
    BY DEF Registration!ReuseKey
  <2>2. (resume /\ d.kind = "object") \in BOOLEAN
    OBVIOUS
  <2> QED BY <1>4, <2>1, <2>2 DEF LoadRecords, Registration!Stages
<1> HIDE DEF new
<1>6. new.address = 0
  BY <1>1, <1>4, <1>5 DEF StageFits
<1>7. given \subseteq given' /\ given' \subseteq Registration!Addresses
  BY <1>1, <1>2 DEF Shaped
<1>8. fresh' \in 0 .. MaxAddresses /\ fresh <= fresh' /\ fresh' \in Nat
  BY <1>1, <1>2, AddressNumbers DEF Shaped
<1>9. StageFits(new, timers', given', fresh')
  BY <1>1, <1>5, <1>6, <1>8 DEF StageFits, Registration!Addresses
<1>10. /\ load' \in [Loads -> LoadRecords]
       /\ load'[l] = new /\ \A m \in Loads : m # l => load'[m] = load[m]
       /\ \A m \in Loads : StageFits(load'[m], timers', given', fresh')
  BY <1>1, <1>3, <1>5, <1>7, <1>8, <1>9, OthersStay
<1>11. Shaped'
  BY <1>1, <1>2, <1>7, <1>10 DEF Shaped
<1>12. WritesFit(writes, load)'
  <2> SUFFICES ASSUME NEW i \in 1 .. Len(writes)
               PROVE  load'[writes[i].by].stage = "storing"
    BY <1>1 DEF RegistrationInv, WritesFit
  <2>1. writes[i] \in Writings
    BY <1>2, ElementOfSeq
  <2>2. writes[i].by \in Loads /\ load[writes[i].by].stage = "storing"
    BY <2>1 DEF RegistrationInv, WritesFit, Writings
  <2> QED BY <1>1, <1>10, <2>2
<1>13. ListedFit(listed, load)'
  <2> SUFFICES ASSUME NEW i \in 1 .. Len(listed)
               PROVE  /\ load'[listed[i]].stage \notin {"idle", "gone"}
                      /\ load'[listed[i]].address # 0
    BY <1>1 DEF ListedFit
  <2>1. listed[i] \in Loads
    BY <1>2, ElementOfSeq
  <2>2. load[listed[i]].stage \notin {"idle", "gone"} /\ load[listed[i]].address # 0
    BY DEF RegistrationInv, ListedFit
  <2> QED BY <1>1, <1>10, <2>1, <2>2
<1>14. DomainKnows'
  <2> SUFFICES ASSUME NEW m \in Loads, load'[m].stage = "registered",
                      Registration!Alone(m)', load'[m].address \notin closed
               PROVE  /\ domain[load'[m].address].status = "live" \/ load'[m].address \in expired
                      /\ \/ domain[load'[m].address] = Registration!Unknown
                         \/ domain[load'[m].address].user = load'[m].user
    BY <1>1 DEF DomainKnows
  <2>1. m # l /\ load'[m] = load[m]
    BY <1>5, <1>10
  <2>2. Registration!Alone(m)
    BY <1>1, <1>10, <2>1 DEF Registration!Alone
  <2> QED BY <2>1, <2>2 DEF RegistrationInv, DomainKnows
<1>15. PICK owner \in Owners : OwnersFit(owner)
  BY DEF RegistrationInv
<1>16. \A m \in Loads : CallFits(load'[m], owner, given')
  BY <1>5, <1>6, <1>7, <1>10, <1>15 DEF CallFits, OwnersFit
<1>17. OwnersFit(owner)'
  BY <1>1, <1>2, <1>7, <1>8, <1>15, <1>16, OwnersFitMore
<1> QED BY <1>10, <1>11, <1>12, <1>13, <1>14, <1>17 DEF RegistrationInv

\* The address is remembered for the key, and is its own.
LEMMA RememberIs ==
    ASSUME Shaped, NEW l \in Loads, NEW owner, NEW a \in 0 .. MaxAddresses,
           NEW callers, NEW count \in Nat, given \subseteq callers, fresh <= count,
           OwnersFit(owner), a <= count,
           a \in callers \union {0} \/ owner[a] = Registration!Key(load[l].descriptor),
           Registration!Remember(l, a)
    PROVE  /\ urls' \in AddressMaps /\ MapFits(urls', owner, callers, count)
           /\ writes' = Append(writes, [by |-> l, urls |-> urls'])
           /\ [by |-> l, urls |-> urls'] \in Writings
<1> DEFINE k == Registration!Key(load[l].descriptor)
<1>1. /\ urls' = [urls EXCEPT ![k] = a]
      /\ writes' = Append(writes, [by |-> l, urls |-> urls'])
  BY DEF Registration!Remember
<1>2. k \in Registration!DescriptorKeys
  <2>1. load[l] \in LoadRecords
    BY DEF Shaped
  <2> QED BY <2>1, KeyIs DEF LoadRecords
<1> HIDE DEF k
<1>3. urls \in AddressMaps /\ fresh \in Nat
  BY AddressNumbers DEF Shaped
<1>4. urls' \in AddressMaps
  BY <1>1, <1>2, <1>3 DEF AddressMaps
<1>5. MapFits(urls, owner, callers, count)
  BY <1>3, MapFitsMore DEF OwnersFit
<1>6. ASSUME NEW x \in Registration!DescriptorKeys
      PROVE  urls'[x] <= count /\ (urls'[x] \in callers \union {0} \/ owner[urls'[x]] = x)
  <2>1. CASE x = k
    <3>1. urls'[x] = a
      BY <1>1, <1>2, <1>3, <2>1 DEF AddressMaps
    <3> QED BY <2>1, <3>1 DEF k
  <2>2. CASE x # k
    <3>1. urls'[x] = urls[x]
      BY <1>1, <1>2, <1>3, <2>2 DEF AddressMaps
    <3> QED BY <1>5, <3>1 DEF MapFits
  <2> QED BY <2>1, <2>2
<1>7. MapFits(urls', owner, callers, count)
  BY <1>6 DEF MapFits
<1> QED BY <1>1, <1>4, <1>7 DEF Writings

\* A call that comes to wait for its write is the only one of it.
LEMMA WriteQueued ==
    ASSUME Shaped, NEW l \in Loads, NEW map \in AddressMaps, NEW calls \in [Loads -> LoadRecords],
           WritesFit(writes, load), load[l].stage # "storing", calls[l].stage = "storing",
           \A m \in Loads : m # l => calls[m] = load[m]
    PROVE  /\ Append(writes, [by |-> l, urls |-> map]) \in Seq(Writings)
           /\ WritesFit(Append(writes, [by |-> l, urls |-> map]), calls)
<1> DEFINE w == [by |-> l, urls |-> map]
           more == Append(writes, w)
<1>1. w \in Writings /\ w.by = l
  BY DEF Writings
<1> HIDE DEF w
<1>2. writes \in Seq(Writings) /\ Len(writes) \in Nat
  BY DEF Shaped
<1>3. /\ more \in Seq(Writings) /\ Len(more) = Len(writes) + 1 /\ more[Len(writes) + 1] = w
      /\ \A i \in 1 .. Len(writes) : more[i] = writes[i]
  BY <1>1, <1>2
<1> HIDE DEF more
<1>4. \A i \in 1 .. Len(more) : i \in 1 .. Len(writes) \/ i = Len(writes) + 1
  BY <1>2, <1>3
<1>5. ASSUME NEW i \in 1 .. Len(writes)
      PROVE  /\ writes[i].by \in Loads /\ writes[i].by # l
             /\ calls[writes[i].by].stage = "storing"
  <2>1. writes[i] \in Writings
    BY <1>2, ElementOfSeq
  <2>2. writes[i].by \in Loads /\ load[writes[i].by].stage = "storing"
    BY <2>1 DEF Writings, WritesFit
  <2> QED BY <2>2
<1>6. \A i \in 1 .. Len(more) : calls[more[i].by].stage = "storing"
  BY <1>1, <1>3, <1>4, <1>5
<1>7. ASSUME NEW i \in 1 .. Len(more), NEW j \in 1 .. Len(more), i # j
      PROVE  more[i].by # more[j].by
  <2>1. CASE i \in 1 .. Len(writes) /\ j \in 1 .. Len(writes)
    BY <1>3, <1>7, <2>1 DEF WritesFit
  <2>2. CASE i = Len(writes) + 1 /\ j \in 1 .. Len(writes)
    BY <1>1, <1>3, <1>5, <2>2
  <2>3. CASE j = Len(writes) + 1 /\ i \in 1 .. Len(writes)
    BY <1>1, <1>3, <1>5, <2>3
  <2> QED BY <1>4, <1>7, <2>1, <2>2, <2>3
<1>8. WritesFit(more, calls)
  BY <1>6, <1>7 DEF WritesFit
<1> QED BY <1>3, <1>8 DEF more, w

\* A load gets its identity, and an address that it has or that is saved.
LEMMA IdentifiedNext ==
    ASSUME RegistrationInv, NEW l \in Loads, NEW u \in Residents, Registration!Identified(l, u)
    PROVE  RegistrationInv'
<1> DEFINE new == [load[l] EXCEPT !.stage = "storing", !.user = u]
<1>1. /\ load[l].stage = "identity"
      /\ Registration!Remember(l, load[l].address)
      /\ UNCHANGED <<saved, listed, timers, closing, domain, expired, fresh, given, closed>>
  BY DEF Registration!Identified
<1>2. /\ load \in [Loads -> LoadRecords] /\ Shaped /\ listed \in Seq(Loads)
      /\ writes \in Seq(Writings)
  BY DEF RegistrationInv, Shaped
<1>3. load' = [load EXCEPT ![l] = new]
  BY <1>2 DEF Registration!Identified
<1>4. load[l] \in LoadRecords /\ StageFits(load[l], timers, given, fresh)
  BY <1>2 DEF RegistrationInv
<1>5. /\ new \in LoadRecords /\ new.stage = "storing" /\ new.address = load[l].address
      /\ new.descriptor = load[l].descriptor /\ new.reuse = load[l].reuse
  BY <1>4 DEF LoadRecords, Registration!Stages
<1> HIDE DEF new
<1>6. StageFits(new, timers', given', fresh')
  BY <1>1, <1>4, <1>5 DEF StageFits
<1>7. fresh' \in 0 .. MaxAddresses /\ fresh <= fresh' /\ fresh' \in Nat
  BY <1>1, <1>2, AddressNumbers DEF Shaped
<1>8. /\ load' \in [Loads -> LoadRecords]
      /\ load'[l] = new /\ \A m \in Loads : m # l => load'[m] = load[m]
      /\ \A m \in Loads : StageFits(load'[m], timers', given', fresh')
  BY <1>1, <1>3, <1>5, <1>6, <1>7, OthersStay
<1>9. /\ ListedFit(listed, load')
      /\ \A owner \in Owners : OwnersFit(owner) =>
            \A m \in Loads : CallFits(load'[m], owner, given)
      /\ \A m \in Loads : m # l /\ Registration!Alone(m)' =>
            Registration!Alone(m) /\ load[m].address # load[l].address
  BY <1>1, <1>3, <1>5, GoesOn
<1>10. PICK owner \in Owners : OwnersFit(owner)
  BY DEF RegistrationInv
<1>11. /\ load[l].address \in 0 .. MaxAddresses /\ load[l].address <= fresh
       /\ load[l].address \in given \union {0} \/ owner[load[l].address] = Registration!Key(load[l].descriptor)
  BY <1>4, <1>10 DEF LoadRecords, StageFits, OwnersFit, CallFits
<1>12. fresh \in Nat /\ fresh <= fresh
  BY <1>1, <1>7
<1>13. /\ urls' \in AddressMaps /\ MapFits(urls', owner, given, fresh)
       /\ writes' = Append(writes, [by |-> l, urls |-> urls'])
       /\ [by |-> l, urls |-> urls'] \in Writings
  BY <1>1, <1>2, <1>10, <1>11, <1>12, RememberIs
<1>14. writes' \in Seq(Writings) /\ WritesFit(writes', load')
  BY <1>1, <1>2, <1>5, <1>8, <1>13, WriteQueued DEF RegistrationInv
<1>15. Shaped'
  BY <1>1, <1>2, <1>8, <1>13, <1>14 DEF Shaped
<1>16. DomainKnows'
  <2> SUFFICES ASSUME NEW m \in Loads, load'[m].stage = "registered",
                      Registration!Alone(m)', load'[m].address \notin closed
               PROVE  /\ domain[load'[m].address].status = "live" \/ load'[m].address \in expired
                      /\ \/ domain[load'[m].address] = Registration!Unknown
                         \/ domain[load'[m].address].user = load'[m].user
    BY <1>1 DEF DomainKnows
  <2>1. m # l /\ load'[m] = load[m]
    BY <1>5, <1>8
  <2>2. Registration!Alone(m)
    BY <1>9, <2>1
  <2> QED BY <2>1, <2>2 DEF RegistrationInv, DomainKnows
<1>17. OwnersFit(owner)'
  <2>1. \A i \in 1 .. Len(writes') : MapFits(writes'[i].urls, owner, given, fresh)
    <3> SUFFICES ASSUME NEW i \in 1 .. Len(writes')
                 PROVE  MapFits(writes'[i].urls, owner, given, fresh)
      OBVIOUS
    <3>1. CASE i \in 1 .. Len(writes)
      BY <1>2, <1>10, <1>13, <3>1 DEF OwnersFit
    <3>2. CASE i = Len(writes) + 1
      BY <1>2, <1>13, <3>2
    <3>3. Len(writes') = Len(writes) + 1 /\ Len(writes) \in Nat
      BY <1>2, <1>13
    <3> QED BY <3>1, <3>2, <3>3
  <2>2. MapFits(saved, owner, given, fresh) /\ \A m \in Loads : CallFits(load'[m], owner, given)
    BY <1>9, <1>10 DEF OwnersFit
  <2> QED BY <1>1, <1>13, <2>1, <2>2 DEF OwnersFit
<1> QED BY <1>1, <1>8, <1>9, <1>10, <1>14, <1>15, <1>16, <1>17 DEF RegistrationInv

\* An address that is allocated has no owner yet, and is given one.
LEMMA NewOwner ==
    ASSUME RegistrationInv, NEW owner \in Owners, OwnersFit(owner),
           NEW d \in Registration!DescriptorKeys, fresh + 1 <= MaxAddresses
    PROVE  \E mine \in Owners : OwnersFit(mine) /\ mine[fresh + 1] = d
<1> DEFINE mine == [owner EXCEPT ![fresh + 1] = d]
<1>1. /\ Shaped /\ urls \in AddressMaps /\ saved \in AddressMaps /\ fresh \in Nat
      /\ writes \in Seq(Writings) /\ load \in [Loads -> LoadRecords]
  BY AddressNumbers DEF RegistrationInv, Shaped
<1>2. fresh + 1 \in Registration!Addresses
  BY <1>1, AddressNumbers DEF Registration!Addresses
<1>3. mine \in Owners /\ mine[fresh + 1] = d
  BY <1>2 DEF Owners
<1>4. \A a \in Registration!Addresses : a <= fresh => mine[a] = owner[a]
  BY <1>1 DEF Owners, Registration!Addresses
<1> HIDE DEF mine
<1>5. \A a \in 0 .. MaxAddresses : a <= fresh /\ a # 0 => mine[a] = owner[a]
  BY <1>4, AddressNumbers DEF Registration!Addresses
<1>6. ASSUME NEW map \in AddressMaps, MapFits(map, owner, given, fresh)
      PROVE  MapFits(map, mine, given, fresh)
  <2>1. \A k \in Registration!DescriptorKeys : map[k] \in 0 .. MaxAddresses
    BY DEF AddressMaps
  <2> QED BY <1>5, <1>6, <2>1 DEF MapFits
<1>7. ASSUME NEW i \in 1 .. Len(writes)
      PROVE  MapFits(writes[i].urls, mine, given, fresh)
  <2>1. writes[i] \in Writings
    BY <1>1, ElementOfSeq
  <2>2. writes[i].urls \in AddressMaps
    BY <2>1 DEF Writings
  <2> QED BY <1>6, <2>2 DEF OwnersFit
<1>8. ASSUME NEW l \in Loads
      PROVE  CallFits(load[l], mine, given)
  <2>1. load[l] \in LoadRecords /\ StageFits(load[l], timers, given, fresh)
    BY <1>1 DEF RegistrationInv
  <2>2. load[l].address \in 0 .. MaxAddresses /\ load[l].address <= fresh
    BY <2>1 DEF LoadRecords, StageFits
  <2>3. CallFits(load[l], owner, given)
    BY DEF OwnersFit
  <2> QED BY <1>5, <2>2, <2>3 DEF CallFits
<1> QED BY <1>1, <1>3, <1>6, <1>7, <1>8 DEF OwnersFit

\* The address that is allocated is the key's, or was asked for.
LEMMA AllocatedIs ==
    ASSUME RegistrationInv, NEW l \in Loads, NEW old, NEW a,
           old = IF load[l].reuse = Registration!ReuseKey
                 THEN Registration!CheckRegisteredURLs(l) ELSE load[l].reuse,
           a = IF old = 0 THEN fresh + 1 ELSE old, a <= MaxAddresses,
           fresh' = IF old = 0 THEN fresh + 1 ELSE fresh
    PROVE  /\ a \in 0 .. MaxAddresses /\ a # 0 /\ a <= fresh'
           /\ fresh' \in 0 .. MaxAddresses /\ fresh' \in Nat /\ fresh \in Nat /\ fresh <= fresh'
           /\ \E owner \in Owners :
                 OwnersFit(owner) /\ (a \in given \union {0} \/ owner[a] = Registration!Key(load[l].descriptor))
<1>1. /\ load[l] \in LoadRecords /\ StageFits(load[l], timers, given, fresh)
      /\ fresh \in 0 .. MaxAddresses /\ saved \in AddressMaps
  BY DEF RegistrationInv, Shaped
<1>2. /\ fresh \in Nat /\ load[l].descriptor \in Descriptors
      /\ load[l].reuse \in 0 .. MaxAddresses + 1
  BY <1>1, AddressNumbers DEF LoadRecords
<1>3. PICK owner \in Owners : OwnersFit(owner)
  BY DEF RegistrationInv
<1>4. CASE old = 0
  <2>1. a = fresh + 1 /\ fresh' = fresh + 1 /\ fresh + 1 <= MaxAddresses
    BY <1>4
  <2>2. \E mine \in Owners : OwnersFit(mine) /\ mine[fresh + 1] = Registration!Key(load[l].descriptor)
    BY <1>2, <1>3, <2>1, KeyIs, NewOwner
  <2> QED BY <1>2, <2>1, <2>2, AddressNumbers
<1>5. CASE old # 0 /\ load[l].reuse = Registration!ReuseKey
  <2>1. a = saved[Registration!Key(load[l].descriptor)] /\ fresh' = fresh
    BY <1>5 DEF Registration!CheckRegisteredURLs
  <2>2. Registration!Key(load[l].descriptor) \in Registration!DescriptorKeys
    BY <1>2, KeyIs
  <2>3. a \in 0 .. MaxAddresses
    BY <1>1, <2>1, <2>2 DEF AddressMaps
  <2>4. a <= fresh /\ (a \in given \union {0} \/ owner[a] = Registration!Key(load[l].descriptor))
    BY <1>3, <2>1, <2>2 DEF OwnersFit, MapFits
  <2> QED BY <1>1, <1>2, <1>3, <1>5, <2>1, <2>3, <2>4
<1>6. CASE old # 0 /\ load[l].reuse # Registration!ReuseKey
  <2>1. a = load[l].reuse /\ fresh' = fresh
    BY <1>6
  <2>2. a \in 1 .. MaxAddresses
    BY <1>2, <1>6, <2>1, AddressNumbers DEF Registration!ReuseKey
  <2>3. a \in given /\ a <= fresh
    BY <1>1, <2>1, <2>2 DEF StageFits
  <2> QED BY <1>1, <1>2, <1>3, <2>1, <2>2, <2>3
<1> QED BY <1>4, <1>5, <1>6

\* New addresses are allocated in order, and written with the map.
LEMMA AllocateNext ==
    ASSUME RegistrationInv, NEW l \in Loads, Registration!Allocate(l)
    PROVE  RegistrationInv'
<1> DEFINE r == load[l].reuse
           old == IF r = Registration!ReuseKey THEN Registration!CheckRegisteredURLs(l) ELSE r
           a == IF old = 0 THEN fresh + 1 ELSE old
           hyperty == Registration!IsHyperty(l)
           new == [load[l] EXCEPT !.stage = IF hyperty THEN "identity" ELSE "storing",
                                  !.address = a, !.resume = IF hyperty THEN old = 0 ELSE @]
<1>1. /\ load[l].stage = "address" /\ a <= MaxAddresses
      /\ fresh' = IF old = 0 THEN fresh + 1 ELSE fresh
      /\ IF hyperty THEN UNCHANGED <<urls, writes>> ELSE Registration!Remember(l, a)
      /\ UNCHANGED <<saved, listed, timers, closing, domain, expired, given, closed>>
  BY DEF Registration!Allocate
<1>2. /\ load \in [Loads -> LoadRecords] /\ Shaped /\ listed \in Seq(Loads)
      /\ writes \in Seq(Writings)
  BY DEF RegistrationInv, Shaped
<1>3. load' = [load EXCEPT ![l] = new]
  BY <1>2 DEF Registration!Allocate
<1>4. load[l] \in LoadRecords /\ StageFits(load[l], timers, given, fresh)
  BY <1>2 DEF RegistrationInv
<1>5. /\ a \in 0 .. MaxAddresses /\ a # 0 /\ a <= fresh'
      /\ fresh' \in 0 .. MaxAddresses /\ fresh' \in Nat /\ fresh \in Nat /\ fresh <= fresh'
      /\ \E owner \in Owners :
            OwnersFit(owner) /\ (a \in given \union {0} \/ owner[a] = Registration!Key(load[l].descriptor))
  <2> HIDE DEF a, old
  <2>1. /\ old = IF load[l].reuse = Registration!ReuseKey
                 THEN Registration!CheckRegisteredURLs(l) ELSE load[l].reuse
        /\ a = IF old = 0 THEN fresh + 1 ELSE old
    BY DEF a, old
  <2> QED BY <1>1, <2>1, AllocatedIs
<1>6. (old = 0) \in BOOLEAN
  OBVIOUS
<1> HIDE DEF a, old
<1>7. /\ new \in LoadRecords /\ new.stage \in {"identity", "storing"} /\ new.address = a
      /\ new.descriptor = load[l].descriptor /\ new.reuse = load[l].reuse
      /\ ~hyperty => new.stage = "storing"
  BY <1>4, <1>5, <1>6 DEF LoadRecords, Registration!Stages
<1> HIDE DEF new, hyperty
<1>8. StageFits(new, timers', given', fresh')
  <2>1. load[l].reuse \in 0 .. MaxAddresses + 1
    BY <1>4 DEF LoadRecords
  <2> QED BY <1>1, <1>4, <1>5, <1>7, <2>1, AddressNumbers DEF StageFits
<1>9. /\ load' \in [Loads -> LoadRecords]
      /\ load'[l] = new /\ \A m \in Loads : m # l => load'[m] = load[m]
      /\ \A m \in Loads : StageFits(load'[m], timers', given', fresh')
  BY <1>1, <1>3, <1>5, <1>7, <1>8, OthersStay
<1>10. ListedFit(listed, load)'
  <2> SUFFICES ASSUME NEW i \in 1 .. Len(listed)
               PROVE  /\ load'[listed[i]].stage \notin {"idle", "gone"}
                      /\ load'[listed[i]].address # 0
    BY <1>1 DEF ListedFit
  <2>1. listed[i] \in Loads
    BY <1>2, ElementOfSeq
  <2>2. load[listed[i]].stage \notin {"idle", "gone"} /\ load[listed[i]].address # 0
    BY DEF RegistrationInv, ListedFit
  <2> QED BY <1>5, <1>7, <1>9, <2>1, <2>2
<1>11. DomainKnows'
  <2> SUFFICES ASSUME NEW m \in Loads, load'[m].stage = "registered",
                      Registration!Alone(m)', load'[m].address \notin closed
               PROVE  /\ domain[load'[m].address].status = "live" \/ load'[m].address \in expired
                      /\ \/ domain[load'[m].address] = Registration!Unknown
                         \/ domain[load'[m].address].user = load'[m].user
    BY <1>1 DEF DomainKnows
  <2>1. m # l /\ load'[m] = load[m]
    BY <1>7, <1>9
  <2>2. load[l].address = 0 /\ load[m].address # 0
    BY <1>1, <1>4, <2>1 DEF RegistrationInv, StageFits
  <2>3. Registration!Alone(m)
    BY <1>9, <2>1, <2>2 DEF Registration!Alone
  <2> QED BY <2>1, <2>3 DEF RegistrationInv, DomainKnows
<1>12. PICK owner \in Owners :
         OwnersFit(owner) /\ (a \in given \union {0} \/ owner[a] = Registration!Key(load[l].descriptor))
  BY <1>5
<1>13. \A m \in Loads : CallFits(load'[m], owner, given')
  BY <1>1, <1>7, <1>9, <1>12 DEF CallFits, OwnersFit
<1>14. CASE hyperty
  <2>1. UNCHANGED <<urls, saved, writes>>
    BY <1>1, <1>14
  <2>2. OwnersFit(owner)'
    BY <1>1, <1>2, <1>5, <1>12, <1>13, <2>1, OwnersFitMore
  <2>3. WritesFit(writes, load)'
    <3> SUFFICES ASSUME NEW i \in 1 .. Len(writes)
                 PROVE  load'[writes[i].by].stage = "storing"
      BY <2>1 DEF RegistrationInv, WritesFit
    <3>1. writes[i] \in Writings
      BY <1>2, ElementOfSeq
    <3>2. writes[i].by \in Loads /\ load[writes[i].by].stage = "storing"
      BY <3>1 DEF RegistrationInv, WritesFit, Writings
    <3> QED BY <1>1, <1>9, <3>2
  <2>4. Shaped'
    BY <1>1, <1>2, <1>5, <1>9, <2>1 DEF Shaped
  <2> QED BY <1>9, <1>10, <1>11, <1>12, <2>2, <2>3, <2>4 DEF RegistrationInv
<1>15. CASE ~hyperty
  <2>1. /\ urls' \in AddressMaps /\ MapFits(urls', owner, given, fresh')
        /\ writes' = Append(writes, [by |-> l, urls |-> urls'])
        /\ [by |-> l, urls |-> urls'] \in Writings
    BY <1>1, <1>2, <1>5, <1>12, <1>15, RememberIs
  <2>2. writes' \in Seq(Writings) /\ WritesFit(writes', load')
    BY <1>1, <1>2, <1>7, <1>9, <1>15, <2>1, WriteQueued DEF RegistrationInv
  <2>3. Shaped'
    BY <1>1, <1>2, <1>5, <1>9, <2>1, <2>2 DEF Shaped
  <2>4. saved \in AddressMaps /\ MapFits(saved, owner, given, fresh')
    BY <1>2, <1>5, <1>12, MapFitsMore DEF Shaped, OwnersFit
  <2>5. ASSUME NEW i \in 1 .. Len(writes')
        PROVE  MapFits(writes'[i].urls, owner, given, fresh')
    <3>1. CASE i \in 1 .. Len(writes)
      <4>1. writes[i] \in Writings /\ writes'[i] = writes[i]
        BY <1>2, <2>1, <3>1, ElementOfSeq
      <4>2. writes[i].urls \in AddressMaps
        BY <4>1 DEF Writings
      <4>3. MapFits(writes[i].urls, owner, given, fresh)
        BY <1>12, <3>1 DEF OwnersFit
      <4> QED BY <1>5, <4>1, <4>2, <4>3, MapFitsMore
    <3>2. CASE i = Len(writes) + 1
      BY <1>2, <2>1, <3>2
    <3>3. Len(writes') = Len(writes) + 1 /\ Len(writes) \in Nat
      BY <1>2, <2>1
    <3> QED BY <3>1, <3>2, <3>3
  <2>6. OwnersFit(owner)'
    BY <1>1, <1>13, <2>1, <2>4, <2>5 DEF OwnersFit
  <2> QED BY <1>9, <1>10, <1>11, <1>12, <2>2, <2>3, <2>6 DEF RegistrationInv
<1> QED BY <1>14, <1>15

\* The oldest write ends, and its load goes on to the domain.
LEMMA StoredNext ==
    ASSUME RegistrationInv, Registration!Stored
    PROVE  RegistrationInv'
<1> DEFINE w == Head(writes)
           l == w.by
           new == [load[l] EXCEPT !.stage = "registering"]
<1>1. /\ writes # <<>> /\ writes' = Tail(writes)
      /\ saved' \in {w.urls, saved} /\ Registration!Goes(l, "registering")
      /\ listed' \in {listed, Append(listed, l)}
      /\ timers' = timers \union {load[l].address}
      /\ UNCHANGED <<urls, closing, domain, expired, fresh, given, closed>>
  BY DEF Registration!Stored
<1>2. /\ load \in [Loads -> LoadRecords] /\ Shaped /\ listed \in Seq(Loads)
      /\ writes \in Seq(Writings)
  BY DEF RegistrationInv, Shaped
<1>3. /\ writes' \in Seq(Writings) /\ Len(writes) = Len(writes') + 1 /\ Len(writes') \in Nat
      /\ \A i \in 1 .. Len(writes') : writes'[i] = writes[i + 1] /\ i + 1 \in 1 .. Len(writes)
      /\ w = writes[1] /\ 1 \in 1 .. Len(writes)
  BY <1>1, <1>2
<1>4. w \in Writings
  BY <1>2, <1>3, ElementOfSeq
<1>5. l \in Loads /\ w.urls \in AddressMaps
  BY <1>4 DEF Writings
<1>6. load[l].stage = "storing"
  BY <1>3 DEF RegistrationInv, WritesFit
<1>7. \A i \in 1 .. Len(writes') : writes'[i].by # l /\ load[writes'[i].by].stage = "storing"
  <2> SUFFICES ASSUME NEW i \in 1 .. Len(writes')
               PROVE  writes[i + 1].by # writes[1].by /\ load[writes[i + 1].by].stage = "storing"
    BY <1>3
  <2>1. i + 1 \in 1 .. Len(writes) /\ i + 1 # 1
    BY <1>3
  <2> QED BY <1>3, <2>1 DEF RegistrationInv, WritesFit
<1>8. load' = [load EXCEPT ![l] = new]
  BY <1>1 DEF Registration!Goes
<1>9. \A owner : OwnersFit(owner) => MapFits(w.urls, owner, given, fresh)
  BY <1>3 DEF OwnersFit
<1> HIDE DEF l, w
<1>10. load[l] \in LoadRecords /\ StageFits(load[l], timers, given, fresh)
  BY <1>2, <1>5 DEF RegistrationInv
<1>11. /\ new \in LoadRecords /\ new.stage = "registering" /\ new.address = load[l].address
       /\ new.descriptor = load[l].descriptor /\ new.reuse = load[l].reuse
  BY <1>10 DEF LoadRecords, Registration!Stages
<1> HIDE DEF new
<1>12. StageFits(new, timers', given', fresh')
  BY <1>1, <1>6, <1>10, <1>11 DEF StageFits
<1>13. fresh' \in 0 .. MaxAddresses /\ fresh <= fresh' /\ timers \subseteq timers' /\ given \subseteq given'
  BY <1>1, <1>2, AddressNumbers DEF Shaped
<1>14. /\ load' \in [Loads -> LoadRecords]
       /\ load'[l] = new /\ \A m \in Loads : m # l => load'[m] = load[m]
       /\ \A m \in Loads : StageFits(load'[m], timers', given', fresh')
  BY <1>5, <1>8, <1>11, <1>12, <1>13, OthersStay
<1>15. /\ ListedFit(listed, load')
       /\ \A owner \in Owners : OwnersFit(owner) =>
             \A m \in Loads : CallFits(load'[m], owner, given)
       /\ \A m \in Loads : m # l /\ Registration!Alone(m)' =>
             Registration!Alone(m) /\ load[m].address # load[l].address
  BY <1>5, <1>6, <1>8, <1>11, GoesOn
<1>16. load[l].address # 0 /\ load[l].address \in Registration!Addresses
  <2>1. load[l].address # 0 /\ load[l].address \in 0 .. MaxAddresses
    BY <1>6, <1>10 DEF StageFits, LoadRecords
  <2> QED BY <2>1, AddressNumbers DEF Registration!Addresses
<1>17. listed' \in Seq(Loads) /\ ListedFit(listed', load')
  <2>1. CASE listed' = listed
    BY <1>2, <1>15, <2>1
  <2>2. CASE listed' = Append(listed, l)
    <3>1. /\ listed' \in Seq(Loads) /\ Len(listed') = Len(listed) + 1 /\ Len(listed) \in Nat
          /\ listed'[Len(listed) + 1] = l
          /\ \A i \in 1 .. Len(listed) : listed'[i] = listed[i]
      BY <1>2, <1>5, <2>2
    <3>2. \A i \in 1 .. Len(listed') : i \in 1 .. Len(listed) \/ i = Len(listed) + 1
      BY <3>1
    <3>3. load'[l].stage \notin {"idle", "gone"} /\ load'[l].address # 0
      BY <1>11, <1>14, <1>16
    <3>4. ListedFit(listed', load')
      <4> SUFFICES ASSUME NEW i \in 1 .. Len(listed')
                   PROVE  /\ load'[listed'[i]].stage \notin {"idle", "gone"}
                          /\ load'[listed'[i]].address # 0
        BY DEF ListedFit
      <4>1. CASE i \in 1 .. Len(listed)
        BY <1>15, <3>1, <4>1 DEF ListedFit
      <4>2. CASE i = Len(listed) + 1
        BY <3>1, <3>3, <4>2
      <4> QED BY <3>2, <4>1, <4>2
    <3> QED BY <3>1, <3>4
  <2> QED BY <1>1, <2>1, <2>2
<1>18. WritesFit(writes', load')
  <2>1. ASSUME NEW i \in 1 .. Len(writes')
        PROVE  load'[writes'[i].by].stage = "storing"
    <3>1. writes'[i] \in Writings
      BY <1>3, ElementOfSeq
    <3>2. writes'[i].by \in Loads
      BY <3>1 DEF Writings
    <3> QED BY <1>7, <1>14, <3>2
  <2>2. ASSUME NEW i \in 1 .. Len(writes'), NEW j \in 1 .. Len(writes'), i # j
        PROVE  writes'[i].by # writes'[j].by
    <3>1. i + 1 \in 1 .. Len(writes) /\ j + 1 \in 1 .. Len(writes) /\ i + 1 # j + 1
      BY <1>3, <2>2
    <3>2. writes[i + 1].by # writes[j + 1].by
      BY <3>1 DEF RegistrationInv, WritesFit
    <3> QED BY <1>3, <3>2
  <2> QED BY <2>1, <2>2 DEF WritesFit
<1>19. Shaped'
  BY <1>1, <1>2, <1>3, <1>5, <1>14, <1>16, <1>17 DEF Shaped
<1>20. DomainKnows'
  <2> SUFFICES ASSUME NEW m \in Loads, load'[m].stage = "registered",
                      Registration!Alone(m)', load'[m].address \notin closed
               PROVE  /\ domain[load'[m].address].status = "live" \/ load'[m].address \in expired
                      /\ \/ domain[load'[m].address] = Registration!Unknown
                         \/ domain[load'[m].address].user = load'[m].user
    BY <1>1 DEF DomainKnows
  <2>1. m # l /\ load'[m] = load[m]
    BY <1>11, <1>14
  <2>2. Registration!Alone(m)
    BY <1>15, <2>1
  <2> QED BY <2>1, <2>2 DEF RegistrationInv, DomainKnows
<1>21. PICK owner \in Owners : OwnersFit(owner)
  BY DEF RegistrationInv
<1>22. OwnersFit(owner)'
  <2>1. MapFits(urls', owner, given', fresh') /\ MapFits(saved', owner, given', fresh')
    BY <1>1, <1>9, <1>21 DEF OwnersFit
  <2>2. \A i \in 1 .. Len(writes') : MapFits(writes'[i].urls, owner, given', fresh')
    BY <1>1, <1>3, <1>21 DEF OwnersFit
  <2>3. \A m \in Loads : CallFits(load'[m], owner, given')
    BY <1>1, <1>15, <1>21
  <2> QED BY <2>1, <2>2, <2>3 DEF OwnersFit
<1> QED BY <1>14, <1>17, <1>18, <1>19, <1>20, <1>21, <1>22 DEF RegistrationInv

\* A restart keeps the map that was written.
LEMMA RegistrationRestarts ==
    ASSUME RegistrationInv, Registration!Restart
    PROVE  RegistrationInv'
<1> DEFINE gone(r) == IF r.stage = "idle" THEN r ELSE [r EXCEPT !.stage = "gone"]
<1>1. /\ load' = [l \in Loads |-> gone(load[l])]
      /\ urls' = saved /\ writes' = <<>> /\ listed' = <<>> /\ timers' = {} /\ closing' = {}
      /\ UNCHANGED <<saved, domain, expired, fresh, given, closed>>
  BY DEF Registration!Restart
<1>2. /\ load \in [Loads -> LoadRecords] /\ Shaped
  BY DEF RegistrationInv, Shaped
<1>3. ASSUME NEW l \in Loads
      PROVE  /\ gone(load[l]) \in LoadRecords /\ gone(load[l]).stage \in {"idle", "gone"}
             /\ gone(load[l]).stage = "idle" => load[l].stage = "idle"
             /\ gone(load[l]).address = load[l].address
             /\ gone(load[l]).reuse = load[l].reuse
             /\ gone(load[l]).descriptor = load[l].descriptor
  <2>1. load[l] \in LoadRecords
    BY <1>2
  <2> QED BY <2>1 DEF LoadRecords, Registration!Stages
<1> HIDE DEF gone
<1>4. load' \in [Loads -> LoadRecords] /\ \A l \in Loads : load'[l] = gone(load[l])
  BY <1>1, <1>3
<1>5. ASSUME NEW l \in Loads
      PROVE  StageFits(load[l], timers, given, fresh)'
  <2>1. StageFits(load[l], timers, given, fresh)
    BY DEF RegistrationInv
  <2> QED BY <1>1, <1>3, <1>4, <2>1 DEF StageFits
<1>6. <<>> \in Seq(Writings) /\ <<>> \in Seq(Loads) /\ Len(<<>>) = 0
  OBVIOUS
<1>7. Shaped'
  BY <1>1, <1>2, <1>4, <1>6 DEF Shaped
<1>8. WritesFit(writes, load)' /\ ListedFit(listed, load)'
  BY <1>1, <1>6 DEF WritesFit, ListedFit
<1>9. DomainKnows'
  <2>1. \A l \in Loads : load'[l].stage # "registered"
    BY <1>3, <1>4
  <2> QED BY <2>1 DEF DomainKnows
<1>10. PICK owner \in Owners : OwnersFit(owner)
  BY DEF RegistrationInv
<1>11. OwnersFit(owner)'
  <2>1. \A l \in Loads : CallFits(load'[l], owner, given)
    BY <1>3, <1>4, <1>10 DEF OwnersFit, CallFits
  <2> QED BY <1>1, <1>6, <1>10, <2>1 DEF OwnersFit
<1> QED BY <1>5, <1>7, <1>8, <1>9, <1>10, <1>11 DEF RegistrationInv

\* Every step keeps the invariant.
LEMMA RegistrationNext ==
    ASSUME RegistrationInv, Registration!Next
    PROVE  RegistrationInv'
<1>1. CASE \E l \in Loads, d \in Descriptors, reuse \in 0 .. Registration!ReuseKey,
              resume \in BOOLEAN : Registration!Load(l, d, reuse, resume)
  BY <1>1, LoadNext
<1>2. CASE \E l \in Loads : Registration!Allocate(l)
  BY <1>2, AllocateNext
<1>3. CASE \E l \in Loads : \E u \in Residents : Registration!Identified(l, u)
  BY <1>3, IdentifiedNext
<1>4. CASE \E l \in Loads :
              \/ Registration!Fail(l) \/ Registration!Registered(l)
              \/ Registration!NotFound(l) \/ Registration!NotRegistered(l)
  BY <1>4, DomainSteps
<1>5. CASE \E l \in Loads : Registration!UnregisterDataObject(l)
  BY <1>5, ObjectUnregistered
<1>6. CASE Registration!Stored
  BY <1>6, StoredNext
<1>7. CASE \E a \in Registration!Addresses :
              Registration!KeepAlive(a) \/ Registration!Expire(a) \/ Registration!Closed(a)
  BY <1>7, DomainMoved
<1>8. CASE \E a \in Registration!Addresses : Registration!UnregisterHyperty(a)
  BY <1>8, HypertyUnregistered
<1>9. CASE Registration!UnregisterAll
  BY <1>9, AllUnregistered
<1>10. CASE Registration!Restart
  BY <1>10, RegistrationRestarts
<1> QED BY <1>1, <1>2, <1>3, <1>4, <1>5, <1>6, <1>7, <1>8, <1>9, <1>10 DEF Registration!Next

\* The invariant implies the properties of registration.
LEMMA RegistrationKept ==
    ASSUME RegistrationInv
    PROVE  Registration!TypeOK /\ Registration!RegisteredAreKnown /\ Registration!AddressesOfOneKey
<1>1. /\ Shaped /\ load \in [Loads -> LoadRecords] /\ listed \in Seq(Loads)
      /\ domain \in [Registration!Addresses -> Known]
  BY DEF RegistrationInv, Shaped
<1>2. ASSUME NEW l \in Loads, load[l].stage = "registered", Registration!Alone(l),
             load[l].address \notin closed
      PROVE  /\ domain[load[l].address].status = "live" \/ load[l].address \in expired
             /\ \/ domain[load[l].address] = Registration!Unknown
                \/ domain[load[l].address].user = load[l].user
             /\ Registration!Entries(load[l].address) # {} =>
                   Registration!GetHypertyOwner(load[l].address) = load[l].user
  <2> DEFINE a == load[l].address
             i == Registration!First(Registration!Entries(a))
  <2>2. /\ domain[a].status = "live" \/ a \in expired
        /\ domain[a] = Registration!Unknown \/ domain[a].user = load[l].user
    BY <1>2 DEF RegistrationInv, DomainKnows
  <2>3. ASSUME Registration!Entries(a) # {}
        PROVE  Registration!GetHypertyOwner(a) = load[l].user
    <3>1. i \in 1 .. Len(listed) /\ load[listed[i]].address = a
      BY <1>1, <2>3, FirstEntryIs
    <3>2. listed[i] \in Loads
      BY <1>1, <3>1, ElementOfSeq
    <3>3. load[listed[i]].stage \notin {"idle", "gone"}
      BY <3>1 DEF RegistrationInv, ListedFit
    <3>4. listed[i] = l
      BY <1>2, <3>1, <3>2, <3>3 DEF Registration!Alone
    <3> QED BY <3>4 DEF Registration!GetHypertyOwner
  <2> QED BY <2>2, <2>3
<1>3. Registration!RegisteredAreKnown
  BY <1>2 DEF Registration!RegisteredAreKnown
<1>4. PICK owner \in Owners : OwnersFit(owner)
  BY DEF RegistrationInv
<1>5. Registration!AddressesOfOneKey
  <2> SUFFICES ASSUME NEW l \in Loads, NEW m \in Loads, load[l].address = load[m].address,
                      load[l].address \notin given \union {0}
               PROVE  Registration!ReadAlike(load[l].descriptor, load[m].descriptor)
    BY DEF Registration!AddressesOfOneKey
  <2>1. Registration!Key(load[l].descriptor) = Registration!Key(load[m].descriptor)
    BY <1>4 DEF OwnersFit, CallFits
  <2> QED BY <2>1 DEF Registration!Key, Registration!ReadAlike
<1> QED BY <1>1, <1>3, <1>5, ShapedIsTypeOK

\* A step that changes nothing keeps the invariant.
LEMMA RegistrationStutters ==
    ASSUME RegistrationInv, UNCHANGED Registration!vars
    PROVE  RegistrationInv'
<1>1. Shaped' /\ (\A l \in Loads : StageFits(load[l], timers, given, fresh))'
  BY DEF RegistrationInv, Registration!vars, Shaped, StageFits
<1>2. WritesFit(writes, load)' /\ ListedFit(listed, load)'
  BY DEF RegistrationInv, Registration!vars, WritesFit, ListedFit
<1>3. DomainKnows'
  BY DEF RegistrationInv, Registration!vars, DomainKnows, Registration!Alone
<1>4. (\E owner \in Owners : OwnersFit(owner))'
  BY DEF RegistrationInv, Registration!vars, OwnersFit, MapFits, CallFits
<1> QED BY <1>1, <1>2, <1>3, <1>4 DEF RegistrationInv

-----------------------------------------------------------------------------
(* The subscriptions to the status of a registration.                      *)

\* No cancellation follows a subscription.
Ordered(queue) ==
    \A i, j \in 1 .. Len(queue) :
        i < j /\ queue[i].type = "subscribe" => queue[j].type = "subscribe"

\* Nothing in the queue cancels.
NoCancel(queue) == \A i \in 1 .. Len(queue) : queue[i].type = "subscribe"

\* After what nobody hears of the manager subscribes.
Followed(queue) ==
    \A i \in 1 .. Len(queue) :
        queue[i].type = "orphan" =>
            \E j \in 1 .. Len(queue) : i < j /\ queue[j].type = "subscribe"

\* Who waits is subscribed, with no message on its way that cancels it, unless messages
\* crossed.
StatusInv ==
    /\ Status!TypeOK
    /\ ~lost => Followed(toNode)
    /\ entry => forwards > 0
    /\ Status!CancelledIsCancelled
    /\ ~crossed => Ordered(toNode)
    /\ \A s \in Statuses : Status!Used(s) /\ ~crossed => node /\ entry /\ NoCancel(toNode)

\* What the queue of messages is like when one is added.
LEMMA QueueGrows ==
    ASSUME NEW q \in Seq(Status!StatusMessages), NEW m \in Status!StatusMessages
    PROVE  /\ Append(q, m) \in Seq(Status!StatusMessages) /\ Append(q, m) # <<>>
           /\ m.type = "subscribe" /\ Ordered(q) => Ordered(Append(q, m))
           /\ m.type = "subscribe" /\ NoCancel(q) => NoCancel(Append(q, m))
           /\ (\A i \in 1 .. Len(q) : q[i].type # "subscribe") => Ordered(Append(q, m))
           /\ m.type # "orphan" /\ Followed(q) => Followed(Append(q, m))
           /\ m.type = "subscribe" => Followed(Append(q, m))
<1> DEFINE p == Append(q, m)
<1>1. /\ p \in Seq(Status!StatusMessages) /\ Len(p) = Len(q) + 1 /\ Len(q) \in Nat
      /\ p[Len(q) + 1] = m /\ \A i \in 1 .. Len(q) : p[i] = q[i]
  OBVIOUS
<1>2. p # <<>>
  BY <1>1
<1> HIDE DEF p
<1>3. \A i \in 1 .. Len(p) : i \in 1 .. Len(q) \/ i = Len(q) + 1
  BY <1>1
<1>4. m.type = "subscribe" /\ Ordered(q) => Ordered(p)
  BY <1>1, <1>3 DEF Ordered
<1>5. m.type = "subscribe" /\ NoCancel(q) => NoCancel(p)
  BY <1>1, <1>3 DEF NoCancel
<1>6. (\A i \in 1 .. Len(q) : q[i].type # "subscribe") => Ordered(p)
  BY <1>1, <1>3 DEF Ordered
<1>7. m.type # "orphan" /\ Followed(q) => Followed(p)
  BY <1>1, <1>3 DEF Followed
<1>8. m.type = "subscribe" => Followed(p)
  BY <1>1, <1>3 DEF Followed
<1> QED BY <1>1, <1>2, <1>4, <1>5, <1>6, <1>7, <1>8 DEF p

\* What the queue of messages is like when its head is taken.
LEMMA QueueShrinks ==
    ASSUME NEW q \in Seq(Status!StatusMessages), q # <<>>
    PROVE  /\ Tail(q) \in Seq(Status!StatusMessages) /\ Head(q) \in Status!StatusMessages
           /\ Ordered(q) => Ordered(Tail(q))
           /\ NoCancel(q) => NoCancel(Tail(q)) /\ Head(q).type = "subscribe"
           /\ Ordered(q) /\ Head(q).type = "subscribe" => NoCancel(Tail(q))
           /\ Followed(q) => Followed(Tail(q))
           /\ Followed(q) /\ Head(q).type = "orphan" => Tail(q) # <<>>
<1> DEFINE t == Tail(q)
<1>1. /\ t \in Seq(Status!StatusMessages) /\ Len(q) = Len(t) + 1 /\ Len(t) \in Nat
      /\ \A i \in 1 .. Len(t) : t[i] = q[i + 1] /\ i + 1 \in 1 .. Len(q)
      /\ Head(q) = q[1] /\ 1 \in 1 .. Len(q)
  OBVIOUS
<1> HIDE DEF t
<1>2. Head(q) \in Status!StatusMessages
  BY <1>1, ElementOfSeq
<1>3. Ordered(q) => Ordered(t)
  BY <1>1 DEF Ordered
<1>4. NoCancel(q) => NoCancel(t) /\ Head(q).type = "subscribe"
  BY <1>1 DEF NoCancel
<1>5. Ordered(q) /\ Head(q).type = "subscribe" => NoCancel(t)
  BY <1>1 DEF Ordered, NoCancel
<1>6. \A i \in 1 .. Len(q) : i # 1 => i - 1 \in 1 .. Len(t) /\ q[i] = t[i - 1]
  BY <1>1
<1>7. Followed(q) => Followed(t)
  <2> SUFFICES ASSUME Followed(q), NEW i \in 1 .. Len(t), t[i].type = "orphan"
               PROVE  \E j \in 1 .. Len(t) : i < j /\ t[j].type = "subscribe"
    BY DEF Followed
  <2>1. PICK j \in 1 .. Len(q) : i + 1 < j /\ q[j].type = "subscribe"
    BY <1>1 DEF Followed
  <2>2. j - 1 \in 1 .. Len(t) /\ i < j - 1 /\ t[j - 1].type = "subscribe"
    BY <1>1, <1>6, <2>1
  <2> QED BY <2>2
<1>8. Followed(q) /\ Head(q).type = "orphan" => t # <<>>
  <2> SUFFICES ASSUME Followed(q), Head(q).type = "orphan" PROVE t # <<>>
    OBVIOUS
  <2>1. PICK j \in 1 .. Len(q) : 1 < j
    BY <1>1 DEF Followed
  <2> QED BY <1>1, <2>1
<1> QED BY <1>1, <1>2, <1>3, <1>4, <1>5, <1>7, <1>8 DEF t

\* A put is added to what storage has.
LEMMA SaveIs ==
    ASSUME Status!TypeOK, NEW there \in BOOLEAN, Status!Save(there)
    PROVE  savedEntry' \in Seq(BOOLEAN) /\ Len(savedEntry') \in 1 .. MaxPuts + 1
<1>1. savedEntry \in Seq(BOOLEAN) /\ Len(savedEntry) \in 1 .. MaxPuts + 1 /\ MaxPuts \in Nat
      /\ savedEntry' = Append(savedEntry, there) /\ Len(savedEntry) <= MaxPuts
  BY PutNumbers DEF Status!TypeOK, Status!Save
<1>2. savedEntry' \in Seq(BOOLEAN) /\ Len(savedEntry') = Len(savedEntry) + 1
  BY <1>1
<1> QED BY <1>1, <1>2

\* A sequence without its first, or without its second.
LEMMA ShorterIs ==
    ASSUME NEW S, NEW q \in Seq(S), Len(q) > 1
    PROVE  /\ Tail(q) \in Seq(S) /\ Len(Tail(q)) = Len(q) - 1
           /\ <<Head(q)>> \o Tail(Tail(q)) \in Seq(S)
           /\ Len(<<Head(q)>> \o Tail(Tail(q))) = Len(q) - 1
           /\ <<Head(q)>> \in Seq(S) /\ Len(<<Head(q)>>) = 1
<1>1. q # <<>> /\ 1 \in 1 .. Len(q) /\ Head(q) = q[1]
  OBVIOUS
<1>2. Tail(q) \in Seq(S) /\ Len(Tail(q)) = Len(q) - 1
  BY <1>1
<1>3. Head(q) \in S
  BY <1>1, ElementOfSeq
<1>4. <<Head(q)>> \in Seq(S) /\ Len(<<Head(q)>>) = 1
  BY <1>3
<1>5. \A t \in Seq(S) : Len(t) > 0 => Tail(t) \in Seq(S) /\ Len(Tail(t)) = Len(t) - 1
  <2> TAKE t \in Seq(S)
  <2> HAVE Len(t) > 0
  <2>1. t # <<>>
    OBVIOUS
  <2> QED BY <2>1
<1>9. Len(q) \in Nat /\ Len(Tail(q)) > 0
  BY <1>2
<1>6. Tail(Tail(q)) \in Seq(S) /\ Len(Tail(Tail(q))) = Len(q) - 2
  <2> DEFINE t == Tail(q)
  <2>1. t \in Seq(S) /\ Len(t) = Len(q) - 1 /\ Len(t) > 0
    BY <1>2, <1>9
  <2> HIDE DEF t
  <2>2. Tail(t) \in Seq(S) /\ Len(Tail(t)) = Len(t) - 1
    BY <1>5, <2>1
  <2>3. Len(Tail(t)) = Len(q) - 2
    BY <1>9, <2>1, <2>2
  <2> QED BY <2>2, <2>3 DEF t
<1>7. \A x, y \in Seq(S) : x \o y \in Seq(S) /\ Len(x \o y) = Len(x) + Len(y)
  OBVIOUS
<1>8. /\ <<Head(q)>> \o Tail(Tail(q)) \in Seq(S)
      /\ Len(<<Head(q)>> \o Tail(Tail(q))) = Len(<<Head(q)>>) + Len(Tail(Tail(q)))
  BY <1>4, <1>6, <1>7
<1> QED BY <1>2, <1>4, <1>6, <1>8

\* A put is done, or fails.
LEMMA SavedIs ==
    ASSUME Status!TypeOK, Status!Saved
    PROVE  savedEntry' \in Seq(BOOLEAN) /\ Len(savedEntry') \in 1 .. MaxPuts + 1
<1>1. savedEntry \in Seq(BOOLEAN) /\ Len(savedEntry) \in 1 .. MaxPuts + 1 /\ MaxPuts \in Nat
      /\ Len(savedEntry) > 1
      /\ savedEntry' \in {Tail(savedEntry), <<Head(savedEntry)>> \o Tail(Tail(savedEntry))}
  BY PutNumbers DEF Status!TypeOK, Status!Saved
<1>2. \A q \in Seq(BOOLEAN) :
          Len(q) > 1 =>
              /\ Tail(q) \in Seq(BOOLEAN) /\ Len(Tail(q)) = Len(q) - 1
              /\ <<Head(q)>> \o Tail(Tail(q)) \in Seq(BOOLEAN)
              /\ Len(<<Head(q)>> \o Tail(Tail(q))) = Len(q) - 1
  BY ShorterIs
<1>3. savedEntry' \in Seq(BOOLEAN) /\ Len(savedEntry') = Len(savedEntry) - 1
  <2>1. CASE savedEntry' = Tail(savedEntry)
    BY <1>1, <1>2, <2>1
  <2>2. CASE savedEntry' = <<Head(savedEntry)>> \o Tail(Tail(savedEntry))
    BY <1>1, <1>2, <2>2
  <2> QED BY <1>1, <2>1, <2>2
<1> QED BY <1>1, <1>3

\* Nobody waits: the invariant holds at first.
LEMMA StatusInit ==
    ASSUME Status!Init
    PROVE  StatusInv
<1>1. <<>> \in Seq(Status!StatusMessages) /\ Len(<<>>) = 0
  OBVIOUS
<1>2. 0 \in 0 .. MaxForwards /\ <<FALSE>> \in Seq(BOOLEAN) /\ Len(<<FALSE>>) \in 1 .. MaxPuts + 1
  BY ForwardNumbers, PutNumbers
<1>3. watch = [s \in Statuses |-> Status!NoWatch]
  BY DEF Status!Init
<1>4. watch \in [Statuses -> [set : BOOLEAN, waits : [Status!Kinds -> SUBSET Waiters]]]
  BY <1>3 DEF Status!NoWatch
<1>5. Status!TypeOK
  BY <1>1, <1>2, <1>4 DEF Status!Init, Status!TypeOK
<1>6. \A s \in Statuses : ~Status!Used(s)
  BY <1>3 DEF Status!Used, Status!NoWatch
<1> QED BY <1>1, <1>5, <1>6
        DEF Status!Init, StatusInv, Ordered, Followed, Status!CancelledIsCancelled

\* Who waits is noted: the others are used as before.
LEMMA WaitIs ==
    ASSUME Status!TypeOK, NEW s \in Statuses, NEW w \in Waiters, NEW k \in Status!Kinds,
           Status!Wait(s, w, k)
    PROVE  /\ watch' \in [Statuses -> [set : BOOLEAN, waits : [Status!Kinds -> SUBSET Waiters]]]
           /\ \A other \in Statuses \ {s} : Status!Used(other)' => Status!Used(other)
<1> DEFINE new == [set |-> TRUE, waits |-> [watch[s].waits EXCEPT ![k] = @ \union {w}]]
<1>1. watch' = [watch EXCEPT ![s] = new]
  BY DEF Status!Wait
<1>2. watch[s].waits \in [Status!Kinds -> SUBSET Waiters]
  BY DEF Status!TypeOK
<1>3. [watch[s].waits EXCEPT ![k] = @ \union {w}] \in [Status!Kinds -> SUBSET Waiters]
  BY <1>2
<1>4. new \in [set : BOOLEAN, waits : [Status!Kinds -> SUBSET Waiters]]
  BY <1>3
<1> HIDE DEF new
<1>5. \A other \in Statuses \ {s} : watch'[other] = watch[other]
  BY <1>1 DEF Status!TypeOK
<1> QED BY <1>1, <1>4, <1>5 DEF Status!TypeOK, Status!Used

\* Who waits for a status subscribes, unless its object did so once.
LEMMA OnNext ==
    ASSUME StatusInv, NEW s \in Statuses, NEW w \in Waiters, NEW k \in Status!Kinds,
           Status!On(s, w, k)
    PROVE  StatusInv'
<1>1. Status!TypeOK /\ UNCHANGED <<entry, forwards, savedEntry, node, lost>>
  BY DEF StatusInv, Status!On
<1>2. CASE watch[s].set
  <2>1. Status!Wait(s, w, k) /\ crossed' = (crossed \/ ~Status!Used(s)) /\ toNode' = toNode
    BY <1>2 DEF Status!On
  <2>2. /\ watch' \in [Statuses -> [set : BOOLEAN, waits : [Status!Kinds -> SUBSET Waiters]]]
        /\ \A other \in Statuses \ {s} : Status!Used(other)' => Status!Used(other)
    BY <1>1, <2>1, WaitIs
  <2>3. Status!TypeOK'
    BY <1>1, <2>1, <2>2 DEF Status!TypeOK
  <2>4. \A x \in Statuses : Status!Used(x)' /\ ~crossed' => Status!Used(x) /\ ~crossed
    BY <2>1, <2>2
  <2> QED BY <1>1, <2>1, <2>3, <2>4 DEF StatusInv, Status!CancelledIsCancelled
<1>3. CASE ~watch[s].set
  <2> DEFINE m == Status!Subscribe(s, w, k)
  <2>1. toNode' = Append(toNode, m) /\ UNCHANGED <<watch, crossed>>
    BY <1>3 DEF Status!On
  <2>2. m \in Status!StatusMessages /\ m.type = "subscribe"
    BY DEF Status!Subscribe, Status!StatusMessages
  <2> HIDE DEF m
  <2>3. toNode \in Seq(Status!StatusMessages)
    BY <1>1 DEF Status!TypeOK
  <2>4. /\ toNode' \in Seq(Status!StatusMessages) /\ toNode' # <<>>
        /\ Ordered(toNode) => Ordered(toNode')
        /\ NoCancel(toNode) => NoCancel(toNode')
        /\ Followed(toNode')
    BY <2>1, <2>2, <2>3, QueueGrows
  <2>5. Status!TypeOK'
    BY <1>1, <2>1, <2>4 DEF Status!TypeOK
  <2> QED BY <1>1, <2>1, <2>4, <2>5
          DEF StatusInv, Status!CancelledIsCancelled, Status!Used
<1> QED BY <1>2, <1>3

\* The node answers, and the subscription is made, or made again.
LEMMA CreatedNext ==
    ASSUME StatusInv, Status!Created
    PROVE  StatusInv'
<1> DEFINE m == Head(toNode)
<1>1. /\ Status!TypeOK /\ toNode \in Seq(Status!StatusMessages) /\ forwards \in 0 .. MaxForwards
      /\ watch \in [Statuses -> [set : BOOLEAN, waits : [Status!Kinds -> SUBSET Waiters]]]
  BY DEF StatusInv, Status!TypeOK
<1>2. /\ toNode # <<>> /\ m.type = "subscribe" /\ forwards < MaxForwards
      /\ IF m.status = Status!Nobody THEN UNCHANGED watch
         ELSE Status!Wait(m.status, m.waiter, m.kind)
      /\ toNode' = Tail(toNode) /\ node' \in {TRUE, node}
      /\ crossed' = (crossed \/ ~node')
      /\ entry' = TRUE
      /\ IF m.status = Status!Nobody THEN UNCHANGED savedEntry ELSE Status!Save(TRUE)
      /\ forwards' = forwards + 1 /\ lost' = lost
  BY DEF Status!Created
<1>3. /\ toNode' \in Seq(Status!StatusMessages) /\ m \in Status!StatusMessages
      /\ Ordered(toNode) => Ordered(toNode') /\ NoCancel(toNode')
      /\ Followed(toNode) => Followed(toNode')
  BY <1>1, <1>2, QueueShrinks
<1>4. ~crossed' => ~crossed /\ node' /\ Ordered(toNode)
  BY <1>2 DEF StatusInv
<1>8. m.status # Status!Nobody =>
         m.status \in Statuses /\ m.waiter \in Waiters /\ m.kind \in Status!Kinds
  BY <1>2, <1>3 DEF Status!StatusMessages, Status!Subscribe
<1>5. watch' \in [Statuses -> [set : BOOLEAN, waits : [Status!Kinds -> SUBSET Waiters]]]
  <2>1. CASE m.status = Status!Nobody
    BY <1>1, <1>2, <2>1
  <2>2. CASE m.status # Status!Nobody
    BY <1>8, <1>1, <1>2, <2>2, WaitIs
  <2> QED BY <2>1, <2>2
<1>6. Status!TypeOK'
  <2>1. forwards' \in 0 .. MaxForwards
    BY <1>1, <1>2, ForwardNumbers
  <2>2. savedEntry' \in Seq(BOOLEAN) /\ Len(savedEntry') \in 1 .. MaxPuts + 1
    <3>1. CASE m.status = Status!Nobody
      BY <1>1, <1>2, <3>1 DEF Status!TypeOK
    <3>2. CASE m.status # Status!Nobody
      BY <1>1, <1>2, <3>2, SaveIs
    <3> QED BY <3>1, <3>2
  <2>3. crossed' \in BOOLEAN
    BY <1>2, Zenon
  <2>4. entry' \in BOOLEAN /\ node' \in BOOLEAN /\ lost' \in BOOLEAN
    BY <1>1, <1>2 DEF Status!TypeOK
  <2> QED BY <1>3, <1>5, <2>1, <2>2, <2>3, <2>4 DEF Status!TypeOK
<1>7. forwards' > 0
  BY <1>1, <1>2
<1> QED BY <1>2, <1>3, <1>4, <1>6, <1>7 DEF StatusInv, Status!CancelledIsCancelled

\* Who stops waiting unsubscribes, if he is the last.
LEMMA UnsubscribeNext ==
    ASSUME StatusInv, NEW s \in Statuses, NEW w \in Waiters, NEW k \in Status!Kinds,
           Status!Unsubscribe(s, w, k)
    PROVE  StatusInv'
<1> DEFINE left == [watch[s].waits EXCEPT ![k] = @ \ {w}]
           cancel == [type |-> "unsubscribe"]
<1>1. /\ Status!TypeOK /\ toNode \in Seq(Status!StatusMessages)
      /\ watch \in [Statuses -> [set : BOOLEAN, waits : [Status!Kinds -> SUBSET Waiters]]]
      /\ forwards \in 0 .. MaxForwards
  BY DEF StatusInv, Status!TypeOK
<1>2. /\ watch' = [watch EXCEPT ![s].waits = left] /\ UNCHANGED <<node, lost>>
      /\ \/ Status!Empty(left, k) /\ Status!ManagerUnsubscribes(s)
         \/ UNCHANGED <<toNode, entry, forwards, savedEntry, crossed>>
  BY DEF Status!Unsubscribe
<1>3. left \in [Status!Kinds -> SUBSET Waiters] /\ \A kind \in Status!Kinds : left[kind] \subseteq watch[s].waits[kind]
  BY <1>1
<1> HIDE DEF left
<1>4. watch' \in [Statuses -> [set : BOOLEAN, waits : [Status!Kinds -> SUBSET Waiters]]]
  BY <1>1, <1>2, <1>3
<1>5. \A x \in Statuses : watch'[x].waits = IF x = s THEN left ELSE watch[x].waits
  BY <1>1, <1>2
<1>6. \A x \in Statuses : Status!Used(x)' => Status!Used(x)
  BY <1>3, <1>5 DEF Status!Used
<1>7. CASE UNCHANGED <<toNode, entry, forwards, savedEntry, crossed>>
  <2>1. Status!TypeOK'
    BY <1>1, <1>2, <1>4, <1>7 DEF Status!TypeOK
  <2> QED BY <1>2, <1>6, <1>7, <2>1 DEF StatusInv, Status!CancelledIsCancelled
<1>8. CASE Status!Empty(left, k) /\ Status!ManagerUnsubscribes(s)
  <2>1. crossed' = (crossed \/ Status!UnderWay \/ \E other \in Statuses \ {s} : Status!Used(other))
    BY <1>8 DEF Status!ManagerUnsubscribes
  <2>2. ~Status!Used(s)'
    BY <1>5, <1>8 DEF Status!Empty, Status!Used
  <2>3. ~crossed' => \A x \in Statuses : ~Status!Used(x)'
    BY <1>6, <2>1, <2>2
  <2>4. ~crossed' => ~crossed /\ \A i \in 1 .. Len(toNode) : toNode[i].type # "subscribe"
    <3>1. DOMAIN toNode = 1 .. Len(toNode)
      BY <1>1
    <3>2. ~crossed' => ~crossed /\ ~Status!UnderWay
      BY <2>1
    <3> QED BY <3>1, <3>2 DEF Status!UnderWay
  <2>5. crossed' \in BOOLEAN
    BY <2>1, Zenon
  <2>6. CASE entry
    <3>1. /\ toNode' = Append(toNode, cancel) /\ entry' = FALSE /\ forwards' = forwards - 1
          /\ Status!Save(FALSE)
      BY <1>8, <2>6 DEF Status!ManagerUnsubscribes
    <3>2. cancel \in Status!StatusMessages /\ cancel.type # "orphan"
      BY DEF Status!StatusMessages
    <3>6. savedEntry' \in Seq(BOOLEAN) /\ Len(savedEntry') \in 1 .. MaxPuts + 1
      BY <1>1, <3>1, SaveIs
    <3>3. /\ toNode' \in Seq(Status!StatusMessages) /\ toNode' # <<>>
          /\ (\A i \in 1 .. Len(toNode) : toNode[i].type # "subscribe") => Ordered(toNode')
          /\ Followed(toNode) => Followed(toNode')
      BY <1>1, <3>1, <3>2, QueueGrows
    <3>4. forwards' \in 0 .. MaxForwards
      BY <1>1, <2>6, <3>1, ForwardNumbers DEF StatusInv
    <3>5. Status!TypeOK'
      BY <1>1, <1>2, <1>4, <2>5, <3>1, <3>3, <3>4, <3>6 DEF Status!TypeOK
    <3> QED BY <1>2, <2>3, <2>4, <3>1, <3>3, <3>5 DEF StatusInv, Status!CancelledIsCancelled
  <2>7. CASE ~entry
    <3>1. UNCHANGED <<toNode, entry, forwards, savedEntry>>
      BY <1>8, <2>7 DEF Status!ManagerUnsubscribes
    <3>2. Status!TypeOK'
      BY <1>1, <1>2, <1>4, <2>5, <3>1 DEF Status!TypeOK
    <3> QED BY <1>2, <2>3, <2>4, <3>1, <3>2 DEF StatusInv, Status!CancelledIsCancelled
  <2> QED BY <2>6, <2>7
<1> QED BY <1>2, <1>7, <1>8

\* The message node ends a subscription that was cancelled.
LEMMA NodeUnsubscribesNext ==
    ASSUME StatusInv, Status!NodeUnsubscribes
    PROVE  StatusInv'
<1>1. /\ Status!TypeOK /\ toNode \in Seq(Status!StatusMessages)
  BY DEF StatusInv, Status!TypeOK
<1>2. /\ toNode # <<>> /\ Head(toNode).type = "unsubscribe"
      /\ toNode' = Tail(toNode) /\ node' = FALSE
      /\ UNCHANGED <<watch, entry, forwards, savedEntry, crossed, lost>>
  BY DEF Status!NodeUnsubscribes
<1>3. /\ toNode' \in Seq(Status!StatusMessages)
      /\ Ordered(toNode) => Ordered(toNode')
      /\ Followed(toNode) => Followed(toNode')
      /\ ~NoCancel(toNode)
  BY <1>1, <1>2, QueueShrinks
<1>4. Status!TypeOK'
  <2>1. {entry, crossed, lost} \subseteq BOOLEAN
    BY <1>1 DEF Status!TypeOK
  <2>2. {entry', node', crossed', lost'} \subseteq BOOLEAN
    BY <1>2, <2>1
  <2> QED BY <1>1, <1>2, <1>3, <2>2 DEF Status!TypeOK
<1>5. Status!CancelledIsCancelled'
  BY <1>2 DEF Status!CancelledIsCancelled
<1>6. \A s \in Statuses : ~(Status!Used(s)' /\ ~crossed')
  <2> SUFFICES ASSUME NEW s \in Statuses, Status!Used(s)', ~crossed' PROVE FALSE
    OBVIOUS
  <2>1. Status!Used(s) /\ ~crossed
    BY <1>2 DEF Status!Used
  <2> QED BY <1>3, <2>1 DEF StatusInv
<1>7. /\ entry' => forwards' > 0
      /\ ~lost' => Followed(toNode')
      /\ ~crossed' => Ordered(toNode')
  BY <1>2, <1>3 DEF StatusInv
<1> QED BY <1>4, <1>5, <1>6, <1>7 DEF StatusInv

\* The node has a subscription whose manager is gone.
LEMMA NodeSubscribesNext ==
    ASSUME StatusInv, Status!NodeSubscribes
    PROVE  StatusInv'
<1>1. Status!TypeOK /\ toNode \in Seq(Status!StatusMessages)
  BY DEF StatusInv, Status!TypeOK
<1>2. /\ toNode # <<>> /\ Head(toNode).type = "orphan"
      /\ toNode' = Tail(toNode) /\ node' \in {TRUE, node}
      /\ UNCHANGED <<watch, entry, forwards, savedEntry, crossed, lost>>
  BY DEF Status!NodeSubscribes
<1>3. /\ toNode' \in Seq(Status!StatusMessages)
      /\ Ordered(toNode) => Ordered(toNode')
      /\ Followed(toNode) => Followed(toNode') /\ toNode' # <<>>
      /\ ~NoCancel(toNode)
  BY <1>1, <1>2, QueueShrinks
<1>4. Status!TypeOK'
  <2>1. node' \in BOOLEAN
    BY <1>1, <1>2 DEF Status!TypeOK
  <2> QED BY <1>1, <1>2, <1>3, <2>1 DEF Status!TypeOK
<1> QED BY <1>2, <1>3, <1>4
        DEF StatusInv, Status!CancelledIsCancelled, Status!Used

\* A put is done, or fails.
LEMMA SavedNext ==
    ASSUME StatusInv, Status!Saved
    PROVE  StatusInv'
<1>1. Status!TypeOK /\ UNCHANGED <<watch, entry, forwards, toNode, node, crossed, lost>>
  BY DEF StatusInv, Status!Saved
<1>2. savedEntry' \in Seq(BOOLEAN) /\ Len(savedEntry') \in 1 .. MaxPuts + 1
  BY <1>1, SavedIs
<1>3. Status!TypeOK'
  BY <1>1, <1>2 DEF Status!TypeOK
<1> QED BY <1>1, <1>3 DEF StatusInv, Status!CancelledIsCancelled, Status!Used

\* A restart subscribes to what was saved, or has lost it.
LEMMA StatusRestarts ==
    ASSUME StatusInv, Status!Restart
    PROVE  StatusInv'
<1> DEFINE m == Status!Subscribe(Status!Nobody, Status!Nobody, "live")
<1>1. /\ Status!TypeOK /\ toNode \in Seq(Status!StatusMessages)
      /\ savedEntry \in Seq(BOOLEAN) /\ Len(savedEntry) \in 1 .. MaxPuts + 1
  BY DEF StatusInv, Status!TypeOK
<1>2. PICK out \in 0 .. Len(toNode) :
          LET left == [i \in 1 .. out |-> Status!Left(toNode[i])]
          IN  IF Head(savedEntry) THEN toNode' = Append(left, m) ELSE toNode' = left
  BY DEF Status!Restart
<1> DEFINE left == [i \in 1 .. out |-> Status!Left(toNode[i])]
<1>3. /\ watch' = [s \in Statuses |-> Status!NoWatch] /\ entry' = FALSE /\ forwards' = 0
      /\ savedEntry' = <<Head(savedEntry)>> /\ UNCHANGED <<node, crossed>>
      /\ lost' = (lost \/ (~Head(savedEntry) /\ (node \/ Status!UnderWay)))
  BY DEF Status!Restart
<1>4. out \in Nat /\ \A i \in 1 .. out : i \in 1 .. Len(toNode) /\ toNode[i] \in Status!StatusMessages
  BY <1>1, ElementOfSeq
<1>5. \A i \in 1 .. out :
          /\ Status!Left(toNode[i]) \in Status!StatusMessages
          /\ Status!Left(toNode[i]).type # "subscribe"
          /\ Status!Left(toNode[i]).type = "orphan" =>
                 toNode[i].type = "subscribe" \/ toNode[i].type = "orphan"
  <2>1. [type |-> "orphan"] \in Status!StatusMessages
    BY DEF Status!StatusMessages
  <2> QED BY <1>4, <2>1 DEF Status!Left
<1>6. /\ left \in Seq(Status!StatusMessages) /\ Len(left) = out
      /\ \A i \in 1 .. out : left[i] = Status!Left(toNode[i])
  <2>1. left \in [1 .. out -> Status!StatusMessages]
    BY <1>5
  <2> QED BY <1>4, <2>1
<1>7. m \in Status!StatusMessages /\ m.type = "subscribe"
  BY DEF Status!StatusMessages, Status!Subscribe
<1>8. IF Head(savedEntry) THEN toNode' = Append(left, m) ELSE toNode' = left
  BY <1>2
<1> HIDE DEF m, left
<1>9. \A i \in 1 .. Len(left) : left[i].type # "subscribe"
  BY <1>5, <1>6
<1>10. Ordered(left) /\ Ordered(Append(left, m)) /\ Followed(Append(left, m))
       /\ Append(left, m) \in Seq(Status!StatusMessages) /\ Append(left, m) # <<>>
  <2>1. Ordered(left)
    BY <1>9 DEF Ordered
  <2> QED BY <1>6, <1>7, <1>9, <2>1, QueueGrows
<1>11. ASSUME ~lost', ~Head(savedEntry)
       PROVE  Followed(left) /\ ~node
  <2>1. ~lost /\ ~node /\ ~Status!UnderWay
    BY <1>3, <1>11
  <2>2. \A i \in 1 .. Len(toNode) : toNode[i].type # "subscribe"
    <3>1. DOMAIN toNode = 1 .. Len(toNode)
      BY <1>1
    <3> QED BY <2>1, <3>1 DEF Status!UnderWay
  <2>3. \A i \in 1 .. Len(toNode) : toNode[i].type # "orphan"
    BY <2>1, <2>2 DEF StatusInv, Followed
  <2>4. \A i \in 1 .. Len(left) : left[i].type # "orphan"
    BY <1>4, <1>5, <1>6, <2>2, <2>3
  <2> QED BY <2>1, <2>4 DEF Followed
<1>12. /\ toNode' \in Seq(Status!StatusMessages) /\ Ordered(toNode')
       /\ ~lost' => Followed(toNode')
       /\ toNode' = <<>> => ~node \/ lost'
  <2>1. CASE Head(savedEntry)
    BY <1>8, <1>10, <2>1
  <2>2. CASE ~Head(savedEntry)
    BY <1>6, <1>8, <1>10, <1>11, <2>2
  <2> QED BY <2>1, <2>2
<1>13. watch' \in [Statuses -> [set : BOOLEAN, waits : [Status!Kinds -> SUBSET Waiters]]]
  BY <1>3 DEF Status!NoWatch
<1>14. \A s \in Statuses : ~Status!Used(s)'
  BY <1>3 DEF Status!Used, Status!NoWatch
<1>15. savedEntry' \in Seq(BOOLEAN) /\ Len(savedEntry') \in 1 .. MaxPuts + 1
  <2>1. Head(savedEntry) \in BOOLEAN
    <3>1. 1 \in 1 .. Len(savedEntry) /\ Head(savedEntry) = savedEntry[1]
      BY <1>1
    <3> QED BY <1>1, <3>1, ElementOfSeq
  <2>2. \A x \in BOOLEAN : <<x>> \in Seq(BOOLEAN) /\ Len(<<x>>) = 1
    OBVIOUS
  <2>3. 1 \in 1 .. MaxPuts + 1
    BY PutNumbers
  <2> QED BY <1>3, <2>1, <2>2, <2>3
<1>16. Status!TypeOK'
  <2>1. 0 \in 0 .. MaxForwards
    BY ForwardNumbers
  <2>2. {entry', node', crossed'} \subseteq BOOLEAN
    BY <1>1, <1>3 DEF Status!TypeOK
  <2>3. lost' \in BOOLEAN
    BY <1>3, Zenon
  <2> QED BY <1>3, <1>12, <1>13, <1>15, <2>1, <2>2, <2>3 DEF Status!TypeOK
<1> QED BY <1>3, <1>12, <1>14, <1>16 DEF StatusInv, Status!CancelledIsCancelled

\* Every step keeps the invariant.
LEMMA StatusNext ==
    ASSUME StatusInv, Status!Next
    PROVE  StatusInv'
BY OnNext, UnsubscribeNext, CreatedNext, NodeUnsubscribesNext, NodeSubscribesNext, SavedNext,
   StatusRestarts DEF Status!Next

\* The invariant implies the properties of the subscriptions.
LEMMA StatusKept ==
    ASSUME StatusInv
    PROVE  Status!TypeOK /\ Status!WaitersHear /\ Status!CancelledIsCancelled
BY DEF StatusInv, Status!WaitersHear

\* A step that changes nothing keeps the invariant.
LEMMA StatusStutters ==
    ASSUME StatusInv, UNCHANGED Status!vars
    PROVE  StatusInv'
BY DEF StatusInv, Status!vars, Status!TypeOK, Status!CancelledIsCancelled, Status!Used,
       Ordered, NoCancel, Followed

-----------------------------------------------------------------------------
(* Searches.                                                               *)

\* The queries of searches.
Queries == [level : Search!Levels, of : Search!Things, domain : Search!RegistryDomains,
            via : Search!Things]

\* A query is about what its level says.
Sensible(q) ==
    /\ q \in Queries
    /\ q.level = "guid" => q.of \in Guids
    /\ q.level = "reporter" => q.of \in Search!RegistryHyperties

\* What a search for data objects may give although it is not registered.
FieldsOf(kind) == IF kind = "object" THEN {Search!Fields} ELSE {}

\* The users that a query is about.
SoughtBy(q) ==
    IF q.of = Search!Legacy THEN {}
    ELSE CASE q.level = "lookup" -> UNION {UserIds[g] : g \in Guids}
           [] q.level = "guid"   -> UserIds[q.of]
           [] q.level = "user"   -> {u \in {q.of} : DomainOf[u] = q.domain}
           [] OTHER              -> {}

\* A query that leads to a user.
LeadsTo(q, u) ==
    \/ q.level = "lookup" /\ \E g \in Guids : u \in UserIds[g]
    \/ q.level = "guid" /\ u \in UserIds[q.of]
    \/ q.level = "user" /\ q.of = u /\ q.domain = DomainOf[u]

\* The query asks for the data objects that a hyperty reports.
Asks(q, h) == q.level = "reporter" /\ q.of = h /\ q.domain = DomainOf[OwnerOf[h]]

\* Of a user who was asked about, what is among the things, or is asked for.
UserFound(u, kind, qs, things, ls) ==
    \A h \in ls \cap Search!RegistryHyperties :
        OwnerOf[h] = u =>
            IF kind = "hyperty" THEN h \in things
            ELSE \/ \E q \in qs : Asks(q, h)
                 \/ \A o \in ls \cap Search!RegistryObjects : ReporterOf[o] = h => o \in things

\* The searches under way.
SearchCalls == [stage : {"idle", "searching", "done", "gaveUp"}, kind : Search!Kinds, query : Queries]

\* What is known of a search, of what is live, its record, queries, what it found and told,
\* and its history.
SearchFits(lv, k, qs, fd, tl, ev, ls, fl) ==
    /\ k.stage \in {"idle", "done"} => qs = {}
    /\ k.stage = "idle" => fd = {}
    /\ k.stage # "done" => tl = {}
    /\ \/ tl \subseteq ev \union FieldsOf(k.kind)
       \/ k.query.of = Search!Legacy /\ tl = {Search!Legacy}
    /\ k.stage = "searching" =>
          ls \subseteq lv /\ lv \subseteq ev /\ fd \subseteq ev \union FieldsOf(k.kind)
    /\ Sensible(k.query)
    /\ \A q \in qs : Sensible(q) /\ (q.level \in {"reporter", "name"} => k.kind = "object")
    /\ (k.stage = "searching" /\ ~fl) =>
          \A u \in SoughtBy(k.query) :
              (\E q \in qs : LeadsTo(q, u)) \/ UserFound(u, k.kind, qs, fd, ls)
    /\ (k.stage = "done" /\ ~fl) =>
          \A u \in SoughtBy(k.query) : UserFound(u, k.kind, {}, tl \union {Self}, ls)

\* The sets of results.
Found == SUBSET (Search!Registered \union {Search!Fields})
\* The sets of what a hyperty may be told.
Told == SUBSET (Search!Registered \union {Search!Fields, Search!Legacy})

\* The types of the parts of the state.
SearchTypes ==
    /\ live \subseteq Search!Registered
    /\ call \in [Searches -> SearchCalls]
    /\ found \in [Searches -> Found] /\ told \in [Searches -> Told]
    /\ ever \in [Searches -> SUBSET Search!Registered]
    /\ lasting \in [Searches -> SUBSET Search!Registered]
    /\ failed \in [Searches -> BOOLEAN]
    /\ queries \in [Searches -> SUBSET Queries]

\* Each search has found what was there, and its queries lead to the rest.
SearchInv ==
    /\ SearchTypes
    /\ \A c \in Searches :
          SearchFits(live, call[c], queries[c], found[c], told[c], ever[c], lasting[c], failed[c])

\* Users and hyperties are in domains, and objects are not hyperties.
LEMMA Places ==
    /\ Search!AnyDomain \in Search!RegistryDomains
    /\ Search!NoQuery \in Queries /\ Search!NoQuery.level = "lookup"
    /\ \A u \in Search!RegistryUsers : DomainOf[u] \in Search!RegistryDomains
    /\ \A h \in Search!RegistryHyperties : OwnerOf[h] \in Search!RegistryUsers
    /\ \A o \in Search!RegistryObjects : ReporterOf[o] \in Search!RegistryHyperties /\ o \notin Search!RegistryHyperties
    /\ \A g \in Guids : UserIds[g] \subseteq Search!RegistryUsers
    /\ Self \in Search!RegistryHyperties
<1>1. Search!RegistryDomains # {}
  BY SearchedThings DEF Search!RegistryDomains, Search!RegistryUsers
<1>2. Search!AnyDomain \in Search!RegistryDomains
  BY <1>1 DEF Search!AnyDomain
<1>3. Search!NoQuery = [level |-> "lookup", of |-> Search!Profile, domain |-> Search!AnyDomain,
                        via |-> Search!Profile]
  BY DEF Search!NoQuery, Search!Query, Search!AnyDomain
<1>4. Search!NoQuery \in Queries /\ Search!NoQuery.level = "lookup"
  BY <1>2, <1>3 DEF Queries, Search!Levels, Search!Things
<1> QED BY <1>2, <1>4, SearchedThings
        DEF Search!RegistryDomains, Search!RegistryUsers, Search!RegistryHyperties, Search!RegistryObjects

\* Where one search changes.
LEMMA OneSearch ==
    ASSUME SearchInv, NEW c \in Searches, SearchTypes', live' = live,
           \A d \in Searches \ {c} :
               /\ call'[d] = call[d] /\ queries'[d] = queries[d] /\ found'[d] = found[d]
               /\ told'[d] = told[d] /\ ever'[d] = ever[d] /\ lasting'[d] = lasting[d]
               /\ failed'[d] = failed[d],
           SearchFits(live, call'[c], queries'[c], found'[c], told'[c], ever'[c], lasting'[c],
                      failed'[c])
    PROVE  SearchInv'
<1>1. ASSUME NEW d \in Searches
      PROVE  SearchFits(live', call'[d], queries'[d], found'[d], told'[d], ever'[d],
                        lasting'[d], failed'[d])
  <2>1. CASE d = c
    BY <2>1
  <2>2. CASE d # c
    <3>1. SearchFits(live, call[d], queries[d], found[d], told[d], ever[d], lasting[d], failed[d])
      BY DEF SearchInv
    <3> QED BY <2>2, <3>1
  <2> QED BY <2>1, <2>2
<1> QED BY <1>1 DEF SearchInv

\* A search begins.
LEMMA Begins ==
    ASSUME SearchInv, NEW c \in Searches, NEW kind \in Search!Kinds, NEW q, Sensible(q),
           Search!SearchFor(c, kind, q), q.level \in {"reporter", "name"} => kind = "object"
    PROVE  SearchInv'
<1> DEFINE k == [stage |-> "searching", kind |-> kind, query |-> q]
<1>1. /\ call[c].stage = "idle" /\ call' = [call EXCEPT ![c] = k]
      /\ queries' = [queries EXCEPT ![c] = {q}]
      /\ ever' = [ever EXCEPT ![c] = live] /\ lasting' = [lasting EXCEPT ![c] = live]
      /\ UNCHANGED <<live, found, told, failed>>
  BY DEF Search!SearchFor
<1>2. k \in SearchCalls /\ k.stage = "searching" /\ k.kind = kind /\ k.query = q /\ q \in Queries
  BY DEF SearchCalls, Sensible
<1>3. SearchFits(live, call[c], queries[c], found[c], told[c], ever[c], lasting[c], failed[c])
      /\ SearchTypes
  BY DEF SearchInv
<1>4. found[c] = {} /\ told[c] = {}
  BY <1>1, <1>3 DEF SearchFits
<1>5. ASSUME NEW u \in SoughtBy(q)
      PROVE  LeadsTo(q, u)
  BY DEF SoughtBy, LeadsTo, Sensible
<1> HIDE DEF k
<1>6. SearchFits(live, k, {q}, {}, {}, live, live, failed[c])
  BY <1>2, <1>5 DEF SearchFits
<1>7. SearchTypes'
  <2>1. {q} \in SUBSET Queries
    BY <1>2
  <2> QED BY <1>1, <1>2, <1>3, <2>1 DEF SearchTypes
<1>8. /\ call'[c] = k /\ queries'[c] = {q} /\ found'[c] = {} /\ told'[c] = {}
      /\ ever'[c] = live /\ lasting'[c] = live /\ failed'[c] = failed[c]
      /\ \A d \in Searches \ {c} :
            /\ call'[d] = call[d] /\ queries'[d] = queries[d] /\ found'[d] = found[d]
            /\ told'[d] = told[d] /\ ever'[d] = ever[d] /\ lasting'[d] = lasting[d]
            /\ failed'[d] = failed[d]
  BY <1>1, <1>3, <1>4 DEF SearchTypes
<1> QED BY <1>1, <1>6, <1>7, <1>8, OneSearch

\* Nobody searches: the invariant holds at first.
LEMMA SearchInit == Search!Init => SearchInv
<1> SUFFICES ASSUME Search!Init PROVE SearchInv
  OBVIOUS
<1> DEFINE k == [stage |-> "idle", kind |-> "hyperty", query |-> Search!NoQuery]
<1>1. /\ live \in SUBSET Search!Registered /\ call = [c \in Searches |-> k]
      /\ queries = [c \in Searches |-> {}] /\ found = [c \in Searches |-> {}]
      /\ told = found /\ ever = [c \in Searches |-> {}] /\ lasting = ever
      /\ failed = [c \in Searches |-> FALSE]
  BY DEF Search!Init
<1>2. k \in SearchCalls /\ k.stage = "idle" /\ k.query = Search!NoQuery
  BY Places DEF SearchCalls, Search!Kinds
<1>3. Sensible(Search!NoQuery)
  BY Places DEF Sensible
<1> HIDE DEF k
<1>4. SearchTypes
  BY <1>1, <1>2 DEF SearchTypes, Found, Told
<1>5. SearchFits(live, k, {}, {}, {}, {}, {}, FALSE)
  BY <1>2, <1>3 DEF SearchFits
<1> QED BY <1>1, <1>4, <1>5 DEF SearchInv

\* What follows an answer is sensible, and leads to whom the query led, or to what is found.
LEMMA Follows ==
    ASSUME NEW q, Sensible(q), NEW kind \in Search!Kinds, live \subseteq Search!Registered,
           q.level \in {"reporter", "name"} => kind = "object"
    PROVE  /\ \A p \in Search!Follow(kind, q) :
                 Sensible(p) /\ (p.level \in {"reporter", "name"} => kind = "object")
           /\ Search!Result(kind, q) \subseteq live
           /\ \A u, things, ls :
                 (/\ LeadsTo(q, u) /\ ls \subseteq live /\ Search!Result(kind, q) \subseteq things)
                 => \/ \E p \in Search!Follow(kind, q) : LeadsTo(p, u)
                    \/ UserFound(u, kind, Search!Follow(kind, q), things, ls)
           /\ \A h, ls, things :
                 (Asks(q, h) /\ ls \subseteq live /\ Search!Result(kind, q) \subseteq things) =>
                     \A o \in ls \cap Search!RegistryObjects : ReporterOf[o] = h => o \in things
<1>1. \A level, of, where, via :
          /\ Search!Query(level, of, where, via).level = level
          /\ Search!Query(level, of, where, via).of = of
          /\ Search!Query(level, of, where, via).domain = where
          /\ (level \in Search!Levels /\ of \in Search!Things /\ where \in Search!RegistryDomains
              /\ via \in Search!Things) => Search!Query(level, of, where, via) \in Queries
  BY DEF Search!Query, Queries
<1>2. q.of \in Search!Things /\ q.domain \in Search!RegistryDomains /\ q.level \in Search!Levels
  BY DEF Sensible, Queries
<1>3. CASE q.level = "lookup"
  <2>1. Search!Follow(kind, q) = {Search!Query("guid", g, q.domain, q.of) : g \in Guids}
    BY <1>3 DEF Search!Follow, Search!PerProfile
  <2>2. Search!Result(kind, q) = {}
    BY <1>3 DEF Search!Result
  <2>3. ASSUME NEW g \in Guids
        PROVE  Sensible(Search!Query("guid", g, q.domain, q.of))
    BY <1>1, <1>2 DEF Sensible, Search!Levels, Search!Things
  <2>4. ASSUME NEW u, LeadsTo(q, u)
        PROVE  \E p \in Search!Follow(kind, q) : LeadsTo(p, u)
    <3>1. PICK g \in Guids : u \in UserIds[g]
      BY <1>3, <2>4 DEF LeadsTo
    <3>2. LeadsTo(Search!Query("guid", g, q.domain, q.of), u)
      BY <1>1, <3>1 DEF LeadsTo
    <3> QED BY <2>1, <3>2
  <2> QED BY <1>1, <1>3, <2>1, <2>2, <2>3, <2>4 DEF Asks
<1>4. CASE q.level = "guid"
  <2>1. Search!Follow(kind, q) =
            {Search!Query("user", u, DomainOf[u], q.of) : u \in UserIds[q.of]}
    BY <1>4 DEF Search!Follow, Search!PerGUID
  <2>2. Search!Result(kind, q) = {}
    BY <1>4 DEF Search!Result
  <2>3. ASSUME NEW u \in UserIds[q.of]
        PROVE  Sensible(Search!Query("user", u, DomainOf[u], q.of))
    <3>1. u \in Search!RegistryUsers /\ DomainOf[u] \in Search!RegistryDomains
      BY <1>4, Places DEF Sensible
    <3> QED BY <1>1, <1>2, <3>1 DEF Sensible, Search!Levels, Search!Things
  <2>4. ASSUME NEW u, LeadsTo(q, u)
        PROVE  \E p \in Search!Follow(kind, q) : LeadsTo(p, u)
    <3>1. u \in UserIds[q.of]
      BY <1>4, <2>4 DEF LeadsTo
    <3>2. LeadsTo(Search!Query("user", u, DomainOf[u], q.of), u)
      BY <1>1 DEF LeadsTo
    <3> QED BY <2>1, <3>1, <3>2
  <2> QED BY <1>1, <1>4, <2>1, <2>2, <2>3, <2>4 DEF Asks
<1>5. CASE q.level = "user" /\ kind = "object"
  <2>1. Search!Follow(kind, q) =
            {Search!Query("reporter", h, q.domain, q.of) : h \in Search!HypertiesAt(q)}
    BY <1>5 DEF Search!Follow, Search!PerUser
  <2>2. Search!Result(kind, q) = {}
    BY <1>5 DEF Search!Result
  <2>3. ASSUME NEW h \in Search!HypertiesAt(q)
        PROVE  Sensible(Search!Query("reporter", h, q.domain, q.of))
    <3>1. h \in Search!RegistryHyperties
      BY DEF Search!HypertiesAt
    <3> QED BY <1>1, <1>2, <3>1 DEF Sensible, Search!Levels, Search!Things, Search!Registered
  <2>4. ASSUME NEW u, NEW things, NEW ls, LeadsTo(q, u), ls \subseteq live
        PROVE  UserFound(u, kind, Search!Follow(kind, q), things, ls)
    <3>1. q.of = u /\ q.domain = DomainOf[u]
      BY <1>5, <2>4 DEF LeadsTo
    <3>2. ASSUME NEW h \in ls \cap Search!RegistryHyperties, OwnerOf[h] = u
          PROVE  \E p \in Search!Follow(kind, q) : Asks(p, h)
      <4>1. h \in Search!HypertiesAt(q)
        BY <2>4, <3>1, <3>2 DEF Search!HypertiesAt
      <4>2. Asks(Search!Query("reporter", h, q.domain, q.of), h)
        BY <1>1, <3>1, <3>2 DEF Asks
      <4> QED BY <2>1, <4>1, <4>2
    <3> QED BY <1>5, <3>2 DEF UserFound
  <2> QED BY <1>1, <1>5, <2>1, <2>2, <2>3, <2>4 DEF Asks
<1>6. CASE q.level = "user" /\ kind = "hyperty"
  <2>1. Search!Follow(kind, q) = {}
    BY <1>6 DEF Search!Follow
  <2>2. Search!Result(kind, q) = Search!HypertiesAt(q)
    BY <1>6 DEF Search!Result
  <2>3. ASSUME NEW u, NEW things, NEW ls, LeadsTo(q, u), ls \subseteq live,
               Search!Result(kind, q) \subseteq things
        PROVE  UserFound(u, kind, Search!Follow(kind, q), things, ls)
    <3>1. q.of = u /\ q.domain = DomainOf[u]
      BY <1>6, <2>3 DEF LeadsTo
    <3>2. ASSUME NEW h \in ls \cap Search!RegistryHyperties, OwnerOf[h] = u
          PROVE  h \in things
      BY <2>2, <2>3, <3>1, <3>2 DEF Search!HypertiesAt
    <3> QED BY <1>6, <3>2 DEF UserFound
  <2> QED BY <1>6, <2>1, <2>2, <2>3 DEF Asks, Search!HypertiesAt
<1>7. CASE q.level \notin {"lookup", "guid", "user"}
  <2>1. Search!Follow(kind, q) = {} /\ \A u : ~LeadsTo(q, u)
    BY <1>7 DEF Search!Follow, LeadsTo
  <2>2. Search!Result(kind, q) \subseteq live
    <3>1. CASE q.level = "reporter"
      BY <3>1 DEF Search!Result
    <3>2. CASE q.level \in {"url", "name"}
      BY <3>2 DEF Search!Result
    <3> QED BY <1>2, <1>7, <3>1, <3>2 DEF Search!Levels
  <2>3. ASSUME NEW h, NEW ls, NEW things, Asks(q, h), ls \subseteq live,
               Search!Result(kind, q) \subseteq things,
               NEW o \in ls \cap Search!RegistryObjects, ReporterOf[o] = h
        PROVE  o \in things
    <3>1. q.level = "reporter" /\ q.of = h /\ q.domain = DomainOf[OwnerOf[h]]
      BY <2>3 DEF Asks
    <3>2. Search!HomeOf(o) = q.domain
      BY <2>3, <3>1 DEF Search!HomeOf
    <3>3. o \in Search!Result(kind, q)
      BY <2>3, <3>1, <3>2 DEF Search!Result
    <3> QED BY <2>3, <3>3
  <2> QED BY <2>1, <2>2, <2>3
<1> QED BY <1>2, <1>3, <1>4, <1>5, <1>6, <1>7 DEF Search!Kinds

\* An answer to a query of a search.
LEMMA AnsweredFits ==
    ASSUME SearchInv, NEW c \in Searches, NEW q \in queries[c], Search!Answered(c, q)
    PROVE  SearchInv'
<1> DEFINE k == call[c]
           F == Search!Follow(k.kind, q)
           R == Search!Result(k.kind, q)
           qs == (queries[c] \ {q}) \union F
           fd == found[c] \union R
<1>1. /\ queries' = [queries EXCEPT ![c] = qs] /\ found' = [found EXCEPT ![c] = fd]
      /\ UNCHANGED <<live, call, told, ever, lasting, failed>>
  BY DEF SearchInv, SearchTypes, Search!Answered, Search!history
<1>2. SearchFits(live, k, queries[c], found[c], told[c], ever[c], lasting[c], failed[c])
      /\ SearchTypes /\ k \in SearchCalls /\ live \subseteq Search!Registered
      /\ found[c] \in Found /\ queries[c] \in SUBSET Queries
  BY DEF SearchInv, SearchTypes
<1>3. Sensible(q) /\ k.kind \in Search!Kinds
      /\ (q.level \in {"reporter", "name"} => k.kind = "object")
  BY <1>2 DEF SearchFits, SearchCalls
<1> HIDE DEF k, F, R
<1>4. /\ \A p \in F : Sensible(p) /\ (p.level \in {"reporter", "name"} => k.kind = "object")
      /\ R \subseteq live
  BY <1>2, <1>3, Follows DEF F, R
<1>5. ASSUME NEW u, LeadsTo(q, u), lasting[c] \subseteq live
      PROVE  (\E p \in F : LeadsTo(p, u)) \/ UserFound(u, k.kind, F, fd, lasting[c])
  <2>1. R \subseteq fd
    OBVIOUS
  <2> HIDE DEF fd
  <2> QED BY <1>2, <1>3, <1>5, <2>1, Follows DEF F, R
<1>6. ASSUME NEW h, Asks(q, h), lasting[c] \subseteq live
      PROVE  \A o \in lasting[c] \cap Search!RegistryObjects : ReporterOf[o] = h => o \in fd
  <2>1. R \subseteq fd
    OBVIOUS
  <2> HIDE DEF fd
  <2> QED BY <1>2, <1>3, <1>6, <2>1, Follows DEF F, R
<1>7. qs \in SUBSET Queries /\ fd \in Found
  BY <1>2, <1>4 DEF Sensible, Found
<1>8. ASSUME k.stage = "searching", ~failed[c], NEW u \in SoughtBy(k.query)
      PROVE  (\E p \in qs : LeadsTo(p, u)) \/ UserFound(u, k.kind, qs, fd, lasting[c])
  <2>1. lasting[c] \subseteq live
        /\ ((\E p \in queries[c] : LeadsTo(p, u))
            \/ UserFound(u, k.kind, queries[c], found[c], lasting[c]))
    BY <1>2, <1>8 DEF SearchFits
  <2>2. CASE LeadsTo(q, u)
    <3>1. CASE \E p \in F : LeadsTo(p, u)
      BY <3>1
    <3>2. CASE UserFound(u, k.kind, F, fd, lasting[c])
      <4> HIDE DEF fd
      <4> QED BY <3>2 DEF UserFound
    <3> QED BY <1>5, <2>1, <2>2, <3>1, <3>2
  <2>3. CASE ~LeadsTo(q, u) /\ \E p \in queries[c] : LeadsTo(p, u)
    BY <2>3
  <2>4. CASE UserFound(u, k.kind, queries[c], found[c], lasting[c])
    <3>1. ASSUME NEW h \in lasting[c] \cap Search!RegistryHyperties, OwnerOf[h] = u
          PROVE  IF k.kind = "hyperty" THEN h \in fd
                 ELSE \/ \E p \in qs : Asks(p, h)
                      \/ \A o \in lasting[c] \cap Search!RegistryObjects : ReporterOf[o] = h => o \in fd
      <4>1. IF k.kind = "hyperty" THEN h \in found[c]
            ELSE \/ \E p \in queries[c] : Asks(p, h)
                 \/ \A o \in lasting[c] \cap Search!RegistryObjects : ReporterOf[o] = h => o \in found[c]
        BY <2>4, <3>1 DEF UserFound
      <4>2. found[c] \subseteq fd /\ queries[c] \ {q} \subseteq qs
        OBVIOUS
      <4>3. CASE Asks(q, h)
        <5> HIDE DEF fd, qs
        <5> QED BY <1>6, <2>1, <4>1, <4>2, <4>3
      <4>4. CASE ~Asks(q, h)
        <5> HIDE DEF fd, qs
        <5> QED BY <4>1, <4>2, <4>4
      <4> QED BY <4>3, <4>4
    <3> HIDE DEF fd, qs
    <3> QED BY <3>1 DEF UserFound
  <2> QED BY <2>1, <2>2, <2>3, <2>4
<1>9. k.stage \notin {"idle", "done"}
  BY <1>2 DEF SearchFits
<1>10. k.stage = "searching" => fd \subseteq ever[c] \union FieldsOf(k.kind)
  BY <1>2, <1>4 DEF SearchFits
<1>11. \A p \in qs : Sensible(p) /\ (p.level \in {"reporter", "name"} => k.kind = "object")
  BY <1>2, <1>4 DEF SearchFits
<1> HIDE DEF qs, fd
<1>12. SearchFits(live, k, qs, fd, told[c], ever[c], lasting[c], failed[c])
  BY <1>2, <1>8, <1>9, <1>10, <1>11 DEF SearchFits
<1>13. SearchTypes'
  BY <1>1, <1>2, <1>7 DEF SearchTypes
<1>14. /\ queries'[c] = qs /\ found'[c] = fd
       /\ \A d \in Searches \ {c} : queries'[d] = queries[d] /\ found'[d] = found[d]
  BY <1>1, <1>2 DEF SearchTypes
<1> QED BY <1>1, <1>12, <1>13, <1>14, OneSearch DEF k

\* A query of a search fails.
LEMMA FailedFits ==
    ASSUME SearchInv, NEW c \in Searches, NEW q \in queries[c],
           Search!Failed(c, q) \/ Search!TimedOut(c, q)
    PROVE  SearchInv'
<1>1. SearchFits(live, call[c], queries[c], found[c], told[c], ever[c], lasting[c], failed[c])
      /\ SearchTypes
  BY DEF SearchInv
<1>2. /\ queries' = [queries EXCEPT ![c] = queries[c] \ {q}]
      /\ failed' = [failed EXCEPT ![c] = TRUE]
      /\ UNCHANGED <<live, call, told, ever, lasting>>
  BY <1>1 DEF SearchTypes, Search!Failed, Search!TimedOut, Search!history
<1>3. PICK new \in Found :
          /\ found' = [found EXCEPT ![c] = new]
          /\ new = found[c] \/ (/\ new = found[c] \union {Search!Fields}
                                /\ Search!Unchecked(call[c].kind, q))
  <2>1. found[c] \in Found /\ found[c] \union {Search!Fields} \in Found
        /\ found = [found EXCEPT ![c] = found[c]]
    BY <1>1 DEF SearchTypes, Found
  <2> QED BY <2>1 DEF Search!Failed, Search!TimedOut
<1>4. new \subseteq found[c] \union FieldsOf(call[c].kind)
  BY <1>1, <1>3 DEF SearchFits, Search!Unchecked, FieldsOf
<1>5. call[c].stage \notin {"idle", "done"}
  BY <1>1 DEF SearchFits
<1>6. SearchFits(live, call[c], queries[c] \ {q}, new, told[c], ever[c], lasting[c], TRUE)
  BY <1>1, <1>4, <1>5 DEF SearchFits
<1>7. SearchTypes'
  <2>1. queries[c] \ {q} \in SUBSET Queries
    BY <1>1 DEF SearchTypes
  <2> QED BY <1>1, <1>2, <1>3, <2>1 DEF SearchTypes
<1>8. /\ queries'[c] = queries[c] \ {q} /\ found'[c] = new /\ failed'[c] = TRUE
      /\ \A d \in Searches \ {c} : /\ queries'[d] = queries[d] /\ found'[d] = found[d]
                                   /\ failed'[d] = failed[d]
  BY <1>1, <1>2, <1>3 DEF SearchTypes
<1> QED BY <1>2, <1>6, <1>7, <1>8, OneSearch

\* The library has the answer, or waits no longer.
LEMMA SettlesFits ==
    ASSUME SearchInv, NEW c \in Searches, Search!Replied(c) \/ Search!GivesUp(c)
    PROVE  SearchInv'
<1>1. SearchFits(live, call[c], queries[c], found[c], told[c], ever[c], lasting[c], failed[c])
      /\ SearchTypes /\ call[c] \in SearchCalls
  BY DEF SearchInv, SearchTypes
<1>2. call[c].stage = "searching" /\ UNCHANGED <<live, queries, found, ever, lasting, failed>>
  BY DEF Search!Replied, Search!GivesUp, Search!history
<1>3. ASSUME NEW stage \in {"done", "gaveUp"}, NEW tl \in Told, Search!Settles(c, stage, tl),
             SearchFits(live, [call[c] EXCEPT !.stage = stage], queries[c], found[c], tl,
                        ever[c], lasting[c], failed[c])
      PROVE  SearchInv'
  <2> DEFINE k == [call[c] EXCEPT !.stage = stage]
  <2>1. k \in SearchCalls
    BY <1>1 DEF SearchCalls
  <2>2. call' = [call EXCEPT ![c] = k] /\ told' = [told EXCEPT ![c] = tl]
    BY <1>1, <1>3 DEF SearchTypes, Search!Settles
  <2> HIDE DEF k
  <2>3. SearchTypes'
    BY <1>1, <1>2, <1>3, <2>1, <2>2 DEF SearchTypes
  <2>4. /\ call'[c] = k /\ told'[c] = tl
        /\ \A d \in Searches \ {c} : call'[d] = call[d] /\ told'[d] = told[d]
    BY <1>1, <2>2 DEF SearchTypes
  <2>5. SearchFits(live, k, queries[c], found[c], tl, ever[c], lasting[c], failed[c])
    BY <1>3 DEF k
  <2> QED BY <1>2, <2>3, <2>4, <2>5, OneSearch
<1>4. CASE Search!GivesUp(c)
  <2> DEFINE k == [call[c] EXCEPT !.stage = "gaveUp"]
  <2>1. k.stage = "gaveUp" /\ k.kind = call[c].kind /\ k.query = call[c].query
    BY <1>1 DEF SearchCalls
  <2> HIDE DEF k
  <2>2. SearchFits(live, k, queries[c], found[c], {}, ever[c], lasting[c], failed[c])
    BY <1>1, <2>1 DEF SearchFits
  <2>3. Search!Settles(c, "gaveUp", {}) /\ {} \in Told
    BY <1>4 DEF Search!GivesUp, Told
  <2> QED BY <1>3, <2>2, <2>3 DEF k
<1>5. CASE Search!Replied(c)
  <2> DEFINE k == [call[c] EXCEPT !.stage = "done"]
             tl == Search!Filter(c)
  <2>1. k.stage = "done" /\ k.kind = call[c].kind /\ k.query = call[c].query
    BY <1>1 DEF SearchCalls
  <2>2. tl \subseteq found[c] /\ found[c] \subseteq tl \union {Self}
    BY DEF Search!Filter
  <2>3. queries[c] = {} /\ Search!Settles(c, "done", tl)
    BY <1>5 DEF Search!Replied
  <2>4. tl \in Told
    BY <1>1, <2>2 DEF SearchTypes, Found, Told
  <2> HIDE DEF k, tl
  <2>5. ASSUME ~failed[c], NEW u \in SoughtBy(k.query)
        PROVE  UserFound(u, k.kind, {}, tl \union {Self}, lasting[c])
    <3>1. UserFound(u, k.kind, {}, found[c], lasting[c])
      BY <1>1, <1>2, <2>1, <2>3, <2>5 DEF SearchFits
    <3> QED BY <2>2, <3>1 DEF UserFound
  <2>6. SearchFits(live, k, queries[c], found[c], tl, ever[c], lasting[c], failed[c])
    BY <1>1, <1>2, <2>1, <2>2, <2>3, <2>5 DEF SearchFits
  <2> QED BY <1>3, <2>3, <2>4, <2>6 DEF k
<1> QED BY <1>4, <1>5

\* The library gives a legacy user without a search.
LEMMA LegacyFits ==
    ASSUME SearchInv, NEW c \in Searches, NEW kind \in Search!Kinds, NEW level \in Search!Levels,
           NEW d \in Search!RegistryDomains, Search!DiscoverLegacy(c, kind, level, d)
    PROVE  SearchInv'
<1> DEFINE q == Search!Query(level, Search!Legacy, d, Search!Legacy)
           k == [stage |-> "done", kind |-> kind, query |-> q]
<1>1. SearchFits(live, call[c], queries[c], found[c], told[c], ever[c], lasting[c], failed[c])
      /\ SearchTypes
  BY DEF SearchInv
<1>2. /\ call[c].stage = "idle" /\ call' = [call EXCEPT ![c] = k]
      /\ told' = [told EXCEPT ![c] = {Search!Legacy}] /\ level # "guid"
      /\ UNCHANGED <<live, queries, found, ever, lasting, failed>>
  BY DEF Search!DiscoverLegacy, Search!history
<1>3. q.of = Search!Legacy /\ q.level = level /\ q \in Queries
  BY DEF Search!Query, Queries, Search!Things
<1>4. Sensible(q) /\ SoughtBy(q) = {}
  <2>1. level # "reporter"
    BY DEF Search!DiscoverLegacy
  <2> HIDE DEF q
  <2>2. Sensible(q)
    BY <1>2, <1>3, <2>1 DEF Sensible
  <2>3. SoughtBy(q) = {}
    BY <1>3 DEF SoughtBy
  <2> QED BY <2>2, <2>3
<1> HIDE DEF q
<1>5. k \in SearchCalls /\ k.stage = "done" /\ k.kind = kind /\ k.query = q
  BY <1>3 DEF SearchCalls
<1> HIDE DEF k
<1>6. queries[c] = {} /\ found[c] = {}
  BY <1>1, <1>2 DEF SearchFits
<1>7. SearchFits(live, k, queries[c], found[c], {Search!Legacy}, ever[c], lasting[c], failed[c])
  BY <1>3, <1>4, <1>5, <1>6 DEF SearchFits
<1>8. SearchTypes'
  <2>1. {Search!Legacy} \in Told
    BY DEF Told
  <2> QED BY <1>1, <1>2, <1>5, <2>1 DEF SearchTypes
<1>9. /\ call'[c] = k /\ told'[c] = {Search!Legacy}
      /\ \A e \in Searches \ {c} : call'[e] = call[e] /\ told'[e] = told[e]
  BY <1>1, <1>2, <1>5 DEF SearchTypes
<1> QED BY <1>2, <1>7, <1>8, <1>9, OneSearch

\* Something is registered.
LEMMA RegisterFits ==
    ASSUME SearchInv, NEW x \in Search!Registered, Search!Register(x)
    PROVE  SearchInv'
<1>1. /\ live' = live \union {x} /\ UNCHANGED <<call, queries, found, told, lasting, failed>>
      /\ ever' = [c \in Searches |-> IF Search!Searching(c) THEN ever[c] \union {x} ELSE ever[c]]
  BY DEF Search!Register
<1>2. SearchTypes
  BY DEF SearchInv
<1>3. SearchTypes'
  BY <1>1, <1>2 DEF SearchTypes
<1>4. ASSUME NEW c \in Searches
      PROVE  SearchFits(live', call'[c], queries'[c], found'[c], told'[c], ever'[c],
                        lasting'[c], failed'[c])
  <2>1. SearchFits(live, call[c], queries[c], found[c], told[c], ever[c], lasting[c], failed[c])
    BY DEF SearchInv
  <2>2. /\ call'[c] = call[c] /\ queries'[c] = queries[c] /\ found'[c] = found[c]
        /\ told'[c] = told[c] /\ lasting'[c] = lasting[c] /\ failed'[c] = failed[c]
        /\ ever'[c] = IF call[c].stage = "searching" THEN ever[c] \union {x} ELSE ever[c]
    BY <1>1 DEF Search!Searching
  <2> QED BY <1>1, <2>1, <2>2 DEF SearchFits
<1> QED BY <1>3, <1>4 DEF SearchInv

\* It is no longer.
LEMMA UnregisterFits ==
    ASSUME SearchInv, NEW x \in Search!Registered, Search!Unregister(x)
    PROVE  SearchInv'
<1>1. /\ live' = live \ {x} /\ UNCHANGED <<call, queries, found, told, ever, failed>>
      /\ lasting' = [c \in Searches |-> IF Search!Searching(c) THEN lasting[c] \ {x}
                                        ELSE lasting[c]]
  BY DEF Search!Unregister
<1>2. SearchTypes
  BY DEF SearchInv
<1>3. SearchTypes'
  BY <1>1, <1>2 DEF SearchTypes
<1>4. ASSUME NEW c \in Searches
      PROVE  SearchFits(live', call'[c], queries'[c], found'[c], told'[c], ever'[c],
                        lasting'[c], failed'[c])
  <2>1. SearchFits(live, call[c], queries[c], found[c], told[c], ever[c], lasting[c], failed[c])
    BY DEF SearchInv
  <2>2. /\ call'[c] = call[c] /\ queries'[c] = queries[c] /\ found'[c] = found[c]
        /\ told'[c] = told[c] /\ ever'[c] = ever[c] /\ failed'[c] = failed[c]
        /\ lasting'[c] = IF call[c].stage = "searching" THEN lasting[c] \ {x} ELSE lasting[c]
    BY <1>1 DEF Search!Searching
  <2>3. \A u : UserFound(u, call[c].kind, queries[c], found[c], lasting[c]) =>
                   UserFound(u, call[c].kind, queries[c], found[c], lasting[c] \ {x})
    BY DEF UserFound
  <2> QED BY <1>1, <2>1, <2>2, <2>3 DEF SearchFits
<1> QED BY <1>3, <1>4 DEF SearchInv

\* Every step keeps the invariant.
LEMMA SearchNext == SearchInv /\ [Search!Next]_(Search!vars) => SearchInv'
<1> SUFFICES ASSUME SearchInv, [Search!Next]_(Search!vars)
             PROVE  SearchInv'
  OBVIOUS
<1>1. \A level, of, where, via :
          LET q == Search!Query(level, of, where, via)
          IN  /\ q.level = level /\ q.of = of
              /\ (level \in Search!Levels /\ of \in Search!Things /\ where \in Search!RegistryDomains
                  /\ via \in Search!Things) => q \in Queries
  BY DEF Search!Query, Queries
<1>2. ASSUME NEW c \in Searches, NEW q \in queries[c],
             Search!Answered(c, q) \/ Search!Failed(c, q) \/ Search!TimedOut(c, q)
      PROVE  SearchInv'
  BY <1>2, AnsweredFits, FailedFits
<1>3. ASSUME NEW c \in Searches, NEW kind \in Search!Kinds, Search!DiscoverPerProfile(c, kind)
      PROVE  SearchInv'
  <2>1. Sensible(Search!NoQuery) /\ Search!NoQuery.level = "lookup"
    BY Places DEF Sensible
  <2> QED BY <1>3, <2>1, Begins DEF Search!DiscoverPerProfile
<1>4. ASSUME NEW c \in Searches, NEW kind \in Search!Kinds, NEW g \in Guids,
             Search!DiscoverPerGUID(c, kind, g)
      PROVE  SearchInv'
  <2> DEFINE q == Search!Query("guid", g, Search!AnyDomain, Search!Profile)
  <2>1. Sensible(q) /\ q.level = "guid"
    BY <1>1, Places DEF Sensible, Search!Levels, Search!Things
  <2>2. Search!SearchFor(c, kind, q)
    BY <1>4 DEF Search!DiscoverPerGUID
  <2> HIDE DEF q
  <2> QED BY <2>1, <2>2, Begins
<1>5. ASSUME NEW c \in Searches, NEW kind \in Search!Kinds, 
             NEW u \in Search!RegistryUsers \union {Search!Legacy},
             NEW d \in Search!RegistryDomains, Search!DiscoverPerUser(c, kind, u, d)
      PROVE  SearchInv'
  <2> DEFINE q == Search!Query("user", u, d, Search!Profile)
  <2>1. Sensible(q) /\ q.level = "user"
    BY <1>1 DEF Sensible, Search!Levels, Search!Things
  <2>2. Search!SearchFor(c, kind, q)
    BY <1>5 DEF Search!DiscoverPerUser
  <2> HIDE DEF q
  <2> QED BY <2>1, <2>2, Begins
<1>6. ASSUME NEW c \in Searches, NEW h \in Search!RegistryHyperties, NEW d \in Search!RegistryDomains,
             Search!DiscoverPerReporter(c, h, d)
      PROVE  SearchInv'
  <2> DEFINE q == Search!Query("reporter", h, d, Search!Profile)
  <2>1. Sensible(q)
    BY <1>1 DEF Sensible, Search!Levels, Search!Things, Search!Registered
  <2>2. Search!SearchFor(c, "object", q) /\ "object" \in Search!Kinds
    BY <1>6 DEF Search!DiscoverPerReporter, Search!Kinds
  <2> HIDE DEF q
  <2> QED BY <2>1, <2>2, Begins
<1>7. ASSUME NEW c \in Searches, NEW o \in Search!RegistryObjects, NEW d \in Search!RegistryDomains,
             Search!DiscoverPerName(c, o, d)
      PROVE  SearchInv'
  <2> DEFINE q == Search!Query("name", o, d, Search!Profile)
  <2>1. Sensible(q)
    BY <1>1 DEF Sensible, Search!Levels, Search!Things, Search!Registered
  <2>2. Search!SearchFor(c, "object", q) /\ "object" \in Search!Kinds
    BY <1>7 DEF Search!DiscoverPerName, Search!Kinds
  <2> HIDE DEF q
  <2> QED BY <2>1, <2>2, Begins
<1>8. ASSUME NEW c \in Searches, NEW x \in Search!Registered, NEW d \in Search!RegistryDomains,
             Search!DiscoverPerURL(c, x, d)
      PROVE  SearchInv'
  <2> DEFINE q == Search!Query("url", x, d, Search!Profile)
  <2>1. Sensible(q) /\ q.level = "url"
    BY <1>1 DEF Sensible, Search!Levels, Search!Things
  <2>2. PICK kind \in Search!Kinds : Search!SearchFor(c, kind, q)
    BY <1>8 DEF Search!DiscoverPerURL, Search!Kinds
  <2> HIDE DEF q
  <2> QED BY <2>1, <2>2, Begins
<1>12. ASSUME NEW c \in Searches, NEW kind \in Search!Kinds, NEW level \in Search!Levels,
              NEW d \in Search!RegistryDomains, Search!DiscoverLegacy(c, kind, level, d)
       PROVE  SearchInv'
  BY <1>12, LegacyFits
<1>9. ASSUME NEW c \in Searches, Search!Replied(c) \/ Search!GivesUp(c)
      PROVE  SearchInv'
  BY <1>9, SettlesFits
<1>10. ASSUME NEW x \in Search!Registered, Search!Register(x) \/ Search!Unregister(x)
       PROVE  SearchInv'
  BY <1>10, RegisterFits, UnregisterFits
<1>11. CASE UNCHANGED Search!vars
  BY <1>11 DEF SearchInv, SearchTypes, Search!vars
<1> QED BY <1>2, <1>3, <1>4, <1>5, <1>6, <1>7, <1>8, <1>9, <1>10, <1>11, <1>12 DEF Search!Next

\* The invariant implies the properties of searches.
LEMMA SearchKept ==
    SearchInv => Search!TypeOK /\ Search!FoundWereThere /\ Search!NothingMissed
<1> SUFFICES ASSUME SearchInv
             PROVE  Search!TypeOK /\ Search!FoundWereThere /\ Search!NothingMissed
  OBVIOUS
<1>1. SearchTypes
      /\ \A c \in Searches : SearchFits(live, call[c], queries[c], found[c], told[c], ever[c],
                                        lasting[c], failed[c])
  BY DEF SearchInv
<1>2. Search!TypeOK
  BY <1>1 DEF SearchTypes, Search!TypeOK, SearchCalls, Queries, Found, Told
<1>3. Search!FoundWereThere
  BY <1>1 DEF Search!FoundWereThere, SearchFits, FieldsOf
<1>4. ASSUME NEW c \in Searches, call[c].stage = "done", ~failed[c]
      PROVE  LET hs == {h \in lasting[c] \cap Search!RegistryHyperties : OwnerOf[h] \in Search!Sought(c)}
             IN  IF call[c].kind = "hyperty" THEN hs \ {Self} \subseteq told[c]
                 ELSE {o \in lasting[c] \cap Search!RegistryObjects : ReporterOf[o] \in hs} \subseteq told[c]
  <2> DEFINE hs == {h \in lasting[c] \cap Search!RegistryHyperties : OwnerOf[h] \in Search!Sought(c)}
  <2>1. \A u \in SoughtBy(call[c].query) :
            UserFound(u, call[c].kind, {}, told[c] \union {Self}, lasting[c])
    BY <1>1, <1>4 DEF SearchFits
  <2>2. Search!Sought(c) = SoughtBy(call[c].query)
    BY DEF Search!Sought, SoughtBy
  <2>3. CASE call[c].kind = "hyperty"
    BY <2>1, <2>2, <2>3 DEF UserFound
  <2>4. CASE call[c].kind # "hyperty"
    <3>1. ASSUME NEW o \in lasting[c] \cap Search!RegistryObjects, ReporterOf[o] \in hs
          PROVE  o \in told[c]
      <4>1. UserFound(OwnerOf[ReporterOf[o]], call[c].kind, {}, told[c] \union {Self}, lasting[c])
        BY <2>1, <2>2, <3>1
      <4>2. o \in told[c] \union {Self}
        BY <2>4, <3>1, <4>1 DEF UserFound
      <4> QED BY <3>1, <4>2, Places
    <3> QED BY <2>4, <3>1
  <2> QED BY <2>3, <2>4
<1>5. Search!NothingMissed
  BY <1>4 DEF Search!NothingMissed, Search!Done
<1> QED BY <1>2, <1>3, <1>5

-----------------------------------------------------------------------------
(* Hyperty resources.                                                      *)

\* The space that resources take, a number, grows and shrinks with them.
LEMMA UnitsAreFew ==
    ASSUME NEW rs \in SUBSET Resources
    PROVE  IsFiniteSet(Resource!Units(rs)) /\ Resource!Total(rs) \in Nat
           /\ Resource!Total(rs) = Cardinality(Resource!Units(rs))
<1> DEFINE f == [r \in rs |-> {r} \X (1 .. Size[r])]
           U == {{r} \X (1 .. Size[r]) : r \in rs}
<1>1. IsFiniteSet(rs)
  BY FewResources, FS_Subset
<1>2. f \in [rs -> U] /\ \A x \in U : \E r \in rs : f[r] = x
  OBVIOUS
<1>3. \A r \in rs : Size[r] \in Nat
  BY SpaceNumbers
<1>4. ASSUME NEW r \in rs
      PROVE  IsFiniteSet({r} \X (1 .. Size[r]))
  <2>1. IsFiniteSet({r})
    BY FS_Singleton
  <2>2. Size[r] \in Int
    BY <1>3
  <2>3. IsFiniteSet(1 .. Size[r])
    BY <2>2, FS_Interval
  <2> QED BY <2>1, <2>3, FS_Product
<1>5. \A T \in U : IsFiniteSet(T)
  BY <1>4
<1>6. Resource!Units(rs) = UNION U
  BY DEF Resource!Units
<1> HIDE DEF f, U
<1>7. f \in Surjection(rs, U)
  BY <1>2 DEF Surjection
<1>8. IsFiniteSet(U)
  BY <1>1, <1>7, FS_Surjection
<1>9. IsFiniteSet(Resource!Units(rs))
  BY <1>5, <1>6, <1>8, FS_UNION
<1>10. Resource!Total(rs) = Cardinality(Resource!Units(rs))
  BY DEF Resource!Total, Resource!Cardinality, Cardinality
<1> QED BY <1>9, <1>10, FS_CardinalityType

\* Unless something was deleted, what is stored or about to be is in memory, and
\* nothing is stuck.
Remembers(n, mem, db, sv, del) ==
    ~del[n] =>
        /\ db[n] \subseteq mem[n]
        /\ \A r \in Resources : sv[<<n, r>>] # "no" => r \in mem[n] /\ sv[<<n, r>>] # "stuck"

\* Memory, database and the saves under way of each runtime fit together.
ResourceInv ==
    /\ Resource!TypeOK
    /\ \A n \in Runtimes : Remembers(n, memory, database, save, deleted)

\* The stages of a save.
SaveStages == {"no", "checking", "evicting", "writing", "stuck", "unread"}
\* The stages of a read.
ReadStages == {"no", "local", "localProgress", "remote", "remoteProgress"}

\* A step in one runtime leaves the others alone.
LEMMA OneRuntime ==
    ASSUME ResourceInv, NEW n \in Runtimes, Resource!TypeOK',
           \A m \in Runtimes \ {n} :
               /\ database'[m] = database[m] /\ memory'[m] = memory[m]
               /\ deleted'[m] = deleted[m]
               /\ \A r \in Resources : save'[<<m, r>>] = save[<<m, r>>],
           Remembers(n, memory', database', save', deleted')
    PROVE  ResourceInv'
<1>1. ASSUME NEW m \in Runtimes
      PROVE  Remembers(m, memory', database', save', deleted')
  <2>1. CASE m = n
    BY <2>1
  <2>2. CASE m # n
    <3>1. Remembers(m, memory, database, save, deleted)
      BY DEF ResourceInv
    <3>2. /\ database'[m] = database[m] /\ memory'[m] = memory[m]
          /\ deleted'[m] = deleted[m]
          /\ \A r \in Resources : save'[<<m, r>>] = save[<<m, r>>]
      BY <2>2
    <3> QED BY <3>1, <3>2 DEF Remembers
  <2> QED BY <2>1, <2>2
<1> QED BY <1>1 DEF ResourceInv

\* A save goes to another stage, and the others stay.
LEMMA SaveChanges ==
    ASSUME ResourceInv, NEW n \in Runtimes, NEW r \in Resources, NEW stage \in SaveStages,
           save' = [save EXCEPT ![<<n, r>>] = stage]
    PROVE  /\ save' \in [Resource!Places -> SaveStages]
           /\ \A q \in Resources :
                 save'[<<n, q>>] = IF q = r THEN stage ELSE save[<<n, q>>]
           /\ \A m \in Runtimes \ {n} : \A q \in Resources : save'[<<m, q>>] = save[<<m, q>>]
<1>1. save \in [Resource!Places -> SaveStages]
  BY DEF ResourceInv, Resource!TypeOK, SaveStages
<1>2. \A m \in Runtimes, q \in Resources : <<m, q>> \in Resource!Places
  BY DEF Resource!Places
<1>3. \A p \in Resource!Places : save'[p] = IF p = <<n, r>> THEN stage ELSE save[p]
  BY <1>1
<1>4. \A m \in Runtimes, q \in Resources :
          save'[<<m, q>>] = IF m = n /\ q = r THEN stage ELSE save[<<m, q>>]
  BY <1>2, <1>3
<1> QED BY <1>1, <1>4

\* A save goes on, or ends, and the database may change with it by what is in memory.
LEMMA SaveGoesOn ==
    ASSUME ResourceInv, NEW n \in Runtimes, NEW r \in Resources, NEW stage \in SaveStages,
           save[<<n, r>>] # "no", save' = [save EXCEPT ![<<n, r>>] = stage],
           stage = "stuck" => deleted[n],
           NEW db \in SUBSET Resources, database' = [database EXCEPT ![n] = db],
           db \subseteq database[n] \union {r},
           shared' \subseteq Resources, \A m \in Runtimes : usage'[m] \in 0 .. Quota[m],
           UNCHANGED <<held, memory, read, deleted>>
    PROVE  ResourceInv'
<1>1. /\ save' \in [Resource!Places -> SaveStages]
      /\ \A q \in Resources : save'[<<n, q>>] = IF q = r THEN stage ELSE save[<<n, q>>]
      /\ \A m \in Runtimes \ {n} : \A q \in Resources : save'[<<m, q>>] = save[<<m, q>>]
  BY SaveChanges
<1>2. Resource!TypeOK /\ Remembers(n, memory, database, save, deleted)
  BY DEF ResourceInv
<1>3. /\ database' \in [Runtimes -> SUBSET Resources] /\ database'[n] = db
      /\ \A m \in Runtimes \ {n} : database'[m] = database[m]
  BY <1>2 DEF Resource!TypeOK
<1>4. Resource!TypeOK'
  BY <1>1, <1>2, <1>3 DEF Resource!TypeOK, SaveStages
<1>5. Remembers(n, memory', database', save', deleted')
  BY <1>1, <1>2, <1>3 DEF Remembers
<1> QED BY <1>1, <1>3, <1>4, <1>5, OneRuntime

\* Nothing is stored: the invariant holds at first.
LEMMA ResourceInit == Resource!Init => ResourceInv
<1> SUFFICES ASSUME Resource!Init PROVE ResourceInv
  OBVIOUS
<1>1. /\ database = [n \in Runtimes |-> {}] /\ memory = database
      /\ save = [p \in Resource!Places |-> "no"] /\ read = save
      /\ shared = {} /\ usage = [n \in Runtimes |-> 0]
      /\ deleted = [n \in Runtimes |-> FALSE]
      /\ held = {<<Home[r], r>> : r \in Resources}
  BY DEF Resource!Init
<1>2. held \subseteq Resource!Places
  BY <1>1, ResourcesHaveHomes DEF Resource!Places
<1>3. \A n \in Runtimes : usage[n] \in 0 .. Quota[n]
  BY <1>1, SpaceNumbers
<1>4. Resource!TypeOK
  BY <1>1, <1>2, <1>3 DEF Resource!TypeOK
<1>5. \A n \in Runtimes, r \in Resources : save[<<n, r>>] = "no"
  BY <1>1 DEF Resource!Places
<1>6. \A n \in Runtimes : Remembers(n, memory, database, save, deleted)
  BY <1>1, <1>5 DEF Remembers
<1> QED BY <1>4, <1>6 DEF ResourceInv

\* Every step keeps the invariant.
LEMMA ResourceNext == ResourceInv /\ [Resource!Next]_(Resource!vars) => ResourceInv'
<1> SUFFICES ASSUME ResourceInv, [Resource!Next]_(Resource!vars)
             PROVE  ResourceInv'
  OBVIOUS
<1>1. Resource!TypeOK /\ \A n \in Runtimes : Remembers(n, memory, database, save, deleted)
  BY DEF ResourceInv
<1>2. /\ memory \in [Runtimes -> SUBSET Resources] /\ database \in [Runtimes -> SUBSET Resources]
      /\ deleted \in [Runtimes -> BOOLEAN] /\ held \subseteq Resource!Places
      /\ shared \subseteq Resources /\ \A n \in Runtimes : usage[n] \in 0 .. Quota[n]
      /\ \A n \in Runtimes, r \in Resources : <<n, r>> \in Resource!Places
      /\ read \in [Resource!Places -> ReadStages] /\ save \in [Resource!Places -> SaveStages]
  BY <1>1 DEF Resource!TypeOK, Resource!Places, ReadStages, SaveStages
<1>4. \A n \in Runtimes :
          /\ database[n] \in SUBSET Resources /\ memory[n] \in SUBSET Resources
          /\ database = [database EXCEPT ![n] = database[n]]
          /\ Resource!Total(database[n]) \in Nat /\ Quota[n] \in Nat
  <2>1. ASSUME NEW n \in Runtimes
        PROVE  /\ database[n] \in SUBSET Resources /\ memory[n] \in SUBSET Resources
               /\ database = [database EXCEPT ![n] = database[n]] /\ Quota[n] \in Nat
    BY <1>2, SpaceNumbers
  <2>2. ASSUME NEW n \in Runtimes
        PROVE  Resource!Total(database[n]) \in Nat
    BY <2>1, UnitsAreFew
  <2> QED BY <2>1, <2>2
<1>6. ASSUME NEW n \in Runtimes, NEW r \in Resources, Resource!OnCreate(n, r),
             save[<<n, r>>] = "no",
             UNCHANGED <<shared, database, usage, deleted>>,
             held' \subseteq Resource!Places, read' \in [Resource!Places -> ReadStages]
      PROVE  ResourceInv'
  <2>1. save' = [save EXCEPT ![<<n, r>>] = "checking"]
        /\ memory' = [memory EXCEPT ![n] = memory[n] \union {r}]
    BY <1>2, <1>6 DEF Resource!OnCreate
  <2>2. /\ save' \in [Resource!Places -> SaveStages]
        /\ \A q \in Resources : save'[<<n, q>>] = IF q = r THEN "checking" ELSE save[<<n, q>>]
        /\ \A m \in Runtimes \ {n} : \A q \in Resources : save'[<<m, q>>] = save[<<m, q>>]
    BY <2>1, SaveChanges DEF SaveStages
  <2>3. memory' \in [Runtimes -> SUBSET Resources] /\ memory'[n] = memory[n] \union {r}
        /\ \A m \in Runtimes \ {n} : memory'[m] = memory[m]
    BY <1>2, <2>1
  <2>4. Resource!TypeOK'
    BY <1>1, <1>6, <2>2, <2>3 DEF Resource!TypeOK, SaveStages, ReadStages
  <2>7. Remembers(n, memory', database', save', deleted')
    BY <1>1, <1>6, <2>2, <2>3 DEF Remembers
  <2> QED BY <1>6, <2>2, <2>3, <2>4, <2>7, OneRuntime
<1>7. ASSUME UNCHANGED <<shared, memory, database, usage, save, deleted>>,
             held' \subseteq Resource!Places, read' \in [Resource!Places -> ReadStages]
      PROVE  ResourceInv'
  BY <1>7 DEF ResourceInv, Resource!TypeOK, Remembers, ReadStages
<1>9. ASSUME NEW n \in Runtimes, NEW r \in Resources, Resource!Save(n, r)
      PROVE  ResourceInv'
  BY <1>2, <1>6, <1>9 DEF Resource!Save
<1>10. ASSUME NEW n \in Runtimes, NEW r \in Resources, Resource!Check(n, r)
       PROVE  ResourceInv'
  <2>1. PICK used \in Resource!Estimates(n) :
           /\ save[<<n, r>>] = "checking" /\ usage' = [usage EXCEPT ![n] = used]
           /\ \/ save' = [save EXCEPT ![<<n, r>>] = "no"]
              \/ save' = [save EXCEPT ![<<n, r>>] = "evicting"]
              \/ save' = [save EXCEPT ![<<n, r>>] = "writing"]
           /\ UNCHANGED <<held, shared, memory, database, read, deleted>>
    BY <1>10 DEF Resource!Check
  <2>2. used \in 0 .. Quota[n]
    <3>1. CASE usage[n] # 0
      BY <1>2, <3>1 DEF Resource!Estimates
    <3>2. CASE usage[n] = 0
      <4>1. used \in Resource!Total(database[n]) .. Quota[n]
        BY <3>2 DEF Resource!Estimates
      <4> QED BY <1>4, <4>1
    <3> QED BY <3>1, <3>2
  <2>3. \A m \in Runtimes : usage'[m] \in 0 .. Quota[m]
    <3>1. ASSUME NEW m \in Runtimes
          PROVE  usage'[m] = usage[m] \/ (m = n /\ usage'[m] = used)
      BY <2>1
    <3> QED BY <1>2, <2>2, <3>1
  <2>4. PICK stage \in SaveStages :
           stage # "stuck" /\ save' = [save EXCEPT ![<<n, r>>] = stage]
    BY <2>1 DEF SaveStages
  <2>5. save[<<n, r>>] # "no" /\ database' = [database EXCEPT ![n] = database[n]]
        /\ database[n] \in SUBSET Resources
    BY <1>4, <2>1
  <2> QED BY <1>2, <2>1, <2>3, <2>4, <2>5, SaveGoesOn
<1>11. ASSUME NEW n \in Runtimes, NEW r \in Resources, Resource!NoEstimate(n, r)
       PROVE  ResourceInv'
  <2>1. /\ save[<<n, r>>] # "no" /\ save' = [save EXCEPT ![<<n, r>>] = "no"]
        /\ UNCHANGED <<held, shared, memory, database, usage, read, deleted>>
    BY <1>11 DEF Resource!NoEstimate, Resource!Refuse
  <2>2. database' = [database EXCEPT ![n] = database[n]] /\ "no" \in SaveStages
        /\ database[n] \in SUBSET Resources
    BY <1>4, <2>1 DEF SaveStages
  <2> QED BY <1>2, <2>1, <2>2, SaveGoesOn
<1>12. ASSUME NEW n \in Runtimes, NEW r \in Resources, Resource!Evict(n, r)
       PROVE  ResourceInv'
  <2>1. /\ save[<<n, r>>] # "no" /\ UNCHANGED <<held, shared, memory, usage, read, deleted>>
    BY <1>12 DEF Resource!Evict
  <2>2. ASSUME NEW db \in SUBSET database[n], NEW stage \in SaveStages,
               database' = [database EXCEPT ![n] = db],
               save' = [save EXCEPT ![<<n, r>>] = stage], stage = "stuck" => deleted[n]
        PROVE  ResourceInv'
    <3>1. db \in SUBSET Resources /\ db \subseteq database[n] \union {r}
      BY <1>4
    <3> QED BY <1>2, <2>1, <2>2, <3>1, SaveGoesOn
  <2>3. ASSUME NEW rs \in SUBSET database[n], database' = [database EXCEPT ![n] = database[n] \ rs],
               save' = [save EXCEPT ![<<n, r>>] = "writing"]
        PROVE  ResourceInv'
    <3>1. database[n] \ rs \in SUBSET database[n] /\ "writing" \in SaveStages
      BY DEF SaveStages
    <3> QED BY <2>2, <2>3, <3>1
  <2>4. ASSUME NEW rs \in SUBSET database[n], NEW gone \in SUBSET rs,
               database' = [database EXCEPT ![n] = database[n] \ gone],
               save' = [save EXCEPT ![<<n, r>>] = "no"]
        PROVE  ResourceInv'
    <3>1. database[n] \ gone \in SUBSET database[n] /\ "no" \in SaveStages
      BY DEF SaveStages
    <3> QED BY <2>2, <2>4, <3>1
  <2>5. CASE /\ ~ database[n] \subseteq memory[n]
             /\ save' = [save EXCEPT ![<<n, r>>] = "stuck"] /\ UNCHANGED database
    <3>1. deleted[n]
      BY <1>1, <2>5 DEF Remembers
    <3>2. database[n] \in SUBSET database[n] /\ "stuck" \in SaveStages
          /\ database' = [database EXCEPT ![n] = database[n]]
      BY <1>4, <2>5 DEF SaveStages
    <3> QED BY <2>2, <2>5, <3>1, <3>2
  <2>6. CASE save' = [save EXCEPT ![<<n, r>>] = "unread"] /\ UNCHANGED database
    <3>1. database[n] \in SUBSET database[n] /\ "unread" \in SaveStages
          /\ database' = [database EXCEPT ![n] = database[n]]
      BY <1>4, <2>6 DEF SaveStages
    <3> QED BY <2>2, <2>6, <3>1
  <2>7. Resource!Older(n, r) \subseteq SUBSET database[n]
    BY DEF Resource!Older
  <2> QED BY <1>2, <1>12, <2>3, <2>4, <2>5, <2>6, <2>7 DEF Resource!Evict
<1>13. ASSUME NEW n \in Runtimes, NEW r \in Resources, Resource!Write(n, r)
       PROVE  ResourceInv'
  <2>1. /\ save[<<n, r>>] # "no" /\ save' = [save EXCEPT ![<<n, r>>] = "no"]
        /\ shared' = shared \union {r} /\ UNCHANGED <<held, memory, usage, read, deleted>>
        /\ \/ database' = database
           \/ database' = [database EXCEPT ![n] = database[n] \union {r}]
    BY <1>2, <1>13 DEF Resource!Write
  <2>2. PICK db \in SUBSET Resources :
           db \subseteq database[n] \union {r} /\ database' = [database EXCEPT ![n] = db]
    <3>1. database[n] \in SUBSET Resources /\ database[n] \union {r} \in SUBSET Resources
      BY <1>4
    <3> QED BY <1>4, <2>1, <3>1
  <2>3. shared' \subseteq Resources /\ "no" \in SaveStages
    BY <1>2, <2>1 DEF SaveStages
  <2> QED BY <1>2, <2>1, <2>2, <2>3, SaveGoesOn
<1>14. ASSUME NEW n \in Runtimes, NEW r \in Resources, Resource!Read(n, r)
       PROVE  ResourceInv'
  BY <1>2, <1>7, <1>14 DEF Resource!Read, ReadStages
<1>15. ASSUME NEW n \in Runtimes, NEW r \in Resources, Resource!Found(n, r)
       PROVE  ResourceInv'
  <2>1. held' \subseteq Resource!Places
        /\ read' \in [Resource!Places -> ReadStages]
        /\ UNCHANGED <<shared, database, usage, deleted>>
    BY <1>2, <1>15 DEF Resource!Found, ReadStages
  <2>2. CASE r \in Small /\ save[<<n, r>>] = "no"
    BY <1>6, <1>15, <2>1, <2>2 DEF Resource!Found
  <2>3. CASE ~(r \in Small /\ save[<<n, r>>] = "no")
    BY <1>7, <1>15, <2>1, <2>3 DEF Resource!Found
  <2> QED BY <2>2, <2>3
<1>16. ASSUME NEW n \in Runtimes, NEW r \in Resources, Resource!NextPlace(n, r)
       PROVE  ResourceInv'
  BY <1>2, <1>7, <1>16 DEF Resource!NextPlace, ReadStages
<1>17. ASSUME NEW n \in Runtimes, NEW r \in Resources, Resource!Progress(n, r)
       PROVE  ResourceInv'
  BY <1>2, <1>7, <1>17 DEF Resource!Progress, ReadStages
<1>18. ASSUME NEW n \in Runtimes, NEW r \in Resources, NEW list \in BOOLEAN,
              Resource!Delete(n, r, list)
       PROVE  ResourceInv'
  <2> DEFINE db == IF list THEN database[n] ELSE database[n] \ {r}
  <2>1. /\ memory' = [memory EXCEPT ![n] = memory[n] \ {r}]
        /\ database' = [database EXCEPT ![n] = db]
        /\ deleted' = [deleted EXCEPT ![n] = TRUE]
        /\ UNCHANGED <<held, shared, usage, save, read>>
    BY <1>2, <1>18 DEF Resource!Delete
  <2>2. db \in SUBSET Resources
    BY <1>4
  <2> HIDE DEF db
  <2>3. database' \in [Runtimes -> SUBSET Resources]
        /\ \A m \in Runtimes \ {n} : database'[m] = database[m]
    BY <1>2, <2>1, <2>2
  <2>4. memory' \in [Runtimes -> SUBSET Resources] /\ deleted' \in [Runtimes -> BOOLEAN]
        /\ deleted'[n] /\ \A m \in Runtimes \ {n} : memory'[m] = memory[m] /\ deleted'[m] = deleted[m]
    BY <1>2, <2>1
  <2>5. Resource!TypeOK'
    BY <1>1, <2>1, <2>3, <2>4 DEF Resource!TypeOK
  <2>6. Remembers(n, memory', database', save', deleted')
    BY <2>4 DEF Remembers
  <2> QED BY <2>1, <2>3, <2>4, <2>5, <2>6, OneRuntime
<1>19. ASSUME NEW n \in Runtimes, Resource!Restart(n)
       PROVE  ResourceInv'
  <2> DEFINE mine == {n} \X Resources
  <2>1. /\ memory' = [memory EXCEPT ![n] = database[n]]
        /\ usage' = [usage EXCEPT ![n] = 0]
        /\ held' = held \ mine
        /\ save' = [p \in Resource!Places |-> IF p \in mine THEN "no" ELSE save[p]]
        /\ read' = [p \in Resource!Places |-> IF p \in mine THEN "no" ELSE read[p]]
        /\ deleted' = [deleted EXCEPT ![n] = FALSE]
        /\ UNCHANGED <<shared, database>>
    BY <1>19 DEF Resource!Restart
  <2>2. save' \in [Resource!Places -> SaveStages] /\ read' \in [Resource!Places -> ReadStages]
    BY <1>2, <2>1 DEF SaveStages, ReadStages
  <2>3. /\ \A q \in Resources : save'[<<n, q>>] = "no"
        /\ \A m \in Runtimes \ {n} : \A q \in Resources : save'[<<m, q>>] = save[<<m, q>>]
    BY <1>2, <2>1
  <2>4. \A m \in Runtimes : usage'[m] \in 0 .. Quota[m]
    <3>1. ASSUME NEW m \in Runtimes
          PROVE  usage'[m] = usage[m] \/ usage'[m] = 0
      BY <2>1
    <3> QED BY <1>2, <1>4, <3>1
  <2>5. memory' \in [Runtimes -> SUBSET Resources] /\ deleted' \in [Runtimes -> BOOLEAN]
        /\ memory'[n] = database[n]
        /\ \A m \in Runtimes \ {n} : memory'[m] = memory[m] /\ deleted'[m] = deleted[m]
    BY <1>2, <2>1
  <2>6. Resource!TypeOK'
    BY <1>1, <1>2, <2>1, <2>2, <2>4, <2>5 DEF Resource!TypeOK, SaveStages, ReadStages
  <2>9. Remembers(n, memory', database', save', deleted')
    BY <2>1, <2>3, <2>5 DEF Remembers
  <2> QED BY <2>1, <2>3, <2>5, <2>6, <2>9, OneRuntime
<1>20. CASE UNCHANGED Resource!vars
  BY <1>7, <1>2, <1>20 DEF Resource!vars
<1> QED BY <1>9, <1>10, <1>11, <1>12, <1>13, <1>14, <1>15, <1>16, <1>17, <1>18, <1>19, <1>20
        DEF Resource!Next, Resource!NotFound, Resource!TimedOut

\* The invariant implies the properties of resources.
LEMMA ResourceKept == ResourceInv => Resource!TypeOK /\ Resource!SavesEnd
BY DEF ResourceInv, Remembers, Resource!SavesEnd

-----------------------------------------------------------------------------
(* The catalogue of descriptors.                                           *)

\* The calls for descriptors.
DescriptorCalls == [stage : Catalogue!Stages, object : Objects, again : BOOLEAN,
            since : Catalogue!Versions, version : Catalogue!Versions \union {0},
            descriptor : Catalogue!DescriptorEntries]

\* The text of a version up to some other sorts after that of the version that was asked for.
OutrankedBy(k, w) ==
    \E v \in 1 .. w : v < k.version /\ Text[k.object][v] >= Text[k.object][k.version]

\* What a call has is not from before it was made and not from the future, and what it
\* may read or has is of one version with its source package, or has a newer one, unless
\* the texts of the versions sort otherwise.
CallIsCurrent(k, cat, st, old) ==
    LET o == k.object
    IN  /\ k.since <= cat[o]
        /\ k.descriptor.version <= cat[o]
        /\ k.stage \in {"looking", "reading"} => k.version >= k.since
        /\ k.stage = "reading" => o \in old \/ st[o].version >= k.since \/ OutrankedBy(k, st[o].version)
        /\ k.stage = "attaching" => k.descriptor.version >= k.since
        /\ k.stage \in {"given", "loaded"} =>
              \/ o \in old
              \/ k.descriptor.version >= k.since /\ k.descriptor.source >= k.descriptor.version
              \/ OutrankedBy(k, k.descriptor.version)

\* A stored descriptor is not newer than the catalogue's, nor than its source.
StoredFits(d, v) == d.version <= v /\ d.source >= d.version

\* What is stored and what calls carry was current when they took it, unless versions
\* sort otherwise.
CatalogueInv ==
    /\ Catalogue!TypeOK
    /\ \A o \in Objects : StoredFits(stored[o], catalogue[o])
    /\ \A c \in Calls : CallIsCurrent(call[c], catalogue, stored, older)

\* Versions are numbers, and no descriptor has version 0.
LEMMA Numbers ==
    /\ Catalogue!Versions \subseteq Nat \ {0}
    /\ Catalogue!NoDescriptor \in Catalogue!DescriptorEntries
    /\ Catalogue!NoDescriptor.version = 0 /\ Catalogue!NoDescriptor.source = 0
    /\ \A d \in Catalogue!DescriptorEntries :
          d.version \in Nat /\ d.source \in Nat
    /\ 1 \in Catalogue!Versions
<1>1. MaxVersion \in Nat \ {0}
  BY FallbackNumbers
<1> QED BY <1>1 DEF Catalogue!Versions, Catalogue!NoDescriptor, Catalogue!DescriptorEntries

\* Later versions outrank no less.
LEMMA OutrankedGrows ==
    \A k, j : \A v, w \in Nat :
        (/\ OutrankedBy(k, v) /\ v <= w /\ j.version = k.version /\ j.object = k.object)
            => OutrankedBy(j, w)
<1> SUFFICES ASSUME NEW k, NEW j, NEW v \in Nat, NEW w \in Nat, OutrankedBy(k, v), v <= w,
                    j.version = k.version, j.object = k.object
             PROVE  OutrankedBy(j, w)
  OBVIOUS
<1>1. 1 .. v \subseteq 1 .. w
  OBVIOUS
<1> QED BY <1>1 DEF OutrankedBy

\* A call is replaced, and nothing else changes.
LEMMA CallChanges ==
    ASSUME CatalogueInv, NEW c \in Calls, NEW new \in DescriptorCalls,
           call' = [call EXCEPT ![c] = new],
           catalogue' = catalogue, stored' = stored, older' = older,
           CallIsCurrent(new, catalogue, stored, older)
    PROVE  CatalogueInv'
<1>1. call \in [Calls -> DescriptorCalls]
  BY DEF CatalogueInv, Catalogue!TypeOK, DescriptorCalls
<1>2. call' \in [Calls -> DescriptorCalls]
  BY <1>1
<1>3. Catalogue!TypeOK'
  BY <1>2 DEF CatalogueInv, Catalogue!TypeOK, DescriptorCalls
<1>4. \A d \in Calls : call'[d] = IF d = c THEN new ELSE call[d]
  BY <1>1
<1>5. \A d \in Calls : CallIsCurrent(call'[d], catalogue', stored', older')
  BY <1>4 DEF CatalogueInv
<1> QED BY <1>3, <1>5 DEF CatalogueInv

\* What a new call consists of.
LEMMA NewCallIs ==
    ASSUME NEW o, NEW more, NEW stage
    PROVE  /\ [Catalogue!NewCall(o, more) EXCEPT !.stage = stage] =
                 [stage |-> stage, object |-> o, again |-> more, since |-> catalogue[o],
                  version |-> 0, descriptor |-> Catalogue!NoDescriptor]
           /\ Catalogue!NewCall(o, more) = [Catalogue!NewCall(o, more) EXCEPT !.stage = "asking"]
BY DEF Catalogue!NewCall

\* A new call fits.
LEMMA NewCallFits ==
    ASSUME CatalogueInv, NEW o \in Objects, NEW more \in BOOLEAN, NEW stage \in {"asking", "idle"}
    PROVE  LET k == [Catalogue!NewCall(o, more) EXCEPT !.stage = stage]
           IN  k \in DescriptorCalls /\ CallIsCurrent(k, catalogue, stored, older)
<1> DEFINE k == [Catalogue!NewCall(o, more) EXCEPT !.stage = stage]
<1>1. catalogue[o] \in Catalogue!Versions
  BY DEF CatalogueInv, Catalogue!TypeOK
<1>2. k = [stage |-> stage, object |-> o, again |-> more, since |-> catalogue[o],
           version |-> 0, descriptor |-> Catalogue!NoDescriptor]
  BY NewCallIs
<1>3. k \in DescriptorCalls
  BY <1>1, <1>2, Numbers DEF DescriptorCalls, Catalogue!Stages
<1>4. k.stage = stage /\ k.object = o /\ k.since = catalogue[o]
      /\ k.descriptor = Catalogue!NoDescriptor
  BY <1>2
<1>5. catalogue[o] \in Nat /\ k.descriptor.version = 0
  BY <1>1, <1>4, Numbers
<1> HIDE DEF k
<1>6. CallIsCurrent(k, catalogue, stored, older)
  BY <1>4, <1>5 DEF CallIsCurrent
<1> QED BY <1>3, <1>6 DEF k

\* A call is given a descriptor that was current since it began, stored or not.
LEMMA GiveFits ==
    ASSUME CatalogueInv, NEW c \in Calls, NEW d \in Catalogue!DescriptorEntries, Catalogue!Give(c, d),
           d.version >= call[c].since, d.source >= d.version,
           d.version <= catalogue[call[c].object]
    PROVE  CatalogueInv'
<1> DEFINE o == call[c].object
           new == [call[c] EXCEPT !.stage = "given", !.descriptor = d]
<1>1. call \in [Calls -> DescriptorCalls] /\ call[c] \in DescriptorCalls /\ o \in Objects
      /\ catalogue \in [Objects -> Catalogue!Versions]
      /\ stored \in [Objects -> Catalogue!DescriptorEntries] /\ older \subseteq Objects
  BY DEF CatalogueInv, Catalogue!TypeOK, DescriptorCalls
<1>2. new \in DescriptorCalls /\ new.stage = "given" /\ new.object = o /\ new.since = call[c].since
      /\ new.descriptor = d
  BY <1>1 DEF DescriptorCalls, Catalogue!Stages
<1>3. call' = [call EXCEPT ![c] = new] /\ catalogue' = catalogue
  BY <1>1 DEF Catalogue!Give, DescriptorCalls
<1>4. \A x \in Calls : call'[x] = IF x = c THEN new ELSE call[x]
  BY <1>1, <1>3
<1>5. call' \in [Calls -> DescriptorCalls]
  BY <1>1, <1>2, <1>3
<1>6. catalogue[o] \in Nat /\ d.version \in Nat /\ d.source \in Nat /\ new.since \in Nat
      /\ stored[o].version \in Nat /\ stored[o].source \in Nat
  BY <1>1, <1>2, Numbers DEF DescriptorCalls
<1>7. call[c].since <= catalogue[o]
  BY DEF CatalogueInv, CallIsCurrent
<1>8. CallIsCurrent(new, catalogue, stored', older')
  <2> HIDE DEF new, o
  <2> QED BY <1>2, <1>6, <1>7 DEF CallIsCurrent, o
<1>9. CASE UNCHANGED <<stored, older>>
  <2>1. Catalogue!TypeOK'
    BY <1>3, <1>5, <1>9 DEF CatalogueInv, Catalogue!TypeOK, DescriptorCalls
  <2>2. \A x \in Calls : CallIsCurrent(call'[x], catalogue', stored', older')
    BY <1>3, <1>4, <1>8, <1>9 DEF CatalogueInv
  <2> QED BY <1>3, <1>9, <2>1, <2>2 DEF CatalogueInv
<1>10. CASE /\ stored' = [stored EXCEPT ![o] = d]
            /\ older' = IF d.version < stored[o].version THEN older \union {o} ELSE older
  <2>1. Catalogue!TypeOK'
    BY <1>1, <1>3, <1>5, <1>10 DEF CatalogueInv, Catalogue!TypeOK, DescriptorCalls
  <2>2. \A x \in Objects : stored'[x] = IF x = o THEN d ELSE stored[x]
    BY <1>1, <1>10
  <2>3. \A x \in Objects : StoredFits(stored'[x], catalogue'[x])
    BY <1>3, <2>2 DEF CatalogueInv, StoredFits
  <2>4. older \subseteq older'
    BY <1>10
  <2>5. ASSUME NEW x \in Calls
        PROVE  CallIsCurrent(call'[x], catalogue', stored', older')
    <3>1. CASE x = c
      BY <1>3, <1>4, <1>8, <3>1
    <3>2. CASE x # c
      <4>1. call'[x] = call[x] /\ CallIsCurrent(call[x], catalogue, stored, older)
        BY <1>4, <3>2 DEF CatalogueInv
      <4>2. call[x] \in DescriptorCalls /\ call[x].object \in Objects /\ call[x].since \in Nat
            /\ stored[call[x].object].version \in Nat
        BY <1>1, Numbers DEF DescriptorCalls
      <4>3. CASE call[x].object = o
        <5>1. \/ o \in older'
              \/ stored'[o].version >= stored[o].version
          BY <1>6, <1>10, <2>2
        <5> HIDE DEF o
        <5>2. stored'[o].version = d.version
          BY <2>2, <1>1 DEF o
        <5>3. stored'[o].version >= stored[o].version /\ OutrankedBy(call[x], stored[o].version)
                  => OutrankedBy(call[x], stored'[o].version)
          BY <1>6, <5>2, OutrankedGrows
        <5> QED BY <1>3, <1>6, <2>4, <4>1, <4>2, <4>3, <5>1, <5>2, <5>3 DEF CallIsCurrent
      <4>4. CASE call[x].object # o
        <5>1. stored'[call[x].object] = stored[call[x].object]
          BY <2>2, <4>2, <4>4
        <5> QED BY <1>3, <2>4, <4>1, <4>2, <5>1 DEF CallIsCurrent
      <4> QED BY <4>3, <4>4
    <3> QED BY <3>1, <3>2
  <2> QED BY <2>1, <2>3, <2>5 DEF CatalogueInv
<1> QED BY <1>9, <1>10 DEF Catalogue!Give

\* The catalogue has the first versions and no call: the invariant holds at first.
LEMMA CatalogueInit == Catalogue!Init => CatalogueInv
<1> SUFFICES ASSUME Catalogue!Init PROVE CatalogueInv
  OBVIOUS
<1>1. catalogue = [o \in Objects |-> 1] /\ older = {}
      /\ stored = [o \in Objects |-> Catalogue!NoDescriptor]
  BY DEF Catalogue!Init
<1>2. Fallback \in Objects
  BY FallbackNumbers
<1> DEFINE k == [Catalogue!NewCall(Fallback, FALSE) EXCEPT !.stage = "idle"]
<1>3. catalogue[Fallback] = 1
  BY <1>1, <1>2
<1>4. k = [stage |-> "idle", object |-> Fallback, again |-> FALSE, since |-> 1,
           version |-> 0, descriptor |-> Catalogue!NoDescriptor]
  <2>1. FALSE \in BOOLEAN
    OBVIOUS
  <2>2. k = [stage |-> "idle", object |-> Fallback, again |-> FALSE,
             since |-> catalogue[Fallback], version |-> 0, descriptor |-> Catalogue!NoDescriptor]
    BY NewCallIs, Zenon
  <2> HIDE DEF k
  <2> QED BY <1>3, <2>2
<1>5. k \in DescriptorCalls /\ CallIsCurrent(k, catalogue, stored, older)
  <2>1. k \in DescriptorCalls
    BY <1>2, <1>4, Numbers DEF DescriptorCalls, Catalogue!Stages
  <2>2. k.stage = "idle" /\ k.object = Fallback /\ k.since = 1 /\ k.descriptor.version = 0
    BY <1>4, Numbers
  <2> HIDE DEF k
  <2> QED BY <1>3, <2>1, <2>2 DEF CallIsCurrent
<1>6. call = [c \in Calls |-> k]
  BY DEF Catalogue!Init
<1> HIDE DEF k
<1>7. call \in [Calls -> DescriptorCalls] /\ \A c \in Calls : CallIsCurrent(call[c], catalogue, stored, older)
  BY <1>5, <1>6
<1>8. Catalogue!TypeOK
  BY <1>1, <1>7, Numbers DEF Catalogue!TypeOK, DescriptorCalls
<1>9. \A o \in Objects : StoredFits(stored[o], catalogue[o])
  BY <1>1, Numbers DEF StoredFits
<1> QED BY <1>7, <1>8, <1>9 DEF CatalogueInv

\* Every step keeps the invariant.
LEMMA CatalogueNext == CatalogueInv /\ [Catalogue!Next]_(Catalogue!vars) => CatalogueInv'
<1> SUFFICES ASSUME CatalogueInv, [Catalogue!Next]_(Catalogue!vars)
             PROVE  CatalogueInv'
  OBVIOUS
<1>1. call \in [Calls -> DescriptorCalls]
      /\ catalogue \in [Objects -> Catalogue!Versions]
      /\ stored \in [Objects -> Catalogue!DescriptorEntries] /\ older \subseteq Objects
      /\ \A c \in Calls : call[c] \in DescriptorCalls /\ call[c].object \in Objects
                          /\ CallIsCurrent(call[c], catalogue, stored, older)
  BY DEF CatalogueInv, Catalogue!TypeOK, DescriptorCalls
<1>2. \A o \in Objects : catalogue[o] \in Catalogue!Versions /\ catalogue[o] \in Nat
                         /\ stored[o] \in Catalogue!DescriptorEntries
                         /\ stored[o].version \in Nat /\ stored[o].source \in Nat
                         /\ StoredFits(stored[o], catalogue[o])
  BY <1>1, Numbers DEF CatalogueInv
<1>3. \A c \in Calls : call[c].since \in Nat /\ call[c].version \in Nat
                       /\ call[c].descriptor \in Catalogue!DescriptorEntries
                       /\ call[c].descriptor.version \in Nat
                       /\ call[c].descriptor.source \in Nat
                       /\ call[c].since \in Catalogue!Versions
  BY <1>1, Numbers DEF DescriptorCalls
<1>4. ASSUME NEW c \in Calls, NEW o \in Objects,
             Catalogue!GetHypertyDescriptor(c, o) \/ Catalogue!GetStubDescriptor(c, o)
      PROVE  CatalogueInv'
  <2>1. PICK more \in BOOLEAN : /\ call' = [call EXCEPT ![c] = Catalogue!NewCall(o, more)]
                                 /\ UNCHANGED <<catalogue, stored, older>>
    BY <1>4 DEF Catalogue!GetHypertyDescriptor, Catalogue!GetStubDescriptor
  <2> DEFINE new == Catalogue!NewCall(o, more)
  <2>2. new = [new EXCEPT !.stage = "asking"]
    BY NewCallIs
  <2> HIDE DEF new
  <2>3. new \in DescriptorCalls /\ CallIsCurrent(new, catalogue, stored, older)
    BY <2>2, NewCallFits DEF new
  <2> QED BY <2>1, <2>3, CallChanges DEF new
<1>5. ASSUME NEW c \in Calls, Catalogue!Versioned(c)
      PROVE  CatalogueInv'
  <2> DEFINE new == [call[c] EXCEPT !.stage = "looking", !.version = catalogue[call[c].object]]
  <2>1. new \in DescriptorCalls /\ new.stage = "looking" /\ new.object = call[c].object
        /\ new.since = call[c].since /\ new.version = catalogue[call[c].object]
        /\ new.descriptor = call[c].descriptor
    BY <1>1, <1>2 DEF DescriptorCalls, Catalogue!Stages
  <2>2. call' = [call EXCEPT ![c] = new] /\ UNCHANGED <<catalogue, stored, older>>
    BY <1>1, <1>5 DEF Catalogue!Versioned, DescriptorCalls
  <2> HIDE DEF new
  <2>3. CallIsCurrent(new, catalogue, stored, older)
    BY <1>1, <1>2, <1>3, <2>1 DEF CallIsCurrent
  <2> QED BY <2>1, <2>2, <2>3, CallChanges
<1>6. ASSUME NEW c \in Calls, Catalogue!Look(c)
      PROVE  CatalogueInv'
  <2>5. PICK s \in {"reading", "fetching"} :
            /\ s = "reading" => Catalogue!NotBefore(call[c].object, call[c].version)
            /\ call' = [call EXCEPT ![c].stage = s]
    BY <1>6 DEF Catalogue!Look
  <2> DEFINE new == [call[c] EXCEPT !.stage = s]
  <2>1. new \in DescriptorCalls /\ new.stage = s /\ new.object = call[c].object
        /\ new.since = call[c].since /\ new.version = call[c].version
        /\ new.descriptor = call[c].descriptor
    BY <1>1, <1>2 DEF DescriptorCalls, Catalogue!Stages
  <2>2. call' = [call EXCEPT ![c] = new] /\ UNCHANGED <<catalogue, stored, older>>
    BY <1>1, <1>6, <2>5 DEF Catalogue!Look, DescriptorCalls
  <2>3. call[c].stage = "looking"
    BY <1>6 DEF Catalogue!Look
  <2> HIDE DEF new
  <2>6. ASSUME s = "fetching"
        PROVE  CallIsCurrent(new, catalogue, stored, older)
    <3>1. call[c].since <= catalogue[call[c].object]
          /\ call[c].descriptor.version <= catalogue[call[c].object]
      BY <1>1 DEF CallIsCurrent
    <3> QED BY <1>1, <1>2, <1>3, <2>1, <2>3, <2>6, <3>1 DEF CallIsCurrent
  <2>7. ASSUME s = "reading"
        PROVE  CallIsCurrent(new, catalogue, stored, older)
    <3> DEFINE w == stored[call[c].object].version
    <3>1. w \in Nat /\ w # 0 /\ Text[call[c].object][w] >= Text[call[c].object][call[c].version]
      BY <1>1, <1>2, <2>5, <2>7 DEF Catalogue!NotBefore
    <3>2. w >= call[c].version \/ OutrankedBy(new, w)
      BY <1>3, <2>1, <3>1 DEF OutrankedBy
    <3>3. call[c].version >= call[c].since
      BY <1>1, <2>3 DEF CallIsCurrent
    <3>4. w >= new.since \/ OutrankedBy(new, stored[new.object].version)
      <4> HIDE DEF w
      <4>1. w >= call[c].version => w >= call[c].since
        BY <1>3, <3>1, <3>3
      <4> QED BY <2>1, <3>2, <4>1 DEF w
    <3>5. call[c].since <= catalogue[call[c].object]
          /\ call[c].descriptor.version <= catalogue[call[c].object]
      BY <1>1 DEF CallIsCurrent
    <3> QED BY <1>1, <1>2, <1>3, <2>1, <2>3, <2>7, <3>3, <3>4, <3>5 DEF CallIsCurrent
  <2>4. CallIsCurrent(new, catalogue, stored, older)
    BY <2>5, <2>6, <2>7
  <2> QED BY <2>1, <2>2, <2>4, CallChanges
<1>7. ASSUME NEW c \in Calls, Catalogue!ReadStored(c)
      PROVE  CatalogueInv'
  <2> DEFINE new == [call[c] EXCEPT !.stage = "given", !.descriptor = stored[call[c].object]]
  <2>1. new \in DescriptorCalls /\ new.stage = "given" /\ new.object = call[c].object
        /\ new.since = call[c].since /\ new.version = call[c].version
        /\ new.descriptor = stored[call[c].object]
    BY <1>1, <1>2 DEF DescriptorCalls, Catalogue!Stages
  <2>2. call' = [call EXCEPT ![c] = new] /\ UNCHANGED <<catalogue, stored, older>>
    BY <1>1, <1>7 DEF Catalogue!ReadStored, DescriptorCalls
  <2>3. call[c].stage = "reading"
    BY <1>7 DEF Catalogue!ReadStored
  <2> HIDE DEF new
  <2>4. CallIsCurrent(new, catalogue, stored, older)
    <3>1. OutrankedBy(call[c], stored[call[c].object].version)
              => OutrankedBy(new, new.descriptor.version)
      BY <2>1 DEF OutrankedBy
    <3> QED BY <1>1, <1>2, <1>3, <2>1, <2>3, <3>1 DEF CallIsCurrent, StoredFits
  <2> QED BY <2>1, <2>2, <2>4, CallChanges
<1>8. ASSUME NEW c \in Calls, Catalogue!Fetch(c)
      PROVE  CatalogueInv'
  <2> DEFINE o == call[c].object
             v == catalogue[o]
  <2>1. o \in Objects /\ v \in Nat /\ v \in Catalogue!Versions /\ call[c].since <= v
    BY <1>1, <1>2 DEF CallIsCurrent
  <2>2. CASE Catalogue!Give(c, [version |-> v, source |-> v])
    <3> DEFINE d == [version |-> v, source |-> v]
    <3>1. d \in Catalogue!DescriptorEntries /\ d.version = v /\ d.source = v
      BY <2>1 DEF Catalogue!DescriptorEntries
    <3>2. Catalogue!Give(c, d)
      BY <2>2
    <3> HIDE DEF d
    <3> QED BY <1>3, <2>1, <3>1, <3>2, GiveFits
  <2>3. CASE /\ call' = [call EXCEPT ![c].stage = "attaching", ![c].descriptor.version = v]
             /\ UNCHANGED <<catalogue, stored, older>>
    <3> DEFINE d == [call[c].descriptor EXCEPT !.version = v]
               new == [call[c] EXCEPT !.stage = "attaching", !.descriptor = d]
    <3>1. d \in Catalogue!DescriptorEntries /\ d.version = v
      BY <1>3, <2>1 DEF Catalogue!DescriptorEntries
    <3>2. call' = [call EXCEPT ![c] = new]
      BY <1>1, <2>3 DEF DescriptorCalls
    <3> HIDE DEF d
    <3>3. new \in DescriptorCalls /\ new.stage = "attaching" /\ new.object = call[c].object
          /\ new.since = call[c].since /\ new.version = call[c].version /\ new.descriptor = d
      BY <1>1, <3>1 DEF DescriptorCalls, Catalogue!Stages
    <3> HIDE DEF new
    <3>4. CallIsCurrent(new, catalogue, stored, older)
      BY <1>1, <1>2, <1>3, <2>1, <3>1, <3>3 DEF CallIsCurrent
    <3> QED BY <2>3, <3>2, <3>3, <3>4, CallChanges
  <2> QED BY <1>8, <2>2, <2>3 DEF Catalogue!Fetch
<1>9. ASSUME NEW c \in Calls, Catalogue!AttachRawSourcePackage(c)
      PROVE  CatalogueInv'
  <2> DEFINE v == catalogue[call[c].object]
             d == [call[c].descriptor EXCEPT !.source = v]
  <2>1. v \in Catalogue!Versions /\ v \in Nat
    BY <1>1, <1>2
  <2>2. d \in Catalogue!DescriptorEntries /\ d.version = call[c].descriptor.version /\ d.source = v
    BY <1>3, <2>1 DEF Catalogue!DescriptorEntries
  <2>3. Catalogue!Give(c, d) /\ call[c].stage = "attaching"
    BY <1>9 DEF Catalogue!AttachRawSourcePackage
  <2>4. d.version >= call[c].since /\ d.version <= v
    BY <1>1, <2>2, <2>3 DEF CallIsCurrent
  <2> HIDE DEF d
  <2> QED BY <2>1, <2>2, <2>3, <2>4, GiveFits
<1>10. ASSUME NEW c \in Calls, Catalogue!GetSourcePackageFromURL(c)
       PROVE  CatalogueInv'
  <2> DEFINE v == catalogue[call[c].object]
             d == [call[c].descriptor EXCEPT !.source = v]
             new == [call[c] EXCEPT !.stage = "loaded", !.descriptor = d]
  <2>1. v \in Catalogue!Versions /\ v \in Nat
    BY <1>1, <1>2
  <2>2. d \in Catalogue!DescriptorEntries /\ d.version = call[c].descriptor.version /\ d.source = v
    BY <1>3, <2>1 DEF Catalogue!DescriptorEntries
  <2>3. call[c].stage = "given"
    BY <1>10 DEF Catalogue!GetSourcePackageFromURL
  <2>4. call' = [call EXCEPT ![c] = new] /\ UNCHANGED <<catalogue, stored, older>>
    BY <1>1, <1>10 DEF Catalogue!GetSourcePackageFromURL, DescriptorCalls
  <2> HIDE DEF d
  <2>5. new \in DescriptorCalls /\ new.stage = "loaded" /\ new.object = call[c].object
        /\ new.since = call[c].since /\ new.version = call[c].version /\ new.descriptor = d
    BY <1>1, <2>2 DEF DescriptorCalls, Catalogue!Stages
  <2> HIDE DEF new
  <2>6. CallIsCurrent(new, catalogue, stored, older)
    <3>1. OutrankedBy(call[c], call[c].descriptor.version)
              => OutrankedBy(new, new.descriptor.version)
      BY <2>2, <2>5 DEF OutrankedBy
    <3> QED BY <1>1, <1>2, <1>3, <2>1, <2>2, <2>3, <2>5, <3>1 DEF CallIsCurrent
  <2> QED BY <2>4, <2>5, <2>6, CallChanges
<1>11. ASSUME NEW c \in Calls, Catalogue!Fail(c)
       PROVE  CatalogueInv'
  <2>1. UNCHANGED <<catalogue, stored, older>>
    BY <1>11 DEF Catalogue!Fail
  <2>2. CASE call' = [call EXCEPT ![c] = Catalogue!NewCall(Fallback, FALSE)]
    <3> DEFINE new == Catalogue!NewCall(Fallback, FALSE)
    <3>1. new = [new EXCEPT !.stage = "asking"]
      BY NewCallIs
    <3> HIDE DEF new
    <3>2. new \in DescriptorCalls /\ CallIsCurrent(new, catalogue, stored, older)
      BY <3>1, NewCallFits, FallbackNumbers DEF new
    <3> QED BY <2>1, <2>2, <3>2, CallChanges DEF new
  <2>3. CASE call' = [call EXCEPT ![c].stage = "refused"]
    <3> DEFINE new == [call[c] EXCEPT !.stage = "refused"]
    <3>1. new \in DescriptorCalls /\ new.stage = "refused" /\ new.object = call[c].object
          /\ new.since = call[c].since /\ new.version = call[c].version
          /\ new.descriptor = call[c].descriptor
      BY <1>1 DEF DescriptorCalls, Catalogue!Stages
    <3>2. call' = [call EXCEPT ![c] = new]
      BY <1>1, <2>3 DEF DescriptorCalls
    <3> HIDE DEF new
    <3>3. CallIsCurrent(new, catalogue, stored, older)
      BY <1>1, <3>1 DEF CallIsCurrent
    <3> QED BY <2>1, <3>1, <3>2, <3>3, CallChanges
  <2> QED BY <1>11, <2>2, <2>3 DEF Catalogue!Fail
<1>12. ASSUME NEW o \in Objects, Catalogue!Publish(o)
       PROVE  CatalogueInv'
  <2>1. catalogue' = [catalogue EXCEPT ![o] = catalogue[o] + 1] /\ catalogue[o] < MaxVersion
        /\ UNCHANGED <<stored, call, older>>
    BY <1>1, <1>12 DEF Catalogue!Publish
  <2>2. catalogue[o] + 1 \in Catalogue!Versions
    BY <1>2, <2>1, FallbackNumbers DEF Catalogue!Versions
  <2>3. catalogue' \in [Objects -> Catalogue!Versions]
    BY <1>1, <2>1, <2>2
  <2>4. Catalogue!TypeOK'
    BY <2>1, <2>3 DEF CatalogueInv, Catalogue!TypeOK
  <2>5. \A x \in Objects : catalogue'[x] \in Nat /\ catalogue[x] <= catalogue'[x]
    BY <1>1, <1>2, <2>1
  <2>6. \A x \in Objects : StoredFits(stored'[x], catalogue'[x])
    BY <1>2, <2>1, <2>5 DEF StoredFits
  <2>7. \A c \in Calls : CallIsCurrent(call'[c], catalogue', stored', older')
    BY <1>1, <1>2, <1>3, <2>1, <2>5 DEF CallIsCurrent
  <2> QED BY <2>4, <2>6, <2>7 DEF CatalogueInv
<1>13. CASE Catalogue!Restart
  <2> DEFINE k == [Catalogue!NewCall(Fallback, FALSE) EXCEPT !.stage = "idle"]
  <2>1. call' = [c \in Calls |-> k] /\ UNCHANGED <<catalogue, stored, older>>
    BY <1>13 DEF Catalogue!Restart
  <2>2. k \in DescriptorCalls /\ CallIsCurrent(k, catalogue, stored, older)
    BY NewCallFits, FallbackNumbers
  <2> HIDE DEF k
  <2>3. call' \in [Calls -> DescriptorCalls]
        /\ \A c \in Calls : CallIsCurrent(call'[c], catalogue', stored', older')
    BY <2>1, <2>2
  <2>4. Catalogue!TypeOK'
    BY <2>1, <2>3 DEF CatalogueInv, Catalogue!TypeOK, DescriptorCalls
  <2> QED BY <2>1, <2>3, <2>4 DEF CatalogueInv
<1>14. CASE UNCHANGED Catalogue!vars
  BY <1>14 DEF Catalogue!vars, CatalogueInv, Catalogue!TypeOK
<1> QED BY <1>4, <1>5, <1>6, <1>7, <1>8, <1>9, <1>10, <1>11, <1>12, <1>13, <1>14 DEF Catalogue!Next

\* The invariant implies the properties of the catalogue.
LEMMA CatalogueKept ==
    CatalogueInv => Catalogue!TypeOK /\ Catalogue!GivenAreCurrent /\ Catalogue!SourcesFit
<1> SUFFICES ASSUME CatalogueInv
             PROVE  Catalogue!TypeOK /\ Catalogue!GivenAreCurrent /\ Catalogue!SourcesFit
  OBVIOUS
<1>1. \A c \in Calls : call[c].since \in Nat /\ call[c].descriptor.version \in Nat
                       /\ call[c].descriptor.source \in Nat
                       /\ CallIsCurrent(call[c], catalogue, stored, older)
                       /\ (OutrankedBy(call[c], call[c].descriptor.version)
                               <=> Catalogue!Outranked(c))
  BY Numbers DEF CatalogueInv, Catalogue!TypeOK, OutrankedBy, Catalogue!Outranked
<1>2. Catalogue!GivenAreCurrent
  BY <1>1 DEF Catalogue!GivenAreCurrent, Catalogue!Given, CallIsCurrent
<1>3. Catalogue!SourcesFit
  BY <1>1 DEF Catalogue!SourcesFit, Catalogue!Given, CallIsCurrent
<1> QED BY <1>2, <1>3 DEF CatalogueInv

-----------------------------------------------------------------------------
(* The composition.                                                        *)

\* The service that acts keeps its invariant; nothing is said of the others, which
\* are asleep.
ServicesInv ==
    /\ acting = "Record" => RecordInv
    /\ acting = "Contact" => ContactInv
    /\ acting = "Token" => TokenInv
    /\ acting = "Assertion" => AssertionInv
    /\ acting = "Status" => StatusInv
    /\ acting = "Room" => RoomInv
    /\ acting = "Registration" => RegistrationInv
    /\ acting = "Policy" => PolicyInv
    /\ acting = "Search" => SearchInv
    /\ acting = "Resource" => ResourceInv
    /\ acting = "Catalogue" => CatalogueInv

\* The invariant implies the property of the record.
LEMMA RecordKept == RecordInv => Record!TypeOK /\ Record!RecordIsOwned
BY DEF RecordInv, RecordHasKey, Record!RecordIsOwned

\* Whatever service acts, its invariant holds at first.
LEMMA ServicesBegin == Init => ServicesInv
<1> SUFFICES ASSUME Init PROVE ServicesInv
  OBVIOUS
<1>1. CASE acting = "Record" /\ Record!Init
  BY <1>1, RecordInit DEF ServicesInv
<1>2. CASE acting = "Contact" /\ Contact!Init
  BY <1>2, ContactInit DEF ServicesInv
<1>3. CASE acting = "Token" /\ Token!Init
  BY <1>3, TokenInit DEF ServicesInv
<1>4. CASE acting = "Assertion" /\ Assertion!Init
  BY <1>4, AssertionInit DEF ServicesInv
<1>5. CASE acting = "Status" /\ Status!Init
  BY <1>5, StatusInit DEF ServicesInv
<1>6. CASE acting = "Room" /\ Room!Init
  BY <1>6, RoomInit DEF ServicesInv
<1>7. CASE acting = "Registration" /\ Registration!Init
  BY <1>7, RegistrationInit DEF ServicesInv
<1>8. CASE acting = "Policy" /\ Policy!Init
  BY <1>8, PolicyInit DEF ServicesInv
<1>9. CASE acting = "Search" /\ Search!Init
  BY <1>9, SearchInit DEF ServicesInv
<1>10. CASE acting = "Resource" /\ Resource!Init
  BY <1>10, ResourceInit DEF ServicesInv
<1>11. CASE acting = "Catalogue" /\ Catalogue!Init
  BY <1>11, CatalogueInit DEF ServicesInv
<1> QED BY <1>1, <1>2, <1>3, <1>4, <1>5, <1>6, <1>7, <1>8, <1>9, <1>10, <1>11 DEF Init

\* A step of the service that acts keeps its invariant, and the service acts on.
LEMMA ServicesGoOn ==
    ASSUME ServicesInv, Next
    PROVE  ServicesInv'
<1>1. CASE RecordStep
  BY <1>1, RecordNext DEF ServicesInv, RecordStep, Step
<1>2. CASE ContactStep
  BY <1>2, ContactNext DEF ServicesInv, ContactStep, Step
<1>3. CASE TokenStep
  BY <1>3, TokenNext DEF ServicesInv, TokenStep, Step
<1>4. CASE AssertionStep
  BY <1>4, AssertionNext DEF ServicesInv, AssertionStep, Step
<1>5. CASE StatusStep
  BY <1>5, StatusNext DEF ServicesInv, StatusStep, Step
<1>6. CASE RoomStep
  BY <1>6, RoomNext DEF ServicesInv, RoomStep, Step
<1>7. CASE RegistrationStep
  BY <1>7, RegistrationNext DEF ServicesInv, RegistrationStep, Step
<1>8. CASE PolicyStep
  BY <1>8, PolicyNext DEF ServicesInv, PolicyStep, Step
<1>9. CASE SearchStep
  BY <1>9, SearchNext DEF ServicesInv, SearchStep, Step
<1>10. CASE ResourceStep
  BY <1>10, ResourceNext DEF ServicesInv, ResourceStep, Step
<1>11. CASE CatalogueStep
  BY <1>11, CatalogueNext DEF ServicesInv, CatalogueStep, Step
<1> QED BY <1>1, <1>2, <1>3, <1>4, <1>5, <1>6, <1>7, <1>8, <1>9, <1>10, <1>11 DEF Next

\* What leaves every variable alone leaves those of each service alone.
LEMMA ServicesStutter ==
    ASSUME ServicesInv, UNCHANGED vars
    PROVE  ServicesInv'
<1>1. acting' = acting
  BY DEF vars
<1>2. ASSUME acting = "Record" PROVE RecordInv'
  BY <1>2, RecordNext DEF ServicesInv, vars, Record!vars
<1>3. ASSUME acting = "Contact" PROVE ContactInv'
  BY <1>3, ContactStutters DEF ServicesInv, vars, Contact!vars
<1>4. ASSUME acting = "Token" PROVE TokenInv'
  BY <1>4, TokenNext DEF ServicesInv, vars, Token!vars
<1>5. ASSUME acting = "Assertion" PROVE AssertionInv'
  BY <1>5, AssertionNext DEF ServicesInv, vars, Assertion!vars
<1>6. ASSUME acting = "Status" PROVE StatusInv'
  BY <1>6, StatusStutters DEF ServicesInv, vars, Status!vars
<1>7. ASSUME acting = "Room" PROVE RoomInv'
  BY <1>7, RoomStutters DEF ServicesInv, vars, Room!vars
<1>8. ASSUME acting = "Registration" PROVE RegistrationInv'
  BY <1>8, RegistrationStutters DEF ServicesInv, vars, Registration!vars
<1>9. ASSUME acting = "Policy" PROVE PolicyInv'
  BY <1>9, PolicyNext DEF ServicesInv, vars, Policy!vars
<1>10. ASSUME acting = "Search" PROVE SearchInv'
  BY <1>10, SearchNext DEF ServicesInv, vars, Search!vars
<1>11. ASSUME acting = "Resource" PROVE ResourceInv'
  BY <1>11, ResourceNext DEF ServicesInv, vars, Resource!vars
<1>12. ASSUME acting = "Catalogue" PROVE CatalogueInv'
  BY <1>12, CatalogueNext DEF ServicesInv, vars, Catalogue!vars
<1> QED BY <1>1, <1>2, <1>3, <1>4, <1>5, <1>6, <1>7, <1>8, <1>9, <1>10, <1>11, <1>12
        DEF ServicesInv

\* In every reachable state the service that acts has its invariant.
THEOREM ServicesInvariant == Spec => []ServicesInv
<1>1. ServicesInv /\ [Next]_vars => ServicesInv'
  BY ServicesGoOn, ServicesStutter
<1> QED BY ServicesBegin, <1>1, PTL DEF Spec

\* Each service's state has its type, for any people, hyperties, resources,
\* addresses and policies.
THEOREM ServicesTypes == Spec => []TypeOK
<1>1. ServicesInv => TypeOK
  <2> SUFFICES ASSUME ServicesInv PROVE TypeOK
    OBVIOUS
  <2>1. (acting = "Record" => Record!TypeOK) /\ (acting = "Contact" => Contact!TypeOK)
    BY RecordKept, ContactsKept DEF ServicesInv
  <2>2. (acting = "Token" => Token!TypeOK) /\ (acting = "Assertion" => Assertion!TypeOK)
    BY TokensGivenFit, AssertionAnswers DEF ServicesInv
  <2>3. (acting = "Status" => Status!TypeOK) /\ (acting = "Room" => Room!TypeOK)
    BY StatusKept, RoomKept DEF ServicesInv
  <2>4. /\ acting = "Registration" => Registration!TypeOK
        /\ acting = "Policy" => Policy!TypeOK
    BY RegistrationKept, PolicyKept DEF ServicesInv
  <2>5. (acting = "Search" => Search!TypeOK) /\ (acting = "Resource" => Resource!TypeOK)
    BY SearchKept, ResourceKept DEF ServicesInv
  <2>6. acting = "Catalogue" => Catalogue!TypeOK
    BY CatalogueKept DEF ServicesInv
  <2> QED BY <2>1, <2>2, <2>3, <2>4, <2>5, <2>6 DEF TypeOK
<1> QED BY ServicesInvariant, <1>1, PTL

\* Whoever asks the identity module for a token or an assertion is given one that was
\* made for what he asked: however many ask at once, while logins are shared,
\* refreshed, expire and are written, and the module restarts.
THEOREM IdentitiesAlwaysFit == Spec => []IdentitiesFit
<1>1. ServicesInv => IdentitiesFit
  BY TokensGivenFit, AssertionAnswers DEF ServicesInv, IdentitiesFit
<1> QED BY ServicesInvariant, <1>1, PTL

\* The owner's record, the private contacts and the chats keep to those they are for,
\* for any number of mnemonics, puts and contacts: the record has its own private key,
\* unless one of the two was written or made without the other, and no data of
\* another guid but those that were there when keys were created; the graph connector
\* has a contact once and shows a private one to nobody, in the cases that
\* ContactsAreOnce and PrivateStaysPrivate state; and a closed chat invites nobody.
THEOREM PeopleAreAlwaysKeptApart == Spec => []PeopleAreKeptApart
<1>1. ServicesInv => PeopleAreKeptApart
  BY RecordKept, ContactsKept, RoomKept DEF ServicesInv, PeopleAreKeptApart
<1> QED BY ServicesInvariant, <1>1, PTL

\* Who is registered is live for the domain, until the registration expires there, at
\* an address that is used for keys that read alike only; who searches finds what was
\* there all along, when no query failed, and nothing that never was; and who waits
\* for a status is subscribed to it with the node, unless messages crossed.
THEOREM RegisteredAreAlwaysReached == Spec => []RegisteredAreReached
<1>1. ServicesInv => RegisteredAreReached
  BY RegistrationKept, SearchKept, StatusKept DEF ServicesInv, RegisteredAreReached
<1> QED BY ServicesInvariant, <1>1, PTL

\* Messages are judged with the policies and groups that were asked for; a save finds
\* in memory what it evicts, and ends, unless something was deleted or the database
\* cannot be read; and the catalogue gives a descriptor that was current during the
\* call, unless the texts of the versions sort otherwise than the versions, or a
\* slower call stored an older descriptor.
THEOREM StoredAlwaysDecides == Spec => []StoredDecides
<1>1. ServicesInv => StoredDecides
  BY PolicyKept, ResourceKept, CatalogueKept DEF ServicesInv, StoredDecides
<1> QED BY ServicesInvariant, <1>1, PTL
==============================================================================
