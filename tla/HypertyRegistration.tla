-------------------------- MODULE HypertyRegistration --------------------------
(***************************************************************************)
(* How hyperties are loaded (runtime/Loader.js) and how they, and the data *)
(* objects that they report, get an address (allocation/                   *)
(* AddressAllocation.js) and are registered, in the runtime                *)
(* (registry/Registry.js) and with the registry of the domain              *)
(* (registry/DomainRegistration.js).  The registry remembers in storage    *)
(* which address was last used with which key, so that it can be reused.   *)
(*                                                                         *)
(* A load is the loading of a hyperty or the creation of a data object.    *)
(***************************************************************************)
EXTENDS Integers, Sequences, SequencesExt

CONSTANTS
    Descriptors,  \* what is loaded: [kind, parts], a "hyperty" or "object" and the texts
                  \* of its resources, schemes and name
    Loads,        \* the calls
    Users,        \* the identities that hyperties are loaded with
    MaxAddresses  \* bound on the addresses allocated

VARIABLES
    load,     \* of each call its stage, descriptor, address, user and how it registers
    urls,     \* _hypertyUrls and _dataObjectUrls: the address of each key, 0 if none
    saved,    \* those in storage
    writes,   \* what is on its way to storage, with the call that waits
    listed,   \* hypertiesList: the calls whose entries it has
    timers,   \* the addresses that a keep-alive timer refreshes
    closing,  \* hyperties that were asked to close, and have not answered
    domain,   \* the registry of the domain: of each address its status and user
    fresh,    \* the number of addresses allocated
    given,    \* history: addresses that callers asked for themselves
    expired,  \* history: addresses that the domain let expire, and did not hear of since
    closed    \* history: addresses that were unregistered

vars ==
    <<load, urls, saved, writes, listed, timers, closing, domain, fresh, given, expired, closed>>

-----------------------------------------------------------------------------
\* Mutant: hyperties and data objects are in one list.
Key_OneList(d) == <<"any", FlattenSeq(d.parts)>>

\* resources + dataSchema + name, one after the other, in the list of its kind.
Key(d) == <<d.kind, FlattenSeq(d.parts)>>

DescriptorKeys == {Key(d) : d \in Descriptors}
Addresses == 1 .. MaxAddresses
NoUser == "none"
Unknown == [status |-> "unknown", user |-> NoUser]

Stages == {"idle", "address", "identity", "storing", "registering", "creating",
           "registered", "failed", "stuck", "gone"}

TypeOK ==
    /\ load \in [Loads -> [stage : Stages, descriptor : Descriptors, reuse : 0 .. MaxAddresses + 1,
                           address : 0 .. MaxAddresses, user : Users \union {NoUser},
                           resume : BOOLEAN]]
    /\ urls \in [DescriptorKeys -> 0 .. MaxAddresses]
    /\ saved \in [DescriptorKeys -> 0 .. MaxAddresses]
    /\ writes \in Seq([by : Loads, urls : [DescriptorKeys -> 0 .. MaxAddresses]])
    /\ listed \in Seq(Loads)
    /\ timers \subseteq Addresses /\ closing \subseteq closed
    /\ domain \in [Addresses -> [status : {"unknown", "live", "disconnected"},
                                 user : Users \union {NoUser}]]
    /\ fresh \in 0 .. MaxAddresses
    /\ given \subseteq Addresses /\ expired \subseteq Addresses /\ closed \subseteq Addresses

Init ==
    /\ load = [l \in Loads |->
                 [stage |-> "idle", descriptor |-> CHOOSE d \in Descriptors : TRUE, reuse |-> 0,
                  address |-> 0, user |-> NoUser, resume |-> FALSE]]
    /\ urls = [k \in DescriptorKeys |-> 0] /\ saved = urls
    /\ writes = <<>> /\ listed = <<>>
    /\ timers = {} /\ closing = {} /\ given = {} /\ expired = {} /\ closed = {}
    /\ domain = [a \in Addresses |-> Unknown]
    /\ fresh = 0

-----------------------------------------------------------------------------
\* The reuseURL of a call: none, whatever address its key had (true), or an address.
NoReuse == 0
ReuseKey == MaxAddresses + 1

IsHyperty(l) == load[l].descriptor.kind = "hyperty"

Goes(l, stage) == load' = [load EXCEPT ![l].stage = stage]

\* loadHyperty up to the address: descriptor, source package, sandbox.  Or
\* SyncherManager's create, or resume, of a data object.
Load(l, d, reuse, resume) ==
    /\ load[l].stage = "idle"
    /\ reuse \in Addresses => reuse <= fresh
    /\ load' = [load EXCEPT ![l].stage = "address", ![l].descriptor = d, ![l].reuse = reuse,
                            ![l].resume = resume /\ d.kind = "object"]
    /\ given' = IF reuse \in Addresses THEN given \union {reuse} ELSE given
    /\ UNCHANGED <<urls, saved, writes, listed, timers, closing, domain, expired, fresh,
                   closed>>

\* No descriptor, source package or identity, or no sandbox.
Fail(l) ==
    /\ load[l].stage \in {"address", "identity"}
    /\ Goes(l, "failed")
    /\ UNCHANGED <<urls, saved, writes, listed, timers, closing, domain, expired, fresh,
                   given, closed>>

\* checkRegisteredURLs reads the storage.
CheckRegisteredURLs(l) == saved[Key(load[l].descriptor)]

\* registerHyperty and registerDataObject: the address is remembered for the key.
Remember(l, a) ==
    /\ urls' = [urls EXCEPT ![Key(load[l].descriptor)] = a]
    /\ writes' = Append(writes, [by |-> l, urls |-> urls'])

\* A new hyperty is "resumed" in the domain, and one with a known address created.
Allocate(l) ==
    LET r   == load[l].reuse
        old == IF r = ReuseKey THEN CheckRegisteredURLs(l) ELSE r
        a   == IF old = 0 THEN fresh + 1 ELSE old
    IN  /\ load[l].stage = "address"
        /\ a <= MaxAddresses
        /\ fresh' = IF old = 0 THEN fresh + 1 ELSE fresh
        /\ load' = [load EXCEPT ![l].stage = IF IsHyperty(l) THEN "identity" ELSE "storing",
                                ![l].address = a,
                                ![l].resume = IF IsHyperty(l) THEN old = 0 ELSE @]
        /\ IF IsHyperty(l) THEN UNCHANGED <<urls, writes>> ELSE Remember(l, a)
        /\ UNCHANGED <<saved, listed, timers, closing, domain, expired, given, closed>>

\* The identity module answers getIdentityAssertion.
Identified(l, u) ==
    /\ load[l].stage = "identity"
    /\ load' = [load EXCEPT ![l].stage = "storing", ![l].user = u]
    /\ Remember(l, load[l].address)
    /\ UNCHANGED <<saved, listed, timers, closing, domain, expired, fresh, given, closed>>

\* The addresses are in storage, or not, without telling: the hyperty is listed,
\* and registered with the domain, and the timer runs whatever comes of it.
Stored ==
    /\ writes # <<>>
    /\ LET w == Head(writes)
       IN  /\ saved' \in {w.urls, saved}
           /\ Goes(w.by, "registering")
           /\ listed' = IF IsHyperty(w.by) THEN Append(listed, w.by) ELSE listed
           /\ timers' = timers \union {load[w.by].address}
    /\ writes' = Tail(writes)
    /\ UNCHANGED <<urls, closing, domain, expired, fresh, given, closed>>

-----------------------------------------------------------------------------
Live(l) == [status |-> "live", user |-> load[l].user]

\* Mutant: a registration that the domain has not got counts as resumed.
Registered_Unknown(l) ==
    LET a == load[l].address
    IN  /\ load[l].stage \in {"registering", "creating"}
        /\ Goes(l, "registered")
        /\ domain' = IF domain[a] # Unknown THEN [domain EXCEPT ![a] = Live(l)] ELSE domain
        /\ expired' = expired \ {a}
        /\ UNCHANGED <<urls, saved, writes, listed, timers, closing, fresh, given, closed>>

\* The domain registry accepts: to resume it must know the address.
Registered(l) ==
    LET a == load[l].address
    IN  /\ load[l].stage \in {"registering", "creating"}
        /\ (load[l].stage = "registering" /\ load[l].resume) => domain[a] # Unknown
        /\ Goes(l, "registered")
        /\ domain' = [domain EXCEPT ![a] = Live(l)]
        /\ expired' = expired \ {a}
        /\ UNCHANGED <<urls, saved, writes, listed, timers, closing, fresh, given, closed>>

\* It does not know the address: a hyperty is created then.  Of a data object the
\* rejection is not passed on.
NotFound(l) ==
    /\ load[l].stage = "registering" /\ load[l].resume
    /\ domain[load[l].address] = Unknown
    /\ Goes(l, IF IsHyperty(l) THEN "creating" ELSE "stuck")
    /\ UNCHANGED <<urls, saved, writes, listed, timers, closing, domain, expired, fresh,
                   given, closed>>

\* It refuses, or no answer came in five attempts, whether or not one did arrive:
\* the error is thrown, or the rejection left, where it settles nothing.
NotRegistered(l) ==
    LET a == load[l].address
    IN  /\ load[l].stage \in {"registering", "creating"}
        /\ Goes(l, "stuck")
        /\ \/ UNCHANGED <<domain, expired>>
           \/ domain' = [domain EXCEPT ![a] = Live(l)] /\ expired' = expired \ {a}
        /\ UNCHANGED <<urls, saved, writes, listed, timers, closing, fresh, given, closed>>

\* The timer posts a refresh, which is not repeated.
KeepAlive(a) ==
    /\ a \in timers /\ domain[a] # Unknown
    /\ domain' = [domain EXCEPT ![a].status = "live"]
    /\ expired' = expired \ {a}
    /\ UNCHANGED <<load, urls, saved, writes, listed, timers, closing, fresh, given, closed>>

\* The time of a registration is over, which the timer need not know of: it has
\* its period from the hyperty's configuration, and its refreshes may be lost.
Expire(a) ==
    /\ domain[a].status = "live"
    /\ domain' \in {[domain EXCEPT ![a].status = "disconnected"], [domain EXCEPT ![a] = Unknown]}
    /\ expired' = expired \union {a}
    /\ UNCHANGED <<load, urls, saved, writes, listed, timers, closing, fresh, given, closed>>

-----------------------------------------------------------------------------
\* unregisterAllHyperties: every hyperty is asked to close, and the caller told
\* that all are unregistered.
UnregisterAll ==
    LET as == {load[listed[i]].address : i \in DOMAIN listed}
    IN  /\ ~(as \subseteq closing)
        /\ closing' = closing \union as
        /\ closed' = closed \union as
        /\ UNCHANGED <<load, urls, saved, writes, listed, timers, domain, expired, fresh,
                       given>>

Disconnect(a) ==
    domain' = IF domain[a] = Unknown THEN domain
              ELSE [domain EXCEPT ![a].status = "disconnected"]

\* The hyperty answered, or the time for it is over: the domain is told.
Closed(a) ==
    /\ a \in closing
    /\ closing' = closing \ {a}
    /\ Disconnect(a)
    /\ UNCHANGED <<load, urls, saved, writes, listed, timers, expired, fresh, given, closed>>

\* A data object is deleted.
UnregisterDataObject(l) ==
    /\ load[l].stage = "registered" /\ ~IsHyperty(l) /\ load[l].address \notin closed
    /\ Disconnect(load[l].address)
    /\ closed' = closed \union {load[l].address}
    /\ UNCHANGED <<load, urls, saved, writes, listed, timers, closing, expired, fresh, given>>

Entries(a) == {i \in DOMAIN listed : load[listed[i]].address = a}

First(S) == CHOOSE i \in S : \A j \in S : i <= j

\* unregisterHyperty: the first entry with the address goes, and nothing else.
UnregisterHyperty(a) ==
    /\ Entries(a) # {}
    /\ listed' = RemoveAt(listed, First(Entries(a)))
    /\ UNCHANGED <<load, urls, saved, writes, timers, closing, domain, expired, fresh,
                   given, closed>>

\* The runtime starts again: loadRegistry.
Restart ==
    /\ \E l \in Loads : load[l].stage \notin {"idle", "gone"}
    /\ load' = [l \in Loads |-> IF load[l].stage = "idle" THEN load[l]
                                ELSE [load[l] EXCEPT !.stage = "gone"]]
    /\ urls' = saved
    /\ writes' = <<>> /\ listed' = <<>>
    /\ timers' = {} /\ closing' = {}
    /\ UNCHANGED <<saved, domain, expired, fresh, given, closed>>

Next ==
    \/ \E l \in Loads :
          \/ /\ load[l].stage = "idle"
             /\ \E d \in Descriptors, reuse \in 0 .. ReuseKey, resume \in BOOLEAN :
                    Load(l, d, reuse, resume)
          \/ Fail(l) \/ Allocate(l) \/ \E u \in Users : Identified(l, u)
          \/ Registered(l) \/ NotFound(l) \/ NotRegistered(l) \/ UnregisterDataObject(l)
    \/ Stored
    \/ \E a \in Addresses :
          KeepAlive(a) \/ Expire(a) \/ Closed(a) \/ UnregisterHyperty(a)
    \/ UnregisterAll
    \/ Restart

Spec == Init /\ [][Next]_vars

-----------------------------------------------------------------------------
\* getHypertyOwner: the user of the first entry.
GetHypertyOwner(a) == load[listed[First(Entries(a))]].user

Alone(l) ==
    \A m \in Loads \ {l} :
        load[m].stage \in {"idle", "gone"} \/ load[m].address # load[l].address

\* Who registered is live for the domain, until it expires there, with the user
\* that the runtime takes for the owner of the address, until it is unregistered or
\* its address is used for another load.
RegisteredAreKnown ==
    \A l \in Loads :
        LET a == load[l].address
        IN  (load[l].stage = "registered" /\ Alone(l) /\ a \notin closed) =>
                /\ domain[a].status = "live" \/ a \in expired
                /\ domain[a] = Unknown \/ domain[a].user = load[l].user
                /\ Entries(a) # {} => GetHypertyOwner(a) = load[l].user

\* The texts of the two, run together, are the same.
ReadAlike(c, d) == c.kind = d.kind /\ FlattenSeq(c.parts) = FlattenSeq(d.parts)

\* An address is used for one hyperty or data object only, in one session after
\* another, unless a caller asked for it, or their texts read alike.
AddressesOfOneKey ==
    \A l, m \in Loads :
        (load[l].address = load[m].address /\ load[l].address \notin given \union {0}) =>
            ReadAlike(load[l].descriptor, load[m].descriptor)
===============================================================================
